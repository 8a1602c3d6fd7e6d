------------------------------ MODULE AltAlarm ------------------------------
(***************************************************************************)
(* The alarm facility of the HAL: alt_alarm_start, alt_alarm_stop and      *)
(* alt_tick over the doubly linked list of alt_llist.h, with 32-bit tick   *)
(* counts that wrap.                                                       *)
(*                                                                         *)
(* alt_alarm_start and alt_alarm_stop run with interrupts disabled and     *)
(* alt_tick at interrupt level, so the three exclude each other; but a     *)
(* callback made by alt_tick may itself start or stop an alarm.  alt_tick  *)
(* is therefore cut into one step per alarm it visits, the callback being  *)
(* part of that step.                                                      *)
(***************************************************************************)
EXTENDS Integers, FiniteSets

CONSTANTS
  Alarms,
  ListHead,        \* alt_alarm_list
  None,        \* no alarm: the null pointer
  WordMod,     \* number of values of an alt_u32
  Delays,      \* nticks arguments of alt_alarm_start
  Periods,     \* return values of callbacks
  StopsNext    \* may a callback stop the alarm after its own in the list?

Nodes == Alarms \cup {ListHead}
Words == 0 .. WordMod - 1

ASSUME AlarmAssumption ==
  /\ IsFiniteSet(Alarms)
  /\ ListHead \notin Alarms /\ None \notin Nodes
  /\ WordMod \in Nat /\ WordMod > 1
  /\ Delays \subseteq Words /\ Periods \subseteq Words
  /\ StopsNext \in BOOLEAN

VARIABLES
  _alt_tick_rate, _alt_nticks,
  list,        \* the next and previous fields of every node
  time, rollover,
  alarm,       \* the alarm alt_tick comes to next, ListHead at the end of the list, None
               \* while alt_tick is not running
  left         \* history: ticks before the callback that was asked for, or Off

vars == <<_alt_tick_rate, _alt_nticks, list, time, rollover, alarm, left>>

Off == -1

Add(t, k) == (t + k) % WordMod

(* alt_llist_insert and alt_llist_remove. Removal leaves a node linked to  *)
(* itself; before its first insertion its links are null.                  *)
LlistInsert(l, e) ==
  [next |-> [l.next EXCEPT ![e] = l.next[ListHead], ![ListHead] = e],
   prev |-> [l.prev EXCEPT ![e] = ListHead, ![l.next[ListHead]] = e]]

RemoveHalf(l, e) ==   \* variant: the way back is not unlinked
  [next |-> [l.next EXCEPT ![l.prev[e]] = l.next[e], ![e] = e],
   prev |-> [l.prev EXCEPT ![e] = e]]

LlistRemove(l, e) ==
  [next |-> [l.next EXCEPT ![l.prev[e]] = l.next[e], ![e] = e],
   prev |-> [l.prev EXCEPT ![l.next[e]] = l.prev[e], ![e] = e]]

Listed(l) == {a \in Alarms : l.next[a] \notin {a, None}}

-----------------------------------------------------------------------------
(* alt_sysclk_init: only the first system clock counts, at nticks a second. *)
SysclkInit(nticks) ==
  /\ _alt_tick_rate = 0
  /\ _alt_tick_rate' = nticks
  /\ UNCHANGED <<_alt_nticks, list, time, rollover, alarm, left>>

DueTime(n) == Add(_alt_nticks, n + 1)

(* alt_alarm_start, for an alarm that is not registered. *)
Start(a, n) ==
  /\ alarm = None
  /\ _alt_tick_rate # 0
  /\ a \notin Listed(list)
  /\ time' = [time EXCEPT ![a] = DueTime(n)]
  /\ rollover' = [rollover EXCEPT ![a] = (DueTime(n) < _alt_nticks)]
  /\ list' = LlistInsert(list, a)
  /\ left' = [left EXCEPT ![a] = n + 1]
  /\ UNCHANGED <<_alt_tick_rate, _alt_nticks, alarm>>

(* alt_alarm_stop; harmless for an alarm that has been removed before. *)
Stop(a) ==
  /\ alarm = None
  /\ list.next[a] # None
  /\ list' = LlistRemove(list, a)
  /\ left' = [left EXCEPT ![a] = Off]
  /\ UNCHANGED <<_alt_tick_rate, _alt_nticks, time, rollover, alarm>>

-----------------------------------------------------------------------------
(* alt_tick *)
TickBegin ==
  /\ alarm = None /\ _alt_tick_rate # 0
  /\ _alt_nticks' = Add(_alt_nticks, 1)
  /\ alarm' = list.next[ListHead]
  /\ left' = [a \in Alarms |-> IF left[a] = Off THEN Off ELSE left[a] - 1]
  /\ UNCHANGED <<_alt_tick_rate, list, time, rollover>>

(* Once the counter has rolled over the alarm waits no longer for it. *)
StillHeld(a) == rollover[a] /\ _alt_nticks # 0
Expired(a) == time[a] <= _alt_nticks /\ ~StillHeld(a)

Pass ==
  /\ alarm \in Alarms /\ ~Expired(alarm)
  /\ rollover' = [rollover EXCEPT ![alarm] = StillHeld(alarm)]
  /\ alarm' = list.next[alarm]
  /\ UNCHANGED <<_alt_tick_rate, _alt_nticks, list, time, left>>

(* What a callback may do to the list before it returns. *)
NoEffect == [list |-> list, time |-> time, rollover |-> rollover, left |-> left]
StopEffect(b) == [NoEffect EXCEPT !.list = LlistRemove(list, b), !.left[b] = Off]
StartEffect(b, n) ==
  [list |-> LlistInsert(list, b),
   time |-> [time EXCEPT ![b] = DueTime(n)],
   rollover |-> [rollover EXCEPT ![b] = (DueTime(n) < _alt_nticks)],
   left |-> [left EXCEPT ![b] = n + 1]]
Stoppable ==
  {b \in Alarms : list.next[b] # None /\ (StopsNext \/ b # list.next[alarm])}
Effects ==
  {NoEffect} \cup {StopEffect(b) : b \in Stoppable}
  \cup {StartEffect(b, n) : b \in Alarms \ (Listed(list) \cup {alarm}), n \in Delays}

CallBackLastLateNext ==   \* variant: the next alarm is read after the callback
  /\ alarm \in Alarms /\ Expired(alarm)
  /\ \E e \in Effects :
       /\ list' = LlistRemove(e.list, alarm)
       /\ time' = e.time
       /\ rollover' = [e.rollover EXCEPT ![alarm] = FALSE]
       /\ left' = [e.left EXCEPT ![alarm] = Off]
  /\ alarm' = list'.next[alarm]
  /\ UNCHANGED <<_alt_tick_rate, _alt_nticks>>

(* The callback returned 0: the alarm is deactivated. *)
CallBackLast ==
  /\ alarm \in Alarms /\ Expired(alarm)
  /\ \E e \in Effects :
       /\ list' = LlistRemove(e.list, alarm)
       /\ time' = e.time
       /\ rollover' = [e.rollover EXCEPT ![alarm] = FALSE]
       /\ left' = [e.left EXCEPT ![alarm] = Off]
  /\ alarm' = list.next[alarm]
  /\ UNCHANGED <<_alt_tick_rate, _alt_nticks>>

CallBackAgainNoRollover(p) ==   \* variant: the rollover flag is not set again
  /\ alarm \in Alarms /\ Expired(alarm)
  /\ \E e \in Effects :
       /\ list' = e.list
       /\ time' = [e.time EXCEPT ![alarm] = Add(@, p)]
       /\ rollover' = [e.rollover EXCEPT ![alarm] = FALSE]
       /\ left' = [e.left EXCEPT ![alarm] = IF @ = Off THEN Off ELSE p]
  /\ alarm' = list.next[alarm]
  /\ UNCHANGED <<_alt_tick_rate, _alt_nticks>>

(* It returned the time to the next one, counted from when this one was due. *)
CallBackAgain(p) ==
  /\ alarm \in Alarms /\ Expired(alarm)
  /\ \E e \in Effects :
       /\ list' = e.list
       /\ time' = [e.time EXCEPT ![alarm] = Add(@, p)]
       /\ rollover' = [e.rollover EXCEPT ![alarm] = (Add(time[alarm], p) < _alt_nticks)]
       /\ left' = [e.left EXCEPT ![alarm] = IF @ = Off THEN Off ELSE p]
  /\ alarm' = list.next[alarm]
  /\ UNCHANGED <<_alt_tick_rate, _alt_nticks>>

TickEnd ==
  /\ alarm = ListHead
  /\ alarm' = None
  /\ UNCHANGED <<_alt_tick_rate, _alt_nticks, list, time, rollover, left>>

CallBack == CallBackLast \/ \E p \in Periods \ {0} : CallBackAgain(p)

Visit == Pass \/ CallBack \/ TickEnd

-----------------------------------------------------------------------------
Unlinked == [x \in Nodes |-> IF x = ListHead THEN ListHead ELSE None]

Init ==
  /\ _alt_tick_rate = 0 /\ _alt_nticks = 0
  /\ list = [next |-> Unlinked, prev |-> Unlinked]
  /\ time = [a \in Alarms |-> 0]
  /\ rollover = [a \in Alarms |-> FALSE]
  /\ alarm = None
  /\ left = [a \in Alarms |-> Off]

Next ==
  \/ SysclkInit(1)
  \/ \E a \in Alarms : Stop(a) \/ \E n \in Delays : Start(a, n)
  \/ TickBegin
  \/ Visit

Spec == Init /\ [][Next]_vars
FairSpec == Spec /\ WF_vars(Visit)

-----------------------------------------------------------------------------
(* The list is whole: next and previous are inverse of each other and stay  *)
(* in the list, and every ring leads through the head, so that the alarms   *)
(* still to be visited are before it (the walk from any of them ends there).*)
ListWhole ==
  /\ \A x \in Listed(list) \cup {ListHead} :
       /\ list.next[x] \in Listed(list) \cup {ListHead}
       /\ list.prev[list.next[x]] = x /\ list.next[list.prev[x]] = x
  /\ \A ring \in SUBSET Listed(list) :
       ring # {} => \E a \in ring : list.next[a] \notin ring

(* Between ticks a registered alarm is due exactly when it was asked to be, *)
(* and waits for the counter to roll over exactly when that comes first.   *)
DueAsAsked ==
  alarm = None =>
    \A a \in Alarms :
      /\ a \in Listed(list) <=> left[a] # Off
      /\ a \in Listed(list) =>
           /\ left[a] > 0 /\ left[a] = (time[a] - _alt_nticks) % WordMod
           /\ rollover[a] <=> time[a] < _alt_nticks

AlarmInv == ListWhole /\ DueAsAsked

(* A callback is made at the tick it was asked for, and never for an alarm *)
(* that has been stopped; and the next tick finds none forgotten.          *)
OnTime ==
  [][/\ CallBack => left[alarm] = 0
     /\ TickBegin => \A a \in Alarms : left[a] # 0]_vars

(* alt_tick comes to an end. *)
TickEnds == alarm # None ~> alarm = None

(* "alt_alarm_stop() is called to remove an alarm from the list of          *)
(* registered alarms" (alt_tick.c): once removed it is not called back.    *)
StoppedIsQuiet == [][CallBack => left[alarm] # Off]_vars
=============================================================================
