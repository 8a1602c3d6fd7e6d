------------------------------- MODULE AltHeap -------------------------------
(***************************************************************************)
(* The program break (alt_sbrk.c) and its users: the program's allocator,  *)
(* which also gives memory back, and the profiler (alt_gmon.c), which runs *)
(* in the program and in interrupt routines and never gives any back; and  *)
(* the stack, which comes down towards the break, as it is watched with    *)
(* ALT_STACK_CHECK.                                                        *)
(*                                                                         *)
(* A section between alt_irq_disable_all and alt_irq_enable_all is one     *)
(* step.  What is read outside of one is a step of its own: the allocator  *)
(* looks at the break before it trims, mcount looks for an arc before it   *)
(* records it, and __mcount_record looks whether sampling is to be started.*)
(* An interrupt routine runs to its end while the program stands still.    *)
(*                                                                         *)
(* The allocator is external (newlib): it trims only when the break is     *)
(* where its last block ends.  So is the compiler: every function it        *)
(* compiles compares the stack pointer with the limit.                     *)
(*                                                                         *)
(* Definitions marked "variant" are plausible slips, not part of the model. *)
(***************************************************************************)
EXTENDS Integers, Sequences, FiniteSetsExt

CONSTANTS
  Word,         \* the break is brought to multiples of it
  HeapStart, HeapLimit,
  Increments,   \* what the program asks for
  Slab,         \* MCOUNT_SLAB_INCREMENT
  RecordSize,   \* of a mcount_fn_entry and of a mcount_fn_arc
  Histogram,    \* bytes of the histogram
  StackPointers,   \* where the stack pointer may be
  ExceptionStack,  \* ALT_EXCEPTION_STACK: have the interrupt routines one of their own?
  Arcs          \* the calls the profiler meets: pairs of a function and a caller

ASSUME HeapAssumption ==
  /\ Word \in Nat \ {0}
  /\ HeapStart \in Nat /\ HeapStart % Word = 0
  /\ HeapLimit \in Nat /\ HeapLimit >= HeapStart
  /\ Increments \subseteq Nat \ {0}
  /\ RecordSize \in Nat \ {0}
  /\ Slab \in Nat /\ Slab >= RecordSize /\ Slab % Word = 0
  /\ Histogram \in Nat \ {0}
  /\ StackPointers \subseteq Nat /\ ExceptionStack \in BOOLEAN

VARIABLES
  heap_end,
  stackLimit,  \* of the program's stack, also while a routine runs on its own
  sp,          \* stack pointer of the program's stack
  reported,    \* alt_report_stack_overflow was called, or the compiler's check failed
  blocks,      \* history: what sbrk gave and did not get back
  slabPtr, slabSize,
  wild,        \* history: the slab in hand is a refusal taken for an address
  records,     \* history: where the profiler's records in memory are, oldest first
  fnEntries,   \* the functions met, oldest first, each with its arcs
  needInit,    \* pcsample_need_init
  clock,       \* does the system clock run?
  place,       \* of the program and of the interrupt routine, in their call
  found,       \* what they looked up before
  unaligned,   \* history: the break was left off a word boundary
  slipped,     \* history: a request came between a look and the trim after it
  overtaken,   \* history: sampling was started between a look and the clear after it
  samplers     \* history: how often the sampling alarm was started

heap == <<heap_end, stackLimit, sp, reported, blocks>>
slab == <<slabPtr, slabSize, wild, records>>
callVars == <<place, found>>
heapVars == <<heap, slab, fnEntries, needInit, clock, callVars,
              unaligned, slipped, overtaken, samplers>>

Contexts == {"program", "handler"}
NoEntry == 0
Nothing == [arc |-> <<0, 0>>, entry |-> NoEntry, block |-> {}, n |-> 0]
Failed == -1

HeapInit ==
  /\ heap_end = HeapStart /\ stackLimit = HeapStart /\ blocks = {}
  /\ sp = HeapLimit /\ reported = FALSE
  /\ slabPtr = 0 /\ slabSize = 0 /\ wild = FALSE /\ records = <<>>
  /\ fnEntries = <<>>
  /\ needInit = TRUE /\ clock = FALSE
  /\ place = [c \in Contexts |-> "idle"] /\ found = [c \in Contexts |-> Nothing]
  /\ unaligned = FALSE /\ slipped = FALSE
  /\ overtaken = FALSE /\ samplers = 0

-----------------------------------------------------------------------------
(* sbrk as a function of the memory and of who calls: the break is brought to a word
   boundary even if the request is then refused; the stack limit follows the break
   for as long as it is found there, and then the stack is looked at: the stack
   pointer, or, from the exception stack, the old limit itself, since the source
   compares that and not the pointer saved.  (The exception stack's own limit is
   never the break, nor is the null that stands for no old limit.) *)
Memory == [end |-> heap_end, limit |-> stackLimit, alarm |-> reported,
           given |-> blocks, result |-> 0,
           ptr |-> slabPtr, size |-> slabSize, wild |-> wild, at |-> records]

Aligned(a) == a + ((-a) % Word)
Block(from, to, owner) == [from |-> from, to |-> to, owner |-> owner]

OnExceptionStack(c) == ExceptionStack /\ c = "handler"
LowestOfStack(c, m) == IF OnExceptionStack(c) THEN m.limit ELSE sp

alt_stack_limit(m) == m.limit
SetStackLimit(c, m, to) ==
  [m EXCEPT !.limit = to, !.alarm = @ \/ LowestOfStack(c, m) <= to]

SbrkUnaligned(c, m, incr) ==   \* variant: the boundary is one of the result only
  IF m.end + incr > HeapLimit THEN [m EXCEPT !.result = Failed]
  ELSE LET s == [m EXCEPT !.result = Aligned(m.end), !.end = m.end + incr] IN
       IF alt_stack_limit(m) = m.end THEN SetStackLimit(c, s, m.end + incr) ELSE s

Sbrk(c, m, incr) ==
  LET prev == Aligned(m.end) IN
  IF prev + incr > HeapLimit THEN [m EXCEPT !.end = prev, !.result = Failed]
  ELSE LET s == [m EXCEPT !.result = prev, !.end = prev + incr] IN
       IF alt_stack_limit(m) = prev THEN SetStackLimit(c, s, prev + incr) ELSE s

Grant(c, m, size, owner) ==
  LET s == Sbrk(c, m, size) IN
  IF s.result = Failed THEN s
  ELSE [s EXCEPT !.given = @ \cup {Block(s.result, s.result + size, owner)}]

(* The memory after a call from c. *)
Becomes(c, m) ==
  /\ heap_end' = m.end /\ stackLimit' = m.limit /\ blocks' = m.given
  /\ sp' = sp /\ reported' = m.alarm
  /\ slabPtr' = m.ptr /\ slabSize' = m.size /\ wild' = m.wild /\ records' = m.at
  /\ unaligned' = (unaligned \/ m.end % Word # 0)
  /\ slipped' = (slipped \/ (/\ c = "handler" /\ place["program"] = "trim"
                            /\ m.end # heap_end))

Goto(c, p) == place' = [place EXCEPT ![c] = p]
Runs(c) == c = "program" => place["handler"] = "idle"

-----------------------------------------------------------------------------
(* The program's allocator. *)
Allocate(size) ==
  /\ Runs("program") /\ place["program"] = "idle"
  /\ Becomes("program", Grant("program", Memory, size, "program"))
  /\ UNCHANGED <<fnEntries, needInit, clock, callVars, overtaken, samplers>>

(* It looks where the break is with sbrk(0), and whether its last block ends
   there; then it gives n bytes back with sbrk(-n). *)
TrimLook(b, n) ==
  /\ Runs("program") /\ place["program"] = "idle"
  /\ b.owner = "program" /\ b.to = Aligned(heap_end) /\ n \in 1 .. b.to - b.from
  /\ Becomes("program", Sbrk("program", Memory, 0))
  /\ found' = [found EXCEPT !["program"] = [Nothing EXCEPT !.block = {b}, !.n = n]]
  /\ Goto("program", "trim")
  /\ UNCHANGED <<fnEntries, needInit, clock, overtaken, samplers>>

Rest(b, n) == IF n = b.to - b.from THEN {} ELSE {[b EXCEPT !.to = @ - n]}

Trim ==
  /\ Runs("program") /\ place["program"] = "trim"
  /\ LET n == found["program"].n
         s == Sbrk("program", Memory, -n)
         cut == UNION {Rest(b, n) : b \in found["program"].block}
     IN Becomes("program", [s EXCEPT !.given = (@ \ found["program"].block) \cup cut])
  /\ found' = [found EXCEPT !["program"] = Nothing]
  /\ Goto("program", "idle")
  /\ UNCHANGED <<fnEntries, needInit, clock, overtaken, samplers>>

-----------------------------------------------------------------------------
(* The profiler.  mcount looks for the function, newest entry first, and for
   the arc in it; an arc that is found is only counted. *)
EntriesOf(fn) == {i \in DOMAIN fnEntries : fnEntries[i].fn = fn}
Entry(fn) == IF EntriesOf(fn) = {} THEN NoEntry ELSE Max(EntriesOf(fn))
HasArc(i, arc) == i # NoEntry /\ \E k \in DOMAIN fnEntries[i].arcs : fnEntries[i].arcs[k] = arc

Mcount(c, arc) ==
  /\ Runs(c) /\ place[c] = "idle"
  /\ ~HasArc(Entry(arc[1]), arc)
  /\ found' = [found EXCEPT ![c] = [Nothing EXCEPT !.arc = arc, !.entry = Entry(arc[1])]]
  /\ Goto(c, "new")
  /\ UNCHANGED <<heap, slab, fnEntries, needInit, clock, unaligned, slipped,
                 overtaken, samplers>>

(* __mcount_record, before interrupts are disabled: is sampling to be started?
   The flag is taken down first so that what is called here does not come here. *)
NeedInit(c) ==
  /\ Runs(c) /\ place[c] = "new"
  /\ Goto(c, IF needInit THEN "clear" ELSE "record")
  /\ UNCHANGED <<heap, slab, fnEntries, needInit, clock, found, unaligned,
                 slipped, overtaken, samplers>>

ClearInit(c) ==
  /\ Runs(c) /\ place[c] = "clear"
  /\ needInit' = FALSE
  /\ overtaken' = (overtaken \/ ~needInit \/ samplers > 0)
  /\ Goto(c, "start")
  /\ UNCHANGED <<heap, slab, fnEntries, clock, found, unaligned, slipped,
                 samplers>>

(* nios2_pcsample_init; what sbrk returns is compared with null only. *)
PcsampleInit(c) ==
  /\ Runs(c) /\ place[c] = "start"
  /\ IF clock
     THEN /\ Becomes(c, Grant(c, Memory, Histogram, "histogram"))
          /\ samplers' = samplers + 1
          /\ needInit' = FALSE
     ELSE /\ needInit' = TRUE
          /\ UNCHANGED <<heap, slab, unaligned, slipped, samplers>>
  /\ Goto(c, "record")
  /\ UNCHANGED <<fnEntries, clock, found, overtaken>>

(* mcount_allocate: what is left of a slab is dropped, and the result of sbrk
   used as it is, a refusal too. *)
McountAllocate(c, m) ==
  LET g == Grant(c, m, Slab, "slab")
      s == IF RecordSize > m.size
           THEN [g EXCEPT !.size = Slab, !.wild = g.result = Failed] ELSE m
      p == IF RecordSize > m.size THEN g.result ELSE m.ptr
  IN [s EXCEPT !.ptr = p + RecordSize, !.size = @ - RecordSize,
               !.at = IF s.wild THEN @ ELSE Append(@, p)]

(* The rest of __mcount_record, with interrupts disabled. *)
McountRecord(c) ==
  /\ Runs(c) /\ place[c] = "record"
  /\ LET f == found[c] IN
     IF f.entry = NoEntry
     THEN /\ Becomes(c, McountAllocate(c, McountAllocate(c, Memory)))
          /\ fnEntries' = Append(fnEntries, [fn |-> f.arc[1], arcs |-> <<f.arc>>])
     ELSE /\ Becomes(c, McountAllocate(c, Memory))
          /\ fnEntries' = [fnEntries EXCEPT ![f.entry].arcs = Append(@, f.arc)]
  /\ found' = [found EXCEPT ![c] = Nothing]
  /\ Goto(c, "idle")
  /\ UNCHANGED <<needInit, clock, overtaken, samplers>>

ClockStarts ==
  /\ ~clock /\ clock' = TRUE
  /\ UNCHANGED <<heap, slab, fnEntries, needInit, callVars, unaligned, slipped,
                 overtaken, samplers>>

(* The program's stack grows and shrinks; what the compiler adds to a function, and
   the entry of an exception on this stack, traps below the limit. *)
StackMoves(p) ==
  /\ ExceptionStack => place["handler"] = "idle"
  /\ sp' = p
  /\ reported' = (reported \/ p < stackLimit)
  /\ UNCHANGED <<heap_end, stackLimit, blocks, slab, fnEntries, needInit, clock,
                 callVars, unaligned, slipped, overtaken, samplers>>

Record(c) == NeedInit(c) \/ ClearInit(c) \/ PcsampleInit(c) \/ McountRecord(c)

HeapNext ==
  \/ \E size \in Increments : Allocate(size)
  \/ \E b \in blocks : \E n \in 1 .. b.to - b.from : TrimLook(b, n)
  \/ Trim
  \/ \E c \in Contexts : Record(c) \/ \E arc \in Arcs : Mcount(c, arc)
  \/ ClockStarts
  \/ \E p \in StackPointers : StackMoves(p)

HeapSpec == HeapInit /\ [][HeapNext]_heapVars

-----------------------------------------------------------------------------
(* alt_sbrk.c: the break stays in its bounds (the upper one is compared with, in
   spite of the comment that there is no such check; of the lower one the allocator
   takes care), and nothing that was given ends above it or meets anything else
   that was given, unless a request came between an allocator's look at the break
   and its trim. *)
InBounds == heap_end \in HeapStart .. HeapLimit + Word - 1
BelowBreak ==
  ~slipped => \A b \in blocks : HeapStart <= b.from /\ b.from <= b.to /\ b.to <= heap_end
BlocksApart ==
  ~slipped => \A a, b \in blocks : a = b \/ a.to <= b.from \/ b.to <= a.from

(* alt_sbrk.c, the stack check: the limit of the stack is the break until a request
   leaves that off a word boundary; from then on it is not, and stays where it was. *)
StackGuarded == IF unaligned THEN stackLimit % Word # 0 ELSE stackLimit = heap_end

(* alt_sbrk.c, alt_report_stack_overflow: as long as the limit is the break, heap and
   stack do not meet unnoticed, whichever of them moved. *)
StackWatched == sp < heap_end => reported \/ unaligned

(* mcount_allocate: the records that are in memory lie in slabs, apart, also after
   sbrk refused one, as long as no trim took any of it away. *)
RecordsApart ==
  ~slipped => \A j \in DOMAIN records :
    /\ \E b \in blocks : /\ b.owner = "slab" /\ b.from <= records[j]
                         /\ records[j] + RecordSize <= b.to
    /\ \A k \in 1 .. j - 1 : \/ records[j] + RecordSize <= records[k]
                             \/ records[k] + RecordSize <= records[j]

(* pcsample_need_init: sampling is started once, unless it was between the look
   at the flag and the clear. *)
SampledOnce == samplers > 1 => overtaken

HeapInv ==
  /\ InBounds /\ BelowBreak /\ BlocksApart
  /\ StackGuarded /\ StackWatched /\ RecordsApart /\ SampledOnce
=============================================================================
