------------------------------- MODULE AltTime -------------------------------
(***************************************************************************)
(* The time of day and the busy wait of the HAL, on top of the tick count  *)
(* of AltAlarm: settimeofday, gettimeofday, times and usleep, with the     *)
(* widths of their products.                                               *)
(*                                                                         *)
(* A call reads the tick count once, so that no tick disturbs it, and is a  *)
(* step.  settimeofday and gettimeofday are not called within each other    *)
(* (from an alarm callback): the source says the result is then unreliable. *)
(*                                                                         *)
(* Definitions marked "variant" are plausible slips, not part of the model. *)
(***************************************************************************)
EXTENDS AltAlarm

CONSTANTS
  US,          \* ALT_US, microseconds in a second
  TickRates,   \* rates of the system clock
  SetTimes,    \* arguments of settimeofday
  CpuFreq,     \* ALT_CPU_FREQ, cycles in a second
  LoopCycles,  \* cycles_per_loop of the busy wait: 9 of a tiny core, or else 3
  IntMax,      \* INT_MAX
  Sleeps       \* arguments of usleep

ASSUME TimeAssumption ==
  /\ US \in Nat \ {0} /\ TickRates \subseteq 1 .. US
  /\ SetTimes \subseteq [sec : Nat, usec : 0 .. US - 1]
  /\ {CpuFreq, LoopCycles} \subseteq Nat \ {0}
  /\ CpuFreq >= LoopCycles * US   \* or the code divides by zero
  /\ IntMax \in Nat /\ IntMax >= CpuFreq \div (LoopCycles * US)
  /\ Sleeps \subseteq Nat

VARIABLES
  alt_resettime, alt_timezone, errno,
  wall     \* history: the time last set, the ticks since, whether the tick count
           \* has rolled over since, and whether the product then made was exact

timeVars == <<vars, alt_resettime, alt_timezone, errno, wall>>

alt_nticks == _alt_nticks
alt_ticks_per_second == _alt_tick_rate
Step == US \div alt_ticks_per_second

TimeInit ==
  /\ Init
  /\ alt_resettime = [sec |-> 0, usec |-> 0] /\ alt_timezone = 0
  /\ errno = "ok"
  /\ wall = [set |-> [sec |-> 0, usec |-> 0], elapsed |-> 0, rolled |-> FALSE,
             exact |-> TRUE]

(* The system clock, found at start-up, and its interrupts.  The times of day
   follow the tick count until it rolls over. *)
ClockFound ==
  /\ \E r \in TickRates : SysclkInit(r)
  /\ UNCHANGED <<alt_resettime, alt_timezone, errno, wall>>

Tick ==
  /\ TickBegin
  /\ wall' = [wall EXCEPT !.elapsed = IF @ < WordMod THEN @ + 1 ELSE @,
                          !.rolled = @ \/ _alt_nticks' = 0]
  /\ UNCHANGED <<alt_resettime, alt_timezone, errno>>

TickDone == TickEnd /\ UNCHANGED <<alt_resettime, alt_timezone, errno, wall>>

-----------------------------------------------------------------------------
WallSet(t) == [set |-> t, elapsed |-> 0, rolled |-> FALSE,
               exact |-> alt_nticks * Step < WordMod]

SetTimeOfDayWhole(t, tz) ==   \* variant: the part of a second gone is not taken off
  /\ alt_ticks_per_second # 0
  /\ alt_resettime' =
       [sec |-> t.sec - (alt_nticks \div alt_ticks_per_second), usec |-> t.usec]
  /\ alt_timezone' = tz
  /\ wall' = WallSet(t)
  /\ UNCHANGED <<vars, errno>>

(* settimeofday.  Its product is one of 32-bit words; the history says when that
   was too few. *)
SetTimeOfDay(t, tz) ==
  /\ alt_ticks_per_second # 0
  /\ alt_resettime' =
       [sec  |-> t.sec - (alt_nticks \div alt_ticks_per_second),
        usec |-> t.usec - (((alt_nticks * Step) % WordMod) % US)]
  /\ alt_timezone' = tz
  /\ wall' = WallSet(t)
  /\ UNCHANGED <<vars, errno>>

(* Without a clock settimeofday and times set errno; gettimeofday only returns
   -ENOTSUP. *)
NoSystemClock ==
  /\ alt_ticks_per_second = 0
  /\ errno' = "ENOSYS"
  /\ UNCHANGED <<vars, alt_resettime, alt_timezone, wall>>

(* gettimeofday.  Its product has 64 bits.  A time with negative microseconds
   borrows from the seconds, one before the epoch is the epoch; then the
   microseconds in excess are carried. *)
Borrowed(t) ==
  LET k == -(t.usec \div US) IN
  IF t.usec >= 0 THEN t
  ELSE IF t.sec < k THEN [sec |-> 0, usec |-> 0]
  ELSE [sec |-> t.sec - k, usec |-> t.usec + k * US]

Carried(t) == [sec |-> t.sec + (t.usec \div US), usec |-> t.usec % US]

TimeOfDay ==
  Carried(Borrowed(
    [sec  |-> alt_resettime.sec + (alt_nticks \div alt_ticks_per_second),
     usec |-> alt_resettime.usec + ((alt_nticks * Step) % US)]))

-----------------------------------------------------------------------------
(* alt_busy_sleep.  The loops in a microsecond are a quotient of whole numbers, and
   the rest of the division is dropped.  BigMax microseconds are the most one counted loop takes;
   a longer wait is a number of loops of INT_MAX and the rest.  A loop tests
   after it has counted down: for zero, so that from zero it goes round all
   the words, or, in a short wait, for a positive number.  The loops change a
   register the compiler may believe unchanged: those after the first start
   from INT_MAX or from where the last one ended. *)
K == CpuFreq \div (LoopCycles * US)
BigMax == IntMax \div K
UntilZero(count) == IF count = 0 THEN 2 * (IntMax + 1) ELSE count
UntilNotPositive(count) == IF count = 0 THEN 1 ELSE count
BigLoops(us) == us \div BigMax

RestOf(us) == UntilZero((us - BigLoops(us) * BigMax) * K)

(* The loops a wait may make. *)
BusySleep(us) ==
  IF BigLoops(us) = 0 THEN {UntilNotPositive(us * K)}
  ELSE {IntMax + (BigLoops(us) - 1) * again + RestOf(us) :
          again \in {IntMax, UntilZero(0)}}

usleep(us) == BusySleep(us)

-----------------------------------------------------------------------------
TimeNext ==
  \/ ClockFound \/ Tick \/ TickDone
  \/ \E t \in SetTimes, tz \in {0, 1} : SetTimeOfDay(t, tz)
  \/ NoSystemClock

TimeSpec == TimeInit /\ [][TimeNext]_timeVars

-----------------------------------------------------------------------------
(* settimeofday and gettimeofday together: between settings the time of day is
   the time set plus the ticks since, if the rate divides a second and the tick
   count has not rolled over since.  If the microseconds of the ticks before the
   setting were too many for a word, it is off, but by less than a second. *)
Microseconds(t) == t.sec * US + t.usec
Drift == Microseconds(TimeOfDay) - (Microseconds(wall.set) + wall.elapsed * Step)
ClockKept ==
  (alt_ticks_per_second # 0 /\ US % alt_ticks_per_second = 0 /\ ~wall.rolled)
    => /\ Drift \in 1 - US .. US - 1
       /\ wall.exact => Drift = 0
       /\ TimeOfDay.usec \in 0 .. US - 1

(* usleep: a wait takes as long as asked for, except for what the division of
   alt_busy_sleep drops, less than one loop for every microsecond; so it is never
   short where the frequency is so many loops in a microsecond.  (Cycles are
   compared, of n loops against us microseconds, both times US.) *)
CyclesDropped == CpuFreq % (LoopCycles * US)
SleepsEnough ==
  alt_ticks_per_second = 0 => \A us \in Sleeps : \A n \in usleep(us) :
    n * (LoopCycles * US) >= us * CpuFreq - us * CyclesDropped

TimeInv == ClockKept /\ SleepsEnough
=============================================================================
