----------------------------- MODULE HalServices -----------------------------
(***************************************************************************)
(* The services of the HAL that keep to themselves, each model-checked in   *)
(* a part of one state space: alarms (AltAlarm), the time of day (AltTime), *)
(* interrupt dispatch (AltIrq), the heap (AltHeap), the caches (AltCache)   *)
(* and console output (AltConsole).                                         *)
(*                                                                         *)
(* They share no variable in the code, but for the tick count of the first  *)
(* two; so the part that runs is chosen at the start and the others stay as *)
(* they were initialised.                                                   *)
(***************************************************************************)
EXTENDS AltTime, AltIrq, AltHeap, AltCache, AltConsole

VARIABLE part    \* the service that runs

clockVars == <<alt_resettime, alt_timezone, errno>>
servicesVars == <<part, timeVars, irqVars, heapVars, cacheVars, consoleVars>>

ServicesInit ==
  /\ part \in {"alarm", "time", "irq", "heap", "cache", "console"}
  /\ TimeInit /\ IrqInit /\ HeapInit /\ CacheInit /\ ConsoleInit
  /\ part # "irq" => line = {} /\ ienable = {}
  /\ part # "console" => level = 3 /\ ~semihosting

(* Alarms are checked without the time of day, which is told of no tick here. *)
AlarmPart ==
  /\ part = "alarm" /\ Next
  /\ wall' = [wall EXCEPT !.rolled = TRUE]
  /\ UNCHANGED <<part, clockVars, irqVars, heapVars, cacheVars, consoleVars>>

TimePart ==
  /\ part = "time" /\ TimeNext
  /\ UNCHANGED <<part, irqVars, heapVars, cacheVars, consoleVars>>

IrqPart ==
  /\ part = "irq" /\ IrqNext
  /\ UNCHANGED <<part, timeVars, heapVars, cacheVars, consoleVars>>

HeapPart ==
  /\ part = "heap" /\ HeapNext
  /\ UNCHANGED <<part, timeVars, irqVars, cacheVars, consoleVars>>

CachePart ==
  /\ part = "cache" /\ CacheNext
  /\ UNCHANGED <<part, timeVars, irqVars, heapVars, consoleVars>>

ConsolePart ==
  /\ part = "console" /\ ConsoleNext
  /\ UNCHANGED <<part, timeVars, irqVars, heapVars, cacheVars>>

ServicesNext ==
  \/ AlarmPart \/ TimePart \/ IrqPart \/ HeapPart \/ CachePart \/ ConsolePart

ServicesSpec ==
  /\ ServicesInit /\ [][ServicesNext]_servicesVars
  /\ WF_vars(Visit)
  /\ WF_irqVars(Running /\ Steps /\ part = "irq") /\ SF_irqVars(TakeInterrupt /\ part = "irq")
=============================================================================
