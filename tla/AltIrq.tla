------------------------------- MODULE AltIrq -------------------------------
(***************************************************************************)
(* Interrupts and exceptions of the HAL: the dispatcher, the internal      *)
(* interrupt controller's registry, nesting by priority, and the entry for *)
(* instruction exceptions.                                                 *)
(*                                                                         *)
(* The processor runs the topmost of a stack of contexts: the program at   *)
(* the bottom, above it one context for each exception being processed.    *)
(* A call on the interrupt registry is cut at every access to a register   *)
(* or a table that an interrupt could find half done.                      *)
(*                                                                         *)
(* The service routines, the exception routine, the program and the        *)
(* devices are external.  A service routine clears its request before it   *)
(* returns, may let itself be interrupted, and may enable or disable       *)
(* interrupts; a device in Withdrawable may drop its request unserved.     *)
(*                                                                         *)
(* Definitions marked "variant" are plausible slips, not part of the model. *)
(***************************************************************************)
EXTENDS Integers, Sequences, FiniteSetsExt

CONSTANTS
  NIrq,          \* ALT_NIRQ
  Routines,      \* the service routines, each with a context of the same name
  Withdrawable,  \* the sources that may drop a request
  MaxCalls,      \* bound on the calls the program and the routines make
  MaxDepth       \* bound on the contexts on the stack

ASSUME IrqAssumption ==
  /\ NIrq \in Nat \ {0}
  /\ 0 \notin Routines
  /\ Withdrawable \subseteq 0 .. NIrq - 1
  /\ MaxCalls \in Nat
  /\ MaxDepth \in Nat \ {0}

VARIABLES
  \* the processor: status.PIE, ienable, the request lines, is it running?
  pie, ienable, line, cpu,
  \* alt_irq_active, alt_priority_mask, alt_irq, alt_instruction_exception_handler
  irqActive, prioMask, table, excHandler,
  \* the contexts, and the calls made so far
  stack, calls,
  \* history: a write past the table, ienable written under a priority mask,
  \* a request withdrawn, an instruction lost
  stray, rearmed, withdrawn, lost

controller == <<pie, ienable, line>>
registry == <<irqActive, prioMask, table>>
history == <<stray, rearmed, withdrawn, lost>>
irqVars == <<controller, cpu, registry, excHandler, stack, calls, history>>

Irqs == 0 .. NIrq - 1
Null == 0
NotConnected == -1
AllPriorities == Irqs

NoOp == [what |-> "none", id |-> 0, routine |-> Null, step |-> "idle",
         outer |-> FALSE, inner |-> FALSE]

Context == [kind |-> "program", pc |-> "boot", id |-> 0, active |-> {},
            acked |-> FALSE, open |-> FALSE, old |-> {}, estatus |-> FALSE,
            fault |-> FALSE, cured |-> FALSE, skip |-> FALSE, bad |-> FALSE,
            locked |-> FALSE, context |-> FALSE, op |-> NoOp]

(* No instruction has run yet; ienable is what the last program left in it. *)
IrqInit ==
  /\ pie = FALSE /\ ienable \in SUBSET Irqs /\ line \in SUBSET Irqs
  /\ cpu = "running"
  /\ irqActive = {} /\ prioMask = AllPriorities
  /\ table = [i \in Irqs |-> [handler |-> Null, context |-> Null]]
  /\ excHandler = "none"
  /\ stack = <<Context>>
  /\ calls = 0
  /\ stray = FALSE /\ rearmed = FALSE /\ withdrawn = FALSE /\ lost = FALSE

Top == stack[Len(stack)]
SetTop(c) == stack' = [stack EXCEPT ![Len(stack)] = c]

(* alt_irq_pending: the requests that are not masked. *)
Pending == line \cap ienable

-----------------------------------------------------------------------------
(* The devices. *)
Request(i) ==
  /\ i \notin line
  /\ line' = line \cup {i}
  /\ UNCHANGED <<pie, ienable, cpu, registry, excHandler, stack, calls, history>>

Withdraw(i) ==
  /\ i \in line \cap Withdrawable
  /\ line' = line \ {i}
  /\ withdrawn' = TRUE
  /\ UNCHANGED <<pie, ienable, cpu, registry, excHandler, stack, calls,
                 stray, rearmed, lost>>

-----------------------------------------------------------------------------
(* alt_irq_init: the controller's mask is cleared, then interrupts are let in. *)
BootMask ==
  /\ Top.pc = "boot"
  /\ ienable' = {}
  /\ SetTop([Top EXCEPT !.pc = "bootEnable"])
  /\ UNCHANGED <<pie, line, cpu, registry, excHandler, calls, history>>

BootEnable ==
  /\ Top.pc = "bootEnable"
  /\ pie' = TRUE
  /\ SetTop([Top EXCEPT !.pc = "body"])
  /\ UNCHANGED <<ienable, line, cpu, registry, excHandler, calls, history>>

(* The top context is in code of its own, at an instruction that is fine. *)
InBody == Top.pc = "body" /\ Top.op.step = "idle" /\ ~Top.bad
InProgram == InBody /\ Top.kind = "program"
InRoutine == InBody /\ Top.kind = "exception"

(* alt_irq_disable_all, and alt_irq_enable_all with what it returned. *)
DisableAll == pie' = FALSE
EnableAll(status) == pie' = status

Call(op) ==
  /\ InBody /\ calls < MaxCalls
  /\ calls' = calls + 1
  /\ SetTop([Top EXCEPT !.op = op])
  /\ DisableAll
  /\ UNCHANGED <<ienable, line, cpu, registry, excHandler, history>>

Register(irq, r) ==
  Call([NoOp EXCEPT !.what = "register", !.id = irq, !.routine = r,
                    !.outer = pie, !.step = "handler"])

(* The two ways to register: the number given is unsigned, what it is compared
   and indexed with is signed in the first.  Otherwise -EINVAL, and no change. *)
AltIicIsrRegister(irq, r) == InProgram /\ irq < NIrq /\ Register(irq, r)
AltIrqRegister(irq, r) == InProgram /\ irq \in Irqs /\ Register(irq, r)

(* A driver's INIT macro registers nothing for a line that is not connected. *)
DriverInit(irq, r) == irq # NotConnected /\ AltIicIsrRegister(irq, r)

AltIrqEnable(i) ==
  /\ table[i].handler # Null
  /\ Call([NoOp EXCEPT !.what = "enable", !.id = i, !.inner = pie, !.step = "active"])

AltIrqDisable(i) ==
  Call([NoOp EXCEPT !.what = "disable", !.id = i, !.inner = pie, !.step = "active"])

-----------------------------------------------------------------------------
(* The steps of a call on the registry. *)
At(step) == Top.op.step = step
AtStep(step) == SetTop([Top EXCEPT !.op.step = step])

StoreHandler ==
  /\ At("handler")
  /\ IF Top.op.id \in Irqs
     THEN table' = [table EXCEPT ![Top.op.id].handler = Top.op.routine]
          /\ UNCHANGED stray
     ELSE stray' = TRUE /\ UNCHANGED table
  /\ AtStep("context")
  /\ UNCHANGED <<controller, cpu, irqActive, prioMask, excHandler, calls,
                 rearmed, withdrawn, lost>>

StoreContext ==
  /\ At("context")
  /\ table' = IF Top.op.id \in Irqs
              THEN [table EXCEPT ![Top.op.id].context = Top.op.routine]
              ELSE table
  /\ AtStep("nestedOff")
  /\ UNCHANGED <<controller, cpu, irqActive, prioMask, excHandler, calls, history>>

NestedOff ==
  /\ At("nestedOff")
  /\ SetTop([Top EXCEPT !.op.inner = pie, !.op.step = "active"])
  /\ DisableAll
  /\ UNCHANGED <<ienable, line, cpu, registry, excHandler, calls, history>>

TurnsOn == Top.op.what = "enable" \/ (Top.op.what = "register" /\ Top.op.routine # Null)

StoreActive ==
  /\ At("active")
  /\ irqActive' = IF TurnsOn THEN irqActive \cup {Top.op.id} ELSE irqActive \ {Top.op.id}
  /\ AtStep("ienable")
  /\ UNCHANGED <<controller, cpu, prioMask, table, excHandler, calls, history>>

WriteIenable ==
  /\ At("ienable")
  /\ ienable' = irqActive
  /\ rearmed' = (rearmed \/ prioMask # AllPriorities)
  /\ AtStep("nestedOn")
  /\ UNCHANGED <<pie, line, cpu, registry, excHandler, calls, stray, withdrawn, lost>>

NestedOn ==
  /\ At("nestedOn")
  /\ EnableAll(Top.op.inner)
  /\ IF Top.op.what = "register" THEN AtStep("on") ELSE SetTop([Top EXCEPT !.op = NoOp])
  /\ UNCHANGED <<ienable, line, cpu, registry, excHandler, calls, history>>

RegisterOnInner ==   \* variant: restores what the nested call saved
  /\ At("on")
  /\ EnableAll(Top.op.inner)
  /\ SetTop([Top EXCEPT !.op = NoOp])
  /\ UNCHANGED <<ienable, line, cpu, registry, excHandler, calls, history>>

RegisterOn ==
  /\ At("on")
  /\ EnableAll(Top.op.outer)
  /\ SetTop([Top EXCEPT !.op = NoOp])
  /\ UNCHANGED <<ienable, line, cpu, registry, excHandler, calls, history>>

(* The program's own critical sections. *)
SectionBegin ==
  /\ InProgram /\ ~Top.locked /\ calls < MaxCalls
  /\ calls' = calls + 1
  /\ SetTop([Top EXCEPT !.locked = TRUE, !.context = pie])
  /\ DisableAll
  /\ UNCHANGED <<ienable, line, cpu, registry, excHandler, history>>

SectionEnd ==
  /\ InProgram /\ Top.locked
  /\ SetTop([Top EXCEPT !.locked = FALSE])
  /\ EnableAll(Top.context)
  /\ UNCHANGED <<ienable, line, cpu, registry, excHandler, calls, history>>

(* alt_instruction_exception_register; the routine says reissue or skip. *)
AltInstructionExceptionRegister(r) ==
  /\ InProgram /\ calls < MaxCalls
  /\ excHandler' = r
  /\ calls' = calls + 1
  /\ UNCHANGED <<controller, cpu, registry, stack, history>>

-----------------------------------------------------------------------------
(* An exception: the processor saves status and clears PIE. *)
Enter(fault) ==
  /\ stack' = Append(stack, [Context EXCEPT !.kind = "exception", !.pc = "entry",
                                            !.estatus = pie, !.fault = fault])
  /\ pie' = FALSE
  /\ UNCHANGED <<ienable, line, cpu, registry, excHandler, calls, history>>

TakeInterrupt ==
  /\ cpu = "running" /\ pie /\ Pending # {} /\ Len(stack) < MaxDepth
  /\ Enter(FALSE)

(* The context comes to an instruction the processor cannot execute. *)
ComeToBadInstruction ==
  /\ InBody /\ calls < MaxCalls /\ Len(stack) < MaxDepth
  /\ calls' = calls + 1
  /\ SetTop([Top EXCEPT !.bad = TRUE])
  /\ UNCHANGED <<controller, cpu, registry, excHandler, history>>

TakeFault == cpu = "running" /\ Top.bad /\ Len(stack) < MaxDepth /\ Enter(TRUE)

(* alt_irq_entry: an interrupt, if interrupts were on and one is pending. *)
IsInterrupt == Top.estatus /\ Pending # {}

EntryInterrupt ==
  /\ Top.pc = "entry" /\ IsInterrupt
  /\ SetTop([Top EXCEPT !.pc = "pending"])
  /\ UNCHANGED <<controller, cpu, registry, excHandler, calls, history>>

(* alt_instruction_exception_entry, and what becomes of the instruction. *)
EntryException ==
  /\ Top.pc = "entry" /\ ~IsInterrupt
  /\ excHandler # "none"
  /\ SetTop([Top EXCEPT !.pc = "exit", !.skip = (excHandler = "skip"),
                        !.cured = Top.fault \/ excHandler = "skip"])
  /\ UNCHANGED <<controller, cpu, registry, excHandler, calls, history>>

EntryBreak ==
  /\ Top.pc = "entry" /\ ~IsInterrupt
  /\ excHandler = "none"
  /\ cpu' = "break"
  /\ UNCHANGED <<controller, registry, excHandler, stack, calls, history>>

-----------------------------------------------------------------------------
(* alt_irq_handler: read the list, find its lowest bit, call, read again. *)
ReadPending ==
  /\ Top.pc = "pending"
  /\ SetTop([Top EXCEPT !.active = Pending, !.pc = "scan"])
  /\ UNCHANGED <<controller, cpu, registry, excHandler, calls, history>>

(* With an empty list the inner loop never ends: no step is taken. *)
CallRoutine ==
  /\ Top.pc = "scan" /\ Top.active # {}
  /\ LET i == Min(Top.active) IN
     SetTop([Top EXCEPT !.id = i, !.pc = "body", !.acked = FALSE])
  /\ UNCHANGED <<controller, cpu, registry, excHandler, calls, history>>

ReadAgainNot ==   \* variant: goes on with the rest of the list it has
  /\ Top.pc = "again"
  /\ LET rest == Top.active \ {Top.id} IN
     SetTop([Top EXCEPT !.active = rest, !.pc = IF rest = {} THEN "exit" ELSE "scan"])
  /\ UNCHANGED <<controller, cpu, registry, excHandler, calls, history>>

ReadAgain ==
  /\ Top.pc = "again"
  /\ SetTop([Top EXCEPT !.active = Pending,
                        !.pc = IF Pending = {} THEN "exit" ELSE "scan"])
  /\ UNCHANGED <<controller, cpu, registry, excHandler, calls, history>>

(* eret: a failed instruction was skipped, or is reissued now that the routine
   has repaired its cause; one that was skipped and had not failed is lost. *)
Exit ==
  /\ Top.pc = "exit"
  /\ LET below == stack[Len(stack) - 1] IN
     stack' = [SubSeq(stack, 1, Len(stack) - 1) EXCEPT
                 ![Len(stack) - 1].bad = below.bad /\ ~Top.cured]
  /\ lost' = (lost \/ (Top.skip /\ ~Top.fault))
  /\ pie' = Top.estatus
  /\ UNCHANGED <<ienable, line, cpu, registry, excHandler, calls,
                 stray, rearmed, withdrawn>>

-----------------------------------------------------------------------------
(* A service routine. *)
Acknowledge ==
  /\ InRoutine /\ ~Top.acked
  /\ line' = line \ {Top.id}
  /\ SetTop([Top EXCEPT !.acked = TRUE])
  /\ UNCHANGED <<pie, ienable, cpu, registry, excHandler, calls, history>>

(* alt_irq_interruptible, in two steps: the mask, then PIE. *)
Interruptible ==
  /\ InRoutine /\ ~Top.open /\ calls < MaxCalls
  /\ calls' = calls + 1
  /\ LET mask == {j \in Irqs : j < Top.id} IN
     /\ prioMask' = mask
     /\ ienable' = irqActive \cap mask
  /\ SetTop([Top EXCEPT !.old = prioMask, !.pc = "opening"])
  /\ UNCHANGED <<pie, line, cpu, irqActive, table, excHandler, history>>

Open ==
  /\ Top.pc = "opening"
  /\ pie' = TRUE
  /\ SetTop([Top EXCEPT !.open = TRUE, !.pc = "body"])
  /\ UNCHANGED <<ienable, line, cpu, registry, excHandler, calls, history>>

(* alt_irq_non_interruptible, in two steps: PIE, then the mask. *)
Close ==
  /\ InRoutine /\ Top.open
  /\ pie' = FALSE
  /\ SetTop([Top EXCEPT !.pc = "closing"])
  /\ UNCHANGED <<ienable, line, cpu, registry, excHandler, calls, history>>

NonInterruptibleMaskLeft ==   \* variant: ienable is not written again
  /\ Top.pc = "closing"
  /\ prioMask' = Top.old
  /\ rearmed' = (rearmed /\ Top.old # AllPriorities)
  /\ SetTop([Top EXCEPT !.open = FALSE, !.pc = "body"])
  /\ UNCHANGED <<controller, cpu, irqActive, table, excHandler, calls,
                 stray, withdrawn, lost>>

NonInterruptible ==
  /\ Top.pc = "closing"
  /\ prioMask' = Top.old
  /\ ienable' = Top.old \cap irqActive
  /\ rearmed' = (rearmed /\ Top.old # AllPriorities)
  /\ SetTop([Top EXCEPT !.open = FALSE, !.pc = "body"])
  /\ UNCHANGED <<pie, line, cpu, irqActive, table, excHandler, calls,
                 stray, withdrawn, lost>>

Return ==
  /\ InRoutine /\ Top.acked /\ ~Top.open
  /\ SetTop([Top EXCEPT !.pc = "again"])
  /\ UNCHANGED <<controller, cpu, registry, excHandler, calls, history>>

-----------------------------------------------------------------------------
Devices == \E i \in Irqs : Request(i) \/ Withdraw(i)

Calls ==
  \/ \E i \in Irqs, r \in Routines \cup {Null} :
       AltIicIsrRegister(i, r) \/ AltIrqRegister(i, r)
  \/ \E i \in Irqs \cup {NIrq, NotConnected}, r \in Routines : DriverInit(i, r)
  \/ \E i \in Irqs : AltIrqEnable(i) \/ AltIrqDisable(i)
  \/ SectionBegin
  \/ \E r \in {"none", "skip", "reissue"} : AltInstructionExceptionRegister(r)
  \/ ComeToBadInstruction

(* What the processor must get on with. *)
Steps ==
  \/ BootMask \/ BootEnable
  \/ StoreHandler \/ StoreContext \/ NestedOff \/ StoreActive
  \/ WriteIenable \/ NestedOn \/ RegisterOn \/ SectionEnd
  \/ TakeFault \/ EntryInterrupt \/ EntryException \/ EntryBreak
  \/ ReadPending \/ CallRoutine \/ ReadAgain \/ Exit
  \/ Acknowledge \/ Open \/ Close \/ NonInterruptible \/ Return

Running == cpu = "running"

IrqNext ==
  \/ Devices
  \/ TakeInterrupt
  \/ Running /\ (Calls \/ Interruptible \/ Steps)

IrqSpec == IrqInit /\ [][IrqNext]_irqVars
-----------------------------------------------------------------------------
FairIrqSpec == IrqSpec /\ WF_irqVars(Running /\ Steps) /\ SF_irqVars(TakeInterrupt)

-----------------------------------------------------------------------------
(* Every variable has its type: the masks and lists hold interrupt numbers,
   the table routines, and the stack is never empty nor above its bound. *)
IrqTypeOK ==
  /\ pie \in BOOLEAN /\ ienable \subseteq Irqs /\ line \subseteq Irqs
  /\ cpu \in {"running", "break"}
  /\ irqActive \subseteq Irqs /\ prioMask \subseteq Irqs
  /\ table \in [Irqs -> [handler : Routines \cup {Null}, context : Routines \cup {Null}]]
  /\ excHandler \in {"none", "skip", "reissue"}
  /\ Len(stack) \in 1 .. MaxDepth /\ calls \in 0 .. MaxCalls
  /\ stray \in BOOLEAN /\ rearmed \in BOOLEAN
  /\ withdrawn \in BOOLEAN /\ lost \in BOOLEAN

Yields(c) ==
  /\ c.op.step = "idle" /\ c.pc = "body"
  /\ IF c.kind = "program" THEN ~c.locked ELSE c.open

(* alt_irq_disable_all, the registry calls nested in it and the dispatcher: an
   interrupt is served only above a context that let interrupts in, never
   inside a critical section, a call on the registry or a plain service routine. *)
SectionsHold ==
  \A k \in 1 .. Len(stack) - 1 :
    stack[k + 1].pc \in {"pending", "scan", "body", "opening", "closing", "again"}
      => Yields(stack[k])

(* alt_irq_interruptible: what is called above an interrupted routine has a
   higher priority than it, unless an interrupt was enabled or disabled since. *)
PriorityRespected ==
  \A j, k \in 2 .. Len(stack) :
    (j < k /\ stack[j].pc = "body" /\ stack[k].pc = "body" /\ ~rearmed)
      => stack[k].id < stack[j].id

(* alt_irq_non_interruptible, enable and disable: between calls the mask in the
   processor is the software's list under the priority in force, and the program
   itself runs under no priority. *)
MasksAgree ==
  /\ (InBody /\ ~rearmed) => ienable = irqActive \cap prioMask
  /\ InProgram => prioMask = AllPriorities /\ ienable = irqActive

(* alt_irq_handler against the registry: a routine is called only while its
   interrupt is enabled, and with the context registered with it. *)
RoutinesWanted ==
  [][CallRoutine => LET i == Top'.id IN
       /\ i \in ienable
       /\ table[i].handler # Null
       /\ table[i].context = table[i].handler]_irqVars

(* alt_iic_isr_register and the drivers' macros: nothing is stored past alt_irq. *)
TableHolds == ~stray

(* alt_irq_handler: the dispatcher searches an empty list only if a request was withdrawn. *)
SpinsOnlyIfWithdrawn ==
  (Top.pc = "scan" /\ Top.active = {}) => withdrawn

(* The exit of an exception: an instruction that did not fail is skipped only if
   a request was withdrawn before the entry looked for it. *)
LostOnlyIfWithdrawn == lost => withdrawn

IrqInv ==
  /\ IrqTypeOK
  /\ SectionsHold /\ PriorityRespected /\ MasksAgree /\ TableHolds
  /\ SpinsOnlyIfWithdrawn /\ LostOnlyIfWithdrawn

(* alt_irq_handler's order of search: the interrupt of the highest priority,
   once pending, does not stay so. *)
HighestServed ==
  (0 \in Pending) ~> (0 \notin Pending \/ withdrawn \/ cpu # "running")

=============================================================================
