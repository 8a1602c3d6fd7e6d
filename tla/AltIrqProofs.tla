---------------------------- MODULE AltIrqProofs ----------------------------
(* Proofs about AltIrq, for any number of interrupts and routines, any nesting
   and any interleaving of the program, the routines and the devices: its
   invariant, and that a routine is called as it was registered. *)
EXTENDS AltIrq, WellFoundedInduction, TLAPS

-----------------------------------------------------------------------------
(* A context, and the call on the registry it is in. *)
Ops == [what : {"none", "register", "enable", "disable"}, id : Irqs,
        routine : Routines \cup {Null},
        step : {"idle", "handler", "context", "nestedOff", "active", "ienable",
                "nestedOn", "on"},
        outer : BOOLEAN, inner : BOOLEAN]

Contexts == [kind : {"program", "exception"},
             pc : {"boot", "bootEnable", "body", "entry", "pending", "scan",
                   "opening", "closing", "again", "exit"},
             id : Irqs, active : SUBSET Irqs, acked : BOOLEAN, open : BOOLEAN,
             old : SUBSET Irqs, estatus : BOOLEAN, fault : BOOLEAN,
             cured : BOOLEAN, skip : BOOLEAN, bad : BOOLEAN, locked : BOOLEAN,
             context : BOOLEAN, op : Ops]

Serving == {"pending", "scan", "body", "opening", "closing", "again"}

(* What a context is given back with the status it saved. *)
Lets(c) == IF c.kind = "program" THEN ~c.locked ELSE c.open

(* A call on the registry is made from a body, and has interrupts off unless
   they were on in it before the call. *)
OpOK(c) ==
  c.op.step # "idle" =>
    /\ c.pc = "body" /\ ~c.bad
    /\ c.op.what # "none"
    /\ c.op.what = "register" => ~c.op.inner
    /\ c.op.what # "register" => c.op.step \in {"active", "ienable", "nestedOn"}
    /\ c.op.outer \/ c.op.inner => Lets(c)

ProgramOK(c) ==
  /\ c.kind = "program"
  /\ c.pc \in {"boot", "bootEnable", "body"}
  /\ c.pc # "body" => ~c.locked
  /\ ~c.open

ExceptionOK(c) ==
  /\ c.kind = "exception"
  /\ c.pc \in Serving \cup {"entry", "exit"}
  /\ c.pc \in Serving => c.estatus
  /\ c.open => c.pc \in {"body", "closing"}
  /\ c.pc = "closing" => c.open

Local(c, k) ==
  /\ IF k = 1 THEN ProgramOK(c) ELSE ExceptionOK(c)
  /\ OpOK(c)
  /\ c.bad => c.pc = "body"
  /\ c.skip => c.pc = "exit"

(* Below the top, a context stands between two instructions of its own; it lets
   interrupts in if the status saved above it says so. *)
Frozen(c) == c.pc = "body" /\ c.op.step = "idle"

StackOK(s) ==
  /\ s \in Seq(Contexts) /\ Len(s) \in 1 .. MaxDepth
  /\ \A k \in 1 .. Len(s) : Local(s[k], k)
  /\ \A k \in 1 .. Len(s) - 1 :
       /\ Frozen(s[k])
       /\ s[k + 1].estatus => Yields(s[k])

-----------------------------------------------------------------------------
(* The priority mask is that of the highest context that raised it. *)
Raised(c) == c.open \/ c.pc = "opening"
MaskOf(i) == {j \in Irqs : j < i}

Prevails(m, s, d) ==
  \/ m = AllPriorities /\ \A k \in 1 .. d : ~Raised(s[k])
  \/ \E k \in 1 .. d : /\ Raised(s[k]) /\ m = MaskOf(s[k].id)
                       /\ \A j \in k + 1 .. d : ~Raised(s[j])

MasksOK(m, s) ==
  /\ Prevails(m, s, Len(s))
  /\ \A k \in 1 .. Len(s) : Raised(s[k]) => Prevails(s[k].old, s, k - 1)

(* The interrupts served are of ever higher priority. *)
InRoutineOf == {"body", "opening", "closing"}

Climbs(s) ==
  \A j, k \in 2 .. Len(s) :
    j < k /\ s[j].pc \in InRoutineOf /\ s[k].pc \in InRoutineOf => s[k].id < s[j].id

-----------------------------------------------------------------------------
(* The processor's mask against the list of the registry. *)
EnabledOK(c) ==
  /\ rearmed => prioMask # AllPriorities
  /\ ~rearmed => ienable \subseteq prioMask
  /\ ~rearmed /\ c.pc # "boot" /\ c.op.step # "ienable" =>
       ienable = irqActive \cap prioMask
  /\ c.pc \in {"boot", "bootEnable"} => irqActive = {}

(* Registering i, and come as far as one of the steps. *)
Registering(c, i, steps) ==
  c.op.what = "register" /\ c.op.id = i /\ c.op.step \in steps

Written == {"context", "nestedOff", "active", "ienable", "nestedOn", "on"}

TableOK(c) ==
  /\ \A i \in Irqs :
       ~Registering(c, i, {"context"}) => table[i].context = table[i].handler
  /\ \A i \in irqActive :
       ~Registering(c, i, {"context", "nestedOff", "active"}) => table[i].handler # Null
  /\ c.pc # "boot" =>
       \A i \in ienable :
         ~Registering(c, i, {"context", "nestedOff", "active", "ienable"})
           => table[i].handler # Null
  /\ \A i \in Irqs :
       Registering(c, i, Written) => table[i].handler = c.op.routine
  /\ c.op.what = "enable" /\ c.op.step # "idle" => table[c.op.id].handler # Null

(* What an exception was entered for is still there, unless it was withdrawn. *)
CauseOK(c) ==
  /\ c.pc = "entry" /\ ~c.fault => c.estatus /\ (Pending # {} \/ withdrawn)
  /\ c.pc = "pending" => Pending # {} \/ withdrawn
  /\ c.pc = "scan" => c.active \subseteq ienable /\ (c.active # {} \/ withdrawn)
  /\ c.skip /\ ~c.fault => withdrawn

IInv ==
  /\ IrqTypeOK
  /\ StackOK(stack)
  /\ pie => Yields(Top)
  /\ MasksOK(prioMask, stack)
  /\ ~rearmed => Climbs(stack)
  /\ EnabledOK(Top)
  /\ TableOK(Top)
  /\ CauseOK(Top)
  /\ lost => withdrawn
  /\ ~stray

-----------------------------------------------------------------------------
(* A set of interrupts that is not empty has a lowest one (the search of
   alt_irq_handler). *)
LEMMA MinFacts ==
  ASSUME NEW S, S \subseteq Irqs, S # {}
  PROVE  Min(S) \in S
<1>1. S \subseteq Nat
  BY IrqAssumption DEF Irqs
<1>2. PICK x \in S : \A y \in S : ~ (<<y, x>> \in OpToRel(<, Nat))
  BY <1>1, WFMin, NatLessThanWellFounded
<1>3. \A y \in S : ~ (y < x)
  BY <1>1, <1>2 DEF OpToRel
<1>4. \A y \in S : x <= y
  BY <1>1, <1>3
<1> QED
  BY <1>4 DEF Min

(* No interrupt has a higher priority than itself, so no mask for one lets
   every interrupt in. *)
LEMMA MaskFacts ==
  ASSUME NEW i \in Irqs
  PROVE  /\ MaskOf(i) \subseteq Irqs
         /\ MaskOf(i) # AllPriorities
         /\ \A j \in Irqs : j \in MaskOf(i) <=> j < i
<1>1. i \in Int
  BY IrqAssumption DEF Irqs
<1>2. i \notin MaskOf(i)
  BY <1>1 DEF MaskOf
<1> QED
  BY <1>2 DEF MaskOf, AllPriorities

-----------------------------------------------------------------------------
(* A step that changes the top context leaves the others. *)
LEMMA ReplaceFacts ==
  ASSUME NEW s \in Seq(Contexts), Len(s) > 0, NEW c \in Contexts,
         NEW t, t = [s EXCEPT ![Len(s)] = c]
  PROVE  /\ t \in Seq(Contexts) /\ Len(t) = Len(s)
         /\ t[Len(t)] = c
         /\ \A k \in 1 .. Len(s) - 1 : t[k] = s[k]
  BY SMT

LEMMA ReplaceOK ==
  ASSUME NEW s, StackOK(s), NEW c \in Contexts, NEW t,
         t = [s EXCEPT ![Len(s)] = c],
         Local(c, Len(s)), c.estatus = s[Len(s)].estatus
  PROVE  StackOK(t) /\ Len(t) = Len(s)
<1>1. s \in Seq(Contexts) /\ Len(s) \in 1 .. MaxDepth /\ Len(s) \in Nat
  BY IrqAssumption DEF StackOK
<1>2. /\ t \in Seq(Contexts) /\ Len(t) = Len(s)
      /\ t[Len(t)] = c
      /\ \A k \in 1 .. Len(s) - 1 : t[k] = s[k]
  BY <1>1, ReplaceFacts
<1>3. ASSUME NEW k \in 1 .. Len(s) PROVE Local(t[k], k)
  <2>1. CASE k = Len(s)
    BY <1>2, <2>1
  <2>2. CASE k # Len(s)
    <3>1. k \in 1 .. Len(s) - 1
      BY <1>1, <2>2
    <3> QED BY <1>2, <3>1 DEF StackOK
  <2> QED BY <2>1, <2>2
<1>4. ASSUME NEW k \in 1 .. Len(t) - 1
      PROVE  Frozen(t[k]) /\ (t[k + 1].estatus => Yields(t[k]))
  <2>1. k \in 1 .. Len(s) - 1 /\ t[k] = s[k]
    BY <1>2
  <2>2. Frozen(s[k]) /\ (s[k + 1].estatus => Yields(s[k]))
    BY <2>1 DEF StackOK
  <2>3. t[k + 1].estatus = s[k + 1].estatus
    <3>1. CASE k + 1 = Len(s)
      BY <1>2, <3>1
    <3>2. CASE k + 1 # Len(s)
      <4>1. k + 1 \in 1 .. Len(s) - 1
        BY <1>1, <2>1, <3>2
      <4> QED BY <1>2, <4>1
    <3> QED BY <3>1, <3>2
  <2> QED BY <2>1, <2>2, <2>3
<1> QED
  BY <1>1, <1>2, <1>3, <1>4 DEF StackOK

(* What prevails depends on what is raised, and by whom. *)
LEMMA PrevailsFrame ==
  ASSUME NEW s, NEW t, NEW d \in Nat, NEW m,
         \A k \in 1 .. d : /\ Raised(t[k]) <=> Raised(s[k])
                           /\ Raised(s[k]) => t[k].id = s[k].id,
         Prevails(m, s, d)
  PROVE  Prevails(m, t, d)
<1> HIDE DEF Raised, MaskOf
<1>1. CASE m = AllPriorities /\ \A k \in 1 .. d : ~Raised(s[k])
  BY <1>1 DEF Prevails
<1>2. ASSUME NEW k \in 1 .. d, Raised(s[k]), m = MaskOf(s[k].id),
             \A j \in k + 1 .. d : ~Raised(s[j])
      PROVE  Prevails(m, t, d)
  <2>1. Raised(t[k]) /\ m = MaskOf(t[k].id)
    BY <1>2
  <2>2. \A j \in k + 1 .. d : j \in 1 .. d
    BY <1>2
  <2> QED BY <1>2, <2>1, <2>2 DEF Prevails
<1> QED
  BY <1>1, <1>2 DEF Prevails

(* The level at the top decides, if it is raised; otherwise what is below. *)
LEMMA PrevailsRaised ==
  ASSUME NEW s, NEW d \in Nat, d > 0, NEW m, Raised(s[d])
  PROVE  Prevails(m, s, d) <=> m = MaskOf(s[d].id)
<1>1. ASSUME NEW k \in 1 .. d, \A j \in k + 1 .. d : ~Raised(s[j])
      PROVE  k = d
  BY <1>1
<1>2. \A j \in d + 1 .. d : FALSE
  OBVIOUS
<1> QED
  BY <1>1, <1>2 DEF Prevails

LEMMA PrevailsBelow ==
  ASSUME NEW s, NEW d \in Nat, d > 0, NEW m, ~Raised(s[d])
  PROVE  Prevails(m, s, d) <=> Prevails(m, s, d - 1)
<1>1. \A k \in 1 .. d : Raised(s[k]) => k \in 1 .. d - 1
  OBVIOUS
<1>2. \A k \in 1 .. d - 1 :
         (\A j \in k + 1 .. d - 1 : ~Raised(s[j])) <=> (\A j \in k + 1 .. d : ~Raised(s[j]))
  OBVIOUS
<1>3. (\A k \in 1 .. d : ~Raised(s[k])) <=> (\A k \in 1 .. d - 1 : ~Raised(s[k]))
  BY <1>1
<1>4. 1 .. d - 1 \subseteq 1 .. d
  OBVIOUS
<1> QED
  BY <1>1, <1>2, <1>3, <1>4 DEF Prevails

(* The masks after a step of the top context, which may raise or lower one. *)
LEMMA MasksTop ==
  ASSUME NEW s, StackOK(s), NEW c \in Contexts, NEW t,
         t = [s EXCEPT ![Len(s)] = c], NEW m, MasksOK(m, s), NEW m2,
         Raised(c) => m2 = MaskOf(c.id) /\ Prevails(c.old, s, Len(s) - 1),
         ~Raised(c) => Prevails(m2, s, Len(s) - 1)
  PROVE  MasksOK(m2, t)
<1>1. s \in Seq(Contexts) /\ Len(s) \in Nat /\ Len(s) > 0
  BY IrqAssumption DEF StackOK
<1>2. PICK n \in Nat : n = Len(s) /\ n > 0 /\ n - 1 \in Nat
  BY <1>1
<1>3. /\ Len(t) = n
      /\ t[n] = c
      /\ \A k \in 1 .. n - 1 : t[k] = s[k]
  BY <1>1, <1>2, ReplaceFacts
<1> HIDE DEF Raised, MaskOf, Prevails
<1>4. ASSUME NEW d \in Nat, d < n, NEW mm, Prevails(mm, s, d)
      PROVE  Prevails(mm, t, d)
  <2>1. \A k \in 1 .. d : t[k] = s[k]
    BY <1>2, <1>3, <1>4
  <2> QED BY <1>4, <2>1, PrevailsFrame
<1>5. Prevails(m2, t, n)
  <2>1. CASE Raised(c)
    BY <1>2, <1>3, <2>1, PrevailsRaised
  <2>2. CASE ~Raised(c)
    <3>1. Prevails(m2, s, n - 1)
      BY <1>2, <2>2
    <3>2. n - 1 \in Nat /\ n - 1 < n
      BY <1>2
    <3>3. Prevails(m2, t, n - 1)
      BY <1>4, <3>1, <3>2
    <3> QED BY <1>2, <1>3, <2>2, <3>3, PrevailsBelow
  <2> QED BY <2>1, <2>2
<1>6. ASSUME NEW k \in 1 .. n, Raised(t[k])
      PROVE  Prevails(t[k].old, t, k - 1)
  <2>1. k - 1 \in Nat /\ k - 1 < n
    BY <1>2
  <2>2. Prevails(t[k].old, s, k - 1)
    <3>1. CASE k = n
      BY <1>2, <1>3, <1>6, <3>1
    <3>2. CASE k # n
      <4>1. k \in 1 .. n - 1
        BY <1>2, <3>2
      <4> QED BY <1>2, <1>3, <1>6, <4>1 DEF MasksOK
    <3> QED BY <3>1, <3>2
  <2> QED BY <1>4, <2>1, <2>2
<1> QED
  BY <1>2, <1>3, <1>5, <1>6 DEF MasksOK

(* A step that neither raises nor lowers leaves the masks. *)
LEMMA MasksQuiet ==
  ASSUME NEW s, StackOK(s), NEW c \in Contexts, NEW t,
         t = [s EXCEPT ![Len(s)] = c], NEW m, MasksOK(m, s),
         Raised(c) <=> Raised(s[Len(s)]),
         Raised(c) => c.id = s[Len(s)].id /\ c.old = s[Len(s)].old
  PROVE  MasksOK(m, t)
<1>1. PICK n \in Nat : n = Len(s) /\ n > 0 /\ n - 1 \in Nat
  BY IrqAssumption DEF StackOK
<1> HIDE DEF Raised, MaskOf, Prevails
<1>2. Prevails(m, s, n)
  BY <1>1 DEF MasksOK
<1>3. Raised(c) => m = MaskOf(c.id) /\ Prevails(c.old, s, n - 1)
  <2> SUFFICES ASSUME Raised(c) PROVE m = MaskOf(c.id) /\ Prevails(c.old, s, n - 1)
    OBVIOUS
  <2>1. Raised(s[n]) /\ n \in 1 .. n
    BY <1>1
  <2>2. m = MaskOf(s[n].id)
    BY <1>1, <1>2, <2>1, PrevailsRaised
  <2>3. Prevails(s[n].old, s, n - 1)
    BY <1>1, <2>1 DEF MasksOK
  <2> QED BY <1>1, <2>2, <2>3
<1>4. ~Raised(c) => Prevails(m, s, n - 1)
  BY <1>1, <1>2, PrevailsBelow
<1> QED
  BY <1>1, <1>3, <1>4, MasksTop

(* Nothing is called by a step that only moves on in a routine or out of it. *)
LEMMA ClimbsQuiet ==
  ASSUME NEW s, StackOK(s), NEW c \in Contexts, NEW t,
         t = [s EXCEPT ![Len(s)] = c], Climbs(s),
         c.pc \in InRoutineOf => s[Len(s)].pc \in InRoutineOf /\ c.id = s[Len(s)].id
  PROVE  Climbs(t)
<1>1. s \in Seq(Contexts) /\ Len(s) \in Nat /\ Len(s) > 0
  BY IrqAssumption DEF StackOK
<1>2. PICK n \in Nat : n = Len(s) /\ n > 0
  BY <1>1
<1>3. /\ Len(t) = n
      /\ t[n] = c
      /\ \A k \in 1 .. n - 1 : t[k] = s[k]
  BY <1>1, <1>2, ReplaceFacts
<1> HIDE DEF InRoutineOf
<1>4. ASSUME NEW k \in 2 .. n, t[k].pc \in InRoutineOf
      PROVE  s[k].pc \in InRoutineOf /\ t[k].id = s[k].id
  <2>1. k = n \/ k \in 1 .. n - 1
    BY <1>2
  <2> QED BY <1>2, <1>3, <1>4, <2>1
<1> QED
  BY <1>2, <1>3, <1>4 DEF Climbs

(* An exception puts a context above one that stands still. *)
LEMMA PushOK ==
  ASSUME NEW s, StackOK(s), Len(s) < MaxDepth, Frozen(s[Len(s)]),
         NEW c \in Contexts, Local(c, Len(s) + 1),
         c.estatus => Yields(s[Len(s)]), ~Raised(c), c.pc \notin InRoutineOf,
         NEW t, t = Append(s, c), NEW m, MasksOK(m, s)
  PROVE  /\ StackOK(t) /\ MasksOK(m, t)
         /\ Climbs(s) => Climbs(t)
         /\ t[Len(t)] = c
<1>1. s \in Seq(Contexts) /\ Len(s) \in Nat /\ Len(s) > 0 /\ MaxDepth \in Nat
  BY IrqAssumption DEF StackOK
<1>2. PICK n \in Nat : n = Len(s) /\ n > 0 /\ n < MaxDepth
  BY <1>1
<1>3. /\ t \in Seq(Contexts) /\ Len(t) = n + 1
      /\ t[n + 1] = c
      /\ \A k \in 1 .. n : t[k] = s[k]
  BY <1>1, <1>2
<1> HIDE DEF InRoutineOf
<1>4. StackOK(t)
  <2>1. ASSUME NEW k \in 1 .. n + 1 PROVE Local(t[k], k)
    <3>1. CASE k = n + 1
      BY <1>2, <1>3, <3>1
    <3>2. CASE k # n + 1
      <4>1. k \in 1 .. n
        BY <3>2
      <4>2. Local(s[k], k)
        BY <1>2, <4>1 DEF StackOK
      <4> QED BY <1>3, <4>1, <4>2
    <3> QED BY <3>1, <3>2
  <2>2. ASSUME NEW k \in 1 .. n
        PROVE  Frozen(t[k]) /\ (t[k + 1].estatus => Yields(t[k]))
    <3>1. CASE k = n
      BY <1>2, <1>3, <3>1
    <3>2. CASE k # n
      <4>1. k \in 1 .. n - 1 /\ k + 1 \in 1 .. n
        BY <3>2
      <4>2. Frozen(s[k]) /\ (s[k + 1].estatus => Yields(s[k]))
        BY <1>2, <4>1 DEF StackOK
      <4> QED BY <1>3, <4>1, <4>2
    <3> QED BY <3>1, <3>2
  <2>3. n + 1 \in 1 .. MaxDepth /\ (n + 1) - 1 = n
    BY <1>1, <1>2
  <2> QED BY <1>3, <2>1, <2>2, <2>3 DEF StackOK
<1> HIDE DEF Raised, MaskOf, Prevails
<1>5. MasksOK(m, t)
  <2>1. ASSUME NEW d \in 0 .. n, NEW mm, Prevails(mm, s, d)
        PROVE  Prevails(mm, t, d)
    <3>1. \A k \in 1 .. d : t[k] = s[k]
      BY <1>2, <1>3
    <3>2. d \in Nat
      OBVIOUS
    <3> QED BY <2>1, <3>1, <3>2, PrevailsFrame
  <2>2. Prevails(m, t, n + 1)
    <3>1. Prevails(m, s, n)
      BY <1>2 DEF MasksOK
    <3>2. Prevails(m, t, n)
      BY <2>1, <3>1
    <3>3. PICK e \in Nat : e = n + 1 /\ e > 0 /\ e - 1 = n
      OBVIOUS
    <3>4. ~Raised(t[e]) /\ Prevails(m, t, e - 1)
      BY <1>3, <3>2, <3>3
    <3>5. Prevails(m, t, e)
      BY <3>3, <3>4, PrevailsBelow
    <3> QED BY <3>3, <3>5
  <2>3. ASSUME NEW k \in 1 .. n + 1, Raised(t[k])
        PROVE  Prevails(t[k].old, t, k - 1)
    <3>1. k # n + 1
      BY <1>3, <2>3
    <3>2. k \in 1 .. n /\ k - 1 \in 0 .. n
      BY <3>1
    <3>3. Prevails(t[k].old, s, k - 1)
      BY <1>2, <1>3, <2>3, <3>2 DEF MasksOK
    <3> QED BY <2>1, <3>2, <3>3
  <2> QED BY <1>3, <2>2, <2>3 DEF MasksOK
<1>6. ASSUME Climbs(s) PROVE Climbs(t)
  <2>1. ASSUME NEW k \in 2 .. n + 1, t[k].pc \in InRoutineOf
        PROVE  k \in 2 .. n /\ t[k] = s[k]
    <3>1. k # n + 1
      BY <1>3, <2>1
    <3> QED BY <1>3, <3>1
  <2> QED BY <1>2, <1>3, <1>6, <2>1 DEF Climbs
<1> QED
  BY <1>3, <1>4, <1>5, <1>6

(* What is left of the stack when the top context is taken off it, and the one
   below goes on with its instruction. *)
LEMMA PopFacts ==
  ASSUME NEW s \in Seq(Contexts), Len(s) > 1, NEW b \in BOOLEAN,
         NEW t, t = [SubSeq(s, 1, Len(s) - 1) EXCEPT
                       ![Len(s) - 1] = [s[Len(s) - 1] EXCEPT !.bad = b]]
  PROVE  /\ t \in Seq(Contexts) /\ Len(t) = Len(s) - 1
         /\ t[Len(s) - 1] = [s[Len(s) - 1] EXCEPT !.bad = b]
         /\ \A k \in 1 .. Len(s) - 2 : t[k] = s[k]
<1>1. Len(s) \in Nat
  OBVIOUS
<1>2. PICK n \in Nat : n = Len(s) - 1 /\ n + 1 = Len(s) /\ n > 0
  BY <1>1
<1> DEFINE c == [s[n] EXCEPT !.bad = b]
<1>3. n \in 1 .. Len(s)
  BY <1>1, <1>2
<1>4. c \in Contexts
  <2>1. s[n] \in Contexts
    BY <1>1, <1>3
  <2> QED BY <2>1 DEF Contexts
<1>5. /\ t \in Seq(Contexts) /\ Len(t) = n
      /\ t[n] = c
      /\ \A k \in 1 .. n - 1 : t[k] = s[k]
  <2> DEFINE u == SubSeq(s, 1, n)
  <2>1. u \in Seq(Contexts) /\ Len(u) = n /\ \A k \in 1 .. n : u[k] = s[k]
    BY <1>1, <1>2, <1>3
  <2>2. t = [u EXCEPT ![Len(u)] = c]
    BY <1>2, <2>1, <1>3
  <2> HIDE DEF u, c
  <2>3. /\ t \in Seq(Contexts) /\ Len(t) = Len(u)
        /\ t[Len(t)] = c
        /\ \A k \in 1 .. Len(u) - 1 : t[k] = u[k]
    BY <1>2, <1>4, <2>1, <2>2, ReplaceFacts
  <2> QED BY <1>2, <2>1, <2>3
<1> QED
  BY <1>2, <1>5

(* The exit of an exception: the context below was standing still, and gets the
   status saved back. *)
LEMMA PopOK ==
  ASSUME NEW s, StackOK(s), Len(s) > 1, ~Raised(s[Len(s)]),
         NEW b \in BOOLEAN, b => s[Len(s) - 1].bad,
         NEW t \in Seq(Contexts), Len(t) = Len(s) - 1,
         NEW c, c = [s[Len(s) - 1] EXCEPT !.bad = b], t[Len(s) - 1] = c,
         \A k \in 1 .. Len(s) - 2 : t[k] = s[k],
         NEW m, MasksOK(m, s)
  PROVE  /\ StackOK(t) /\ MasksOK(m, t)
         /\ Climbs(s) => Climbs(t)
         /\ Frozen(c)
         /\ s[Len(s)].estatus => Yields(c)
<1>1. s \in Seq(Contexts) /\ Len(s) \in Nat /\ MaxDepth \in Nat /\ Len(s) <= MaxDepth
  BY IrqAssumption DEF StackOK
<1>2. PICK n \in Nat : n = Len(s) - 1 /\ n + 1 = Len(s) /\ n > 0 /\ n + 1 <= MaxDepth
  BY <1>1
<1>3. n \in 1 .. Len(s) /\ n \in 1 .. Len(s) - 1 /\ Len(s) \in 1 .. Len(s)
  BY <1>1, <1>2
<1>5. /\ t \in Seq(Contexts) /\ Len(t) = n
      /\ t[n] = c
      /\ \A k \in 1 .. n - 1 : t[k] = s[k]
  BY <1>2
<1>6. Local(s[n], n) /\ Frozen(s[n]) /\ (s[n + 1].estatus => Yields(s[n]))
  BY <1>2, <1>3 DEF StackOK
<1>7. /\ c.kind = s[n].kind /\ c.pc = s[n].pc /\ c.id = s[n].id
      /\ c.open = s[n].open /\ c.old = s[n].old /\ c.estatus = s[n].estatus
      /\ c.skip = s[n].skip /\ c.locked = s[n].locked /\ c.op = s[n].op
      /\ c.bad = b
  <2>1. s[n] \in Contexts
    BY <1>1, <1>3
  <2>2. c = [s[n] EXCEPT !.bad = b]
    BY <1>2
  <2> QED BY <2>1, <2>2 DEF Contexts
<1>8. Local(c, n) /\ Frozen(c) /\ (s[n + 1].estatus => Yields(c))
  BY <1>2, <1>6, <1>7 DEF Local, ProgramOK, ExceptionOK, OpOK, Frozen, Yields, Lets
<1>9. \A k \in 1 .. n : /\ t[k].kind = s[k].kind /\ t[k].pc = s[k].pc
                        /\ t[k].id = s[k].id /\ t[k].open = s[k].open
                        /\ t[k].old = s[k].old /\ t[k].estatus = s[k].estatus
                        /\ t[k].locked = s[k].locked /\ t[k].op = s[k].op
  <2> SUFFICES ASSUME NEW k \in 1 .. n
               PROVE  /\ t[k].kind = s[k].kind /\ t[k].pc = s[k].pc
                      /\ t[k].id = s[k].id /\ t[k].open = s[k].open
                      /\ t[k].old = s[k].old /\ t[k].estatus = s[k].estatus
                      /\ t[k].locked = s[k].locked /\ t[k].op = s[k].op
    OBVIOUS
  <2>1. k = n \/ k \in 1 .. n - 1
    OBVIOUS
  <2> QED BY <1>5, <1>7, <2>1
<1>10. StackOK(t)
  <2>1. ASSUME NEW k \in 1 .. n PROVE Local(t[k], k)
    <3>1. CASE k = n
      BY <1>5, <1>8, <3>1
    <3>2. CASE k # n
      <4>1. k \in 1 .. n - 1 /\ k \in 1 .. Len(s)
        BY <1>2, <3>2
      <4> QED BY <1>5, <4>1 DEF StackOK
    <3> QED BY <3>1, <3>2
  <2>2. ASSUME NEW k \in 1 .. n - 1
        PROVE  Frozen(t[k]) /\ (t[k + 1].estatus => Yields(t[k]))
    <3>1. k \in 1 .. Len(s) - 1 /\ k + 1 \in 1 .. n
      BY <1>2
    <3>2. Frozen(s[k]) /\ (s[k + 1].estatus => Yields(s[k]))
      BY <3>1 DEF StackOK
    <3> QED BY <1>5, <1>9, <3>1, <3>2
  <2>3. n \in 1 .. MaxDepth
    BY <1>1, <1>2
  <2> QED BY <1>5, <2>1, <2>2, <2>3 DEF StackOK
<1>11. \A k \in 1 .. n : Raised(t[k]) <=> Raised(s[k])
  BY <1>9 DEF Raised
<1> HIDE DEF Raised, MaskOf, Prevails
<1>12. ASSUME NEW d \in Nat, d <= n, NEW mm, Prevails(mm, s, d)
       PROVE  Prevails(mm, t, d)
  <2>1. ASSUME NEW k \in 1 .. d
        PROVE  /\ Raised(t[k]) <=> Raised(s[k])
               /\ Raised(s[k]) => t[k].id = s[k].id
    <3>1. k \in 1 .. n
      BY <1>12
    <3> QED BY <1>9, <1>11, <3>1
  <2>2. Prevails(mm, s, d)
    BY <1>12
  <2> QED BY <2>1, <2>2, PrevailsFrame
<1>13. MasksOK(m, t)
  <2>1. Prevails(m, t, n)
    <3>1. Prevails(m, s, n + 1) /\ ~Raised(s[n + 1]) /\ (n + 1) - 1 = n
      BY <1>2 DEF MasksOK
    <3>2. Prevails(m, s, n)
      BY <1>2, <3>1, PrevailsBelow
    <3>3. n <= n
      OBVIOUS
    <3> QED BY <1>12, <3>2, <3>3
  <2>2. ASSUME NEW k \in 1 .. n, Raised(t[k])
        PROVE  Prevails(t[k].old, t, k - 1)
    <3>1. k \in 1 .. Len(s) /\ k - 1 \in Nat /\ k - 1 <= n
      BY <1>2
    <3>2. Prevails(s[k].old, s, k - 1)
      BY <1>11, <2>2, <3>1 DEF MasksOK
    <3> QED BY <1>9, <1>12, <3>1, <3>2
  <2> QED BY <1>5, <2>1, <2>2 DEF MasksOK
<1>14. Climbs(s) => Climbs(t)
  BY <1>2, <1>5, <1>9 DEF Climbs
<1> QED
  BY <1>2, <1>8, <1>10, <1>13, <1>14

-----------------------------------------------------------------------------
(* What every step has to go on: the types, and the top context's part. *)
LEMMA TopFacts ==
  ASSUME IInv
  PROVE  /\ Top \in Contexts /\ Top.op \in Ops
         /\ Len(stack) \in Nat /\ Len(stack) > 0 /\ Len(stack) <= MaxDepth
         /\ stack \in Seq(Contexts)
         /\ Top = stack[Len(stack)]
         /\ Local(Top, Len(stack))
         /\ Top.kind = "program" <=> Len(stack) = 1
         /\ Top.kind = "program" => ProgramOK(Top)
         /\ Top.kind = "exception" => ExceptionOK(Top)
         /\ Top.kind \in {"program", "exception"}
<1>1. /\ stack \in Seq(Contexts) /\ Len(stack) \in 1 .. MaxDepth /\ Len(stack) \in Nat
      /\ \A k \in 1 .. Len(stack) : Local(stack[k], k)
  BY IrqAssumption DEF IInv, StackOK
<1>2. Len(stack) > 0 /\ Len(stack) <= MaxDepth /\ Len(stack) \in 1 .. Len(stack)
  BY <1>1, IrqAssumption
<1>3. Top \in Contexts /\ Local(Top, Len(stack))
  BY <1>1, <1>2 DEF Top
<1>4. Top.op \in Ops /\ Top.kind \in {"program", "exception"}
  BY <1>3 DEF Contexts
<1>5. IF Len(stack) = 1 THEN ProgramOK(Top) ELSE ExceptionOK(Top)
  BY <1>3 DEF Local
<1> QED
  BY <1>1, <1>2, <1>3, <1>4, <1>5 DEF Top, ProgramOK, ExceptionOK

(* A step of the top context. *)
LEMMA TopStep ==
  ASSUME IInv, NEW c \in Contexts, SetTop(c), Local(c, Len(stack)),
         c.estatus = Top.estatus
  PROVE  StackOK(stack') /\ Len(stack') = Len(stack) /\ Top' = c
<1>1. StackOK(stack)
  BY DEF IInv
<1>2. stack' = [stack EXCEPT ![Len(stack)] = c]
  BY DEF SetTop
<1>3. StackOK(stack') /\ Len(stack') = Len(stack)
  BY <1>1, <1>2, ReplaceOK DEF Top
<1>4. stack'[Len(stack')] = c
  BY <1>2, ReplaceFacts, TopFacts
<1> QED
  BY <1>3, <1>4 DEF Top

(* One that neither raises nor lowers the mask, nor calls a routine. *)
LEMMA QuietStep ==
  ASSUME IInv, NEW c \in Contexts, SetTop(c), Local(c, Len(stack)),
         c.estatus = Top.estatus,
         Raised(c) <=> Raised(Top),
         Raised(c) => c.id = Top.id /\ c.old = Top.old,
         c.pc \in InRoutineOf => Top.pc \in InRoutineOf /\ c.id = Top.id
  PROVE  /\ StackOK(stack') /\ Len(stack') = Len(stack) /\ Top' = c
         /\ MasksOK(prioMask, stack')
         /\ ~rearmed => Climbs(stack')
<1>1. StackOK(stack) /\ MasksOK(prioMask, stack) /\ (~rearmed => Climbs(stack))
  BY DEF IInv
<1>2. stack' = [stack EXCEPT ![Len(stack)] = c]
  BY DEF SetTop
<1>3. MasksOK(prioMask, stack')
  BY <1>1, <1>2, MasksQuiet DEF Top
<1>4. ~rearmed => Climbs(stack')
  BY <1>1, <1>2, ClimbsQuiet DEF Top
<1> QED
  BY <1>3, <1>4, TopStep

(* A step of a call on the registry, or into or out of one. *)
LEMMA OpStep ==
  ASSUME IInv, NEW o \in Ops, SetTop([Top EXCEPT !.op = o]),
         Top.pc = "body", ~Top.bad,
         o.step # "idle" =>
           /\ o.what # "none"
           /\ o.what = "register" => ~o.inner
           /\ o.what # "register" => o.step \in {"active", "ienable", "nestedOn"}
           /\ o.outer \/ o.inner => Lets(Top)
  PROVE  /\ StackOK(stack') /\ Len(stack') = Len(stack)
         /\ MasksOK(prioMask, stack')
         /\ ~rearmed => Climbs(stack')
         /\ Top'.op = o /\ Top'.pc = "body" /\ ~Top'.bad
         /\ Yields(Top') <=> o.step = "idle" /\ Lets(Top)
         /\ CauseOK(Top)'
<1> DEFINE c == [Top EXCEPT !.op = o]
<1>1. /\ c \in Contexts
      /\ c.kind = Top.kind /\ c.pc = Top.pc /\ c.id = Top.id /\ c.open = Top.open
      /\ c.old = Top.old /\ c.estatus = Top.estatus /\ c.skip = Top.skip
      /\ c.locked = Top.locked /\ c.bad = Top.bad /\ c.op = o
  BY TopFacts DEF Contexts
<1>2. SetTop(c)
  OBVIOUS
<1> HIDE DEF c
<1>3. Local(Top, Len(stack))
  BY TopFacts
<1>4. Local(c, Len(stack))
  BY <1>1, <1>3 DEF Local, ProgramOK, ExceptionOK, OpOK, Lets
<1>5. (Raised(c) <=> Raised(Top)) /\ ~Top.skip
  BY <1>1, <1>3 DEF Raised, Local
<1>6. /\ StackOK(stack') /\ Len(stack') = Len(stack) /\ Top' = c
      /\ MasksOK(prioMask, stack')
      /\ ~rearmed => Climbs(stack')
  BY <1>1, <1>2, <1>4, <1>5, QuietStep
<1>7. Yields(c) <=> o.step = "idle" /\ Lets(Top)
  BY <1>1 DEF Yields, Lets
<1>8. CauseOK(Top)'
  BY <1>1, <1>5, <1>6 DEF CauseOK
<1> QED
  BY <1>1, <1>6, <1>7, <1>8

-----------------------------------------------------------------------------
(* Interrupts are on only where the top context lets them in, so a call on the
   registry begins with what it will give back. *)
LEMMA CallKeeps ==
  ASSUME IInv, NEW o \in Ops, Call(o),
         o.what = "register" => o.step = "handler" /\ ~o.inner,
         o.what # "register" => o.step = "active" /\ o.what # "none",
         o.outer \/ o.inner => pie,
         o.what = "enable" => table[o.id].handler # Null
  PROVE  IInv'
<1>1. Top.pc = "body" /\ Top.op.step = "idle" /\ ~Top.bad
  BY DEF Call, InBody
<1>2. pie => Lets(Top)
  BY DEF IInv, Yields, Lets
<1>3. /\ SetTop([Top EXCEPT !.op = o]) /\ calls < MaxCalls /\ calls' = calls + 1
      /\ pie' = FALSE
      /\ UNCHANGED <<ienable, line, cpu, irqActive, prioMask, table, excHandler,
                     stray, rearmed, withdrawn, lost>>
  BY DEF Call, DisableAll, registry, history
<1>4. /\ StackOK(stack') /\ Len(stack') = Len(stack)
      /\ MasksOK(prioMask, stack')
      /\ ~rearmed => Climbs(stack')
      /\ Top'.op = o /\ Top'.pc = "body"
      /\ CauseOK(Top)'
  BY <1>1, <1>2, <1>3, OpStep
<1>5. IrqTypeOK'
  <2>1. IrqTypeOK
    BY DEF IInv
  <2>2. calls' \in 0 .. MaxCalls
    BY <1>3, <2>1, IrqAssumption DEF IrqTypeOK
  <2> QED BY <1>3, <1>4, <2>1, <2>2 DEF IrqTypeOK
<1>6. EnabledOK(Top)'
  BY <1>1, <1>3, <1>4 DEF IInv, EnabledOK
<1>7. TableOK(Top)'
  BY <1>1, <1>3, <1>4 DEF IInv, TableOK, Registering, Written
<1> QED
  BY <1>3, <1>4, <1>5, <1>6, <1>7 DEF IInv

(* alt_iic_isr_register and alt_irq_register, for a number within the table. *)
LEMMA RegisterKeeps ==
  ASSUME IInv, NEW irq \in Irqs, NEW r \in Routines \cup {Null}, Register(irq, r)
  PROVE  IInv'
<1> DEFINE o == [NoOp EXCEPT !.what = "register", !.id = irq, !.routine = r,
                             !.outer = pie, !.step = "handler"]
<1>1. pie \in BOOLEAN
  BY DEF IInv, IrqTypeOK
<1>2. /\ o \in Ops /\ o.what = "register" /\ o.step = "handler" /\ ~o.inner
      /\ o.outer = pie
  BY <1>1 DEF Ops, NoOp
<1>3. Call(o)
  BY DEF Register
<1> HIDE DEF o
<1> QED
  BY <1>2, <1>3, CallKeeps

LEMMA EnableKeeps ==
  ASSUME IInv, NEW i \in Irqs, AltIrqEnable(i)
  PROVE  IInv'
<1> DEFINE o == [NoOp EXCEPT !.what = "enable", !.id = i, !.inner = pie, !.step = "active"]
<1>1. pie \in BOOLEAN
  BY DEF IInv, IrqTypeOK
<1>2. /\ o \in Ops /\ o.what = "enable" /\ o.step = "active" /\ ~o.outer
      /\ o.inner = pie /\ o.id = i
  BY <1>1 DEF Ops, NoOp
<1>3. Call(o) /\ table[i].handler # Null
  BY DEF AltIrqEnable
<1> HIDE DEF o
<1> QED
  BY <1>2, <1>3, CallKeeps

LEMMA DisableKeeps ==
  ASSUME IInv, NEW i \in Irqs, AltIrqDisable(i)
  PROVE  IInv'
<1> DEFINE o == [NoOp EXCEPT !.what = "disable", !.id = i, !.inner = pie, !.step = "active"]
<1>1. pie \in BOOLEAN
  BY DEF IInv, IrqTypeOK
<1>2. /\ o \in Ops /\ o.what = "disable" /\ o.step = "active" /\ ~o.outer
      /\ o.inner = pie /\ o.id = i
  BY <1>1 DEF Ops, NoOp
<1>3. Call(o)
  BY DEF AltIrqDisable
<1> HIDE DEF o
<1> QED
  BY <1>2, <1>3, CallKeeps

-----------------------------------------------------------------------------
(* A call under way: interrupts are off, and the step it comes to. *)
LEMMA OpFacts ==
  ASSUME IInv, Top.op.step # "idle"
  PROVE  /\ pie = FALSE /\ Top.op \in Ops /\ OpOK(Top)
         /\ Top.pc = "body" /\ ~Top.bad /\ Top.op.what # "none"
         /\ Top.op.what = "register" => ~Top.op.inner
         /\ Top.op.what # "register" => Top.op.step \in {"active", "ienable", "nestedOn"}
         /\ Top.op.outer \/ Top.op.inner => Lets(Top)
<1>1. OpOK(Top) /\ Top.op \in Ops
  BY TopFacts DEF Local
<1>2. pie = FALSE
  BY DEF IInv, IrqTypeOK, Yields
<1> QED
  BY <1>1, <1>2 DEF OpOK

LEMMA AtStepFacts ==
  ASSUME IInv, Top.op.step # "idle", NEW step \in Written,
         Top.op.what # "register" => step \in {"active", "ienable", "nestedOn"},
         AtStep(step)
  PROVE  /\ StackOK(stack') /\ Len(stack') = Len(stack)
         /\ MasksOK(prioMask, stack')
         /\ ~rearmed => Climbs(stack')
         /\ Top'.pc = "body" /\ ~Yields(Top') /\ CauseOK(Top)'
         /\ Top'.op.step = step /\ Top'.op.what = Top.op.what
         /\ Top'.op.id = Top.op.id /\ Top'.op.routine = Top.op.routine
<1> DEFINE o == [Top.op EXCEPT !.step = step]
<1>1. /\ o \in Ops /\ o.what = Top.op.what /\ o.id = Top.op.id
      /\ o.routine = Top.op.routine /\ o.outer = Top.op.outer
      /\ o.inner = Top.op.inner /\ o.step = step
  BY TopFacts DEF Ops, Written
<1>2. SetTop([Top EXCEPT !.op = o])
  BY DEF AtStep
<1> HIDE DEF o
<1>3. step # "idle"
  BY DEF Written
<1> QED
  BY <1>1, <1>2, <1>3, OpFacts, OpStep

LEMMA StoreHandlerKeeps ==
  ASSUME IInv, StoreHandler
  PROVE  IInv'
<1>0. Top.op.step = "handler" /\ AtStep("context") /\ "context" \in Written
  BY DEF StoreHandler, At, Written
<1>1. Top.op.what = "register" /\ Top.op.id \in Irqs /\ Top.op.routine \in Routines \cup {Null}
  BY <1>0, OpFacts DEF Ops
<1>2. /\ table' = [table EXCEPT ![Top.op.id].handler = Top.op.routine]
      /\ UNCHANGED <<pie, ienable, line, cpu, irqActive, prioMask, excHandler, calls,
                     stray, rearmed, withdrawn, lost>>
  BY <1>1 DEF StoreHandler, controller
<1>3. /\ StackOK(stack') /\ Len(stack') = Len(stack)
      /\ MasksOK(prioMask, stack')
      /\ ~rearmed => Climbs(stack')
      /\ Top'.pc = "body" /\ CauseOK(Top)'
      /\ Top'.op.step = "context" /\ Top'.op.what = Top.op.what
      /\ Top'.op.id = Top.op.id /\ Top'.op.routine = Top.op.routine
  BY <1>0, <1>1, AtStepFacts
<1>4. pie' = FALSE
  BY <1>0, <1>2, OpFacts
<1>5. IrqTypeOK
  BY DEF IInv
<1>6. /\ table'[Top.op.id].handler = Top.op.routine
      /\ \A i \in Irqs : i # Top.op.id => table'[i] = table[i]
      /\ table' \in [Irqs -> [handler : Routines \cup {Null}, context : Routines \cup {Null}]]
  BY <1>1, <1>2, <1>5 DEF IrqTypeOK
<1>7. IrqTypeOK'
  BY <1>2, <1>3, <1>5, <1>6 DEF IrqTypeOK
<1>8. EnabledOK(Top)'
  BY <1>0, <1>2, <1>3, OpFacts DEF IInv, EnabledOK
<1>9. TableOK(Top)'
  <2>1. TableOK(Top) /\ Top.pc # "boot"
    BY <1>0, OpFacts DEF IInv
  <2>2. irqActive \subseteq Irqs /\ ienable \subseteq Irqs
    BY <1>5 DEF IrqTypeOK
  <2> QED BY <1>0, <1>1, <1>2, <1>3, <1>6, <2>1, <2>2 DEF TableOK, Registering, Written
<1> QED
  BY <1>2, <1>3, <1>4, <1>7, <1>8, <1>9 DEF IInv

LEMMA StoreContextKeeps ==
  ASSUME IInv, StoreContext
  PROVE  IInv'
<1>0. Top.op.step = "context" /\ AtStep("nestedOff") /\ "nestedOff" \in Written
  BY DEF StoreContext, At, Written
<1>1. Top.op.what = "register" /\ Top.op.id \in Irqs /\ Top.op.routine \in Routines \cup {Null}
  BY <1>0, OpFacts DEF Ops
<1>2. /\ table' = [table EXCEPT ![Top.op.id].context = Top.op.routine]
      /\ UNCHANGED <<pie, ienable, line, cpu, irqActive, prioMask, excHandler, calls,
                     stray, rearmed, withdrawn, lost>>
  BY <1>1 DEF StoreContext, controller, history
<1>3. /\ StackOK(stack') /\ Len(stack') = Len(stack)
      /\ MasksOK(prioMask, stack')
      /\ ~rearmed => Climbs(stack')
      /\ Top'.pc = "body" /\ CauseOK(Top)'
      /\ Top'.op.step = "nestedOff" /\ Top'.op.what = Top.op.what
      /\ Top'.op.id = Top.op.id /\ Top'.op.routine = Top.op.routine
  BY <1>0, <1>1, AtStepFacts
<1>4. pie' = FALSE
  BY <1>0, <1>2, OpFacts
<1>5. IrqTypeOK
  BY DEF IInv
<1>6. /\ table'[Top.op.id].context = Top.op.routine
      /\ table'[Top.op.id].handler = table[Top.op.id].handler
      /\ \A i \in Irqs : i # Top.op.id => table'[i] = table[i]
      /\ table' \in [Irqs -> [handler : Routines \cup {Null}, context : Routines \cup {Null}]]
  BY <1>1, <1>2, <1>5 DEF IrqTypeOK
<1>7. IrqTypeOK'
  BY <1>2, <1>3, <1>5, <1>6 DEF IrqTypeOK
<1>8. EnabledOK(Top)'
  BY <1>0, <1>2, <1>3, OpFacts DEF IInv, EnabledOK
<1>9. TableOK(Top)'
  <2>1. TableOK(Top) /\ Top.pc # "boot"
    BY <1>0, OpFacts DEF IInv
  <2>2. irqActive \subseteq Irqs /\ ienable \subseteq Irqs
    BY <1>5 DEF IrqTypeOK
  <2>3. table[Top.op.id].handler = Top.op.routine
    BY <1>0, <1>1, <2>1 DEF TableOK, Registering, Written
  <2> QED BY <1>0, <1>1, <1>2, <1>3, <1>6, <2>1, <2>2, <2>3 DEF TableOK, Registering, Written
<1> QED
  BY <1>2, <1>3, <1>4, <1>7, <1>8, <1>9 DEF IInv

LEMMA NestedOffKeeps ==
  ASSUME IInv, NestedOff
  PROVE  IInv'
<1>0. Top.op.step = "nestedOff"
  BY DEF NestedOff, At
<1>1. Top.op.what = "register" /\ pie = FALSE
  BY <1>0, OpFacts
<1>2. /\ pie' = FALSE
      /\ UNCHANGED <<ienable, line, cpu, irqActive, prioMask, table, excHandler, calls,
                     stray, rearmed, withdrawn, lost>>
  BY DEF NestedOff, DisableAll, registry, history
<1> DEFINE o == [Top.op EXCEPT !.inner = FALSE, !.step = "active"]
<1>3. /\ o \in Ops /\ o.what = Top.op.what /\ o.id = Top.op.id
      /\ o.routine = Top.op.routine /\ o.outer = Top.op.outer
      /\ o.inner = FALSE /\ o.step = "active"
  BY TopFacts DEF Ops
<1>4. SetTop([Top EXCEPT !.op = o])
  BY <1>1, TopFacts DEF NestedOff, Contexts
<1> HIDE DEF o
<1>5. /\ StackOK(stack') /\ Len(stack') = Len(stack)
      /\ MasksOK(prioMask, stack')
      /\ ~rearmed => Climbs(stack')
      /\ Top'.pc = "body" /\ Top'.op = o
      /\ CauseOK(Top)'
  BY <1>0, <1>1, <1>3, <1>4, OpFacts, OpStep
<1>6. IrqTypeOK'
  BY <1>2, <1>5 DEF IInv, IrqTypeOK
<1>7. EnabledOK(Top)'
  BY <1>0, <1>2, <1>3, <1>5, OpFacts DEF IInv, EnabledOK
<1>8. TableOK(Top)'
  <2>1. TableOK(Top) /\ Top.pc # "boot"
    BY <1>0, OpFacts DEF IInv
  <2> QED BY <1>0, <1>1, <1>2, <1>3, <1>5, <2>1 DEF TableOK, Registering, Written
<1> QED
  BY <1>2, <1>5, <1>6, <1>7, <1>8 DEF IInv

LEMMA StoreActiveKeeps ==
  ASSUME IInv, StoreActive
  PROVE  IInv'
<1>0. Top.op.step = "active" /\ AtStep("ienable") /\ "ienable" \in Written
  BY DEF StoreActive, At, Written
<1>1. Top.op.id \in Irqs /\ pie = FALSE
  BY <1>0, OpFacts DEF Ops
<1>2. /\ irqActive' = IF TurnsOn THEN irqActive \cup {Top.op.id}
                                 ELSE irqActive \ {Top.op.id}
      /\ UNCHANGED <<pie, ienable, line, cpu, prioMask, table, excHandler, calls,
                     stray, rearmed, withdrawn, lost>>
  BY DEF StoreActive, controller, history
<1>3. /\ StackOK(stack') /\ Len(stack') = Len(stack)
      /\ MasksOK(prioMask, stack')
      /\ ~rearmed => Climbs(stack')
      /\ Top'.pc = "body" /\ CauseOK(Top)'
      /\ Top'.op.step = "ienable" /\ Top'.op.what = Top.op.what
      /\ Top'.op.id = Top.op.id /\ Top'.op.routine = Top.op.routine
  BY <1>0, AtStepFacts
<1>4. IrqTypeOK
  BY DEF IInv
<1>5. IrqTypeOK'
  BY <1>1, <1>2, <1>3, <1>4 DEF IrqTypeOK
<1>6. EnabledOK(Top)'
  BY <1>2, <1>3 DEF IInv, EnabledOK
<1>7. TableOK(Top)'
  <2>1. TableOK(Top) /\ Top.pc # "boot"
    BY <1>0, OpFacts DEF IInv
  <2>2. TurnsOn => table[Top.op.id].handler # Null
    BY <1>0, <1>1, <2>1 DEF TableOK, Registering, Written, TurnsOn
  <2>3. \A i \in irqActive : i # Top.op.id => table[i].handler # Null
    BY <2>1 DEF TableOK, Registering
  <2>4. \A i \in irqActive' : table'[i].handler # Null
    BY <1>2, <2>2, <2>3
  <2> QED BY <1>0, <1>2, <1>3, <2>1, <2>4 DEF TableOK, Registering, Written
<1> QED
  BY <1>1, <1>2, <1>3, <1>5, <1>6, <1>7 DEF IInv

LEMMA WriteIenableKeeps ==
  ASSUME IInv, WriteIenable
  PROVE  IInv'
<1>0. Top.op.step = "ienable" /\ AtStep("nestedOn") /\ "nestedOn" \in Written
  BY DEF WriteIenable, At, Written
<1>1. pie = FALSE
  BY <1>0, OpFacts
<1>2. /\ ienable' = irqActive
      /\ rearmed' = (rearmed \/ prioMask # AllPriorities)
      /\ UNCHANGED <<pie, line, cpu, irqActive, prioMask, table, excHandler, calls,
                     stray, withdrawn, lost>>
  BY DEF WriteIenable, registry
<1>3. /\ StackOK(stack') /\ Len(stack') = Len(stack)
      /\ MasksOK(prioMask, stack')
      /\ ~rearmed => Climbs(stack')
      /\ Top'.pc = "body" /\ CauseOK(Top)'
      /\ Top'.op.step = "nestedOn" /\ Top'.op.what = Top.op.what
      /\ Top'.op.id = Top.op.id /\ Top'.op.routine = Top.op.routine
  BY <1>0, AtStepFacts
<1>4. IrqTypeOK
  BY DEF IInv
<1>5. IrqTypeOK'
  BY <1>2, <1>3, <1>4 DEF IrqTypeOK
<1>6. EnabledOK(Top)'
  BY <1>2, <1>3, <1>4 DEF IInv, EnabledOK, IrqTypeOK, AllPriorities
<1>7. TableOK(Top)'
  <2>1. TableOK(Top) /\ Top.pc # "boot"
    BY <1>0, OpFacts DEF IInv
  <2> QED BY <1>0, <1>2, <1>3, <2>1 DEF TableOK, Registering, Written
<1>8. ~rearmed' => Climbs(stack')
  BY <1>2, <1>3
<1> QED
  BY <1>1, <1>2, <1>3, <1>5, <1>6, <1>7, <1>8 DEF IInv

(* A call gives interrupts back as it found them. *)
LEMMA CallEnds ==
  ASSUME IInv, Top.op.step \in {"nestedOn", "on"},
         SetTop([Top EXCEPT !.op = NoOp]),
         pie' = Top.op.outer \/ pie' = Top.op.inner,
         UNCHANGED <<ienable, line, cpu, irqActive, prioMask, table, excHandler, calls,
                     stray, rearmed, withdrawn, lost>>
  PROVE  IInv'
<1>0. NoOp \in Ops /\ NoOp.step = "idle" /\ NoOp.what = "none"
  BY IrqAssumption DEF NoOp, Ops, Irqs
<1>1. /\ Top.op \in Ops /\ Top.pc = "body" /\ ~Top.bad
      /\ Top.op.outer \/ Top.op.inner => Lets(Top)
  BY OpFacts
<1>2. /\ StackOK(stack') /\ Len(stack') = Len(stack)
      /\ MasksOK(prioMask, stack')
      /\ ~rearmed => Climbs(stack')
      /\ Top'.op = NoOp /\ Top'.pc = "body"
      /\ Yields(Top') <=> Lets(Top)
      /\ CauseOK(Top)'
  BY <1>0, <1>1, OpStep
<1>3. pie' \in BOOLEAN /\ (pie' => Yields(Top'))
  BY <1>1, <1>2 DEF Ops
<1>4. IrqTypeOK'
  BY <1>2, <1>3 DEF IInv, IrqTypeOK
<1>5. EnabledOK(Top)'
  BY <1>0, <1>1, <1>2 DEF IInv, EnabledOK
<1>6. TableOK(Top)'
  <2>1. TableOK(Top)
    BY DEF IInv
  <2> QED BY <1>0, <1>1, <1>2, <2>1 DEF TableOK, Registering, Written
<1> QED
  BY <1>2, <1>3, <1>4, <1>5, <1>6 DEF IInv

LEMMA NestedOnKeeps ==
  ASSUME IInv, NestedOn
  PROVE  IInv'
<1>0. Top.op.step = "nestedOn"
  BY DEF NestedOn, At
<1>1. /\ pie' = Top.op.inner
      /\ UNCHANGED <<ienable, line, cpu, irqActive, prioMask, table, excHandler, calls,
                     stray, rearmed, withdrawn, lost>>
  BY DEF NestedOn, EnableAll, registry, history
<1>2. CASE Top.op.what # "register"
  <2>1. SetTop([Top EXCEPT !.op = NoOp])
    BY <1>2 DEF NestedOn
  <2> QED BY <1>0, <1>1, <2>1, CallEnds
<1>3. CASE Top.op.what = "register"
  <2>1. AtStep("on") /\ "on" \in Written
    BY <1>3 DEF NestedOn, Written
  <2>2. pie' = FALSE
    BY <1>0, <1>1, <1>3, OpFacts DEF Ops
  <2>3. /\ StackOK(stack') /\ Len(stack') = Len(stack)
        /\ MasksOK(prioMask, stack')
        /\ ~rearmed => Climbs(stack')
        /\ Top'.pc = "body" /\ CauseOK(Top)'
        /\ Top'.op.step = "on" /\ Top'.op.what = Top.op.what
        /\ Top'.op.id = Top.op.id /\ Top'.op.routine = Top.op.routine
    BY <1>0, <1>3, <2>1, AtStepFacts
  <2>4. IrqTypeOK'
    BY <1>1, <2>2, <2>3 DEF IInv, IrqTypeOK
  <2>5. EnabledOK(Top)'
    BY <1>0, <1>1, <2>3, OpFacts DEF IInv, EnabledOK
  <2>6. TableOK(Top)'
    <3>1. TableOK(Top) /\ Top.pc # "boot"
      BY <1>0, OpFacts DEF IInv
    <3> QED BY <1>0, <1>1, <2>3, <3>1 DEF TableOK, Registering, Written
  <2> QED BY <1>1, <2>2, <2>3, <2>4, <2>5, <2>6 DEF IInv
<1> QED
  BY <1>2, <1>3

LEMMA RegisterOnKeeps ==
  ASSUME IInv, RegisterOn
  PROVE  IInv'
  BY CallEnds DEF RegisterOn, At, EnableAll, registry, history

-----------------------------------------------------------------------------
(* A step of the top context that leaves the registry and the masks. *)
LEMMA QuietKeeps ==
  ASSUME IInv, NEW c \in Contexts, SetTop(c), Local(c, Len(stack)),
         c.estatus = Top.estatus, c.op = Top.op,
         Top.pc # "boot", c.pc \notin {"boot", "bootEnable"},
         Raised(c) <=> Raised(Top),
         Raised(c) => c.id = Top.id /\ c.old = Top.old,
         c.pc \in InRoutineOf => Top.pc \in InRoutineOf /\ c.id = Top.id,
         pie' \in BOOLEAN, pie' => Yields(c), line' \subseteq Irqs,
         calls' \in 0 .. MaxCalls, CauseOK(Top)',
         UNCHANGED <<ienable, cpu, irqActive, prioMask, table, excHandler,
                     stray, rearmed, withdrawn, lost>>
  PROVE  IInv'
<1>1. /\ StackOK(stack') /\ Len(stack') = Len(stack) /\ Top' = c
      /\ MasksOK(prioMask, stack')
      /\ ~rearmed => Climbs(stack')
  BY QuietStep
<1>2. IrqTypeOK'
  BY <1>1 DEF IInv, IrqTypeOK
<1>3. EnabledOK(Top)'
  BY <1>1 DEF IInv, EnabledOK
<1>4. TableOK(Top)'
  BY <1>1 DEF IInv, TableOK, Registering
<1> QED
  BY <1>1, <1>2, <1>3, <1>4 DEF IInv

(* The top context is where no call is under way: interrupts are on only in a body. *)
LEMMA IdleFacts ==
  ASSUME IInv, Top.pc # "body"
  PROVE  /\ pie = FALSE /\ Top.op.step = "idle" /\ ~Top.bad
         /\ Local(Top, Len(stack))
<1>1. Local(Top, Len(stack))
  BY TopFacts
<1>2. pie = FALSE
  BY DEF IInv, IrqTypeOK, Yields
<1> QED
  BY <1>1, <1>2 DEF Local, OpOK

LEMMA BootEnableKeeps ==
  ASSUME IInv, BootEnable
  PROVE  IInv'
<1>0. Top.pc = "bootEnable"
  BY DEF BootEnable
<1>1. /\ pie' = TRUE
      /\ UNCHANGED <<ienable, line, cpu, irqActive, prioMask, table, excHandler, calls,
                     stray, rearmed, withdrawn, lost>>
  BY DEF BootEnable, registry, history
<1> DEFINE c == [Top EXCEPT !.pc = "body"]
<1>2. /\ c \in Contexts
      /\ c.kind = Top.kind /\ c.pc = "body" /\ c.id = Top.id /\ c.open = Top.open
      /\ c.old = Top.old /\ c.estatus = Top.estatus /\ c.skip = Top.skip
      /\ c.locked = Top.locked /\ c.bad = Top.bad /\ c.op = Top.op
  BY TopFacts DEF Contexts
<1>3. SetTop(c)
  BY DEF BootEnable
<1> HIDE DEF c
<1>4. Local(Top, Len(stack)) /\ Top.op.step = "idle"
  BY <1>0, IdleFacts
<1>5. Len(stack) = 1 /\ Top.kind = "program" /\ ~Top.locked /\ ~Top.open /\ ~Top.skip
  BY <1>0, <1>4 DEF Local, ProgramOK, ExceptionOK, Serving
<1>6. Local(c, Len(stack)) /\ Yields(c)
  BY <1>2, <1>4, <1>5 DEF Local, ProgramOK, OpOK, Yields
<1>7. StackOK(stack') /\ Len(stack') = Len(stack) /\ Top' = c
  BY <1>2, <1>3, <1>6, TopStep
<1>8. MasksOK(prioMask, stack')
  <2>1. StackOK(stack) /\ MasksOK(prioMask, stack)
    BY DEF IInv
  <2>2. (Raised(c) <=> Raised(Top)) /\ ~Raised(c)
    BY <1>0, <1>2, <1>5 DEF Raised
  <2>3. stack' = [stack EXCEPT ![Len(stack)] = c]
    BY <1>3 DEF SetTop
  <2> QED BY <1>2, <2>1, <2>2, <2>3, MasksQuiet DEF Top
<1>9. Climbs(stack')
  BY <1>5, <1>7 DEF Climbs
<1>10. IrqTypeOK'
  BY <1>1, <1>7 DEF IInv, IrqTypeOK
<1>11. EnabledOK(Top)' /\ TableOK(Top)' /\ CauseOK(Top)'
  BY <1>0, <1>1, <1>2, <1>4, <1>5, <1>7
  DEF IInv, EnabledOK, TableOK, Registering, CauseOK
<1> QED
  BY <1>1, <1>6, <1>7, <1>8, <1>9, <1>10, <1>11 DEF IInv

LEMMA BootMaskKeeps ==
  ASSUME IInv, BootMask
  PROVE  IInv'
<1>0. Top.pc = "boot"
  BY DEF BootMask
<1>1. /\ ienable' = {}
      /\ UNCHANGED <<pie, line, cpu, irqActive, prioMask, table, excHandler, calls,
                     stray, rearmed, withdrawn, lost>>
  BY DEF BootMask, registry, history
<1> DEFINE c == [Top EXCEPT !.pc = "bootEnable"]
<1>2. /\ c \in Contexts
      /\ c.kind = Top.kind /\ c.pc = "bootEnable" /\ c.id = Top.id /\ c.open = Top.open
      /\ c.old = Top.old /\ c.estatus = Top.estatus /\ c.skip = Top.skip
      /\ c.locked = Top.locked /\ c.bad = Top.bad /\ c.op = Top.op
  BY TopFacts DEF Contexts
<1>3. SetTop(c)
  BY DEF BootMask
<1> HIDE DEF c
<1>4. Local(Top, Len(stack)) /\ Top.op.step = "idle" /\ pie = FALSE /\ ~Top.bad
  BY <1>0, IdleFacts
<1>5. Len(stack) = 1 /\ Top.kind = "program" /\ ~Top.locked /\ ~Top.open /\ ~Top.skip
  BY <1>0, <1>4 DEF Local, ProgramOK, ExceptionOK, Serving
<1>6. Local(c, Len(stack))
  BY <1>2, <1>4, <1>5 DEF Local, ProgramOK, OpOK
<1>7. /\ StackOK(stack') /\ Len(stack') = Len(stack) /\ Top' = c
      /\ MasksOK(prioMask, stack')
      /\ ~rearmed => Climbs(stack')
  <2>1. (Raised(c) <=> Raised(Top)) /\ ~Raised(c) /\ c.pc \notin InRoutineOf
    BY <1>0, <1>2, <1>5 DEF Raised, InRoutineOf
  <2> QED BY <1>2, <1>3, <1>6, <2>1, QuietStep
<1>8. IrqTypeOK'
  BY <1>1, <1>7 DEF IInv, IrqTypeOK
<1>9. EnabledOK(Top)' /\ TableOK(Top)' /\ CauseOK(Top)'
  BY <1>0, <1>1, <1>2, <1>4, <1>5, <1>7
  DEF IInv, EnabledOK, TableOK, Registering, CauseOK
<1> QED
  BY <1>1, <1>4, <1>7, <1>8, <1>9 DEF IInv

-----------------------------------------------------------------------------
(* The program, between calls. *)
LEMMA BodyFacts ==
  ASSUME IInv, InBody
  PROVE  /\ Top.pc = "body" /\ Top.op.step = "idle" /\ ~Top.bad
         /\ Local(Top, Len(stack)) /\ ~Top.skip
         /\ pie \in BOOLEAN /\ (pie => Yields(Top))
         /\ Yields(Top) <=> Lets(Top)
<1>1. Local(Top, Len(stack))
  BY TopFacts
<1>2. pie \in BOOLEAN
  BY DEF IInv, IrqTypeOK
<1> QED
  BY <1>1, <1>2 DEF InBody, IInv, Local, Yields, Lets

LEMMA SectionBeginKeeps ==
  ASSUME IInv, SectionBegin
  PROVE  IInv'
<1>0. InBody /\ Top.kind = "program" /\ calls < MaxCalls /\ calls' = calls + 1
  BY DEF SectionBegin, InProgram
<1>1. /\ pie' = FALSE
      /\ UNCHANGED <<ienable, line, cpu, irqActive, prioMask, table, excHandler,
                     stray, rearmed, withdrawn, lost>>
  BY DEF SectionBegin, DisableAll, registry, history
<1>2. pie \in BOOLEAN
  BY <1>0, BodyFacts
<1> DEFINE c == [Top EXCEPT !.locked = TRUE, !.context = pie]
<1>3. /\ c \in Contexts
      /\ c.kind = Top.kind /\ c.pc = Top.pc /\ c.id = Top.id /\ c.open = Top.open
      /\ c.old = Top.old /\ c.estatus = Top.estatus /\ c.skip = Top.skip
      /\ c.bad = Top.bad /\ c.op = Top.op
  BY <1>2, TopFacts DEF Contexts
<1>4. SetTop(c)
  BY DEF SectionBegin
<1> HIDE DEF c
<1>5. /\ Top.pc = "body" /\ Top.op.step = "idle" /\ ~Top.bad
      /\ Local(Top, Len(stack)) /\ ~Top.skip
  BY <1>0, BodyFacts
<1>6. Local(c, Len(stack))
  BY <1>0, <1>3, <1>5 DEF Local, ProgramOK, ExceptionOK, OpOK
<1>7. Raised(c) <=> Raised(Top)
  BY <1>3 DEF Raised
<1>8. CauseOK(Top)'
  <2>1. Top' = c
    BY <1>3, <1>4, <1>6, TopStep
  <2> QED BY <1>3, <1>5, <2>1 DEF CauseOK
<1>9. line' \subseteq Irqs /\ calls' \in 0 .. MaxCalls
  BY <1>0, <1>1, IrqAssumption DEF IInv, IrqTypeOK
<1> QED
  BY <1>1, <1>3, <1>4, <1>5, <1>6, <1>7, <1>8, <1>9, QuietKeeps

LEMMA SectionEndKeeps ==
  ASSUME IInv, SectionEnd
  PROVE  IInv'
<1>0. InBody /\ Top.kind = "program"
  BY DEF SectionEnd, InProgram
<1>1. /\ pie' = Top.context
      /\ UNCHANGED <<ienable, line, cpu, irqActive, prioMask, table, excHandler, calls,
                     stray, rearmed, withdrawn, lost>>
  BY DEF SectionEnd, EnableAll, registry, history
<1> DEFINE c == [Top EXCEPT !.locked = FALSE]
<1>3. /\ c \in Contexts /\ Top.context \in BOOLEAN
      /\ c.kind = Top.kind /\ c.pc = Top.pc /\ c.id = Top.id /\ c.open = Top.open
      /\ c.old = Top.old /\ c.estatus = Top.estatus /\ c.skip = Top.skip
      /\ c.bad = Top.bad /\ c.op = Top.op /\ c.locked = FALSE
  BY TopFacts DEF Contexts
<1>4. SetTop(c)
  BY DEF SectionEnd
<1> HIDE DEF c
<1>5. /\ Top.pc = "body" /\ Top.op.step = "idle" /\ ~Top.bad
      /\ Local(Top, Len(stack)) /\ ~Top.skip
  BY <1>0, BodyFacts
<1>6. Local(c, Len(stack)) /\ Yields(c)
  BY <1>0, <1>3, <1>5 DEF Local, ProgramOK, ExceptionOK, OpOK, Yields
<1>7. Raised(c) <=> Raised(Top)
  BY <1>3 DEF Raised
<1>8. CauseOK(Top)'
  <2>1. Top' = c
    BY <1>3, <1>4, <1>6, TopStep
  <2> QED BY <1>3, <1>5, <2>1 DEF CauseOK
<1>9. line' \subseteq Irqs /\ calls' \in 0 .. MaxCalls
  BY <1>1 DEF IInv, IrqTypeOK
<1> QED
  BY <1>1, <1>3, <1>4, <1>5, <1>6, <1>7, <1>8, <1>9, QuietKeeps

LEMMA InstructionRegisterKeeps ==
  ASSUME IInv, NEW r \in {"none", "skip", "reissue"}, AltInstructionExceptionRegister(r)
  PROVE  IInv'
<1>1. /\ calls < MaxCalls /\ calls' = calls + 1 /\ excHandler' = r
      /\ UNCHANGED <<pie, ienable, line, cpu, irqActive, prioMask, table, stack,
                     stray, rearmed, withdrawn, lost>>
  BY DEF AltInstructionExceptionRegister, controller, registry, history
<1>2. IrqTypeOK
  BY DEF IInv
<1>3. calls' \in 0 .. MaxCalls
  BY <1>1, <1>2, IrqAssumption DEF IrqTypeOK
<1>4. IrqTypeOK'
  BY <1>1, <1>2, <1>3 DEF IrqTypeOK
<1>5. Top' = Top
  BY <1>1 DEF Top
<1>6. EnabledOK(Top)' /\ TableOK(Top)' /\ CauseOK(Top)'
  BY <1>1, <1>5 DEF IInv, EnabledOK, TableOK, CauseOK, Pending
<1> QED
  BY <1>1, <1>4, <1>5, <1>6 DEF IInv

LEMMA BadInstructionKeeps ==
  ASSUME IInv, ComeToBadInstruction
  PROVE  IInv'
<1>0. InBody /\ calls < MaxCalls /\ calls' = calls + 1
  BY DEF ComeToBadInstruction
<1>1. UNCHANGED <<pie, ienable, line, cpu, irqActive, prioMask, table, excHandler,
                  stray, rearmed, withdrawn, lost>>
  BY DEF ComeToBadInstruction, controller, registry, history
<1> DEFINE c == [Top EXCEPT !.bad = TRUE]
<1>3. /\ c \in Contexts
      /\ c.kind = Top.kind /\ c.pc = Top.pc /\ c.id = Top.id /\ c.open = Top.open
      /\ c.old = Top.old /\ c.estatus = Top.estatus /\ c.skip = Top.skip
      /\ c.locked = Top.locked /\ c.op = Top.op
  BY TopFacts DEF Contexts
<1>4. SetTop(c)
  BY DEF ComeToBadInstruction
<1> HIDE DEF c
<1>5. /\ Top.pc = "body" /\ Top.op.step = "idle"
      /\ Local(Top, Len(stack)) /\ ~Top.skip
      /\ pie \in BOOLEAN /\ (pie => Yields(Top))
  BY <1>0, BodyFacts
<1>6. Local(c, Len(stack)) /\ (pie => Yields(c))
  BY <1>3, <1>5 DEF Local, ProgramOK, ExceptionOK, OpOK, Yields
<1>7. Raised(c) <=> Raised(Top)
  BY <1>3 DEF Raised
<1>8. CauseOK(Top)'
  <2>1. Top' = c
    BY <1>3, <1>4, <1>6, TopStep
  <2> QED BY <1>3, <1>5, <2>1 DEF CauseOK
<1>9. line' \subseteq Irqs /\ calls' \in 0 .. MaxCalls
  BY <1>0, <1>1, IrqAssumption DEF IInv, IrqTypeOK
<1> QED
  BY <1>1, <1>3, <1>4, <1>5, <1>6, <1>7, <1>8, <1>9, QuietKeeps

(* The devices: a request withdrawn is remembered. *)
LEMMA DevicesKeep ==
  ASSUME IInv, NEW i \in Irqs, Request(i) \/ Withdraw(i)
  PROVE  IInv'
<1>1. /\ line' \subseteq Irqs /\ withdrawn' \in BOOLEAN
      /\ (line \subseteq line' /\ withdrawn' = withdrawn) \/ withdrawn'
      /\ withdrawn => withdrawn'
      /\ UNCHANGED <<pie, ienable, cpu, irqActive, prioMask, table, excHandler, stack,
                     calls, stray, rearmed, lost>>
  BY DEF Request, Withdraw, registry, history, IInv, IrqTypeOK
<1>2. IrqTypeOK'
  BY <1>1 DEF IInv, IrqTypeOK
<1>3. Top' = Top
  BY <1>1 DEF Top
<1>4. EnabledOK(Top)' /\ TableOK(Top)'
  BY <1>1, <1>3 DEF IInv, EnabledOK, TableOK
<1>5. Pending # {} \/ withdrawn => Pending' # {} \/ withdrawn'
  BY <1>1 DEF Pending
<1>6. CauseOK(Top)'
  BY <1>1, <1>3, <1>5 DEF IInv, CauseOK
<1> QED
  BY <1>1, <1>2, <1>3, <1>4, <1>6 DEF IInv

-----------------------------------------------------------------------------
(* An exception is taken only where its context may be left standing: with
   interrupts on, or at an instruction that failed. *)
LEMMA EnterKeeps ==
  ASSUME IInv, NEW fault \in BOOLEAN, Enter(fault), Frozen(Top), Len(stack) < MaxDepth,
         ~fault => pie /\ Pending # {}
  PROVE  IInv'
<1> DEFINE c == [Context EXCEPT !.kind = "exception", !.pc = "entry",
                                !.estatus = pie, !.fault = fault]
<1>1. pie \in BOOLEAN /\ (pie => Yields(Top))
  BY DEF IInv, IrqTypeOK
<1>2. NoOp \in Ops /\ NoOp.step = "idle" /\ NoOp.what = "none" /\ 0 \in Irqs
  BY IrqAssumption DEF NoOp, Ops, Irqs
<1>3. /\ c.kind = "exception" /\ c.pc = "entry" /\ ~c.open /\ c.estatus = pie
      /\ c.fault = fault /\ ~c.skip /\ ~c.bad /\ c.op = NoOp
  BY DEF Context
<1>4. c \in Contexts
  BY <1>1, <1>2 DEF Context, Contexts
<1>5. stack' = Append(stack, c)
  BY DEF Enter
<1>6. /\ pie' = FALSE
      /\ UNCHANGED <<ienable, line, cpu, irqActive, prioMask, table, excHandler, calls,
                     stray, rearmed, withdrawn, lost>>
  BY DEF Enter, registry, history
<1> HIDE DEF c
<1>7. Local(c, Len(stack) + 1) /\ ~Raised(c) /\ c.pc \notin InRoutineOf
  <2>1. Len(stack) + 1 # 1
    BY TopFacts
  <2> QED BY <1>2, <1>3, <2>1 DEF Local, ExceptionOK, OpOK, Serving, Raised, InRoutineOf
<1>8. StackOK(stack) /\ MasksOK(prioMask, stack) /\ (~rearmed => Climbs(stack))
  BY DEF IInv
<1>9. /\ StackOK(stack') /\ MasksOK(prioMask, stack')
      /\ Climbs(stack) => Climbs(stack')
      /\ stack'[Len(stack')] = c
  BY <1>1, <1>3, <1>4, <1>5, <1>7, <1>8, PushOK DEF Top
<1>10. Top' = c /\ Len(stack') \in 1 .. MaxDepth
  BY <1>9 DEF Top, StackOK
<1>11. IrqTypeOK'
  BY <1>6, <1>10 DEF IInv, IrqTypeOK
<1>12. EnabledOK(Top)'
  BY <1>2, <1>3, <1>6, <1>10 DEF IInv, EnabledOK, Frozen
<1>13. TableOK(Top)'
  BY <1>2, <1>3, <1>6, <1>10 DEF IInv, TableOK, Registering, Frozen
<1>14. CauseOK(Top)'
  BY <1>3, <1>6, <1>10 DEF CauseOK, Pending
<1> QED
  BY <1>6, <1>8, <1>9, <1>11, <1>12, <1>13, <1>14 DEF IInv

LEMMA TakeInterruptKeeps ==
  ASSUME IInv, TakeInterrupt
  PROVE  IInv'
<1>1. pie /\ Pending # {} /\ Len(stack) < MaxDepth /\ Enter(FALSE)
  BY DEF TakeInterrupt
<1>2. Frozen(Top)
  BY <1>1 DEF IInv, Yields, Frozen
<1> QED
  BY <1>1, <1>2, EnterKeeps

LEMMA TakeFaultKeeps ==
  ASSUME IInv, TakeFault
  PROVE  IInv'
<1>1. Top.bad /\ Len(stack) < MaxDepth /\ Enter(TRUE)
  BY DEF TakeFault
<1>2. Frozen(Top)
  BY <1>1, TopFacts DEF Local, OpOK, Frozen
<1> QED
  BY <1>1, <1>2, EnterKeeps

-----------------------------------------------------------------------------
(* An exception outside its routine: interrupts are off, and no call is under way. *)
LEMMA ServingFacts ==
  ASSUME IInv, Top.pc \in {"entry", "pending", "scan", "opening", "closing", "again", "exit"}
  PROVE  /\ Top.kind = "exception" /\ Len(stack) # 1 /\ ExceptionOK(Top)
         /\ pie = FALSE /\ Top.op.step = "idle" /\ ~Top.bad /\ OpOK(Top)
         /\ Top.skip => Top.pc = "exit"
<1>1. Local(Top, Len(stack)) /\ pie = FALSE /\ Top.op.step = "idle" /\ ~Top.bad
  BY IdleFacts
<1>2. ~ProgramOK(Top)
  BY DEF ProgramOK
<1> QED
  BY <1>1, <1>2 DEF Local, ExceptionOK

(* Steps of the exception entry and the dispatcher, of the kind that only moves on. *)
LEMMA DispatchKeeps ==
  ASSUME IInv, Top.pc \in {"entry", "pending", "again"},
         NEW pc \in {"pending", "scan", "exit"}, NEW active \in SUBSET Irqs,
         NEW skip \in BOOLEAN, NEW cured \in BOOLEAN,
         SetTop([Top EXCEPT !.pc = pc, !.active = active, !.skip = skip, !.cured = cured]),
         skip => pc = "exit",
         pc # "exit" => Top.estatus,
         pc = "pending" => Pending # {} \/ withdrawn,
         pc = "scan" => active \subseteq ienable /\ (active # {} \/ withdrawn),
         skip /\ ~Top.fault => withdrawn,
         UNCHANGED <<controller, cpu, registry, excHandler, calls, history>>
  PROVE  IInv'
<1>1. UNCHANGED <<pie, ienable, line, cpu, irqActive, prioMask, table, excHandler, calls,
                  stray, rearmed, withdrawn, lost>>
  BY DEF controller, registry, history
<1> DEFINE c == [Top EXCEPT !.pc = pc, !.active = active, !.skip = skip, !.cured = cured]
<1>2. /\ c.kind = Top.kind /\ c.pc = pc /\ c.id = Top.id /\ c.open = Top.open
      /\ c.old = Top.old /\ c.estatus = Top.estatus /\ c.skip = skip /\ c.active = active
      /\ c.locked = Top.locked /\ c.bad = Top.bad /\ c.op = Top.op /\ c.fault = Top.fault
  BY TopFacts DEF Contexts
<1>3. c \in Contexts
  BY TopFacts DEF Contexts
<1>4. SetTop(c)
  OBVIOUS
<1> HIDE DEF c
<1>5. /\ Top.kind = "exception" /\ Len(stack) # 1 /\ ExceptionOK(Top)
      /\ pie = FALSE /\ Top.op.step = "idle" /\ ~Top.bad /\ OpOK(Top)
  BY ServingFacts
<1>6. ~Top.open
  BY <1>5 DEF ExceptionOK
<1>7. Local(c, Len(stack))
  BY <1>2, <1>5, <1>6 DEF Local, ExceptionOK, OpOK, Serving
<1>8. ~Raised(c) /\ ~Raised(Top) /\ c.pc \notin InRoutineOf
  BY <1>2, <1>6 DEF Raised, InRoutineOf
<1>9. CauseOK(Top)'
  <2>1. Top' = c
    BY <1>2, <1>3, <1>4, <1>7, TopStep
  <2> QED BY <1>1, <1>2, <2>1 DEF CauseOK, Pending
<1>10. line' \subseteq Irqs /\ calls' \in 0 .. MaxCalls
  BY <1>1 DEF IInv, IrqTypeOK
<1> QED
  BY <1>1, <1>2, <1>3, <1>4, <1>5, <1>7, <1>8, <1>9, <1>10, QuietKeeps

LEMMA EntryKeeps ==
  ASSUME IInv, EntryInterrupt \/ EntryException \/ EntryBreak
  PROVE  IInv'
<1>0. Top.pc = "entry" /\ Top \in Contexts /\ ~Top.skip
  BY ServingFacts, TopFacts DEF EntryInterrupt, EntryException, EntryBreak
<1>1. /\ Top.active \in SUBSET Irqs /\ Top.cured \in BOOLEAN /\ Top.skip \in BOOLEAN
      /\ Top.fault \in BOOLEAN
  BY <1>0 DEF Contexts
<1>2. ~Top.fault => Top.estatus /\ (Pending # {} \/ withdrawn)
  BY <1>0 DEF IInv, CauseOK
<1>3. CASE EntryInterrupt
  <2>1. [Top EXCEPT !.pc = "pending"]
        = [Top EXCEPT !.pc = "pending", !.active = Top.active, !.skip = Top.skip,
                      !.cured = Top.cured]
    BY <1>0 DEF Contexts
  <2>2. SetTop([Top EXCEPT !.pc = "pending", !.active = Top.active, !.skip = Top.skip,
                           !.cured = Top.cured])
    BY <1>3, <2>1 DEF EntryInterrupt
  <2>3. Top.estatus /\ Pending # {}
    BY <1>3 DEF EntryInterrupt, IsInterrupt
  <2>4. UNCHANGED <<controller, cpu, registry, excHandler, calls, history>>
    BY <1>3 DEF EntryInterrupt
  <2> QED BY <1>0, <1>1, <2>2, <2>3, <2>4, DispatchKeeps
<1>4. CASE EntryException
  <2> DEFINE skip == excHandler = "skip"
             cured == Top.fault \/ excHandler = "skip"
  <2>1. [Top EXCEPT !.pc = "exit", !.skip = skip, !.cured = cured]
        = [Top EXCEPT !.pc = "exit", !.active = Top.active, !.skip = skip, !.cured = cured]
    BY <1>0 DEF Contexts
  <2>2. SetTop([Top EXCEPT !.pc = "exit", !.active = Top.active, !.skip = skip,
                           !.cured = cured])
    BY <1>4, <2>1 DEF EntryException
  <2>3. ~Top.fault => withdrawn
    BY <1>2, <1>4 DEF EntryException, IsInterrupt
  <2>4. UNCHANGED <<controller, cpu, registry, excHandler, calls, history>>
    BY <1>4 DEF EntryException
  <2>5. skip \in BOOLEAN /\ cured \in BOOLEAN
    BY <1>1
  <2> HIDE DEF skip, cured
  <2> QED BY <1>0, <1>1, <2>2, <2>3, <2>4, <2>5, DispatchKeeps
<1>5. CASE EntryBreak
  <2>1. /\ cpu' = "break"
        /\ UNCHANGED <<pie, ienable, line, irqActive, prioMask, table, excHandler, calls,
                       stack, stray, rearmed, withdrawn, lost>>
    BY <1>5 DEF EntryBreak, controller, registry, history
  <2>2. IrqTypeOK'
    BY <2>1 DEF IInv, IrqTypeOK
  <2>3. Top' = Top
    BY <2>1 DEF Top
  <2>4. EnabledOK(Top)' /\ TableOK(Top)' /\ CauseOK(Top)'
    BY <2>1, <2>3 DEF IInv, EnabledOK, TableOK, CauseOK, Pending
  <2> QED BY <2>1, <2>2, <2>3, <2>4 DEF IInv
<1> QED
  BY <1>3, <1>4, <1>5

LEMMA ReadKeeps ==
  ASSUME IInv, ReadPending \/ ReadAgain
  PROVE  IInv'
<1>0. Top.pc \in {"pending", "again"} /\ Top \in Contexts /\ ~Top.skip /\ Top.estatus
  BY ServingFacts, TopFacts DEF ReadPending, ReadAgain, ExceptionOK, Serving
<1>1. /\ Top.cured \in BOOLEAN /\ Top.skip \in BOOLEAN
      /\ Pending \in SUBSET Irqs /\ Pending \subseteq ienable
  BY <1>0 DEF Contexts, IInv, IrqTypeOK, Pending
<1>2. UNCHANGED <<controller, cpu, registry, excHandler, calls, history>>
  BY DEF ReadPending, ReadAgain
<1>3. ASSUME NEW pc \in {"scan", "exit"}, SetTop([Top EXCEPT !.active = Pending, !.pc = pc]),
             pc = "scan" => Pending # {} \/ withdrawn
      PROVE  IInv'
  <2>1. [Top EXCEPT !.active = Pending, !.pc = pc]
        = [Top EXCEPT !.pc = pc, !.active = Pending, !.skip = Top.skip, !.cured = Top.cured]
    BY <1>0 DEF Contexts
  <2>2. SetTop([Top EXCEPT !.pc = pc, !.active = Pending, !.skip = Top.skip,
                           !.cured = Top.cured])
    BY <1>3, <2>1
  <2> QED BY <1>0, <1>1, <1>2, <1>3, <2>2, DispatchKeeps
<1>4. CASE ReadPending
  <2>1. Pending # {} \/ withdrawn
    BY <1>4 DEF ReadPending, IInv, CauseOK
  <2>2. SetTop([Top EXCEPT !.active = Pending, !.pc = "scan"])
    BY <1>4 DEF ReadPending
  <2> QED BY <1>3, <2>1, <2>2
<1>5. CASE ReadAgain
  <2>1. SetTop([Top EXCEPT !.active = Pending,
                           !.pc = IF Pending = {} THEN "exit" ELSE "scan"])
    BY <1>5 DEF ReadAgain
  <2>2. CASE Pending = {}
    <3>1. SetTop([Top EXCEPT !.active = Pending, !.pc = "exit"])
      BY <2>1, <2>2
    <3> QED BY <1>3, <3>1
  <2>3. CASE Pending # {}
    <3>1. SetTop([Top EXCEPT !.active = Pending, !.pc = "scan"])
      BY <2>1, <2>3
    <3> QED BY <1>3, <2>3, <3>1
  <2> QED BY <2>2, <2>3
<1> QED
  BY <1>4, <1>5

(* Whatever stands between the program and a context being served is a routine
   that has let itself be interrupted. *)
LEMMA BelowOpen ==
  ASSUME IInv, Top.pc \in Serving, NEW j \in 2 .. Len(stack) - 1
  PROVE  stack[j].open /\ stack[j].pc = "body"
<1>1. Len(stack) \in Nat /\ StackOK(stack)
  BY TopFacts DEF IInv
<1>2. j \in 1 .. Len(stack) - 1 /\ j \in 1 .. Len(stack) /\ j # 1
  BY <1>1
<1>3. /\ Local(stack[j], j) /\ Frozen(stack[j])
      /\ stack[j + 1].estatus => Yields(stack[j])
  BY <1>1, <1>2 DEF StackOK
<1>4. stack[j + 1].estatus
  <2>1. CASE j + 1 = Len(stack)
    <3>1. Local(Top, Len(stack)) /\ Len(stack) # 1 /\ Top = stack[j + 1]
      BY <1>1, <2>1, TopFacts
    <3> QED BY <3>1 DEF Local, ExceptionOK
  <2>2. CASE j + 1 # Len(stack)
    <3>1. j + 1 \in 1 .. Len(stack) - 1 /\ j + 1 \in 1 .. Len(stack) /\ j + 1 # 1
      BY <1>1, <2>2
    <3>2. Local(stack[j + 1], j + 1) /\ Frozen(stack[j + 1])
      BY <1>1, <3>1 DEF StackOK
    <3> QED BY <3>1, <3>2 DEF Local, ExceptionOK, Frozen, Serving
  <2> QED BY <2>1, <2>2
<1> QED
  BY <1>2, <1>3, <1>4 DEF Local, ExceptionOK, Yields

(* What the dispatcher calls is enabled, and so of a higher priority than any
   routine below it. *)
LEMMA CallRoutineKeeps ==
  ASSUME IInv, CallRoutine
  PROVE  IInv'
<1>0. Top.pc = "scan" /\ Top.active # {}
  BY DEF CallRoutine
<1>1. UNCHANGED <<pie, ienable, line, cpu, irqActive, prioMask, table, excHandler, calls,
                  stray, rearmed, withdrawn, lost>>
  BY DEF CallRoutine, controller, registry, history
<1>2. Top.active \subseteq ienable /\ ienable \subseteq Irqs
  BY <1>0 DEF IInv, CauseOK, IrqTypeOK
<1>3. PICK i : i = Min(Top.active)
  OBVIOUS
<1>4. i \in Top.active /\ i \in ienable /\ i \in Irqs
  BY <1>0, <1>2, <1>3, MinFacts
<1> DEFINE c == [Top EXCEPT !.id = i, !.pc = "body", !.acked = FALSE]
<1>5. /\ c \in Contexts
      /\ c.kind = Top.kind /\ c.pc = "body" /\ c.id = i /\ c.open = Top.open
      /\ c.old = Top.old /\ c.estatus = Top.estatus /\ c.skip = Top.skip
      /\ c.locked = Top.locked /\ c.bad = Top.bad /\ c.op = Top.op
  BY <1>4, TopFacts DEF Contexts
<1>6. SetTop(c)
  BY <1>3 DEF CallRoutine
<1> HIDE DEF c
<1>7. /\ Top.kind = "exception" /\ Len(stack) # 1 /\ ExceptionOK(Top)
      /\ pie = FALSE /\ Top.op.step = "idle" /\ ~Top.bad /\ OpOK(Top) /\ ~Top.skip
  BY <1>0, ServingFacts
<1>8. Local(c, Len(stack)) /\ ~Raised(c) /\ ~Raised(Top)
  BY <1>0, <1>5, <1>7 DEF Local, ExceptionOK, OpOK, Serving, Raised
<1>9. StackOK(stack') /\ Len(stack') = Len(stack) /\ Top' = c
  BY <1>5, <1>6, <1>8, TopStep
<1>10. stack' = [stack EXCEPT ![Len(stack)] = c]
  BY <1>6 DEF SetTop
<1>11. StackOK(stack) /\ MasksOK(prioMask, stack)
  BY DEF IInv
<1>12. MasksOK(prioMask, stack')
  BY <1>5, <1>8, <1>10, <1>11, MasksQuiet DEF Top
<1>13. ASSUME ~rearmed PROVE Climbs(stack')
  <2>1. PICK n \in Nat : n = Len(stack) /\ n > 0
    BY TopFacts
  <2>2. Climbs(stack) /\ ienable \subseteq prioMask
    BY <1>13 DEF IInv, EnabledOK
  <2>3. stack \in Seq(Contexts) /\ Top = stack[n]
    BY <2>1, TopFacts
  <2>4. /\ Len(stack') = n /\ stack'[n] = c
        /\ \A k \in 1 .. n - 1 : stack'[k] = stack[k]
    BY <1>5, <1>10, <2>1, <2>3, ReplaceFacts
  <2>5. ASSUME NEW j \in 2 .. n - 1 PROVE stack[j].open /\ stack[j].pc = "body"
    BY <1>0, <2>1, <2>5, BelowOpen DEF Serving
  <2>6. ASSUME NEW j \in 2 .. n - 1 PROVE i < stack[j].id
    <3>1. PICK d \in Nat : d = n - 1 /\ d > 0 /\ d \in 2 .. n - 1 /\ d \in 1 .. Len(stack)
      BY <2>1, <2>6
    <3>2. Raised(stack[d])
      BY <2>5, <3>1 DEF Raised
    <3>3. stack[d].id \in Irqs /\ stack[j].id \in Irqs
      <4>1. stack[d] \in Contexts /\ stack[j] \in Contexts
        BY <2>1, <2>3, <2>6, <3>1
      <4> QED BY <4>1 DEF Contexts
    <3>4. Prevails(prioMask, stack, n) /\ ~Raised(stack[n])
      BY <1>8, <1>11, <2>1, <2>3 DEF MasksOK
    <3>5. Prevails(prioMask, stack, d)
      <4> HIDE DEF Raised, Prevails
      <4> QED BY <2>1, <3>1, <3>4, PrevailsBelow
    <3>6. prioMask = MaskOf(stack[d].id)
      <4> HIDE DEF Raised, Prevails
      <4> QED BY <3>1, <3>2, <3>5, PrevailsRaised
    <3>7. i < stack[d].id
      BY <1>4, <2>2, <3>6 DEF MaskOf
    <3>8. j # d => stack[d].id < stack[j].id
      <4>1. j \in 2 .. Len(stack) /\ d \in 2 .. Len(stack) /\ (j # d => j < d)
        BY <2>1, <2>6, <3>1
      <4>2. stack[j].pc \in InRoutineOf /\ stack[d].pc \in InRoutineOf
        BY <2>5, <2>6, <3>1 DEF InRoutineOf
      <4> QED BY <2>2, <4>1, <4>2 DEF Climbs
    <3>9. i \in Int /\ stack[d].id \in Int /\ stack[j].id \in Int
      BY <1>4, <3>3, IrqAssumption DEF Irqs
    <3> QED BY <3>7, <3>8, <3>9
  <2>7. ASSUME NEW j \in 2 .. n, NEW k \in 2 .. n, j < k,
               stack'[j].pc \in InRoutineOf, stack'[k].pc \in InRoutineOf
        PROVE  stack'[k].id < stack'[j].id
    <3>1. j \in 2 .. n - 1 /\ stack'[j] = stack[j]
      BY <2>4, <2>7
    <3>2. CASE k = n
      BY <1>5, <2>4, <2>6, <3>1, <3>2
    <3>3. CASE k # n
      <4>1. stack'[k] = stack[k]
        BY <2>4, <2>7, <3>3
      <4> QED BY <2>1, <2>2, <2>7, <3>1, <4>1 DEF Climbs
    <3> QED BY <3>2, <3>3
  <2> QED BY <2>4, <2>7 DEF Climbs
<1>14. IrqTypeOK'
  BY <1>1, <1>9 DEF IInv, IrqTypeOK
<1>15. EnabledOK(Top)' /\ TableOK(Top)' /\ CauseOK(Top)'
  BY <1>0, <1>1, <1>5, <1>7, <1>9
  DEF IInv, EnabledOK, TableOK, Registering, CauseOK
<1> QED
  BY <1>1, <1>7, <1>9, <1>12, <1>13, <1>14, <1>15 DEF IInv

-----------------------------------------------------------------------------
(* Steps of a routine that change its place, its acknowledgement and whether it
   is open, but not the mask. *)
LEMMA RoutineKeeps ==
  ASSUME IInv, Top.kind = "exception", Top.pc \in {"body", "opening"},
         Top.op.step = "idle", ~Top.bad, Top.pc = "body" => ~Top.skip,
         NEW pc \in {"body", "again", "closing"}, NEW open \in BOOLEAN,
         NEW acked \in BOOLEAN,
         SetTop([Top EXCEPT !.pc = pc, !.open = open, !.acked = acked]),
         open <=> Raised(Top),
         pc = "again" => ~open, pc = "closing" => open,
         pie' \in BOOLEAN, pie' => open /\ pc = "body", line' \subseteq Irqs,
         UNCHANGED <<ienable, cpu, registry, excHandler, calls, history>>
  PROVE  IInv'
<1>1. UNCHANGED <<ienable, cpu, irqActive, prioMask, table, excHandler, calls,
                  stray, rearmed, withdrawn, lost>>
  BY DEF registry, history
<1> DEFINE c == [Top EXCEPT !.pc = pc, !.open = open, !.acked = acked]
<1>2. /\ c.kind = Top.kind /\ c.pc = pc /\ c.id = Top.id /\ c.open = open
      /\ c.old = Top.old /\ c.estatus = Top.estatus /\ c.skip = Top.skip
      /\ c.locked = Top.locked /\ c.bad = Top.bad /\ c.op = Top.op
  BY TopFacts DEF Contexts
<1>3. c \in Contexts
  BY TopFacts DEF Contexts
<1>4. SetTop(c)
  OBVIOUS
<1> HIDE DEF c
<1>5. Local(Top, Len(stack)) /\ ExceptionOK(Top) /\ Len(stack) # 1 /\ ~Top.skip
  BY TopFacts DEF Local
<1>6. Local(c, Len(stack))
  BY <1>2, <1>5 DEF Local, ExceptionOK, OpOK, Serving
<1>7. (Raised(c) <=> Raised(Top)) /\ Top.pc \in InRoutineOf /\ (pie' => Yields(c))
  BY <1>2 DEF Raised, InRoutineOf, Yields
<1>8. CauseOK(Top)'
  <2>1. Top' = c
    BY <1>2, <1>3, <1>4, <1>6, TopStep
  <2> QED BY <1>2, <1>5, <2>1 DEF CauseOK
<1>9. calls' \in 0 .. MaxCalls
  BY <1>1 DEF IInv, IrqTypeOK
<1> QED
  BY <1>1, <1>2, <1>3, <1>4, <1>6, <1>7, <1>8, <1>9, QuietKeeps

LEMMA RoutineStepKeeps ==
  ASSUME IInv, Acknowledge \/ Open \/ Close \/ Return
  PROVE  IInv'
<1>1. Top \in Contexts /\ Top.open \in BOOLEAN /\ Top.acked \in BOOLEAN
  BY TopFacts DEF Contexts
<1>2. line \subseteq Irqs
  BY DEF IInv, IrqTypeOK
<1>3. CASE Acknowledge
  <2>1. InBody /\ Top.kind = "exception" /\ line' \subseteq Irqs
    BY <1>2, <1>3 DEF Acknowledge, InRoutine
  <2>2. SetTop([Top EXCEPT !.pc = "body", !.open = Top.open, !.acked = TRUE])
    <3>1. [Top EXCEPT !.acked = TRUE]
          = [Top EXCEPT !.pc = "body", !.open = Top.open, !.acked = TRUE]
      BY <1>1, <2>1, BodyFacts DEF Contexts
    <3> QED BY <1>3, <3>1 DEF Acknowledge
  <2>3. Top.open <=> Raised(Top)
    BY <2>1, BodyFacts DEF Raised
  <2>4. pie' \in BOOLEAN /\ (pie' => Top.open)
    BY <1>3, <2>1, BodyFacts DEF Acknowledge, Yields
  <2> QED
    BY <1>1, <1>3, <2>1, <2>2, <2>3, <2>4, BodyFacts, RoutineKeeps DEF Acknowledge
<1>4. CASE Open
  <2>1. /\ Top.kind = "exception" /\ Top.pc = "opening" /\ Top.op.step = "idle" /\ ~Top.bad
        /\ line' \subseteq Irqs
    BY <1>2, <1>4, ServingFacts DEF Open
  <2>2. SetTop([Top EXCEPT !.pc = "body", !.open = TRUE, !.acked = Top.acked])
    <3>1. [Top EXCEPT !.open = TRUE, !.pc = "body"]
          = [Top EXCEPT !.pc = "body", !.open = TRUE, !.acked = Top.acked]
      BY <1>1 DEF Contexts
    <3> QED BY <1>4, <3>1 DEF Open
  <2>3. Raised(Top) /\ pie' = TRUE
    BY <1>4, <2>1 DEF Raised, Open
  <2> QED
    BY <1>1, <1>4, <2>1, <2>2, <2>3, RoutineKeeps DEF Open
<1>5. CASE Close
  <2>1. InBody /\ Top.kind = "exception" /\ Top.open /\ line' \subseteq Irqs /\ pie' = FALSE
    BY <1>2, <1>5 DEF Close, InRoutine
  <2>2. SetTop([Top EXCEPT !.pc = "closing", !.open = TRUE, !.acked = Top.acked])
    <3>1. [Top EXCEPT !.pc = "closing"]
          = [Top EXCEPT !.pc = "closing", !.open = TRUE, !.acked = Top.acked]
      BY <1>1, <2>1 DEF Contexts
    <3> QED BY <1>5, <3>1 DEF Close
  <2>3. Raised(Top)
    BY <2>1 DEF Raised
  <2> QED
    BY <1>1, <1>5, <2>1, <2>2, <2>3, BodyFacts, RoutineKeeps DEF Close
<1>6. CASE Return
  <2>1. InBody /\ Top.kind = "exception" /\ ~Top.open /\ line' \subseteq Irqs
    BY <1>2, <1>6 DEF Return, InRoutine, controller
  <2>2. SetTop([Top EXCEPT !.pc = "again", !.open = FALSE, !.acked = Top.acked])
    <3>1. [Top EXCEPT !.pc = "again"]
          = [Top EXCEPT !.pc = "again", !.open = FALSE, !.acked = Top.acked]
      BY <1>1, <2>1 DEF Contexts
    <3> QED BY <1>6, <3>1 DEF Return
  <2>3. ~Raised(Top) /\ pie' = FALSE
    BY <1>6, <2>1, BodyFacts DEF Raised, Return, controller, Yields
  <2>4. UNCHANGED <<ienable, cpu, registry, excHandler, calls, history>>
    BY <1>6 DEF Return, controller
  <2> QED
    BY <1>1, <2>1, <2>2, <2>3, <2>4, BodyFacts, RoutineKeeps
<1> QED
  BY <1>3, <1>4, <1>5, <1>6

(* alt_irq_interruptible raises the mask; the one it found is what the routines
   below have made it. *)
LEMMA InterruptibleKeeps ==
  ASSUME IInv, Interruptible
  PROVE  IInv'
<1>0. /\ InBody /\ Top.kind = "exception" /\ ~Top.open /\ calls < MaxCalls
      /\ calls' = calls + 1
  BY DEF Interruptible, InRoutine
<1>1. /\ prioMask' = MaskOf(Top.id) /\ ienable' = irqActive \cap MaskOf(Top.id)
      /\ UNCHANGED <<pie, line, cpu, irqActive, table, excHandler,
                     stray, rearmed, withdrawn, lost>>
  BY DEF Interruptible, MaskOf, history
<1>2. IrqTypeOK
  BY DEF IInv
<1>3. prioMask \in SUBSET Irqs
  BY <1>2 DEF IrqTypeOK
<1> DEFINE c == [Top EXCEPT !.old = prioMask, !.pc = "opening"]
<1>4. /\ c \in Contexts
      /\ c.kind = Top.kind /\ c.pc = "opening" /\ c.id = Top.id /\ c.open = Top.open
      /\ c.old = prioMask /\ c.estatus = Top.estatus /\ c.skip = Top.skip
      /\ c.locked = Top.locked /\ c.bad = Top.bad /\ c.op = Top.op
  BY <1>3, TopFacts DEF Contexts
<1>5. SetTop(c)
  BY DEF Interruptible
<1> HIDE DEF c
<1>6. /\ Top.pc = "body" /\ Top.op.step = "idle" /\ ~Top.bad
      /\ Local(Top, Len(stack)) /\ ~Top.skip /\ pie = FALSE
  BY <1>0, BodyFacts DEF Yields
<1>7. Local(c, Len(stack)) /\ Raised(c) /\ ~Raised(Top)
  BY <1>0, <1>4, <1>6 DEF Local, ProgramOK, ExceptionOK, OpOK, Serving, Raised
<1>8. StackOK(stack') /\ Len(stack') = Len(stack) /\ Top' = c
  BY <1>4, <1>5, <1>7, TopStep
<1>9. stack' = [stack EXCEPT ![Len(stack)] = c]
  BY <1>5 DEF SetTop
<1>10. StackOK(stack) /\ MasksOK(prioMask, stack) /\ (~rearmed => Climbs(stack))
  BY DEF IInv
<1>11. PICK n \in Nat : n = Len(stack) /\ n > 0
  BY TopFacts
<1>12. MasksOK(prioMask', stack')
  <2>1. Prevails(prioMask, stack, n - 1)
    <3>1. Prevails(prioMask, stack, n) /\ ~Raised(stack[n])
      BY <1>7, <1>10, <1>11 DEF MasksOK, Top
    <3> HIDE DEF Raised, Prevails
    <3> QED BY <1>11, <3>1, PrevailsBelow
  <2>2. PICK m2 : m2 = prioMask'
    OBVIOUS
  <2>3. m2 = MaskOf(c.id) /\ Prevails(c.old, stack, Len(stack) - 1)
    BY <1>1, <1>4, <1>11, <2>1, <2>2
  <2> QED BY <1>4, <1>7, <1>9, <1>10, <2>2, <2>3, MasksTop
<1>13. ~rearmed => Climbs(stack')
  BY <1>4, <1>6, <1>9, <1>10, ClimbsQuiet DEF Top, InRoutineOf
<1>14. MaskOf(Top.id) \subseteq Irqs /\ MaskOf(Top.id) # AllPriorities
  BY MaskFacts, TopFacts DEF Contexts
<1>15. IrqTypeOK'
  <2>1. calls' \in 0 .. MaxCalls
    BY <1>0, <1>2, IrqAssumption DEF IrqTypeOK
  <2> QED BY <1>1, <1>2, <1>8, <1>14, <2>1 DEF IrqTypeOK
<1>16. EnabledOK(Top)'
  BY <1>1, <1>4, <1>6, <1>8, <1>14 DEF EnabledOK
<1>17. TableOK(Top)'
  BY <1>1, <1>4, <1>6, <1>8 DEF IInv, TableOK, Registering
<1>18. CauseOK(Top)'
  BY <1>4, <1>6, <1>8 DEF CauseOK
<1> QED
  BY <1>1, <1>6, <1>8, <1>12, <1>13, <1>15, <1>16, <1>17, <1>18 DEF IInv

(* alt_irq_non_interruptible gives it back; no mask of a routine lets every
   interrupt in, so with all of them let in there is no routine below. *)
LEMMA NonInterruptibleKeeps ==
  ASSUME IInv, NonInterruptible
  PROVE  IInv'
<1>0. Top.pc = "closing"
  BY DEF NonInterruptible
<1>1. /\ prioMask' = Top.old /\ ienable' = Top.old \cap irqActive
      /\ rearmed' = (rearmed /\ Top.old # AllPriorities)
      /\ UNCHANGED <<pie, line, cpu, irqActive, table, excHandler, calls,
                     stray, withdrawn, lost>>
  BY DEF NonInterruptible
<1>2. IrqTypeOK
  BY DEF IInv
<1>3. Top.old \in SUBSET Irqs
  BY TopFacts DEF Contexts
<1> DEFINE c == [Top EXCEPT !.open = FALSE, !.pc = "body"]
<1>4. /\ c \in Contexts
      /\ c.kind = Top.kind /\ c.pc = "body" /\ c.id = Top.id /\ c.open = FALSE
      /\ c.old = Top.old /\ c.estatus = Top.estatus /\ c.skip = Top.skip
      /\ c.locked = Top.locked /\ c.bad = Top.bad /\ c.op = Top.op
  BY TopFacts DEF Contexts
<1>5. SetTop(c)
  BY DEF NonInterruptible
<1> HIDE DEF c
<1>6. /\ Top.kind = "exception" /\ Len(stack) # 1 /\ ExceptionOK(Top)
      /\ pie = FALSE /\ Top.op.step = "idle" /\ ~Top.bad /\ OpOK(Top) /\ ~Top.skip
  BY <1>0, ServingFacts
<1>7. Local(c, Len(stack)) /\ ~Raised(c) /\ Raised(Top)
  BY <1>0, <1>4, <1>6 DEF Local, ExceptionOK, OpOK, Serving, Raised
<1>8. StackOK(stack') /\ Len(stack') = Len(stack) /\ Top' = c
  BY <1>4, <1>5, <1>7, TopStep
<1>9. stack' = [stack EXCEPT ![Len(stack)] = c]
  BY <1>5 DEF SetTop
<1>10. StackOK(stack) /\ MasksOK(prioMask, stack) /\ (~rearmed => Climbs(stack))
  BY DEF IInv
<1>11. PICK n \in Nat : n = Len(stack) /\ n > 0 /\ n \in 1 .. Len(stack)
  BY TopFacts
<1>12. Prevails(Top.old, stack, n - 1)
  BY <1>7, <1>10, <1>11 DEF MasksOK, Top
<1>13. MasksOK(prioMask', stack')
  <2>1. PICK m2 : m2 = prioMask'
    OBVIOUS
  <2>2. Prevails(m2, stack, Len(stack) - 1)
    BY <1>1, <1>11, <1>12, <2>1
  <2> QED BY <1>4, <1>7, <1>9, <1>10, <2>1, <2>2, MasksTop
<1>14. ~rearmed' => Climbs(stack')
  <2>1. CASE ~rearmed
    BY <1>0, <1>4, <1>9, <1>10, <2>1, ClimbsQuiet DEF Top, InRoutineOf
  <2>2. CASE Top.old = AllPriorities
    <3>1. n < 3
      <4>1. ASSUME n > 2 PROVE FALSE
        <5>1. PICK d \in Nat : d = n - 1 /\ d > 0 /\ d \in 2 .. Len(stack) - 1
                               /\ d \in 1 .. Len(stack)
          BY <1>11, <4>1
        <5>2. Raised(stack[d])
          BY <1>0, <5>1, BelowOpen DEF Raised, Serving
        <5>3. Prevails(AllPriorities, stack, d)
          BY <1>12, <2>2, <5>1
        <5>4. AllPriorities = MaskOf(stack[d].id)
          <6> HIDE DEF Raised, Prevails
          <6> QED BY <5>1, <5>2, <5>3, PrevailsRaised
        <5>5. stack[d].id \in Irqs
          <6>1. stack[d] \in Contexts
            BY <5>1, TopFacts
          <6> QED BY <6>1 DEF Contexts
        <5> QED BY <5>4, <5>5, MaskFacts
      <4> QED BY <4>1
    <3>2. Len(stack') = n
      BY <1>8, <1>11
    <3> QED BY <3>1, <3>2 DEF Climbs
  <2> QED BY <1>1, <2>1, <2>2
<1>15. IrqTypeOK'
  BY <1>1, <1>2, <1>3, <1>8 DEF IrqTypeOK
<1>16. EnabledOK(Top)'
  BY <1>1, <1>4, <1>6, <1>8 DEF EnabledOK
<1>17. TableOK(Top)'
  BY <1>1, <1>4, <1>6, <1>8 DEF IInv, TableOK, Registering
<1>18. CauseOK(Top)'
  BY <1>4, <1>6, <1>8 DEF CauseOK
<1> QED
  BY <1>1, <1>6, <1>8, <1>13, <1>14, <1>15, <1>16, <1>17, <1>18 DEF IInv

LEMMA ExitKeeps ==
  ASSUME IInv, Exit
  PROVE  IInv'
<1>0. Top.pc = "exit"
  BY DEF Exit
<1> DEFINE below == stack[Len(stack) - 1]
           b == below.bad /\ ~Top.cured
           c == [below EXCEPT !.bad = b]
<1>1. /\ pie' = Top.estatus
      /\ lost' = (lost \/ (Top.skip /\ ~Top.fault))
      /\ UNCHANGED <<ienable, line, cpu, irqActive, prioMask, table, excHandler, calls,
                     stray, rearmed, withdrawn>>
  BY DEF Exit, registry
<1>2. stack' = [SubSeq(stack, 1, Len(stack) - 1) EXCEPT ![Len(stack) - 1].bad = b]
  BY DEF Exit
<1>3. /\ Top.kind = "exception" /\ Len(stack) # 1 /\ ExceptionOK(Top)
      /\ Top.op.step = "idle"
  BY <1>0, ServingFacts
<1>4. /\ stack \in Seq(Contexts) /\ Len(stack) > 1 /\ Len(stack) \in Nat
      /\ Top \in Contexts /\ Top = stack[Len(stack)]
  <2>1. PICK n \in Nat : n = Len(stack) /\ n > 0 /\ n # 1
    BY <1>3, TopFacts
  <2>2. n > 1
    BY <2>1
  <2> QED BY <2>1, <2>2, TopFacts
<1>5. below \in Contexts /\ SubSeq(stack, 1, Len(stack) - 1)[Len(stack) - 1] = below
  BY <1>4
<1>6. b \in BOOLEAN /\ (b => below.bad)
  BY <1>4, <1>5 DEF Contexts
<1>7. stack' = [SubSeq(stack, 1, Len(stack) - 1) EXCEPT ![Len(stack) - 1] = c]
  BY <1>2, <1>5
<1>8. /\ c \in Contexts /\ c.pc = below.pc /\ c.op = below.op /\ c.skip = below.skip
  BY <1>5, <1>6 DEF Contexts
<1> HIDE DEF b
<1>9. /\ stack' \in Seq(Contexts) /\ Len(stack') = Len(stack) - 1
      /\ stack'[Len(stack) - 1] = c
      /\ \A k \in 1 .. Len(stack) - 2 : stack'[k] = stack[k]
  BY <1>4, <1>6, <1>7, PopFacts
<1>10. ~Raised(Top)
  BY <1>0, <1>3 DEF Raised, ExceptionOK
<1>11. StackOK(stack) /\ MasksOK(prioMask, stack) /\ (~rearmed => Climbs(stack))
  BY DEF IInv
<1>12. /\ StackOK(stack') /\ MasksOK(prioMask, stack')
       /\ Climbs(stack) => Climbs(stack')
       /\ Frozen(c)
       /\ Top.estatus => Yields(c)
  <2>1. PICK t : t = stack'
    OBVIOUS
  <2> QED BY <1>4, <1>6, <1>9, <1>10, <1>11, <2>1, PopOK
<1>13. Top' = c /\ Len(stack') \in 1 .. MaxDepth
  BY <1>9, <1>12 DEF Top, StackOK
<1>14. ~c.skip
  <2>1. PICK n \in Nat : n = Len(stack') /\ n \in 1 .. Len(stack')
    BY <1>4, <1>9
  <2>2. Local(c, n)
    BY <1>9, <1>12, <2>1 DEF StackOK
  <2> QED BY <1>12, <2>2 DEF Local, Frozen
<1> HIDE DEF c, below
<1>15. IrqTypeOK /\ Top.estatus \in BOOLEAN /\ Top.skip \in BOOLEAN /\ Top.fault \in BOOLEAN
  BY <1>4 DEF IInv, Contexts
<1>16. IrqTypeOK'
  BY <1>1, <1>13, <1>15 DEF IrqTypeOK
<1>17. EnabledOK(Top)'
  BY <1>0, <1>1, <1>3, <1>12, <1>13 DEF IInv, EnabledOK, Frozen
<1>18. TableOK(Top)'
  <2>1. TableOK(Top) /\ Top.pc # "boot"
    BY <1>0 DEF IInv
  <2>2. c.op.step = "idle"
    BY <1>12 DEF Frozen
  <2> QED BY <1>1, <1>3, <1>13, <2>1, <2>2 DEF TableOK, Registering, Written
<1>19. CauseOK(Top)'
  BY <1>12, <1>13, <1>14 DEF CauseOK, Frozen
<1>20. lost' => withdrawn'
  BY <1>1 DEF IInv, CauseOK
<1> QED
  BY <1>1, <1>11, <1>12, <1>13, <1>16, <1>17, <1>18, <1>19, <1>20 DEF IInv

-----------------------------------------------------------------------------
(* Every step keeps the invariant. *)
LEMMA NextKeeps ==
  ASSUME IInv, [IrqNext]_irqVars
  PROVE  IInv'
<1>1. CASE Devices
  BY <1>1, DevicesKeep DEF Devices
<1>2. CASE TakeInterrupt
  BY <1>2, TakeInterruptKeeps
<1>3. CASE Calls
  <2>1. ASSUME NEW i \in Irqs, NEW r \in Routines \cup {Null},
               AltIicIsrRegister(i, r) \/ AltIrqRegister(i, r)
        PROVE  IInv'
    BY <2>1, RegisterKeeps DEF AltIicIsrRegister, AltIrqRegister
  <2>2. ASSUME NEW i \in Irqs \cup {NIrq, NotConnected}, NEW r \in Routines, DriverInit(i, r)
        PROVE  IInv'
    <3>1. i \in Irqs
      BY <2>2, IrqAssumption DEF DriverInit, AltIicIsrRegister, Irqs
    <3>2. Register(i, r) /\ r \in Routines \cup {Null}
      BY <2>2 DEF DriverInit, AltIicIsrRegister
    <3> QED BY <3>1, <3>2, RegisterKeeps
  <2>3. ASSUME NEW i \in Irqs, AltIrqEnable(i) \/ AltIrqDisable(i)
        PROVE  IInv'
    BY <2>3, EnableKeeps, DisableKeeps
  <2>4. ASSUME NEW r \in {"none", "skip", "reissue"}, AltInstructionExceptionRegister(r)
        PROVE  IInv'
    BY <2>4, InstructionRegisterKeeps
  <2> QED
    BY <1>3, <2>1, <2>2, <2>3, <2>4, SectionBeginKeeps, BadInstructionKeeps DEF Calls
<1>4. CASE Interruptible
  BY <1>4, InterruptibleKeeps
<1>5. CASE Steps
  BY <1>5, BootMaskKeeps, BootEnableKeeps, StoreHandlerKeeps, StoreContextKeeps,
     NestedOffKeeps, StoreActiveKeeps, WriteIenableKeeps, NestedOnKeeps, RegisterOnKeeps,
     SectionEndKeeps, TakeFaultKeeps, EntryKeeps, ReadKeeps, CallRoutineKeeps, ExitKeeps,
     RoutineStepKeeps, NonInterruptibleKeeps
  DEF Steps
<1>6. CASE UNCHANGED irqVars
  <2>1. UNCHANGED <<pie, ienable, line, cpu, irqActive, prioMask, table, excHandler, stack,
                    calls, stray, rearmed, withdrawn, lost>>
    BY <1>6 DEF irqVars, controller, registry, history
  <2>2. Top' = Top /\ IrqTypeOK'
    BY <2>1 DEF Top, IInv, IrqTypeOK
  <2>3. EnabledOK(Top)' /\ TableOK(Top)' /\ CauseOK(Top)'
    BY <2>1, <2>2 DEF IInv, EnabledOK, TableOK, CauseOK, Pending
  <2> QED BY <2>1, <2>2, <2>3 DEF IInv
<1> QED
  BY <1>1, <1>2, <1>3, <1>4, <1>5, <1>6 DEF IrqNext

LEMMA InitHolds ==
  ASSUME IrqInit
  PROVE  IInv
<1>1. /\ NoOp \in Ops /\ NoOp.step = "idle" /\ NoOp.what = "none" /\ 0 \in Irqs
  BY IrqAssumption DEF NoOp, Ops, Irqs
<1>2. Context \in Contexts
  BY <1>1 DEF Context, Contexts
<1>3. /\ Context.kind = "program" /\ Context.pc = "boot" /\ ~Context.open
      /\ ~Context.skip /\ ~Context.bad /\ ~Context.locked /\ Context.op = NoOp
  BY DEF Context
<1>4. stack = <<Context>>
  BY DEF IrqInit
<1>5. /\ stack \in Seq(Contexts) /\ Len(stack) = 1 /\ stack[1] = Context
      /\ Len(stack) \in 1 .. MaxDepth
  BY <1>2, <1>4, IrqAssumption
<1> HIDE DEF Context
<1>6. Top = Context
  BY <1>5 DEF Top
<1>7. Local(Context, 1) /\ ~Raised(Context)
  BY <1>1, <1>3 DEF Local, ProgramOK, OpOK, Raised
<1>8. StackOK(stack)
  BY <1>5, <1>7 DEF StackOK
<1>9. MasksOK(prioMask, stack)
  BY <1>5, <1>7 DEF MasksOK, Prevails, IrqInit
<1>10. Climbs(stack)
  BY <1>5 DEF Climbs
<1>11. IrqTypeOK
  <2>1. calls \in 0 .. MaxCalls
    BY IrqAssumption DEF IrqInit
  <2>2. table \in [Irqs -> [handler : Routines \cup {Null}, context : Routines \cup {Null}]]
    BY DEF IrqInit
  <2> QED BY <1>5, <2>1, <2>2 DEF IrqInit, IrqTypeOK, AllPriorities
<1>12. EnabledOK(Top)
  BY <1>3, <1>6, <1>11 DEF EnabledOK, IrqInit, IrqTypeOK, AllPriorities
<1>13. TableOK(Top)
  BY <1>1, <1>3, <1>6, <1>11 DEF TableOK, IrqInit, IrqTypeOK, Registering
<1>14. CauseOK(Top)
  BY <1>3, <1>6 DEF CauseOK
<1> QED
  BY <1>8, <1>9, <1>10, <1>11, <1>12, <1>13, <1>14 DEF IInv, IrqInit

(* The invariant is inductive. *)
LEMMA Invariant == IrqSpec => []IInv
<1>1. IrqInit => IInv
  BY InitHolds
<1>2. IInv /\ [IrqNext]_irqVars => IInv'
  BY NextKeeps
<1> QED
  BY <1>1, <1>2, PTL DEF IrqSpec

-----------------------------------------------------------------------------
(* A routine is called only above a context that let interrupts in. *)
LEMMA InvSections ==
  ASSUME IInv
  PROVE  SectionsHold
<1> SUFFICES ASSUME NEW k \in 1 .. Len(stack) - 1, stack[k + 1].pc \in Serving
             PROVE  Yields(stack[k])
  BY DEF SectionsHold, Serving
<1>1. StackOK(stack) /\ Len(stack) \in Nat
  BY TopFacts DEF IInv
<1>2. k + 1 \in 1 .. Len(stack) /\ k + 1 # 1
  BY <1>1
<1>3. stack[k + 1].estatus
  BY <1>1, <1>2 DEF StackOK, Local, ExceptionOK
<1> QED
  BY <1>1, <1>3 DEF StackOK

(* Between calls the masks agree; in the program nothing has raised them. *)
LEMMA InvMasks ==
  ASSUME IInv
  PROVE  MasksAgree
<1>1. ASSUME InBody, ~rearmed PROVE ienable = irqActive \cap prioMask
  BY <1>1 DEF IInv, EnabledOK, InBody
<1>2. ASSUME InProgram PROVE prioMask = AllPriorities /\ ienable = irqActive
  <2>1. InBody /\ Len(stack) = 1 /\ ~Raised(stack[1])
    <3>1. InBody /\ Top.kind = "program" /\ Top.pc = "body"
      BY <1>2 DEF InProgram, InBody
    <3>2. Len(stack) = 1 /\ ~Top.open /\ Top = stack[1]
      BY <3>1, TopFacts DEF ProgramOK
    <3> QED BY <3>1, <3>2 DEF Raised
  <2>2. Prevails(prioMask, stack, 1)
    BY <2>1 DEF IInv, MasksOK
  <2>3. prioMask = AllPriorities
    BY <2>1, <2>2 DEF Prevails
  <2>4. ~rearmed
    BY <2>3 DEF IInv, EnabledOK
  <2> QED BY <1>1, <2>1, <2>3, <2>4 DEF IInv, IrqTypeOK, AllPriorities
<1> QED
  BY <1>1, <1>2 DEF MasksAgree

(* The types hold, critical sections are kept, priorities respected between
   interrupts enabled or disabled, the processor's mask agrees with the registry,
   nothing is stored past the table, and the dispatcher spins, or an instruction
   is lost, only after a request was withdrawn (alt_iic.c, alt_irq_entry.S,
   alt_irq_handler.c, alt_irq.h). *)
THEOREM IrqCorrect == IrqSpec => []IrqInv
<1>1. ASSUME IInv PROVE IrqInv
  <2>1. PriorityRespected
    BY <1>1 DEF IInv, Climbs, PriorityRespected, InRoutineOf
  <2>2. SpinsOnlyIfWithdrawn
    BY <1>1 DEF IInv, CauseOK, SpinsOnlyIfWithdrawn
  <2>3. IrqTypeOK /\ TableHolds /\ LostOnlyIfWithdrawn
    BY <1>1 DEF IInv, TableHolds, LostOnlyIfWithdrawn
  <2> QED BY <1>1, <2>1, <2>2, <2>3, InvSections, InvMasks DEF IrqInv
<1>2. IInv => IrqInv
  BY <1>1
<1> QED
  BY <1>2, Invariant, PTL

(* A routine is called only while its interrupt is enabled and registered, and
   with the context registered with it, although the two are stored one after
   the other (alt_irq_handler against alt_iic_isr_register). *)
THEOREM RoutinesAsRegistered == IrqSpec => RoutinesWanted
<1>1. ASSUME IInv, CallRoutine
      PROVE  /\ Top'.id \in ienable
             /\ table[Top'.id].handler # Null
             /\ table[Top'.id].context = table[Top'.id].handler
  <2>1. Top.pc = "scan" /\ Top.active # {}
    BY <1>1 DEF CallRoutine
  <2>2. Top.active \subseteq ienable /\ ienable \subseteq Irqs
    BY <1>1, <2>1 DEF IInv, CauseOK, IrqTypeOK
  <2>3. PICK i : i = Min(Top.active)
    OBVIOUS
  <2>4. i \in ienable /\ i \in Irqs
    BY <2>1, <2>2, <2>3, MinFacts
  <2>5. Top'.id = i
    <3> DEFINE c == [Top EXCEPT !.id = i, !.pc = "body", !.acked = FALSE]
    <3>1. c \in Contexts /\ c.id = i
      BY <1>1, <2>4, TopFacts DEF Contexts
    <3>2. stack' = [stack EXCEPT ![Len(stack)] = c]
      BY <1>1, <2>3 DEF CallRoutine, SetTop
    <3> HIDE DEF c
    <3>3. stack'[Len(stack')] = c
      BY <1>1, <3>1, <3>2, TopFacts, ReplaceFacts
    <3> QED BY <3>1, <3>3 DEF Top
  <2>6. Top.op.step = "idle"
    BY <1>1, <2>1, IdleFacts
  <2> QED BY <1>1, <2>1, <2>4, <2>5, <2>6 DEF IInv, TableOK, Registering
<1>2. IInv /\ [IrqNext]_irqVars =>
        [CallRoutine => LET i == Top'.id IN
           /\ i \in ienable
           /\ table[i].handler # Null
           /\ table[i].context = table[i].handler]_irqVars
  BY <1>1
<1> QED
  BY <1>2, Invariant, PTL DEF IrqSpec, RoutinesWanted

=============================================================================
