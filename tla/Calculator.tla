----------------------------- MODULE Calculator -----------------------------
(***************************************************************************)
(* The program of hello_world.c: a calculator spoken to over the serial    *)
(* line, which echoes keys, and answers a line "a+b" with "=" and the sum. *)
(*                                                                         *)
(* The peripheral is seen at the grain of a frame: its status flags, the   *)
(* byte received and the byte being transmitted.  The byte's flag is       *)
(* raised and taken down as FlagHistory shows for a master that does not   *)
(* read while the end of a frame is sampled (that the program does not, for *)
(* this user, is property CarefulReader).  Its writes do fall anywhere: a  *)
(* request to clear the error flag may take the error of the frame then    *)
(* ending with it, and here it may too.  Every access the program makes to *)
(* a register that the other side also changes is a step.                  *)
(*                                                                         *)
(* The person at the terminal is external: types a key when the answer to  *)
(* the last one has begun to appear, and after a line feed, which has none, *)
(* when it has been read.  Keys are ASCII codes.                           *)
(***************************************************************************)
EXTENDS Integers, Sequences, SequencesExt, FiniteSetsExt

CONSTANTS
  Keys,       \* the keys typed
  MaxKeys,    \* bound: keys typed in all
  WordMod,    \* number of values of a long
  Noise       \* may a frame arrive with a bad stop bit?

ASSUME CalculatorAssumption ==
  /\ Keys \subseteq 0 .. 127
  /\ MaxKeys \in Nat
  /\ WordMod \in Nat /\ WordMod > 1 /\ WordMod % 2 = 0
  /\ Noise \in {{FALSE}, BOOLEAN}

VARIABLES
  \* the peripheral
  available, received, error, clearing, pending,
  \* the person: the key on its way, what was typed and what was shown
  coming, typed, shown,
  \* the program
  pc, State, NumberA, NumberB, key, out

uart == <<available, received, error, clearing, pending>>
person == <<coming, typed, shown>>
numbers == <<State, NumberA, NumberB>>
program == <<pc, numbers, key, out>>
vars == <<uart, person, program>>

None == -1
NL == 10
CR == 13
PLUS == 43
EQUALS == 61
ASCII0 == 48

(* Two's complement of the width of a long. *)
Wrap(n) == ((n + WordMod \div 2) % WordMod) - WordMod \div 2

(* itoa, in base 10. *)
Decimal[n \in Int] ==
  IF n < 0 THEN <<45>> \o Decimal[-n]
  ELSE IF n < 10 THEN <<ASCII0 + n>>
  ELSE Append(Decimal[n \div 10], ASCII0 + (n % 10))

-----------------------------------------------------------------------------
(* The person at the terminal, and what is expected for what was typed: of  *)
(* the keys since the last carriage return, line feeds left out, those      *)
(* before the first plus make one number and those after it the other.     *)
OnLine(ks) ==
  {j \in DOMAIN ks : ks[j] # NL /\ \A m \in j .. Len(ks) : ks[m] # CR}
Pluses(ks) == {j \in OnLine(ks) : ks[j] = PLUS}
Left(ks) == {j \in OnLine(ks) : \A m \in Pluses(ks) : j < m}
Right(ks) == {j \in OnLine(ks) \ Pluses(ks) : \E m \in Pluses(ks) : m < j}

(* The number whose digits are the keys at these places. *)
Value(ks, places) ==
  LET upTo[j \in 0 .. Len(ks)] ==
        IF j = 0 THEN 0
        ELSE IF j \in places THEN 10 * upTo[j - 1] + ks[j] - ASCII0
        ELSE upTo[j - 1]
  IN upTo[Len(ks)]

(* The number a long can hold that is equal to n but for its width. *)
Fitting(n) ==
  CHOOSE v \in -(WordMod \div 2) .. WordMod \div 2 - 1 : (v - n) % WordMod = 0

SumOf(ks) == Fitting(Value(ks, Left(ks)) + Value(ks, Right(ks)))

(* What key k is answered with after the keys ks. *)
Response(ks, k) ==
  CASE k = NL -> <<>>
    [] k = CR -> <<EQUALS>> \o Decimal[SumOf(ks)] \o <<CR, NL>>
    [] OTHER -> <<k>>

Expected(ks) ==
  FlattenSeq([i \in DOMAIN ks |-> Response(SubSeq(ks, 1, i - 1), ks[i])])

MayType ==
  \/ typed = <<>>
  \/ /\ typed # <<>> /\ coming = None
     /\ IF Last(typed) = NL THEN ~available
        ELSE Len(shown) > Len(Expected(Front(typed)))

Type(k) ==
  /\ Len(typed) < MaxKeys /\ MayType
  /\ coming' = k
  /\ typed' = Append(typed, k)
  /\ UNCHANGED <<shown, uart, program>>

-----------------------------------------------------------------------------
(* The peripheral: a frame is received, an error flag falls after it was    *)
(* asked to, a frame is sent.                                              *)
Arrive(bad) ==
  /\ coming # None
  /\ received' = coming
  /\ available' = TRUE
  /\ error' = (error \/ bad)
  /\ coming' = None
  /\ UNCHANGED <<clearing, pending, typed, shown, program>>

Cleared ==
  /\ clearing
  /\ clearing' = FALSE /\ error' = FALSE
  /\ UNCHANGED <<available, received, pending, person, program>>

Transmitted ==
  /\ pending # None
  /\ shown' = Append(shown, pending)
  /\ pending' = None
  /\ UNCHANGED <<available, received, error, clearing, coming, typed, program>>

-----------------------------------------------------------------------------
(* main *)
PollError ==
  /\ pc = "error"
  /\ pc' = IF error THEN "clear" ELSE "available"
  /\ UNCHANGED <<uart, numbers, key, out>>

ClearErrorNot ==   \* variant: the error is printed only
  /\ pc = "clear"
  /\ pc' = "available"
  /\ UNCHANGED <<uart, numbers, key, out>>

(* The peripheral obeys a write only while it is not transmitting. *)
ClearError ==
  /\ pc = "clear"
  /\ clearing' = (clearing \/ pending = None)
  /\ pc' = "available"
  /\ UNCHANGED <<available, received, error, pending, numbers, key, out>>

PollAvailable ==
  /\ pc = "available"
  /\ pc' = IF available THEN "read" ELSE "error"
  /\ UNCHANGED <<uart, numbers, key, out>>

ReadFlagStays ==   \* variant: reading does not take the flag down
  /\ pc = "read"
  /\ key' = received
  /\ pc' = IF received = NL THEN "error" ELSE "branch"
  /\ UNCHANGED <<uart, numbers, out>>

ReadByte ==
  /\ pc = "read"
  /\ key' = received
  /\ available' = FALSE
  /\ pc' = IF received = NL THEN "error" ELSE "branch"
  /\ UNCHANGED <<received, error, clearing, pending, numbers, out>>

Echo ==
  /\ pc = "branch" /\ key # CR
  /\ out' = <<key>>
  /\ pc' = "send"
  /\ UNCHANGED <<uart, numbers, key>>

AnswerStateStays ==   \* variant: the next line still goes to the second number
  /\ pc = "branch" /\ key = CR
  /\ out' = <<EQUALS>> \o Decimal[Wrap(NumberA + NumberB)] \o <<CR, NL>>
  /\ pc' = "send"
  /\ UNCHANGED <<uart, numbers, key>>

Answer ==
  /\ pc = "branch" /\ key = CR
  /\ State' = 0
  /\ out' = <<EQUALS>> \o Decimal[Wrap(NumberA + NumberB)] \o <<CR, NL>>
  /\ pc' = "send"
  /\ UNCHANGED <<uart, NumberA, NumberB, key>>

SendNow ==   \* variant: without waiting for the transmitter
  /\ pc = "send"
  /\ pending' = IF pending = None THEN Head(out) ELSE pending
  /\ out' = Tail(out)
  /\ pc' = IF Len(out) = 1 THEN "done" ELSE "send"
  /\ UNCHANGED <<available, received, error, clearing, numbers, key>>

Send ==
  /\ pc = "send" /\ pending = None
  /\ pending' = Head(out)
  /\ out' = Tail(out)
  /\ pc' = IF Len(out) = 1 THEN "done" ELSE "send"
  /\ UNCHANGED <<available, received, error, clearing, numbers, key>>

Accumulate(number) == Wrap(Wrap(number * 10) + key - ASCII0)

(* What is left to do for the key, and what is printed on the console. *)
DoneAnswer == key = CR /\ NumberA' = 0 /\ NumberB' = 0 /\ UNCHANGED State
DonePlus == key = PLUS /\ State' = 1 /\ UNCHANGED <<NumberA, NumberB>>
DoneDigit ==
  /\ key \notin {CR, PLUS}
  /\ IF State = 0
     THEN NumberA' = Accumulate(NumberA) /\ UNCHANGED NumberB
     ELSE NumberB' = Accumulate(NumberB) /\ UNCHANGED NumberA
  /\ UNCHANGED State
Done ==
  /\ pc = "done"
  /\ DoneAnswer \/ DonePlus \/ DoneDigit
  /\ pc' = "error"
  /\ UNCHANGED <<uart, key, out>>

Main ==
  /\ \/ PollError \/ ClearError \/ PollAvailable \/ ReadByte
     \/ Echo \/ Answer \/ Send \/ Done
  /\ UNCHANGED person

-----------------------------------------------------------------------------
Init ==
  /\ available = FALSE /\ received = 0 /\ error = FALSE
  /\ clearing \in BOOLEAN     \* no reset branch assigns it
  /\ pending = None
  /\ coming = None /\ typed = <<>> /\ shown = <<>>
  /\ pc = "error" /\ State = 0 /\ NumberA = 0 /\ NumberB = 0
  /\ key = 0 /\ out = <<>>

Next ==
  \/ \E k \in Keys : Type(k)
  \/ \E bad \in Noise : Arrive(bad)
  \/ Cleared
  \/ Transmitted
  \/ Main

(* Frames end, and the console takes what the program prints. *)
Fairness ==
  /\ WF_vars(\E bad \in Noise : Arrive(bad))
  /\ WF_vars(Cleared)
  /\ WF_vars(Transmitted)
  /\ WF_vars(Main)
Spec == Init /\ [][Next]_vars /\ Fairness

-----------------------------------------------------------------------------
(* The dialogue is the one expected for what was typed: every key echoed    *)
(* once and in order, every line answered with the sum of its two numbers,  *)
(* exact but for the width of a long, whatever came before it, however the  *)
(* polling, the transmitter and the typing interleave; and nothing is left  *)
(* out once the program is back to polling with nothing under way.         *)
AtRest ==
  /\ pc \in {"error", "available"}
  /\ ~available /\ pending = None /\ coming = None
AnswerIsSum ==
  /\ IsPrefix(shown, Expected(typed))
  /\ AtRest => shown = Expected(typed)

(* The program takes the received byte while no frame is on the wire, so    *)
(* never while the end of one is sampled, which is what FlagHistory's       *)
(* CarefulSpec asks of a master's reads; and no frame arrives over a byte   *)
(* that has not been read.                                                 *)
CarefulReader ==
  [][/\ ReadByte => coming = None
     /\ coming # None /\ coming' = None => ~available]_vars

(* Every key is answered in full. *)
Answered == shown # Expected(typed) ~> shown = Expected(typed)

(* An error does not stay reported, although the write that clears it is   *)
(* lost while a byte is being transmitted.                                 *)
ErrorPasses == error ~> ~error
=============================================================================
