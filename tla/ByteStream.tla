----------------------------- MODULE ByteStream -----------------------------
(***************************************************************************)
(* What one direction of a buffered byte device promises: a bounded first- *)
(* in first-out stream between a source and a sink.  The source holds what *)
(* it still wants to hand over, and counts what was accepted of it; it may *)
(* give up the rest at any time, and with it the count.  The sink holds     *)
(* what it has been given since it last emptied its hands.                 *)
(***************************************************************************)
EXTENDS Integers, Sequences

CONSTANTS
  Bytes,      \* what is carried
  Capacity    \* bytes under way at most, a natural number

VARIABLES src, accepted, queue, snk

streamVars == <<src, accepted, queue, snk>>

First(s, k) == SubSeq(s, 1, k)
Rest(s, k) == SubSeq(s, k + 1, Len(s))

Init == src = <<>> /\ accepted \in Nat /\ queue = <<>> /\ snk = <<>>

(* The source changes its mind about what to hand over. *)
Offer == src' \in Seq(Bytes) /\ accepted' = 0 /\ UNCHANGED <<queue, snk>>

Put(k) ==
  /\ Len(queue) + k <= Capacity
  /\ queue' = queue \o First(src, k)
  /\ src' = Rest(src, k)
  /\ accepted' = accepted + k
  /\ UNCHANGED snk

(* The sink adds to what it has, or starts afresh. *)
Take(k) ==
  /\ queue' = Rest(queue, k)
  /\ snk' \in {First(queue, k), snk \o First(queue, k)}
  /\ UNCHANGED <<src, accepted>>

Collect == snk' = <<>> /\ UNCHANGED <<src, accepted, queue>>

Next ==
  \/ Offer
  \/ \E k \in 1 .. Len(src) : Put(k)
  \/ \E k \in 1 .. Len(queue) : Take(k)
  \/ Collect

Spec == Init /\ [][Next]_streamVars
=============================================================================
