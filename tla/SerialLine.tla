----------------------------- MODULE SerialLine -----------------------------
(***************************************************************************)
(* What an asynchronous serial transmitter promises, clock cycle by clock  *)
(* cycle: it takes one byte at a time, sends it exactly once as a start    *)
(* bit (low), the data bits (least significant first) and a stop bit       *)
(* (high), each bit holding the line for divisor + 1 cycles, and rests     *)
(* high between frames.  The edges of a real line drift: every bit         *)
(* boundary may be early or late, as long as the accumulated error, skew,  *)
(* stays within MaxSkew cycles.                                            *)
(*                                                                         *)
(* Two things are compared with this module: the TX half of FpgaUart       *)
(* implements it with MaxSkew = 0, and SerialLink uses it as the far end   *)
(* whose frames the RX half must decode.                                   *)
(***************************************************************************)
EXTENDS Integers

CONSTANTS
  DataBits,   \* data bits of a frame (8 in the code)
  Byte,       \* the set of data words, functions from 0 .. DataBits-1 to bits
  Divisors,   \* the bit periods, less one, a frame may be sent with
  MaxSkew,    \* largest accumulated displacement of a bit boundary, in cycles
  NoByte      \* "no word"

VARIABLES
  pending,    \* the word accepted and not yet begun, or NoByte
  frame,      \* the word being sent, or NoByte
  phase,      \* 0 at rest, 1 start bit, 2 .. DataBits+1 data, DataBits+2 stop
  elapsed,    \* cycles the present bit has already been held
  skew,       \* displacement of the last boundary from its nominal cycle
  divisor,    \* bit period less one of this frame, 0 at rest
  line        \* the level of the wire

lineVars == <<pending, frame, phase, elapsed, skew, divisor, line>>

STOP == DataBits + 2

(* The level a frame of word w puts on the wire in phase p. *)
Level(w, p) ==
  IF p = 1 THEN 0 ELSE IF p \in 2 .. DataBits + 1 THEN w[p - 2] ELSE 1

Rest ==
  /\ phase = 0 /\ frame = NoByte /\ elapsed = 0 /\ skew = 0 /\ divisor = 0
  /\ line = 1

Init == Rest /\ pending = NoByte

(* A word is handed over; the previous one has left completely. *)
Accept ==
  /\ pending = NoByte
  /\ phase = 0
  /\ pending' \in Byte
  /\ UNCHANGED <<frame, phase, elapsed, skew, divisor, line>>

Begin ==
  /\ pending # NoByte
  /\ phase = 0
  /\ frame' = pending
  /\ pending' = NoByte
  /\ divisor' \in Divisors
  /\ phase' = 1
  /\ line' = Level(frame', 1)
  /\ elapsed' = 0
  /\ skew' = 0

Hold ==
  /\ phase # 0
  /\ skew + elapsed < divisor + MaxSkew
  /\ elapsed' = elapsed + 1
  /\ UNCHANGED <<pending, frame, phase, skew, divisor, line>>

(* The displacement a boundary would have if it fell in the present cycle. *)
Displacement == skew + elapsed - divisor
OnTime == Displacement \in -MaxSkew .. MaxSkew

Advance ==
  /\ phase \in 1 .. DataBits + 1
  /\ OnTime
  /\ skew' = Displacement
  /\ phase' = phase + 1
  /\ line' = Level(frame, phase')
  /\ elapsed' = 0
  /\ UNCHANGED <<pending, frame, divisor>>

Finish ==
  /\ phase = STOP
  /\ OnTime
  /\ frame' = NoByte /\ phase' = 0 /\ elapsed' = 0 /\ skew' = 0 /\ divisor' = 0
  /\ UNCHANGED <<pending, line>>

(* Reset of the transmitter: whatever was accepted or in flight is given up. *)
Abort ==
  /\ pending' = NoByte
  /\ frame' = NoByte /\ phase' = 0 /\ elapsed' = 0 /\ skew' = 0 /\ divisor' = 0
  /\ line' = 1

Step == Accept \/ Begin \/ Hold \/ Advance \/ Finish

Next == Step \/ Abort

Spec == Init /\ [][Next]_lineVars
=============================================================================
