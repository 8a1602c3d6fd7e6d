---------------------------- MODULE SerialLink ------------------------------
(***************************************************************************)
(* A serial link end to end: a far transmitter (SerialLine, with edges     *)
(* that drift), the UART receiving from it (FpgaUart), and the processor   *)
(* polling the UART over the Avalon bus (the reading half of main() in     *)
(* hello_world.c).  All three advance at every clock edge.                 *)
(*                                                                         *)
(* A bus read takes two edges with the address held (readWaitTime 1 in     *)
(* fpga_UART_hw.tcl): at the second one the master takes what the          *)
(* peripheral drove at the first.  Between two reads the program does      *)
(* other work for at most MaxAway cycles, during which other devices may   *)
(* be addressed: the address lines carry anything.                         *)
(***************************************************************************)
EXTENDS FpgaUart, Sequences

CONSTANTS
  MaxSkew,    \* drift of the far transmitter's edges, in cycles
  MaxAway,    \* longest absence of the program from the bus, in cycles
  Backlog     \* bytes the history keeps (the transmitter waits beyond)

VARIABLES
  farPending, farFrame, farPhase, farElapsed, farSkew, farDivisor, farLine,
  goal,       \* register the program reads next: "flag" (4) or "byte" (2)
  beat,       \* 0 away from the bus, 1 and 2 the two edges of a read
  away,       \* cycles spent away since the last read
  onWire,     \* history: the byte begun on the wire and not yet decoded
  expected    \* history: the bytes begun on the wire and not yet read

farVars == <<farPending, farFrame, farPhase, farElapsed, farSkew, farDivisor,
             farLine>>
readerVars == <<goal, beat, away>>
linkVars == <<vars, farVars, readerVars, onWire, expected>>

(* The data and flag registers can be addressed, and the drift stays below *)
(* half a bit, whatever rate both ends are set to.                         *)
ASSUME LinkAssumption ==
  /\ {2, 4} \subseteq Addresses
  /\ MaxSkew \in Nat /\ MaxAway \in Nat
  /\ \A d \in PowerUp : 2 * MaxSkew + 1 <= d

(* The program comes back in time: what it can be away, twice while it     *)
(* looks for a byte and fetches it and once more while its mark is taken    *)
(* back, is less than the decoder needs for the next frame.                *)
ASSUME PromptAssumption ==
  \A d \in PowerUp :
    /\ 2 * MaxAway + 5 <= d \div 2 + DataBits * (d + 1)
    /\ 3 * MaxAway + 7 <= d \div 2 + (DataBits + 1) * (d + 1)

Far == INSTANCE SerialLine WITH
  Divisors <- PowerUp,
  pending <- farPending, frame <- farFrame, phase <- farPhase,
  elapsed <- farElapsed, skew <- farSkew, divisor <- farDivisor,
  line <- farLine

(* Both ends were set to the same rate. *)
FarBegin ==
  /\ Far!Begin
  /\ farDivisor' = iRegClockCounter
  /\ Len(expected) < Backlog

FarStep ==
  \/ Far!Accept \/ FarBegin \/ Far!Hold \/ Far!Advance \/ Far!Finish
  \/ farPhase = 0 /\ UNCHANGED farVars

-----------------------------------------------------------------------------
Target == IF goal = "flag" THEN 4 ELSE 2

Bus ==
  IF beat = 0 THEN Idle ELSE {[op |-> "read", addr |-> Target]}

StayAway ==
  /\ beat = 0 /\ away < MaxAway
  /\ away' = away + 1
  /\ UNCHANGED <<goal, beat>>

StartRead == beat = 0 /\ beat' = 1 /\ away' = 0 /\ UNCHANGED goal

HoldRead == beat = 1 /\ beat' = 2 /\ UNCHANGED <<goal, away>>

TakeFlag ==
  /\ beat = 2 /\ goal = "flag"
  /\ goal' = IF avs_ReadData = Word(1) THEN "byte" ELSE "flag"
  /\ beat' = 0
  /\ UNCHANGED away

TakeByte ==
  /\ beat = 2 /\ goal = "byte"
  /\ goal' = "flag"
  /\ beat' = 0
  /\ UNCHANGED away

ReaderStep == StayAway \/ StartRead \/ HoldRead \/ TakeFlag \/ TakeByte

Taken == IF TakeByte /\ expected # <<>> THEN Tail(expected) ELSE expected

LinkInit ==
  /\ Init /\ iReadPin = 1
  /\ Far!Init
  /\ goal = "flag" /\ beat = 0 /\ away = 0
  /\ onWire = NoByte
  /\ expected = <<>>

(* What is on the wire: the history the properties are stated with. *)
Tracks ==
  onWire' = IF FarBegin THEN farPending ELSE IF FrameDone THEN NoByte ELSE onWire

Edge ==
  /\ \E b \in Bus : Clk(b, farLine)
  /\ FarStep
  /\ ReaderStep
  /\ Tracks
  /\ expected' = IF FarBegin THEN Append(Taken, farPending) ELSE Taken

LinkSpec == LinkInit /\ [][Edge]_linkVars /\ WF_linkVars(Edge)

-----------------------------------------------------------------------------
(* Every frame sent is decoded, once, before the next one begins, bit for  *)
(* bit and with its stop bit found good.                                   *)
Faithful ==
  /\ FrameDone => onWire # NoByte /\ iRegRead_Final' = onWire /\ ~BadStop
  /\ FarBegin => onWire = NoByte
Fidelity == [][Faithful]_linkVars

(* Why: the decoder's clock and the far one's stay within half a bit.       *)
(* Since the falling edge of the start bit the far end has advanced        *)
(* (farPhase - 1) * (Period) + farSkew + farElapsed cycles and the decoder  *)
(* 3 + Half + State_Read * (Period) + Counter_Read: the two are equal, and *)
(* farPhase is at most three ahead of State_Read.                          *)
Period == iRegClockCounter + 1
Half == iRegClockCounter \div 2
FarCount == farSkew + farElapsed

WireInv ==
  /\ iRegClockCounter \in PowerUp
  /\ farPhase \in 0 .. DataBits + 2
  /\ farPending \in Byte \cup {NoByte}
  /\ farLine = Far!Level(farFrame, farPhase)
  /\ farElapsed \in Nat
  /\ farSkew \in -MaxSkew .. MaxSkew
  /\ farPhase = 1 => farSkew = 0
  /\ farPhase # 0 => /\ farFrame \in Byte
                     /\ farPending = NoByte
                     /\ farDivisor = iRegClockCounter
                     /\ FarCount <= iRegClockCounter + MaxSkew

(* The decoder sees the wire one and two cycles late. *)
PinInv ==
  /\ farPhase = 0 => iReadPin = 1
  /\ farPhase # 0 =>
       /\ iReadPin = Far!Level(farFrame, IF farElapsed >= 1 THEN farPhase ELSE farPhase - 1)
       /\ iReadPin_Previous =
            Far!Level(farFrame, IF farElapsed >= 2 THEN farPhase ELSE farPhase - 1)

InStepIdle ==
  State_Read = IDLE =>
    \/ farPhase = 0 /\ onWire = NoByte
    \/ farPhase = 1 /\ farElapsed <= 1 /\ onWire = farFrame
    \/ farPhase = DataBits + 2 /\ farElapsed >= 2 /\ onWire = NoByte

InStepStart ==
  State_Read = Start_BIT =>
    /\ Counter_Read <= Half
    /\ \/ farPhase = 1 /\ FarCount = 2 + Counter_Read
       \/ farPhase = 2 /\ FarCount + Period = 2 + Counter_Read

InStepBit ==
  State_Read \in 0 .. DataBits - 1 =>
    /\ Counter_Read <= iRegClockCounter
    /\ \/ farPhase = State_Read + 1 /\ FarCount = 3 + Half + Counter_Read
       \/ farPhase = State_Read + 2 /\ FarCount + Period = 3 + Half + Counter_Read
       \/ farPhase = State_Read + 3 /\ FarCount + 2 * Period = 3 + Half + Counter_Read

InStepStop ==
  State_Read = STOP_BIT =>
    /\ Counter_Read <= iRegClockCounter
    /\ \/ farPhase = DataBits + 1 /\ FarCount = 3 + Half + Counter_Read
       \/ farPhase = DataBits + 2 /\ FarCount + Period = 3 + Half + Counter_Read
       \/ /\ farPhase = 0 /\ Counter_Read = iRegClockCounter
          /\ iReadPin_Previous = 1 /\ farPending = NoByte

DecodedSoFar ==
  State_Read # IDLE =>
    /\ onWire \in Byte
    /\ farPhase # 0 => onWire = farFrame
    /\ \A i \in 0 .. State_Read - 1 : iRead_Current[i] = onWire[i]

InStep == InStepIdle /\ InStepStart /\ InStepBit /\ InStepStop /\ DecodedSoFar

LinkInv == WireInv /\ PinInv /\ InStep

(* Every byte the program reads is the oldest one it has not read: nothing *)
(* is read twice, nothing out of order, nothing that was not sent.         *)
ReadsNext ==
  [][TakeByte => expected # <<>> /\ avs_ReadData = Octet(Head(expected))]_linkVars

(* Nothing is lost: besides the byte on the wire, at most one is unread.   *)
NothingLost == Len(expected) <= 2

(* The program comes for every byte sent. *)
Delivered == expected # <<>> ~> beat = 2 /\ goal = "byte"
=============================================================================
