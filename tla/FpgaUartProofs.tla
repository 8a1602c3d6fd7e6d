--------------------------- MODULE FpgaUartProofs ---------------------------
(***************************************************************************)
(* Theorems about the peripheral, in three parts.  About FpgaUart and      *)
(* TxHistory, for every width of the data word and of the counters, every  *)
(* divisor and every behaviour of the bus master and of the RX wire: the   *)
(* type invariant, the agreement of the transmitter with the register      *)
(* file, and that TX_PORT carries the frames of SerialLine, one for every  *)
(* byte accepted.  About FlagHistory, that for a careful master the status *)
(* registers tell the truth.  About SerialLink, that a program that comes back in time reads every byte of  *)
(* a far transmitter whose edges drift by less than half a bit.            *)
(***************************************************************************)
EXTENDS TxHistory, FlagHistory, SerialLink, SequenceTheorems, TLAPS

USE UartAssumption DEF UartAssumption

-----------------------------------------------------------------------------
(* Each process keeps the types of the signals it drives. *)
LEMMA IncType == ASSUME NEW n \in Words PROVE Inc(n) \in Words
BY DEF Inc, Words

LEMMA WrittenData ==
  ASSUME NEW b \in BusCycles, b.op = "write"
  PROVE  /\ b.addr = 0 => b.data \in Words
         /\ b.addr = 1 => b.data \in Byte
<1>1. b \in Write
  BY DEF BusCycles, Idle, Read
<1>2. CASE b \in [op : {"write"}, addr : {0} \cap Addresses, data : Divisors]
  BY <1>2
<1>3. CASE b \in [op : {"write"}, addr : {1} \cap Addresses, data : Bytes]
  BY <1>3
<1>4. CASE b \in [op : {"write"}, addr : Addresses \ {0, 1}]
  BY <1>4
<1> QED BY <1>1, <1>2, <1>3, <1>4 DEF Write

LEMMA WriteTypes ==
  ASSUME TypeOK, NEW b \in BusCycles, Write_process(b)
  PROVE  /\ iRegClockCounter' \in Words
         /\ iRegToTransmit' \in Byte
         /\ iRegValueWriteAvailable' \in {0, 1}
         /\ iClearStatusError' \in {0, 1}
<1>1. CASE WriteDivisor(b)
  BY <1>1, WrittenData DEF WriteDivisor, Obeyed, TypeOK
<1>2. CASE WriteByte(b)
  BY <1>2, WrittenData DEF WriteByte, Obeyed, TypeOK
<1>3. CASE WriteClear(b)
  BY <1>3 DEF WriteClear, TypeOK
<1>4. CASE WriteIgnored(b)
  BY <1>4 DEF WriteIgnored, TypeOK, writeVars
<1>5. CASE NoWrite(b)
  BY <1>5 DEF NoWrite, TypeOK
<1> QED BY <1>1, <1>2, <1>3, <1>4, <1>5 DEF Write_process

LEMMA RegisterType ==
  ASSUME TypeOK, NEW a
  PROVE  Register(a) \in [kind : {"word"}, val : Words \cup {0, 1}]
                         \cup [kind : {"byte"}, val : Byte]
<1> DEFINE all == [i \in 0 .. DataBits - 1 |-> IF i = DataBits - 1 THEN 0 ELSE 1]
           values == [kind : {"word"}, val : Words \cup {0, 1}]
                     \cup [kind : {"byte"}, val : Byte]
<1>1. \A n \in Words \cup {0, 1} : Word(n) \in values
  BY DEF Word
<1>2. \A w \in Byte : Octet(w) \in values
  BY DEF Octet
<1>3. all \in Byte
  BY DEF Byte
<1>4. /\ iRegClockCounter \in Words \cup {0, 1}
      /\ iRegRead_Final \in Byte
      /\ iRegValueWriteAvailable \in Words \cup {0, 1}
      /\ iRegValueReadAvailable \in Words \cup {0, 1}
      /\ Error_Read \in Words \cup {0, 1}
      /\ 0 \in Words \cup {0, 1}
  BY DEF TypeOK
<1> HIDE DEF values, all
<1>5. Register(a) \in values
  <2>1. Word(iRegClockCounter) \in values /\ Octet(iRegRead_Final) \in values
    BY <1>1, <1>2, <1>4
  <2>2. /\ Word(iRegValueWriteAvailable) \in values
        /\ Word(iRegValueReadAvailable) \in values
    BY <1>1, <1>4
  <2>3. Word(Error_Read) \in values /\ Word(0) \in values /\ Octet(all) \in values
    BY <1>1, <1>2, <1>3, <1>4
  <2> QED BY <2>1, <2>2, <2>3 DEF Register, all
<1> QED BY <1>5 DEF values

LEMMA ReadTypes ==
  ASSUME TypeOK, NEW b, Read_Process(b)
  PROVE  /\ iHasBeenRead' \in {0, 1}
         /\ avs_ReadData' \in [kind : {"word"}, val : Words \cup {0, 1}]
                              \cup [kind : {"byte"}, val : Byte]
<1>1. iHasBeenRead' \in {0, 1}
  BY DEF Read_Process, TypeOK
<1>2. Word(0) \in [kind : {"word"}, val : Words \cup {0, 1}]
  BY DEF Word
<1> QED BY <1>1, <1>2, RegisterType DEF Read_Process

LEMMA RxTypes ==
  ASSUME TypeOK, NEW pin \in {0, 1}, RX(pin)
  PROVE  /\ State_Read' \in IDLE .. STOP_BIT
         /\ Counter_Read' \in Words
         /\ iRead_Current' \in Byte /\ iRegRead_Final' \in Byte
         /\ Error_Read' \in {0, 1} /\ iRegValueReadAvailable' \in {0, 1}
         /\ iReadPin' \in {0, 1} /\ iReadPin_Previous' \in {0, 1}
<1>1. /\ Error_Read' \in {0, 1} /\ iRegValueReadAvailable' \in {0, 1}
      /\ iReadPin' \in {0, 1} /\ iReadPin_Previous' \in {0, 1}
  BY DEF RX, RxFlagError, RxFlagAvailable, TypeOK
<1>2. CASE RxIdle
  BY <1>1, <1>2 DEF RxIdle, TypeOK, IDLE, Start_BIT, STOP_BIT, Zeros, Byte, Words
<1>3. CASE RxCount
  BY <1>1, <1>3, IncType DEF RxCount, TypeOK
<1>4. CASE RxStart
  BY <1>1, <1>4 DEF RxStart, TypeOK, IDLE, Start_BIT, STOP_BIT, Words
<1>5. CASE RxBit
  BY <1>1, <1>5 DEF RxBit, TypeOK, IDLE, STOP_BIT, Byte, Words
<1>6. CASE RxStop
  BY <1>1, <1>6 DEF RxStop, TypeOK, IDLE, STOP_BIT, Words
<1> QED BY <1>2, <1>3, <1>4, <1>5, <1>6 DEF RX

LEMMA TxTypes ==
  ASSUME TypeOK, TX
  PROVE  /\ State_Write' \in 0 .. DataBits + 2
         /\ Counter_Write' \in Words /\ ValueToReachWrite' \in Words
         /\ TX_PORT' \in {0, 1} /\ iHasBeenTransmit' \in {0, 1}
<1>1. CASE TxNothing
  BY <1>1 DEF TxNothing, TypeOK
<1>2. CASE TxWaitAck
  BY <1>2 DEF TxWaitAck, TypeOK, txVars
<1>3. CASE TxCount
  BY <1>3, IncType DEF TxCount, TypeOK
<1>4. CASE TxStart
  BY <1>4 DEF TxStart, TypeOK, Words
<1>5. CASE TxBit
  BY <1>5 DEF TxBit, TypeOK, Byte, Words
<1>6. CASE TxStop
  BY <1>6 DEF TxStop, TypeOK, Words
<1>7. CASE TxDone
  BY <1>7 DEF TxDone, TypeOK, Words
<1> QED BY <1>1, <1>2, <1>3, <1>4, <1>5, <1>6, <1>7 DEF TX

LEMMA TypeInit == Init => TypeOK
BY DEF Init, InReset, TypeOK, Words, Byte, Zeros, Word, IDLE, STOP_BIT

LEMMA TypeStep == TypeOK /\ [Next]_vars => TypeOK'
<1> SUFFICES ASSUME TypeOK, [Next]_vars PROVE TypeOK'
  OBVIOUS
<1>1. ASSUME NEW b \in BusCycles, NEW pin \in {0, 1}, Clk(b, pin) PROVE TypeOK'
  BY <1>1, WriteTypes, ReadTypes, RxTypes, TxTypes DEF Clk, TypeOK
<1>2. CASE Reset
  BY <1>2 DEF Reset, TypeOK, Words, Byte, Zeros, IDLE, STOP_BIT
<1>3. CASE UNCHANGED vars
  BY <1>3 DEF TypeOK, vars, writeVars, readVars, rxFrame, rxFlags, rxPins, txVars
<1> QED BY <1>1, <1>2, <1>3 DEF Next

(* Every signal keeps its type, whatever the bus and the wire do. *)
THEOREM TypeCorrect == Spec => []TypeOK
BY TypeInit, TypeStep, PTL DEF Spec

-----------------------------------------------------------------------------
(* What the transmitter relies on: the register file changes neither the   *)
(* byte nor the divisor while it reports a transmission pending, and stops *)
(* reporting it only once told that it is over.                            *)
LEMMA PendingHeld ==
  ASSUME TypeOK, NEW b \in BusCycles, Write_process(b),
         iRegValueWriteAvailable = 1
  PROVE  /\ iRegClockCounter' = iRegClockCounter
         /\ iRegToTransmit' = iRegToTransmit
         /\ iHasBeenTransmit = 0 => iRegValueWriteAvailable' = 1
BY DEF Write_process, WriteDivisor, WriteByte, WriteClear, WriteIgnored, NoWrite,
       Obeyed, writeVars, TypeOK

LEMMA NoByteIsNoByte == NoByte \notin Byte
BY DEF NoByte, Byte

(* The handshake and the record of the byte owed move together: the byte is *)
(* marked by the edge that takes it, whatever acknowledgement was left, and *)
(* the mark stands until the edge that ends its frame.                     *)
LEMMA OwedStep ==
  ASSUME TypeOK, TxInv, NEW b \in BusCycles, NEW pin \in {0, 1},
         HistoryClk(b, pin)
  PROVE  OwedIsMarked'
<1> USE DEF OwedIsMarked, Sending
<1>1. /\ Write_process(b) /\ TX
      /\ owed' = IF Accepts(b) THEN b.data ELSE IF FrameSent THEN NoByte ELSE owed
      /\ owed = IF Sending THEN iRegToTransmit ELSE NoByte
  BY DEF HistoryClk, Clk, TxInv
<1>2. CASE TxNothing
  <2>1. iRegValueWriteAvailable = 0 /\ iHasBeenTransmit' = 0 /\ ~FrameSent
    BY <1>2 DEF TxNothing, FrameSent, TxDue
  <2>2. CASE Accepts(b)
    <3>1. iRegToTransmit' = b.data /\ iRegValueWriteAvailable' = 1
      BY <1>1, <2>2 DEF Accepts, Write_process, WriteDivisor, WriteByte, WriteClear,
                        WriteIgnored, NoWrite, Obeyed
    <3> QED BY <1>1, <2>1, <2>2, <3>1
  <2>3. CASE ~Accepts(b)
    <3>1. iRegValueWriteAvailable' = 0
      BY <1>1, <2>1, <2>3 DEF Accepts, Write_process, WriteDivisor, WriteByte,
                              WriteClear, WriteIgnored, NoWrite, Obeyed, writeVars
    <3> QED BY <1>1, <2>1, <2>3, <3>1
  <2> QED BY <2>2, <2>3
<1>3. CASE TxWaitAck
  <2>1. iHasBeenTransmit' = 1 /\ ~FrameSent /\ ~Accepts(b) /\ owed = NoByte
    BY <1>1, <1>3 DEF TxWaitAck, txVars, FrameSent, TxDue, Accepts
  <2> QED BY <1>1, <2>1
<1>4. CASE Sending /\ ~FrameSent
  <2>1. iHasBeenTransmit' = iHasBeenTransmit
    BY <1>1, <1>4 DEF TX, TxNothing, TxWaitAck, TxCount, TxStart, TxBit, TxStop,
                      TxDone, FrameSent, txVars
  <2>2. ~Accepts(b)
    BY <1>4 DEF Accepts
  <2> QED BY <1>1, <1>4, <2>1, <2>2, PendingHeld
<1>5. CASE FrameSent
  <2>1. iHasBeenTransmit' = 1 /\ ~Accepts(b)
    BY <1>1, <1>5 DEF TX, TxNothing, TxWaitAck, TxCount, TxStart, TxBit, TxStop,
                      TxDone, FrameSent, TxDue, Accepts, TypeOK
  <2> QED BY <1>1, <1>5, <2>1
<1> QED
  BY <1>1, <1>2, <1>3, <1>4, <1>5 DEF TX, TxCount, TxStart, TxBit, TxStop, TxDone,
                                      TxDue

LEMMA TxInvStep ==
  ASSUME TypeOK, TxInv, NEW b \in BusCycles, NEW pin \in {0, 1},
         HistoryClk(b, pin)
  PROVE  TxInv'
<1> USE DEF TxInFlight, TxAtRest, TxCountsUp, TxLevel, Line!Level
<1> SUFFICES TxInFlight' /\ TxAtRest' /\ TxCountsUp' /\ TxLevel'
  BY OwedStep DEF TxInv
<1>0. /\ Write_process(b) /\ TX
      /\ TxInFlight /\ TxAtRest /\ TxCountsUp /\ TxLevel
  BY DEF HistoryClk, Clk, TxInv
<1>1. CASE TxNothing
  BY <1>0, <1>1 DEF TxNothing, TypeOK
<1>2. CASE TxWaitAck
  BY <1>0, <1>2, PendingHeld DEF TxWaitAck, txVars, TypeOK
<1>3. CASE TxCount
  <2>1. Counter_Write < ValueToReachWrite
    BY <1>0, <1>3 DEF TxCount, TxDue, TypeOK, Words
  <2>2. Counter_Write' = Counter_Write + 1
    BY <1>0, <1>3, <2>1 DEF TxCount, Inc, TypeOK, Words
  <2>3. State_Write # 0
    BY <1>0, <2>1 DEF TypeOK, Words
  <2> QED BY <1>0, <1>3, <2>1, <2>2, <2>3, PendingHeld DEF TxCount, TypeOK, Words
<1>4. CASE TxStart
  BY <1>0, <1>4, PendingHeld DEF TxStart, TxDue, Sending, TypeOK, Words
<1>5. CASE TxBit
  BY <1>0, <1>5, PendingHeld DEF TxBit, TxDue, Sending, TypeOK, Words
<1>6. CASE TxStop
  BY <1>0, <1>6, PendingHeld DEF TxStop, TxDue, Sending, TypeOK, Words
<1>7. CASE TxDone
  BY <1>0, <1>7 DEF TxDone, TypeOK
<1> QED BY <1>0, <1>1, <1>2, <1>3, <1>4, <1>5, <1>6, <1>7 DEF TX

(* The transmitter and the register file agree in every reachable state.   *)
LEMMA HistoryImpliesSpec == HistorySpec => Spec
<1>1. HistoryInit => Init
  BY DEF HistoryInit
<1>2. [HistoryNext]_txHistoryVars => [Next]_vars
  BY DEF HistoryNext, HistoryClk, HistoryReset, Next, txHistoryVars
<1> QED BY <1>1, <1>2, PTL DEF HistorySpec, Spec

THEOREM TxCorrect == HistorySpec => []TxInv
<1> USE DEF TxInv, TxInFlight, TxAtRest, TxCountsUp, TxLevel, OwedIsMarked, Sending
<1>1. HistoryInit => TxInv
  BY DEF HistoryInit, Init, InReset, Line!Level
<1>2. TypeOK /\ TxInv /\ [HistoryNext]_txHistoryVars => TxInv'
  <2> SUFFICES ASSUME TypeOK, TxInv, [HistoryNext]_txHistoryVars PROVE TxInv'
    OBVIOUS
  <2>1. ASSUME NEW b \in BusCycles, NEW pin \in {0, 1}, HistoryClk(b, pin)
        PROVE  TxInv'
    BY <2>1, TxInvStep
  <2>2. CASE HistoryReset
    BY <2>2 DEF HistoryReset, Reset, Line!Level
  <2>3. CASE UNCHANGED txHistoryVars
    BY <2>3 DEF Line!Level, txHistoryVars, vars, writeVars, txVars
  <2> QED BY <2>1, <2>2, <2>3 DEF HistoryNext
<1> QED BY <1>1, <1>2, HistoryImpliesSpec, TypeCorrect, PTL DEF HistorySpec

-----------------------------------------------------------------------------
(* One edge of the peripheral's clock is one step of the abstract line, or *)
(* leaves it unchanged; only a reset aborts.                               *)
LEMMA LineStep ==
  ASSUME TypeOK, TxInv, TxInv', NEW b \in BusCycles, NEW pin \in {0, 1},
         HistoryClk(b, pin)
  PROVE  [Line!Step]_(Line!lineVars)
<1>0. /\ Write_process(b) /\ TX
      /\ TxInFlight /\ TxAtRest /\ TxCountsUp
      /\ owed = IF Sending THEN iRegToTransmit ELSE NoByte
      /\ owed' = (IF Sending THEN iRegToTransmit ELSE NoByte)'
      /\ owed' = IF Accepts(b) THEN b.data ELSE IF FrameSent THEN NoByte ELSE owed
  BY DEF HistoryClk, Clk, TxInv, OwedIsMarked
<1> USE DEF TxInFlight, TxAtRest, TxCountsUp
<1>1. CASE TxNothing
  <2>1. /\ State_Write = 0 /\ State_Write' = 0 /\ Counter_Write = 0
        /\ owed = NoByte /\ ~FrameSent
    BY <1>0, <1>1 DEF TxNothing, Sending, FrameSent, TxDue
  <2>2. CASE Accepts(b)
    <3>1. owed' \in Byte
      BY <1>0, <2>2, WrittenData DEF Accepts
    <3>2. Line!Accept
      BY <1>1, <2>1, <3>1 DEF TxNothing, Line!Accept
    <3> QED BY <3>2 DEF Line!Step
  <2>3. CASE ~Accepts(b)
    <3>1. owed' = NoByte
      BY <1>0, <2>1, <2>3
    <3>2. UNCHANGED Line!lineVars
      BY <1>1, <2>1, <3>1 DEF TxNothing, Line!lineVars
    <3> QED BY <3>2
  <2> QED BY <2>2, <2>3
<1>2. CASE TxWaitAck
  <2>1. /\ State_Write = 0 /\ owed = NoByte /\ ~Accepts(b) /\ ~FrameSent
    BY <1>0, <1>2 DEF TxWaitAck, Sending, Accepts, FrameSent, TxDue
  <2>2. UNCHANGED Line!lineVars
    BY <1>0, <1>2, <2>1 DEF TxWaitAck, txVars, Line!lineVars
  <2> QED BY <2>2
<1>3. CASE TxCount
  <2>1. State_Write # 0 /\ Counter_Write < ValueToReachWrite
    BY <1>0, <1>3 DEF TxCount, TxDue, TypeOK, Words
  <2>2. Counter_Write' = Counter_Write + 1
    BY <1>3, <2>1 DEF TxCount, Inc, TypeOK, Words
  <2>3. owed' = owed
    BY <1>0, <1>3 DEF TxCount, Sending, Accepts, FrameSent
  <2>4. Line!Hold
    BY <1>3, <2>1, <2>2, <2>3 DEF TxCount, Line!Hold, TypeOK, Words
  <2> QED BY <2>4 DEF Line!Step
<1>4. CASE TxStart
  <2>1. owed' = owed /\ owed \in Byte /\ iRegClockCounter \in Words
    BY <1>0, <1>4 DEF TxStart, TxDue, Sending, Accepts, FrameSent, TypeOK
  <2>2. owed # NoByte
    BY <2>1, NoByteIsNoByte
  <2>3. Line!Begin
    BY <1>4, <2>1, <2>2 DEF TxStart, TxDue, Sending, Line!Begin, Line!Level
  <2> QED BY <2>3 DEF Line!Step
<1>5. CASE TxBit
  <2>1. owed' = owed /\ owed = iRegToTransmit
    BY <1>0, <1>5 DEF TxBit, TxDue, Sending, Accepts, FrameSent, TypeOK
  <2>2. State_Write \in 1 .. DataBits /\ State_Write' = State_Write + 1
    BY <1>5 DEF TxBit
  <2>3. Line!Level(owed, State_Write') = iRegToTransmit[State_Write - 1]
    BY <2>1, <2>2 DEF Line!Level
  <2>4. Line!OnTime /\ Line!Displacement = 0
    BY <1>5 DEF TxBit, TxDue, Line!OnTime, Line!Displacement, TypeOK, Words
  <2>5. Line!Advance
    BY <1>5, <2>1, <2>2, <2>3, <2>4 DEF TxBit, Line!Advance
  <2> QED BY <2>5 DEF Line!Step
<1>6. CASE TxStop
  <2>1. owed' = owed
    BY <1>0, <1>6 DEF TxStop, TxDue, Sending, Accepts, FrameSent, TypeOK
  <2>2. State_Write = DataBits + 1 /\ State_Write' = DataBits + 2
    BY <1>6 DEF TxStop
  <2>3. Line!Level(owed, State_Write') = 1
    BY <2>2 DEF Line!Level
  <2>4. Line!OnTime /\ Line!Displacement = 0
    BY <1>6 DEF TxStop, TxDue, Line!OnTime, Line!Displacement, TypeOK, Words
  <2>5. Line!Advance
    BY <1>6, <2>1, <2>2, <2>3, <2>4 DEF TxStop, Line!Advance
  <2> QED BY <2>5 DEF Line!Step
<1>7. CASE TxDone
  <2>1. /\ State_Write = DataBits + 2 /\ State_Write # 0
        /\ FrameSent /\ ~Accepts(b) /\ owed' = NoByte
    BY <1>0, <1>7 DEF TxDone, FrameSent, TxDue, Sending, Accepts
  <2>2. Line!OnTime
    BY <1>7 DEF TxDone, TxDue, Line!OnTime, Line!Displacement, TypeOK, Words
  <2>3. Line!Finish
    BY <1>7, <2>1, <2>2 DEF TxDone, Line!Finish, Line!STOP
  <2> QED BY <2>3 DEF Line!Step
<1> QED BY <1>0, <1>1, <1>2, <1>3, <1>4, <1>5, <1>6, <1>7 DEF TX

(* The transmitter implements the abstract line with edges that never      *)
(* drift, and gives up a byte only when it is reset.                       *)
THEOREM TxRefinesLine == HistorySpec => TxImplementsLine
<1>1. HistoryInit => Line!Init
  BY DEF HistoryInit, Init, InReset, Line!Init, Line!Rest
<1>2. TypeOK /\ TxInv /\ TxInv' /\ [HistoryNext]_txHistoryVars
        => /\ [Line!Next]_(Line!lineVars)
           /\ [Line!Step \/ HistoryReset]_(Line!lineVars)
  <2> SUFFICES ASSUME TypeOK, TxInv, TxInv', [HistoryNext]_txHistoryVars
               PROVE  /\ [Line!Next]_(Line!lineVars)
                      /\ [Line!Step \/ HistoryReset]_(Line!lineVars)
    OBVIOUS
  <2>1. ASSUME NEW b \in BusCycles, NEW pin \in {0, 1}, HistoryClk(b, pin)
        PROVE  [Line!Step]_(Line!lineVars)
    BY <2>1, LineStep
  <2>2. HistoryReset => Line!Abort
    BY DEF HistoryReset, Reset, Line!Abort
  <2>3. UNCHANGED txHistoryVars => UNCHANGED Line!lineVars
    BY DEF txHistoryVars, vars, txVars, Line!lineVars
  <2> QED BY <2>1, <2>2, <2>3 DEF HistoryNext, Line!Next
<1> QED BY <1>1, <1>2, HistoryImpliesSpec, TypeCorrect, TxCorrect, PTL
        DEF HistorySpec, TxImplementsLine, Line!Spec

-----------------------------------------------------------------------------
(* FlagHistory: for a careful master, at every divisor and every width, no
   unread byte and no standing framing error goes unreported.  The invariant
   behind it says where an acknowledgement (iHasBeenRead, iClearStatusError) can
   still stand: never beside the flag of something new, and in STOP_BIT only with
   the flag already down.  The careful master gives it the last data bit to be
   withdrawn in. *)

(* A careful master and its history variables leave the peripheral alone.  *)
LEMMA CarefulImpliesSpec == CarefulSpec => Spec
<1>1. ObservedInit => Init
  BY DEF ObservedInit
<1>2. [CarefulNext]_allVars => [Next]_vars
  BY DEF CarefulNext, ObservedClk, ObservedReset, Next, allVars
<1> QED BY <1>1, <1>2, PTL DEF CarefulSpec, Spec

(* STOP_BIT is entered from the last data bit only, and in neither does the *)
(* careful master read register 2.                                         *)
LEMMA StopEntered ==
  ASSUME TypeOK, NEW pin \in {0, 1}, RX(pin), State_Read' = STOP_BIT
  PROVE  Ending
BY DEF Ending, RX, RxIdle, RxCount, RxStart, RxBit, RxStop, TypeOK, IDLE, Start_BIT,
       STOP_BIT

LEMMA MarkStep ==
  ASSUME TypeOK, CarefulInv, NEW b \in BusCycles, NEW pin \in {0, 1},
         Careful(b), ObservedClk(b, pin)
  PROVE  MarkIsOld' /\ UnreadIsFlagged'
<1> USE DEF CarefulInv, MarkIsOld, UnreadIsFlagged, ObservedClk, Clk,
            Read_Process, ReadsByte, RxFlagAvailable
<1>1. RxFlagAvailable /\ RX(pin)
  BY DEF RX
<1>2. CASE FrameDone
  <2>1. State_Read = STOP_BIT /\ ~ReadsByte(b) /\ (iHasBeenRead = 1 => b.addr # 2)
    BY <1>2 DEF FrameDone, Careful, Ending
  <2>2. iHasBeenRead' = 0
    BY <2>1 DEF TypeOK
  <2>3. iRegValueReadAvailable' = 1
    BY <1>1, <1>2
  <2> QED BY <2>2, <2>3
<1>3. CASE ~FrameDone
  <2>1. unread' = (unread /\ ~ReadsByte(b))
    BY <1>3
  <2>2. UnreadIsFlagged'
    BY <1>1, <1>3, <2>1 DEF TypeOK
  <2>3. (iHasBeenRead = 1 /\ iRegValueReadAvailable = 1 => ~unread)'
    BY <1>1, <1>3, <2>1 DEF TypeOK
  <2>4. ASSUME State_Read' = STOP_BIT, iHasBeenRead' = 1
        PROVE  iRegValueReadAvailable' = 0
    <3>1. ~ReadsByte(b) /\ (iHasBeenRead = 1 => b.addr # 2)
      BY <1>1, <2>4, StopEntered DEF Careful
    <3>2. iHasBeenRead = 1 /\ iRegValueReadAvailable # 0
      BY <2>4, <3>1 DEF TypeOK
    <3>3. State_Read # STOP_BIT
      BY <3>2
    <3> QED BY <1>1, <1>3, <3>2, <3>3
  <2> QED BY <2>2, <2>3, <2>4
<1> QED BY <1>2, <1>3

LEMMA ClearStep ==
  ASSUME TypeOK, CarefulInv, NEW b \in BusCycles, NEW pin \in {0, 1},
         ObservedClk(b, pin)
  PROVE  ClearIsOld' /\ UnackedIsFlagged'
<1> USE DEF CarefulInv, ClearIsOld, UnackedIsFlagged, ObservedClk, Clk,
            RxFlagError
<1>1. RxFlagError /\ RX(pin)
  BY DEF RX
<1>2. ASSUME b.op # "write"
      PROVE  /\ iClearStatusError' = IF Error_Read = 0 THEN 0 ELSE iClearStatusError
             /\ ~WriteClear(b)
  BY <1>2 DEF Write_process, WriteDivisor, WriteByte, WriteClear, WriteIgnored,
              NoWrite, Obeyed
<1>3. ~WriteClear(b) => iClearStatusError' \in {0, iClearStatusError}
  BY DEF Write_process, WriteDivisor, WriteByte, WriteIgnored, NoWrite, writeVars
<1>4. CASE FrameDone
  <2>1. State_Read = STOP_BIT /\ State_Read' # STOP_BIT
    BY <1>1, <1>4 DEF FrameDone, RX, RxIdle, RxCount, RxStart, RxBit, RxStop, IDLE,
                      STOP_BIT, Start_BIT
  <2>2. Error_Read' = IF BadStop THEN 1 ELSE Error_Read
    BY <1>1, <1>4, <2>1
  <2>3. LeftAlone(b) => iClearStatusError' = 0
    BY <1>2, <2>1 DEF LeftAlone, TypeOK
  <2>4. unacked' = ((BadStop /\ LeftAlone(b)) \/ (unacked /\ ~WriteClear(b)))
    BY <1>4
  <2>5. unacked' => Error_Read' = 1
    BY <2>2, <2>4
  <2>6. ASSUME unacked, ~WriteClear(b) PROVE iClearStatusError' = 0
    <3>1. iClearStatusError = 0
      BY <2>6 DEF TypeOK
    <3> QED BY <1>3, <2>6, <3>1
  <2>7. iClearStatusError' = 1 => ~unacked'
    <3>1. unacked' => LeftAlone(b) \/ (unacked /\ ~WriteClear(b))
      BY ONLY <2>4
    <3>2. unacked' => iClearStatusError' = 0
      BY ONLY <2>3, <2>6, <3>1
    <3> QED BY <3>2
  <2> QED BY <2>1, <2>5, <2>7
<1>5. CASE ~FrameDone
  <2>1. unacked' = (unacked /\ ~WriteClear(b))
    BY <1>5
  <2>2. UnackedIsFlagged'
    BY <1>1, <1>5, <2>1 DEF TypeOK
  <2>3. (iClearStatusError = 1 /\ Error_Read = 1 => ~unacked)'
    BY <1>1, <1>3, <1>5, <2>1 DEF TypeOK
  <2>4. ASSUME State_Read' = STOP_BIT, iClearStatusError' = 1, ~meddled'
        PROVE  Error_Read' = 0
    <3>1. ~meddled /\ b.op # "write"
      BY <1>1, <1>5, <2>4, StopEntered DEF LeftAlone
    <3>2. iClearStatusError = 1 /\ Error_Read # 0
      BY <1>2, <2>4, <3>1 DEF TypeOK
    <3>3. State_Read # STOP_BIT
      BY <3>1, <3>2
    <3> QED BY <1>1, <1>5, <3>2, <3>3
  <2> QED BY <2>2, <2>3, <2>4
<1> QED BY <1>4, <1>5

(* The status registers report every unread byte and every standing error  *)
(* to a careful master.                                                    *)
THEOREM CarefulCorrect == CarefulSpec => []CarefulInv
<1>1. ObservedInit => CarefulInv
  BY DEF ObservedInit, Init, InReset, CarefulInv, MarkIsOld, ClearIsOld,
         UnreadIsFlagged, UnackedIsFlagged
<1>2. TypeOK /\ CarefulInv /\ [CarefulNext]_allVars => CarefulInv'
  <2> SUFFICES ASSUME TypeOK, CarefulInv, [CarefulNext]_allVars PROVE CarefulInv'
    OBVIOUS
  <2>1. ASSUME NEW b \in BusCycles, NEW pin \in {0, 1},
               Careful(b), ObservedClk(b, pin)
        PROVE  CarefulInv'
    BY <2>1, MarkStep, ClearStep DEF CarefulInv
  <2>2. CASE ObservedReset
    BY <2>2 DEF ObservedReset, Reset, CarefulInv, MarkIsOld, ClearIsOld,
                UnreadIsFlagged, UnackedIsFlagged
  <2>3. CASE UNCHANGED allVars
    BY <2>3 DEF allVars, vars, historyVars, writeVars, readVars, rxFrame, rxFlags,
                CarefulInv, MarkIsOld, ClearIsOld, UnreadIsFlagged,
                UnackedIsFlagged, STOP_BIT
  <2> QED BY <2>1, <2>2, <2>3 DEF CarefulNext
<1> QED BY <1>1, <1>2, CarefulImpliesSpec, TypeCorrect, PTL DEF CarefulSpec

THEOREM NoByteUnreported == CarefulSpec => []UnreadIsFlagged
<1>1. CarefulInv => UnreadIsFlagged
  BY DEF CarefulInv
<1> QED BY <1>1, CarefulCorrect, PTL

THEOREM NoErrorUnreported == CarefulSpec => []UnackedIsFlagged
<1>1. CarefulInv => UnackedIsFlagged
  BY DEF CarefulInv
<1> QED BY <1>1, CarefulCorrect, PTL
(* A flag whose byte has been read has the mark of that read beside it, and outside
   of STOP_BIT a marked flag falls. *)
ReadIsMarked == iRegValueReadAvailable = 1 /\ ~unread => iHasBeenRead = 1
Falls ==
  iRegValueReadAvailable = 1 /\ ~unread => iRegValueReadAvailable' = 0 \/ unread'

LEMMA FallStep ==
  ASSUME TypeOK, CarefulInv, ReadIsMarked, [CarefulNext]_allVars
  PROVE  ReadIsMarked' /\ (Falls \/ UNCHANGED allVars)
<1>1. ASSUME NEW b \in BusCycles, NEW pin \in {0, 1}, ObservedClk(b, pin)
      PROVE  ReadIsMarked' /\ Falls
  <2>0. /\ RxFlagAvailable /\ Read_Process(b)
        /\ unread' = (FrameDone \/ (unread /\ ~ReadsByte(b)))
    BY <1>1 DEF ObservedClk, Clk, RX
  <2>1. CASE FrameDone
    BY <2>0, <2>1 DEF ReadIsMarked, Falls
  <2>2. CASE ~FrameDone
    <3>1. Falls
      <4> SUFFICES ASSUME iRegValueReadAvailable = 1, ~unread
                   PROVE  iRegValueReadAvailable' = 0
        BY DEF Falls
      <4>1. iHasBeenRead = 1 /\ State_Read # STOP_BIT
        BY DEF ReadIsMarked, CarefulInv, MarkIsOld
      <4> QED BY <2>0, <2>2, <4>1 DEF RxFlagAvailable
    <3>2. ReadIsMarked'
      <4> SUFFICES ASSUME iRegValueReadAvailable' = 1, ~unread'
                   PROVE  iHasBeenRead' = 1
        BY DEF ReadIsMarked
      <4>1. iRegValueReadAvailable = 1 /\ ~(iHasBeenRead = 1 /\ State_Read # STOP_BIT)
        BY <2>0, <2>2 DEF RxFlagAvailable
      <4>2. unread
        BY <4>1 DEF ReadIsMarked, CarefulInv, MarkIsOld
      <4>3. ReadsByte(b)
        BY <2>0, <4>2
      <4> QED BY <2>0, <4>1, <4>3 DEF Read_Process, ReadsByte
    <3> QED BY <3>1, <3>2
  <2> QED BY <2>1, <2>2
<1>2. CASE ObservedReset
  BY <1>2 DEF ObservedReset, Reset, ReadIsMarked, Falls
<1>3. CASE UNCHANGED allVars
  BY <1>3 DEF allVars, vars, historyVars, readVars, rxFrame, rxFlags, ReadIsMarked
<1> QED BY <1>1, <1>2, <1>3 DEF CarefulNext

(* A careful master is not invited to read the same byte again. *)
THEOREM NoByteTwice == CarefulSpec => ReadFlagFalls
<1>1. ObservedInit => ReadIsMarked
  BY DEF ObservedInit, Init, InReset, ReadIsMarked
<1>2. TypeOK /\ CarefulInv /\ ReadIsMarked /\ [CarefulNext]_allVars
        => ReadIsMarked' /\ [Falls]_allVars
  BY FallStep
<1> QED BY <1>1, <1>2, CarefulImpliesSpec, TypeCorrect, CarefulCorrect, PTL
        DEF CarefulSpec, ReadFlagFalls, Falls

-----------------------------------------------------------------------------
(* SerialLink: the RX half of the UART decodes every frame of a far transmitter
   whose edges drift by less than half a bit, and a program that comes back in
   time reads every byte, once and in order: for every rate, every word length,
   every byte and every pattern of drift. *)
USE LinkAssumption DEF LinkAssumption

-----------------------------------------------------------------------------
(* The bus master of the link only reads, so the rate stays what it is.    *)
LEMMA BusReads ==
  ASSUME NEW b \in Bus
  PROVE  b \in BusCycles /\ b.op # "write"
<1>1. CASE beat = 0
  BY <1>1 DEF Bus, BusCycles, Idle
<1>2. CASE beat # 0
  <2>1. b = [op |-> "read", addr |-> Target]
    BY <1>2 DEF Bus
  <2>2. Target \in Addresses
    BY DEF Target
  <2> QED BY <2>1, <2>2 DEF BusCycles, Read
<1> QED BY <1>1, <1>2

LEMMA RateHeld ==
  ASSUME NEW b \in Bus, Clk(b, farLine)
  PROVE  iRegClockCounter' = iRegClockCounter
BY BusReads DEF Clk, Write_process, WriteDivisor, WriteByte, WriteClear,
   WriteIgnored, NoWrite, Obeyed

(* The numbers of a rate. *)
LEMMA Rates ==
  ASSUME WireInv
  PROVE  /\ iRegClockCounter \in Nat /\ Half \in Nat /\ Period \in Nat
         /\ MaxSkew <= Half /\ Half + MaxSkew <= iRegClockCounter - 1
         /\ Period = iRegClockCounter + 1
<1>1. iRegClockCounter \in Nat /\ 2 * MaxSkew + 1 <= iRegClockCounter
  BY DEF WireInv, Words
<1> QED BY <1>1 DEF Half, Period

LEMMA NoByteNotByte == NoByte \notin Byte
BY DEF NoByte, Byte

LEMMA LevelBit ==
  ASSUME NEW w \in Byte, NEW p \in 0 .. DataBits + 2
  PROVE  /\ Far!Level(w, p) \in {0, 1}
         /\ p = 1 => Far!Level(w, p) = 0
         /\ p \in {0, DataBits + 2} => Far!Level(w, p) = 1
         /\ p \in 2 .. DataBits + 1 => Far!Level(w, p) = w[p - 2]
BY DEF Far!Level, Byte

LEMMA WireBit ==
  ASSUME WireInv
  PROVE  farLine \in {0, 1} /\ (farPhase = 0 => farLine = 1)
<1>1. CASE farPhase = 0
  BY <1>1 DEF WireInv, Far!Level
<1>2. CASE farPhase # 0
  BY <1>2, LevelBit DEF WireInv
<1> QED BY <1>1, <1>2

-----------------------------------------------------------------------------
(* What the far end can do in a cycle, in terms of the cycles it counts.   *)
FarRests == farPhase = 0 /\ farPhase' = 0
FarStarts ==
  /\ farPhase = 0 /\ farPhase' = 1
  /\ farFrame' = farPending /\ farPending \in Byte
  /\ farSkew' = 0 /\ farElapsed' = 0
FarHolds ==
  /\ farPhase # 0 /\ farPhase' = farPhase /\ farFrame' = farFrame
  /\ farSkew' = farSkew /\ farElapsed' = farElapsed + 1
FarAdvances ==
  /\ farPhase \in 1 .. DataBits + 1 /\ farPhase' = farPhase + 1
  /\ farFrame' = farFrame
  /\ farElapsed >= 1 /\ farElapsed' = 0
  /\ FarCount + 1 - Period \in -MaxSkew .. MaxSkew
  /\ farSkew' = FarCount + 1 - Period
FarEnds ==
  /\ farPhase = DataBits + 2 /\ farPhase' = 0
  /\ farPending' = NoByte
  /\ farElapsed >= 1
  /\ FarCount + MaxSkew >= iRegClockCounter

LEMMA FarMoves ==
  ASSUME WireInv, FarStep
  PROVE  FarRests \/ FarStarts \/ FarHolds \/ FarAdvances \/ FarEnds
<1> USE Rates DEF WireInv, FarCount, Period
<1>1. CASE Far!Accept
  BY <1>1 DEF Far!Accept, FarRests
<1>2. CASE FarBegin
  BY <1>2 DEF FarBegin, Far!Begin, FarStarts
<1>3. CASE Far!Hold
  BY <1>3 DEF Far!Hold, FarHolds
<1>4. CASE Far!Advance
  BY <1>4 DEF Far!Advance, Far!OnTime, Far!Displacement, FarAdvances
<1>5. CASE Far!Finish
  BY <1>5 DEF Far!Finish, Far!OnTime, Far!Displacement, Far!STOP, FarEnds
<1>6. CASE farPhase = 0 /\ UNCHANGED farVars
  BY <1>6 DEF farVars, FarRests
<1> QED BY <1>1, <1>2, <1>3, <1>4, <1>5, <1>6 DEF FarStep

(* The far end begins exactly when FarBegin says so. *)
LEMMA BeginStarts ==
  ASSUME WireInv, FarStep
  PROVE  FarBegin <=> farPhase = 0 /\ farPhase' = 1
BY DEF FarStep, FarBegin, Far!Accept, Far!Begin, Far!Hold, Far!Advance,
       Far!Finish, farVars, WireInv

LEMMA WireStep ==
  ASSUME WireInv, FarStep, iRegClockCounter' = iRegClockCounter
  PROVE  WireInv'
<1> USE Rates DEF WireInv, FarCount
<1>1. CASE Far!Accept
  BY <1>1 DEF Far!Accept, Far!Level
<1>2. CASE FarBegin
  BY <1>2 DEF FarBegin, Far!Begin
<1>3. CASE Far!Hold
  BY <1>3 DEF Far!Hold
<1>4. CASE Far!Advance
  BY <1>4 DEF Far!Advance, Far!OnTime
<1>5. CASE Far!Finish
  BY <1>5 DEF Far!Finish, Far!Level, Far!STOP
<1>6. CASE farPhase = 0 /\ UNCHANGED farVars
  BY <1>6 DEF farVars
<1> QED BY <1>1, <1>2, <1>3, <1>4, <1>5, <1>6 DEF FarStep

LEMMA PinStep ==
  ASSUME TypeOK, WireInv, PinInv, FarStep, RX(farLine),
         iRegClockCounter' = iRegClockCounter
  PROVE  PinInv'
<1>1. iReadPin' = farLine /\ iReadPin_Previous' = iReadPin
  BY DEF RX
<1>2. WireInv'
  BY WireStep
<1>3. CASE FarRests
  BY <1>1, <1>3, WireBit DEF FarRests, PinInv
<1>4. CASE FarStarts
  BY <1>1, <1>4, WireBit, LevelBit DEF FarStarts, PinInv
<1>5. CASE FarHolds
  BY <1>1, <1>5 DEF FarHolds, PinInv, WireInv
<1>6. CASE FarAdvances
  BY <1>1, <1>6 DEF FarAdvances, PinInv, WireInv
<1>7. CASE FarEnds
  BY <1>1, <1>7, LevelBit DEF FarEnds, PinInv, WireInv
<1> QED BY <1>3, <1>4, <1>5, <1>6, <1>7, FarMoves

-----------------------------------------------------------------------------
(* One edge keeps the two clocks in step: the far end moves in one of the  *)
(* five ways above, and the decoder waits, counts or samples.              *)
IsStep ==
  /\ TypeOK /\ LinkInv
  /\ FarStep /\ RX(farLine) /\ Tracks
  /\ iRegClockCounter' = iRegClockCounter

(* The cycles the far end has counted, one step further. *)
LEMMA FarSteps ==
  ASSUME IsStep
  PROVE  \/ FarRests
         \/ FarStarts /\ FarCount' = 0
         \/ FarHolds /\ FarCount' = FarCount + 1
         \/ FarAdvances /\ FarCount' = FarCount + 1 - Period
         \/ FarEnds
<1>1. WireInv /\ FarStep
  BY DEF IsStep, LinkInv
<1>2. /\ farSkew \in Int /\ farElapsed \in Int /\ FarCount \in Int
      /\ Period \in Int
  BY <1>1, Rates DEF WireInv, FarCount
<1>3. FarCount' = farSkew' + farElapsed'
  BY DEF FarCount
<1>4. CASE FarStarts
  BY <1>3, <1>4 DEF FarStarts
<1>5. CASE FarHolds
  BY <1>2, <1>3, <1>5 DEF FarHolds, FarCount
<1>6. CASE FarAdvances
  <2>1. FarCount' = (FarCount + 1 - Period) + 0
    BY <1>3, <1>6 DEF FarAdvances
  <2> QED BY <1>2, <1>6, <2>1
<1>7. FarRests \/ FarStarts \/ FarHolds \/ FarAdvances \/ FarEnds
  BY <1>1, FarMoves
<1> QED BY <1>4, <1>5, <1>6, <1>7

LEMMA Quantities ==
  ASSUME IsStep
  PROVE  /\ iRegClockCounter \in Nat /\ Half \in Nat /\ Period \in Nat
         /\ Period = iRegClockCounter + 1
         /\ Period' = Period /\ Half' = Half
         /\ iRegClockCounter' = iRegClockCounter
         /\ MaxSkew <= Half /\ Half + MaxSkew <= iRegClockCounter - 1
         /\ Half <= iRegClockCounter
         /\ FarCount \in Int /\ farPhase \in 0 .. DataBits + 2
         /\ FarCount >= farElapsed - MaxSkew /\ FarCount <= farElapsed + MaxSkew
         /\ farElapsed \in Nat
         /\ Counter_Read \in Nat /\ State_Read \in IDLE .. STOP_BIT
<1>1. WireInv /\ TypeOK /\ iRegClockCounter' = iRegClockCounter
  BY DEF IsStep, LinkInv
<1>2. Half' = Half /\ Period' = Period
  BY <1>1 DEF Half, Period
<1>3. /\ farSkew \in -MaxSkew .. MaxSkew /\ farElapsed \in Nat
      /\ farPhase \in 0 .. DataBits + 2
  BY <1>1 DEF WireInv
<1>4. /\ FarCount \in Int
      /\ FarCount >= farElapsed - MaxSkew /\ FarCount <= farElapsed + MaxSkew
  BY <1>3 DEF FarCount
<1>5. Counter_Read \in Nat /\ State_Read \in IDLE .. STOP_BIT
  BY <1>1 DEF TypeOK, Words
<1> QED BY <1>1, <1>2, <1>3, <1>4, <1>5, Rates

(* Before the deadline of the present state the decoder counts, and the    *)
(* counter does not wrap.                                                  *)
LEMMA Counts ==
  ASSUME IsStep, RxCount
  PROVE  /\ Counter_Read' = Counter_Read + 1
         /\ State_Read' = State_Read /\ iRead_Current' = iRead_Current
         /\ State_Read = Start_BIT => Counter_Read < Half
         /\ State_Read \in 0 .. DataBits => Counter_Read < iRegClockCounter
<1> USE DEF RxCount, Elapsed, PeriodToCount
<1>1. /\ State_Read = Start_BIT => Counter_Read <= Half
      /\ State_Read \in 0 .. DataBits => Counter_Read <= iRegClockCounter
  BY DEF IsStep, LinkInv, InStep, InStepStart, InStepBit, InStepStop, STOP_BIT
<1>2. State_Read = Start_BIT => Counter_Read < Half
  BY <1>1, Quantities DEF Half
<1>3. State_Read \in 0 .. DataBits => Counter_Read < iRegClockCounter
  BY <1>1, Quantities DEF Start_BIT, IDLE
<1>4. Counter_Read < iRegClockCounter
  BY <1>2, <1>3, Quantities DEF IDLE, Start_BIT, STOP_BIT
<1>5. iRegClockCounter \in Words /\ Counter_Read \in Words
  BY DEF IsStep, TypeOK
<1>6. Counter_Read # WordMod - 1
  BY <1>4, <1>5 DEF Words
<1> QED BY <1>2, <1>3, <1>6 DEF Inc

(* The byte on the wire is the one begun last, until it is decoded. *)
LEMMA OnWireStep ==
  ASSUME IsStep
  PROVE  /\ FarStarts => onWire' = farPending
         /\ ~FarStarts /\ ~FrameDone => onWire' = onWire
         /\ ~FarStarts /\ FrameDone => onWire' = NoByte
<1>1. FarStarts => FarBegin
  BY BeginStarts DEF IsStep, LinkInv, FarStarts
<1>2. FarBegin => FarStarts
  <2>1. FarBegin => farPhase = 0 /\ farPhase' = 1
    BY BeginStarts DEF IsStep, LinkInv
  <2> QED BY <2>1, FarSteps DEF FarRests, FarHolds, FarAdvances, FarEnds
<1> QED BY <1>1, <1>2 DEF IsStep, Tracks

LEMMA IdleStep ==
  ASSUME IsStep, RxIdle
  PROVE  InStep'
<1> USE DEF RxIdle, InStep, InStepIdle, InStepStart, InStepBit, InStepStop,
            DecodedSoFar, IDLE, Start_BIT, STOP_BIT
<1>1. /\ InStepIdle /\ PinInv /\ WireInv
      /\ ~FrameDone
      /\ Counter_Read' = 0 /\ State_Read = IDLE
  BY DEF IsStep, LinkInv, FrameDone
<1>2. CASE farPhase = 0
  <2>1. State_Read' = IDLE
    BY <1>1, <1>2 DEF PinInv
  <2>2. FarRests \/ FarStarts
    BY <1>2, FarSteps DEF FarHolds, FarAdvances, FarEnds
  <2>3. CASE FarRests
    BY <1>1, <1>2, <2>1, <2>3, OnWireStep DEF FarRests, FarStarts
  <2>4. CASE FarStarts
    BY <2>1, <2>4, OnWireStep DEF FarStarts
  <2> QED BY <2>2, <2>3, <2>4
<1>3. CASE farPhase = 1
  <2>1. farElapsed \in {0, 1} /\ onWire = farFrame /\ farFrame \in Byte
    BY <1>1, <1>3 DEF WireInv
  <2>2. FarCount = farElapsed
    BY <1>1, <1>3, <2>1 DEF WireInv, FarCount
  <2>3. onWire' = onWire
    BY <1>1, <1>3, OnWireStep DEF FarStarts
  <2>4. CASE farElapsed = 0
    <3>1. iReadPin = 1
      BY <1>1, <1>3, <2>1, <2>4, LevelBit DEF PinInv
    <3>2. State_Read' = IDLE
      BY <3>1
    <3>3. FarHolds
      BY <1>3, <2>4, FarSteps DEF FarRests, FarStarts, FarAdvances, FarEnds
    <3> QED BY <1>3, <2>1, <2>3, <2>4, <3>2, <3>3 DEF FarHolds
  <2>5. CASE farElapsed = 1
    <3>1. iReadPin = 0 /\ iReadPin_Previous = 1
      BY <1>1, <1>3, <2>1, <2>5, LevelBit DEF PinInv
    <3>2. State_Read' = Start_BIT
      BY <3>1
    <3>3. \/ FarHolds /\ FarCount' = 1 + 1
          \/ FarAdvances /\ FarCount' = 1 + 1 - Period
      BY <1>3, <2>2, <2>5, FarSteps DEF FarRests, FarStarts, FarEnds
    <3>4. Half' = Half /\ Half \in Nat /\ Period' = Period /\ Period \in Nat
      BY Quantities
    <3>5. InStepStart'
      <4>1. ASSUME FarHolds, FarCount' = 1 + 1 PROVE InStepStart'
        BY <1>1, <1>3, <3>4, <4>1 DEF FarHolds
      <4>2. ASSUME FarAdvances, FarCount' = 1 + 1 - Period PROVE InStepStart'
        BY <1>1, <1>3, <3>4, <4>2 DEF FarAdvances
      <4> QED BY <3>3, <4>1, <4>2
    <3>6. farFrame' = farFrame
      BY <3>3 DEF FarHolds, FarAdvances
    <3>7. DecodedSoFar'
      BY <2>1, <2>3, <3>2, <3>6
    <3> QED BY <3>2, <3>5, <3>7
  <2> QED BY <2>1, <2>4, <2>5
<1>4. CASE farPhase = DataBits + 2 /\ farElapsed >= 2 /\ onWire = NoByte
  <2>1. iReadPin = 1
    BY <1>1, <1>4, LevelBit DEF PinInv, WireInv
  <2>2. State_Read' = IDLE
    BY <2>1
  <2>3. FarHolds \/ FarEnds
    BY <1>4, FarSteps DEF FarRests, FarStarts, FarAdvances
  <2>4. onWire' = onWire
    BY <1>1, <1>4, OnWireStep DEF FarStarts
  <2> QED BY <1>4, <2>2, <2>3, <2>4, Quantities DEF FarHolds, FarEnds
<1> QED BY <1>1, <1>2, <1>3, <1>4

(* While the decoder counts, both clocks advance by one. *)
LEMMA CountStep ==
  ASSUME IsStep, RxCount
  PROVE  InStep'
<1> USE DEF IDLE, Start_BIT, STOP_BIT
<1>1. /\ InStepStart /\ InStepBit /\ InStepStop /\ DecodedSoFar /\ WireInv
      /\ State_Read # IDLE /\ ~FrameDone
      /\ Counter_Read' = Counter_Read + 1
      /\ State_Read' = State_Read /\ iRead_Current' = iRead_Current
      /\ iReadPin_Previous' = iReadPin
  BY Counts DEF IsStep, LinkInv, InStep, RxCount, FrameDone, RX
<1>2. /\ Period \in Nat /\ Half \in Nat /\ Period' = Period /\ Half' = Half
      /\ iRegClockCounter' = iRegClockCounter /\ Period = iRegClockCounter + 1
      /\ Half + MaxSkew <= iRegClockCounter - 1 /\ iRegClockCounter \in Nat
      /\ MaxSkew \in Nat /\ FarCount \in Int /\ Counter_Read \in Nat
      /\ farPhase \in 0 .. DataBits + 2 /\ DataBits \in Nat \ {0}
      /\ State_Read \in -1 .. DataBits
  BY <1>1, Quantities
<1>3. farPhase # 0
  <2>1. SUFFICES ASSUME farPhase = 0 PROVE FALSE
    OBVIOUS
  <2>2. State_Read = STOP_BIT /\ Counter_Read = iRegClockCounter
    BY <1>1, <1>2, <2>1 DEF InStepStart, InStepBit, InStepStop
  <2> QED BY <1>2, <2>2, Counts
<1>4. onWire' = onWire /\ onWire \in Byte /\ onWire = farFrame
  BY <1>1, <1>3, OnWireStep DEF FarStarts, DecodedSoFar
<1>5. \/ FarHolds /\ FarCount' = FarCount + 1
      \/ FarAdvances /\ FarCount' = FarCount + 1 - Period
      \/ FarEnds
  BY <1>3, FarSteps DEF FarRests, FarStarts
<1>6. InStepIdle'
  BY <1>1 DEF InStepIdle
<1>7. InStepStart'
  <2> SUFFICES ASSUME State_Read = Start_BIT PROVE InStepStart'
    BY <1>1 DEF InStepStart
  <2>1. Counter_Read + 1 <= Half
    BY <1>2, Counts
  <2>2. ASSUME FarHolds, FarCount' = FarCount + 1 PROVE InStepStart'
    BY <1>1, <1>2, <2>1, <2>2 DEF InStepStart, FarHolds
  <2>3. ASSUME FarAdvances, FarCount' = FarCount + 1 - Period PROVE InStepStart'
    <3>1. farPhase = 1 /\ FarCount = 2 + Counter_Read
      BY <1>1, <1>2, <2>1, <2>3 DEF InStepStart, FarAdvances
    <3> QED BY <1>1, <1>2, <2>1, <2>3, <3>1 DEF InStepStart, FarAdvances
  <2>4. ~FarEnds
    BY <1>1, <1>2 DEF InStepStart, FarEnds
  <2> QED BY <1>5, <2>2, <2>3, <2>4
<1>8. InStepBit'
  <2> SUFFICES ASSUME State_Read \in 0 .. DataBits - 1 PROVE InStepBit'
    BY <1>1 DEF InStepBit
  <2>1. Counter_Read + 1 <= iRegClockCounter
    BY <1>2, Counts
  <2>2. ASSUME FarHolds, FarCount' = FarCount + 1 PROVE InStepBit'
    BY <1>1, <1>2, <2>1, <2>2 DEF InStepBit, FarHolds
  <2>3. ASSUME FarAdvances, FarCount' = FarCount + 1 - Period PROVE InStepBit'
    <3>1. \/ farPhase = State_Read + 1 /\ FarCount = 3 + Half + Counter_Read
          \/ farPhase = State_Read + 2 /\ FarCount + Period = 3 + Half + Counter_Read
      BY <1>1, <1>2, <2>1, <2>3 DEF InStepBit, FarAdvances
    <3> QED BY <1>1, <1>2, <2>1, <2>3, <3>1 DEF InStepBit, FarAdvances
  <2>4. ~FarEnds
    BY <1>1, <1>2, <2>1 DEF InStepBit, FarEnds
  <2> QED BY <1>5, <2>2, <2>3, <2>4
<1>9. InStepStop'
  <2> SUFFICES ASSUME State_Read = STOP_BIT PROVE InStepStop'
    BY <1>1 DEF InStepStop
  <2>1. Counter_Read + 1 <= iRegClockCounter
    BY <1>2, Counts
  <2>2. ASSUME FarHolds, FarCount' = FarCount + 1 PROVE InStepStop'
    BY <1>1, <1>2, <1>3, <2>1, <2>2 DEF InStepStop, FarHolds
  <2>3. ASSUME FarAdvances, FarCount' = FarCount + 1 - Period PROVE InStepStop'
    BY <1>1, <1>2, <1>3, <2>1, <2>3 DEF InStepStop, FarAdvances
  <2>4. ASSUME FarEnds PROVE InStepStop'
    <3>1. FarCount + Period = 3 + Half + Counter_Read
      BY <1>1, <1>2, <1>3, <2>4 DEF InStepStop, FarEnds
    <3>2. Counter_Read + 1 = iRegClockCounter
      BY <1>2, <2>1, <2>4, <3>1 DEF FarEnds
    <3>3. iReadPin = 1
      BY <2>4, LevelBit DEF IsStep, LinkInv, PinInv, WireInv, FarEnds
    <3> QED BY <1>1, <1>2, <2>4, <3>2, <3>3 DEF InStepStop, FarEnds
  <2> QED BY <1>5, <2>2, <2>3, <2>4
<1>10. DecodedSoFar'
  <2>1. farPhase' # 0 => farFrame' = farFrame
    BY <1>5 DEF FarHolds, FarAdvances, FarEnds
  <2> QED BY <1>1, <1>4, <2>1 DEF DecodedSoFar
<1> QED BY <1>6, <1>7, <1>8, <1>9, <1>10 DEF InStep

(* In the middle of the start bit both pins are still low. *)
LEMMA StartStep ==
  ASSUME IsStep, RxStart
  PROVE  InStep'
<1> USE DEF IDLE, Start_BIT, STOP_BIT
<1>1. /\ InStepStart /\ DecodedSoFar /\ WireInv /\ PinInv
      /\ State_Read = Start_BIT /\ ~FrameDone
      /\ Counter_Read = Half /\ Counter_Read' = 0
  BY DEF IsStep, LinkInv, InStep, RxStart, Elapsed, PeriodToCount, Half, FrameDone
<1>2. /\ Period \in Nat /\ Half \in Nat /\ Period' = Period /\ Half' = Half
      /\ iRegClockCounter' = iRegClockCounter /\ Period = iRegClockCounter + 1
      /\ Half + MaxSkew <= iRegClockCounter - 1 /\ iRegClockCounter \in Nat
      /\ MaxSkew \in Nat /\ FarCount \in Int /\ farElapsed \in Nat
      /\ DataBits \in Nat \ {0}
      /\ FarCount >= farElapsed - MaxSkew
  BY Quantities
<1>3. \/ farPhase = 1 /\ FarCount = 2 + Half
      \/ farPhase = 2 /\ FarCount + Period = 2 + Half
  BY <1>1 DEF InStepStart
<1>4. farPhase = 1 => farElapsed >= 2
  BY <1>1, <1>2, <1>3 DEF WireInv, FarCount
<1>5. farPhase = 2 => farElapsed = 0
  BY <1>2, <1>3
<1>6. iReadPin = 0 /\ iReadPin_Previous = 0
  BY <1>1, <1>3, <1>4, <1>5, LevelBit DEF PinInv, WireInv
<1>7. State_Read' = 0
  BY <1>6 DEF RxStart
<1>8. \/ FarHolds /\ FarCount' = FarCount + 1
      \/ FarAdvances /\ FarCount' = FarCount + 1 - Period
  BY <1>2, <1>3, FarSteps DEF FarRests, FarStarts, FarEnds
<1>9. InStepBit'
  <2>1. ASSUME FarHolds, FarCount' = FarCount + 1 PROVE InStepBit'
    BY <1>1, <1>2, <1>3, <1>7, <2>1 DEF InStepBit, FarHolds
  <2>2. ASSUME FarAdvances, FarCount' = FarCount + 1 - Period PROVE InStepBit'
    BY <1>1, <1>2, <1>3, <1>5, <1>7, <2>2 DEF InStepBit, FarAdvances
  <2> QED BY <1>8, <2>1, <2>2
<1>10. DecodedSoFar'
  <2>1. onWire' = onWire /\ farFrame' = farFrame
    BY <1>1, <1>3, <1>8, OnWireStep DEF FarStarts, FarHolds, FarAdvances
  <2> QED BY <1>1, <1>3, <1>7, <2>1 DEF DecodedSoFar
<1> QED BY <1>2, <1>7, <1>9, <1>10 DEF InStep, InStepIdle, InStepStart, InStepStop

(* At the end of each data bit period the pin shows that bit of the frame. *)
LEMMA BitStep ==
  ASSUME IsStep, RxBit
  PROVE  InStep'
<1> USE DEF IDLE, Start_BIT, STOP_BIT
<1>1. /\ InStepBit /\ DecodedSoFar /\ WireInv /\ PinInv /\ TypeOK
      /\ State_Read \in 0 .. DataBits - 1 /\ ~FrameDone
      /\ Counter_Read = iRegClockCounter /\ Counter_Read' = 0
      /\ State_Read' = State_Read + 1
      /\ iRead_Current' = [iRead_Current EXCEPT ![State_Read] = iReadPin]
  BY DEF IsStep, LinkInv, InStep, RxBit, Elapsed, PeriodToCount, FrameDone
<1>2. /\ Period \in Nat /\ Half \in Nat /\ Period' = Period /\ Half' = Half
      /\ iRegClockCounter' = iRegClockCounter /\ Period = iRegClockCounter + 1
      /\ Half + MaxSkew <= iRegClockCounter - 1 /\ iRegClockCounter \in Nat
      /\ MaxSkew <= Half
      /\ MaxSkew \in Nat /\ FarCount \in Int /\ farElapsed \in Nat
      /\ DataBits \in Nat \ {0}
      /\ FarCount >= farElapsed - MaxSkew /\ FarCount <= farElapsed + MaxSkew
  BY Quantities
<1>3. \/ farPhase = State_Read + 2 /\ FarCount = 2 + Half
      \/ farPhase = State_Read + 3 /\ FarCount + Period = 2 + Half
  <2>1. farPhase = State_Read + 1 => FarCount <= iRegClockCounter + MaxSkew
    BY <1>1 DEF WireInv
  <2> QED BY <1>1, <1>2, <2>1 DEF InStepBit
<1>4. farPhase = State_Read + 2 => farElapsed >= 2
  BY <1>1, <1>2, <1>3
<1>5. farPhase = State_Read + 3 => farElapsed = 0
  BY <1>1, <1>2, <1>3
<1>6. iReadPin = onWire[State_Read]
  <2>1. /\ farFrame \in Byte /\ onWire = farFrame
        /\ iReadPin = Far!Level(farFrame, IF farElapsed >= 1 THEN farPhase ELSE farPhase - 1)
    BY <1>1, <1>3 DEF WireInv, PinInv, DecodedSoFar
  <2>2. iReadPin = Far!Level(farFrame, State_Read + 2)
    BY <1>1, <1>2, <1>3, <1>4, <1>5, <2>1
  <2> QED BY <1>1, <2>1, <2>2, LevelBit
<1>7. \/ FarHolds /\ FarCount' = FarCount + 1
      \/ FarAdvances /\ FarCount' = FarCount + 1 - Period
  <2>1. ~FarEnds
    BY <1>1, <1>3, <1>5 DEF FarEnds
  <2> QED BY <1>1, <1>3, <2>1, FarSteps DEF FarRests, FarStarts
<1>8. /\ farPhase' # 0
      /\ \/ farPhase' = State_Read + 2 /\ FarCount' = 3 + Half
         \/ farPhase' = State_Read + 3 /\ FarCount' = 3 + Half - Period
  <2>1. ASSUME FarHolds, FarCount' = FarCount + 1 PROVE <1>8!2
    BY <1>1, <1>2, <1>3, <2>1 DEF FarHolds
  <2>2. ASSUME FarAdvances, FarCount' = FarCount + 1 - Period PROVE <1>8!2
    BY <1>1, <1>2, <1>3, <1>5, <2>2 DEF FarAdvances
  <2> QED BY <1>1, <1>7, <2>1, <2>2
<1>9. InStepBit' /\ InStepStop'
  BY <1>1, <1>2, <1>8 DEF InStepBit, InStepStop
<1>10. DecodedSoFar'
  <2>1. onWire' = onWire /\ farFrame' = farFrame /\ onWire = farFrame
    BY <1>1, <1>3, <1>7, OnWireStep
       DEF FarStarts, FarHolds, FarAdvances, DecodedSoFar
  <2>2. ASSUME NEW i \in 0 .. State_Read PROVE iRead_Current'[i] = onWire[i]
    BY <1>1, <1>6, <2>2 DEF TypeOK, Byte, DecodedSoFar
  <2>3. onWire \in Byte
    BY <1>1 DEF DecodedSoFar
  <2>4. (\A i \in 0 .. State_Read - 1 : iRead_Current[i] = onWire[i])'
    BY <1>1, <2>1, <2>2
  <2> QED BY <2>1, <2>3, <2>4 DEF DecodedSoFar
<1> QED BY <1>1, <1>9, <1>10 DEF InStep, InStepIdle, InStepStart

(* In the middle of the stop bit both pins are high and the whole byte has *)
(* been collected.                                                         *)
LEMMA StopStep ==
  ASSUME IsStep, RxStop
  PROVE  InStep' /\ Faithful
<1> USE DEF IDLE, Start_BIT, STOP_BIT
<1>1. /\ InStepStop /\ DecodedSoFar /\ WireInv /\ PinInv /\ TypeOK
      /\ State_Read = DataBits /\ State_Read' = -2 /\ FrameDone
      /\ Counter_Read = iRegClockCounter
      /\ iRegRead_Final' = iRead_Current
  BY DEF IsStep, LinkInv, InStep, RxStop, Elapsed, PeriodToCount, FrameDone
<1>2. /\ Period \in Nat /\ Half \in Nat /\ Period = iRegClockCounter + 1
      /\ Half + MaxSkew <= iRegClockCounter - 1 /\ iRegClockCounter \in Nat
      /\ MaxSkew <= Half
      /\ MaxSkew \in Nat /\ FarCount \in Int /\ farElapsed \in Nat
      /\ DataBits \in Nat \ {0}
      /\ FarCount <= farElapsed + MaxSkew
  BY Quantities
<1>3. \/ farPhase = DataBits + 2 /\ FarCount = 2 + Half
      \/ farPhase = 0 /\ iReadPin_Previous = 1 /\ farPending = NoByte
  <2>1. farPhase = DataBits + 1 => FarCount <= iRegClockCounter + MaxSkew
    BY <1>1, <1>2 DEF WireInv
  <2> QED BY <1>1, <1>2, <2>1 DEF InStepStop
<1>4. farPhase = DataBits + 2 => farElapsed >= 2
  BY <1>2, <1>3
<1>5. ~BadStop
  BY <1>1, <1>2, <1>3, <1>4, LevelBit DEF BadStop, PinInv, WireInv
<1>6. ~FarStarts
  BY <1>2, <1>3, NoByteNotByte DEF FarStarts
<1>7. onWire' = NoByte
  BY <1>1, <1>6, OnWireStep
<1>8. FarRests \/ FarHolds \/ FarEnds
  BY <1>2, <1>3, <1>6, FarSteps DEF FarAdvances
<1>9. InStepIdle'
  BY <1>1, <1>2, <1>3, <1>4, <1>7, <1>8 DEF InStepIdle, FarRests, FarHolds, FarEnds
<1>10. InStep'
  BY <1>1, <1>2, <1>9 DEF InStep, InStepStart, InStepBit, InStepStop, DecodedSoFar
<1>11. onWire # NoByte /\ iRead_Current = onWire
  <2>1. /\ onWire \in Byte /\ iRead_Current \in Byte
        /\ \A i \in 0 .. DataBits - 1 : iRead_Current[i] = onWire[i]
    BY <1>1, <1>2 DEF DecodedSoFar, TypeOK
  <2>2. iRead_Current = onWire
    BY <2>1 DEF Byte
  <2> QED BY <2>1, <2>2, NoByteNotByte
<1>12. ~FarBegin
  BY <1>1, <1>2, <1>3, NoByteNotByte DEF FarBegin, Far!Begin
<1> QED BY <1>1, <1>5, <1>10, <1>11, <1>12 DEF Faithful

(* Outside the stop bit nothing is handed over, and a frame begins only on *)
(* a line the decoder has finished with.                                   *)
LEMMA FaithfulStep ==
  ASSUME IsStep, ~FrameDone
  PROVE  Faithful
<1>1. FarBegin => farPhase = 0 /\ farPending # NoByte
  BY DEF FarBegin, Far!Begin
<1>2. InStep /\ State_Read \in IDLE .. STOP_BIT /\ FrameDone = FALSE
  BY DEF IsStep, LinkInv, TypeOK
<1>3. ASSUME farPhase = 0, farPending # NoByte PROVE onWire = NoByte
  <2>1. State_Read = IDLE
    BY <1>2, <1>3 DEF InStep, InStepStart, InStepBit, InStepStop, IDLE, Start_BIT,
                      STOP_BIT
  <2> QED BY <1>2, <1>3, <2>1 DEF InStep, InStepIdle
<1> QED BY <1>1, <1>3 DEF Faithful

LEMMA LinkStep ==
  ASSUME TypeOK, LinkInv, Edge
  PROVE  Next /\ LinkInv' /\ Faithful
<1>1. PICK b \in Bus : Clk(b, farLine)
  BY DEF Edge
<1>2. WireInv /\ PinInv /\ FarStep /\ RX(farLine) /\ Tracks
  BY <1>1 DEF Edge, LinkInv, Clk
<1>3. iRegClockCounter' = iRegClockCounter
  BY <1>1, RateHeld
<1>4. farLine \in {0, 1} /\ b \in BusCycles
  BY <1>2, WireBit, BusReads
<1>5. Next
  BY <1>1, <1>4 DEF Next
<1>6. IsStep
  BY <1>2, <1>3 DEF IsStep
<1>7. WireInv' /\ PinInv'
  BY <1>2, <1>3, WireStep, PinStep
<1>8. InStep' /\ Faithful
  <2>1. CASE RxIdle
    BY <1>6, <2>1, IdleStep, FaithfulStep DEF RxIdle, FrameDone, IDLE, STOP_BIT
  <2>2. CASE RxCount
    BY <1>6, <2>2, CountStep, FaithfulStep DEF RxCount, FrameDone
  <2>3. CASE RxStart
    BY <1>6, <2>3, StartStep, FaithfulStep DEF RxStart, FrameDone, Start_BIT, STOP_BIT
  <2>4. CASE RxBit
    BY <1>6, <2>4, BitStep, FaithfulStep DEF RxBit, FrameDone, STOP_BIT
  <2>5. CASE RxStop
    BY <1>6, <2>5, StopStep
  <2> QED BY <1>2, <2>1, <2>2, <2>3, <2>4, <2>5 DEF RX
<1> QED BY <1>5, <1>7, <1>8 DEF LinkInv

LEMMA LinkStart == LinkInit => TypeOK /\ LinkInv
<1> SUFFICES ASSUME LinkInit PROVE TypeOK /\ LinkInv
  OBVIOUS
<1>1. TypeOK
  BY TypeInit DEF LinkInit
<1>2. /\ iRegClockCounter \in PowerUp /\ iReadPin = 1 /\ State_Read = -2
      /\ farPhase = 0 /\ farElapsed = 0 /\ farSkew = 0 /\ farLine = 1
      /\ farPending = NoByte /\ onWire = NoByte
  BY DEF LinkInit, Init, InReset, Far!Init, Far!Rest, IDLE
<1>3. WireInv /\ PinInv
  BY <1>2 DEF WireInv, PinInv, Far!Level
<1>4. InStep
  BY <1>2 DEF InStep, InStepIdle, InStepStart, InStepBit, InStepStop,
              DecodedSoFar, IDLE, Start_BIT, STOP_BIT
<1> QED BY <1>1, <1>3, <1>4 DEF LinkInv

LEMMA LinkStutter ==
  ASSUME TypeOK, LinkInv, UNCHANGED linkVars
  PROVE  TypeOK' /\ LinkInv'
<1>1. UNCHANGED vars /\ UNCHANGED farVars /\ UNCHANGED onWire
  BY DEF linkVars
<1>2. UNCHANGED <<iRegClockCounter, State_Read, Counter_Read, iRead_Current,
                  iReadPin, iReadPin_Previous>>
  BY <1>1 DEF vars, writeVars, rxFrame, rxPins
<1>3. TypeOK'
  BY <1>1, TypeStep
<1>4. WireInv' /\ PinInv'
  BY <1>1, <1>2 DEF LinkInv, WireInv, PinInv, farVars, FarCount
<1>5. InStep'
  <2>1. UNCHANGED <<Half, Period, FarCount>>
    BY <1>1, <1>2 DEF Half, Period, FarCount, farVars
  <2> QED BY <1>1, <1>2, <2>1
        DEF LinkInv, InStep, InStepIdle, InStepStart, InStepBit, InStepStop,
            DecodedSoFar, farVars, IDLE, Start_BIT, STOP_BIT
<1> QED BY <1>3, <1>4, <1>5 DEF LinkInv

(* The two clocks stay in step, at every rate and under every drift. *)
THEOREM LinkInStep == LinkSpec => [](TypeOK /\ LinkInv)
<1>1. TypeOK /\ LinkInv /\ [Edge]_linkVars => (TypeOK /\ LinkInv)'
  BY LinkStep, LinkStutter, TypeStep
<1> QED BY <1>1, LinkStart, PTL DEF LinkSpec

(* Every frame sent is received, exactly once and bit for bit. *)
THEOREM Reception == LinkSpec => Fidelity
<1>1. TypeOK /\ LinkInv /\ [Edge]_linkVars => [Faithful]_linkVars
  BY LinkStep
<1> QED BY <1>1, LinkInStep, PTL DEF LinkSpec, Fidelity
-----------------------------------------------------------------------------
(* The reader.  Between two frames the decoder needs a certain time for the *)
(* next one, counted here from the edge at which a frame was complete: at   *)
(* least that many cycles have gone by.                                    *)
Progress ==
  IF State_Read = IDLE THEN 0
  ELSE IF State_Read = Start_BIT THEN 1 + Counter_Read
  ELSE 2 + Half + State_Read * Period + Counter_Read

LEMMA Times ==
  ASSUME NEW k \in Nat, NEW p \in Nat
  PROVE  k * p \in Nat /\ (k + 1) * p = k * p + p
OBVIOUS

LEMMA ProgressType ==
  ASSUME IsStep
  PROVE  Progress \in Nat
<1>1. State_Read \in 0 .. DataBits => State_Read * Period \in Nat
  BY Times, Quantities
<1> QED BY <1>1, Quantities DEF Progress, IDLE, Start_BIT, STOP_BIT

(* The decoder needs a cycle for every cycle it is ahead.                  *)
LEMMA ProgressStep ==
  ASSUME IsStep
  PROVE  Progress' \in Nat /\ Progress' <= Progress + 1
<1> USE DEF IDLE, Start_BIT, STOP_BIT
<1>1. /\ Period \in Nat /\ Half \in Nat /\ Counter_Read \in Nat
      /\ Half' = Half /\ Period' = Period
      /\ Period = iRegClockCounter + 1 /\ iRegClockCounter \in Nat
      /\ State_Read \in -2 .. DataBits
  BY Quantities
<1>2. Progress \in Nat
  BY ProgressType
<1>3. CASE RxIdle
  BY <1>1, <1>3 DEF RxIdle, Progress
<1>4. CASE RxCount
  <2>1. Counter_Read' = Counter_Read + 1 /\ State_Read' = State_Read /\ State_Read # -2
    BY <1>4, Counts DEF RxCount
  <2>2. State_Read \in 0 .. DataBits => State_Read * Period \in Nat
    BY <1>1, Times
  <2> QED BY <1>1, <2>1, <2>2 DEF Progress
<1>5. CASE RxStart
  <2>1. /\ State_Read = -1 /\ Counter_Read = Half /\ Counter_Read' = 0
        /\ State_Read' \in {0, -2}
    BY <1>5 DEF RxStart, Elapsed, PeriodToCount, Half
  <2>2. Progress = 1 + Half
    BY <2>1 DEF Progress
  <2>3. ASSUME State_Read' = 0 PROVE Progress' = 2 + Half
    <3>1. Progress' = 2 + Half + 0 * Period + 0
      BY <1>1, <2>1, <2>3 DEF Progress
    <3> QED BY <1>1, <3>1
  <2>4. ASSUME State_Read' = -2 PROVE Progress' = 0
    BY <2>4 DEF Progress
  <2> QED BY <1>1, <2>1, <2>2, <2>3, <2>4
<1>6. CASE RxBit
  <2>1. /\ State_Read \in 0 .. DataBits - 1 /\ Counter_Read = iRegClockCounter
        /\ Counter_Read' = 0 /\ State_Read' = State_Read + 1
    BY <1>6 DEF RxBit, Elapsed, PeriodToCount
  <2>2. /\ State_Read * Period \in Nat
        /\ (State_Read + 1) * Period = State_Read * Period + Period
    BY <1>1, <2>1, Times
  <2>3. Progress' = 2 + Half + (State_Read + 1) * Period + 0
    BY <1>1, <2>1 DEF Progress
  <2>4. Progress = 2 + Half + State_Read * Period + iRegClockCounter
    BY <1>1, <2>1 DEF Progress
  <2> QED BY <1>1, <2>2, <2>3, <2>4
<1>7. CASE RxStop
  <2>1. State_Read' = -2
    BY <1>7 DEF RxStop
  <2> QED BY <1>2, <2>1 DEF Progress
<1> QED BY <1>3, <1>4, <1>5, <1>6, <1>7 DEF IsStep, RX

(* Whatever the decoder is doing, the stop bit and the end of the frame    *)
(* leave the program its time.                                             *)
LEMMA TimeEnough ==
  ASSUME IsStep
  PROVE  /\ State_Read = STOP_BIT => Progress >= 7 + 2 * MaxAway
         /\ FrameDone => Progress >= 8 + 3 * MaxAway
<1> USE DEF IDLE, Start_BIT, STOP_BIT
<1>1. /\ Period \in Nat /\ Half \in Nat /\ Counter_Read \in Nat
      /\ Period = iRegClockCounter + 1 /\ iRegClockCounter \in Nat
  BY Quantities
<1>2. iRegClockCounter \in PowerUp
  BY DEF IsStep, LinkInv, WireInv
<1>3. /\ DataBits * Period \in Nat
      /\ (DataBits + 1) * Period = DataBits * Period + Period
  BY <1>1, Times
<1>4. /\ 2 * MaxAway + 5 <= Half + DataBits * Period
      /\ 3 * MaxAway + 7 <= Half + (DataBits + 1) * Period
  BY <1>1, <1>2, PromptAssumption DEF Half
<1>5. State_Read = STOP_BIT => Progress = 2 + Half + DataBits * Period + Counter_Read
  BY DEF Progress
<1>6. FrameDone => State_Read = STOP_BIT /\ Counter_Read = iRegClockCounter
  BY DEF FrameDone, Elapsed, PeriodToCount
<1> QED BY <1>1, <1>3, <1>4, <1>5, <1>6

(* Cycles until the program takes the byte that is announced, this one     *)
(* included, and until the mark of a read is taken back.                   *)
ToTake ==
  IF goal = "byte" THEN IF beat = 0 THEN 3 + MaxAway - away ELSE 3 - beat
  ELSE IF beat = 0 THEN 6 + 2 * MaxAway - away
  ELSE IF beat = 1 THEN 5 + MaxAway
  ELSE IF avs_ReadData = Word(1) THEN 4 + MaxAway ELSE 7 + 2 * MaxAway
ToUnmark == IF beat = 0 THEN 2 + MaxAway - away ELSE 1

Announced == iRegValueReadAvailable = 1
Fetching == goal = "byte" /\ beat = 2

ReaderTypeOK ==
  /\ goal \in {"flag", "byte"} /\ beat \in 0 .. 2 /\ away \in 0 .. MaxAway
  /\ beat # 0 => away = 0

(* The program has not read the byte that is announced, nor the one on the *)
(* wire, and has read all others.                                          *)
Unread == IF Announced THEN <<iRegRead_Final>> ELSE <<>>
AsExpected == expected = IF onWire = NoByte THEN Unread ELSE Append(Unread, onWire)

(* It asks for a byte only when one is announced, and at the second edge of *)
(* the access has it in hand and has left its mark.                        *)
AskedFor ==
  /\ onWire \in Byte \cup {NoByte}
  /\ ~Announced => goal = "flag" /\ (beat = 2 => avs_ReadData # Word(1))
  /\ Announced => (iHasBeenRead = 1 <=> Fetching)
  /\ Fetching => avs_ReadData = Octet(iRegRead_Final)

(* It takes the byte before the stop bit of the next frame, and its mark is *)
(* gone when that frame is complete.                                       *)
InTime ==
  /\ Announced => ToTake + Progress <= 7 + 2 * MaxAway
  /\ ~Announced /\ iHasBeenRead = 1 =>
       beat # 2 /\ ToUnmark + Progress <= 9 + 3 * MaxAway

ReaderInv == ReaderTypeOK /\ AsExpected /\ AskedFor /\ InTime

IsRead == IsStep /\ ReaderInv /\ ReaderStep /\ \E b \in Bus : Read_Process(b)

(* What a bus cycle does to the read data and to the mark. *)
LEMMA BusEffect ==
  ASSUME IsRead
  PROVE  /\ beat = 0 => /\ avs_ReadData' = Word(0)
                        /\ iHasBeenRead' \in {iHasBeenRead, 0}
         /\ beat # 0 /\ goal = "byte" =>
              avs_ReadData' = Octet(iRegRead_Final) /\ iHasBeenRead' = 1
         /\ beat # 0 /\ goal = "flag" =>
              /\ avs_ReadData' = Word(iRegValueReadAvailable)
              /\ iHasBeenRead' = IF Announced THEN iHasBeenRead ELSE 0
<1>1. PICK b \in Bus : Read_Process(b)
  BY DEF IsRead
<1>2. iRegValueReadAvailable \in {0, 1} /\ iHasBeenRead \in {0, 1}
  BY DEF IsRead, IsStep, TypeOK
<1>3. CASE beat = 0
  <2>1. b.op = "idle"
    BY <1>3 DEF Bus, Idle
  <2> QED BY <1>1, <1>3, <2>1 DEF Read_Process
<1>4. CASE beat # 0
  <2>1. b = [op |-> "read", addr |-> Target]
    BY <1>4 DEF Bus
  <2>2. b.op = "read" /\ b.addr = Target
    BY <2>1
  <2>3. goal = "byte" => Target = 2 /\ Register(Target) = Octet(iRegRead_Final)
    BY DEF Target, Register
  <2>4. goal = "flag" => Target = 4 /\ Register(Target) = Word(iRegValueReadAvailable)
    BY DEF Target, Register
  <2> QED BY <1>1, <1>2, <1>4, <2>2, <2>3, <2>4 DEF Read_Process, Announced
<1> QED BY <1>3, <1>4

(* The flag goes up when a frame is complete, never on a byte that is still *)
(* unread, and down when the program takes the byte.                       *)
LEMMA FlagStep ==
  ASSUME IsRead
  PROVE  /\ Announced' <=> FrameDone \/ (Announced /\ ~Fetching)
         /\ FrameDone => ~Announced
         /\ FrameDone /\ iHasBeenRead = 1 => beat = 1
         /\ iRegValueReadAvailable \in {0, 1} /\ iHasBeenRead \in {0, 1}
         /\ ReaderTypeOK /\ AskedFor /\ InTime /\ Progress \in Nat /\ MaxAway \in Nat
         /\ Progress' \in Nat /\ Progress' <= Progress + 1
<1>1. /\ ReaderTypeOK /\ AskedFor /\ InTime /\ RxFlagAvailable
      /\ iRegValueReadAvailable \in {0, 1} /\ iHasBeenRead \in {0, 1}
      /\ IsStep
  BY DEF IsRead, ReaderInv, IsStep, RX, TypeOK
<1>2. /\ Progress \in Nat /\ Progress' \in Nat /\ Progress' <= Progress + 1
      /\ State_Read = STOP_BIT => Progress >= 7 + 2 * MaxAway
      /\ FrameDone => Progress >= 8 + 3 * MaxAway
  BY <1>1, ProgressType, ProgressStep, TimeEnough
<1>3. MaxAway \in Nat
  OBVIOUS
<1>4. ToTake \in Nat /\ ToTake >= 1 /\ (Fetching => ToTake = 1)
  BY <1>1, <1>3 DEF ReaderTypeOK, ToTake, Fetching
<1>5. FrameDone => ~Announced
  BY <1>1, <1>2, <1>3, <1>4 DEF InTime
<1>6. Announced /\ Fetching => State_Read # STOP_BIT
  BY <1>1, <1>2, <1>3, <1>4 DEF InTime
<1>7. FrameDone /\ iHasBeenRead = 1 => beat = 1
  <2>1. beat = 0 => ToUnmark \in Nat /\ ToUnmark >= 2
    BY <1>1, <1>3 DEF ReaderTypeOK, ToUnmark
  <2> QED BY <1>1, <1>2, <1>3, <1>5, <2>1 DEF InTime, ReaderTypeOK
<1>8. Announced' <=> FrameDone \/ (Announced /\ ~Fetching)
  BY <1>1, <1>5, <1>6 DEF RxFlagAvailable, Announced, AskedFor
<1> QED BY <1>1, <1>2, <1>3, <1>5, <1>7, <1>8

LEMMA ScheduleTypes ==
  ReaderTypeOK => /\ ToTake \in Nat /\ ToTake <= 7 + 2 * MaxAway
                  /\ ToUnmark \in Nat /\ ToUnmark <= 2 + MaxAway
                  /\ Fetching => ToTake = 1
BY DEF ReaderTypeOK, ToTake, ToUnmark, Fetching

(* What was due in time, and is nearer by a cycle, is due in time.         *)
LEMMA StillInTime ==
  ASSUME NEW t \in Nat, NEW tt \in Nat, NEW p \in Nat, NEW pp \in Nat,
         NEW limit \in Nat, pp <= p + 1, tt <= t - 1, t + p <= limit
  PROVE  tt + pp <= limit
OBVIOUS

(* One cycle of the schedule: what is still to do shrinks by one, or the    *)
(* program begins to do it.                                                *)
TakeNears == Announced /\ Announced' => ToTake' <= ToTake - 1
UnmarkNears ==
  ~Announced' /\ iHasBeenRead' = 1 =>
    /\ beat' # 2
    /\ \/ ~Announced /\ iHasBeenRead = 1 /\ ToUnmark' <= ToUnmark - 1
       \/ Announced /\ Fetching

LEMMA Schedule ==
  ASSUME IsRead, ReaderTypeOK', TakeNears, UnmarkNears
  PROVE  InTime'
<1>1. /\ Announced' <=> FrameDone \/ (Announced /\ ~Fetching)
      /\ ReaderTypeOK /\ InTime /\ Progress \in Nat /\ MaxAway \in Nat
      /\ Progress' \in Nat /\ Progress' <= Progress + 1
  BY FlagStep
<1>2. FrameDone => Progress' = 0
  BY DEF IsRead, IsStep, RX, RxIdle, RxCount, RxStart, RxBit, RxStop, FrameDone,
         Progress, STOP_BIT, IDLE, Start_BIT, Elapsed
<1>3. /\ ToTake \in Nat /\ ToUnmark \in Nat
      /\ Fetching => ToTake = 1
  BY <1>1, ScheduleTypes
<1>4. (ReaderTypeOK => /\ ToTake \in Nat /\ ToTake <= 7 + 2 * MaxAway
                       /\ ToUnmark \in Nat /\ ToUnmark <= 2 + MaxAway
                       /\ Fetching => ToTake = 1)'
  BY ScheduleTypes, PTL
<1>5. PICK take \in Nat, unmark \in Nat, p \in Nat :
        /\ take = ToTake' /\ take <= 7 + 2 * MaxAway
        /\ unmark = ToUnmark' /\ unmark <= 2 + MaxAway
        /\ p = Progress' /\ p <= Progress + 1
  BY <1>1, <1>4
<1>6. Progress \in Nat /\ MaxAway \in Nat
  BY <1>1
<1>7. take <= 7 + 2 * MaxAway /\ unmark <= 2 + MaxAway /\ p <= Progress + 1
  BY <1>5
<1>8. ASSUME Announced' PROVE take + p <= 7 + 2 * MaxAway
  <2>1. CASE FrameDone
    <3>1. p = 0
      BY <1>2, <1>5, <2>1
    <3> QED BY <1>6, <1>7, <3>1
  <2>2. CASE ~FrameDone
    <3>1. Announced
      BY <1>1, <1>8, <2>2
    <3>2. take <= ToTake - 1
      BY <1>5, <1>8, <3>1 DEF TakeNears
    <3>3. ToTake + Progress <= 7 + 2 * MaxAway
      BY <1>1, <3>1 DEF InTime
    <3> QED BY <1>3, <1>6, <1>7, <3>2, <3>3, StillInTime
  <2> QED BY <2>1, <2>2
<1>9. ASSUME ~Announced', iHasBeenRead' = 1
      PROVE  beat' # 2 /\ unmark + p <= 9 + 3 * MaxAway
  <2>1. /\ beat' # 2
        /\ \/ ~Announced /\ iHasBeenRead = 1 /\ unmark <= ToUnmark - 1
           \/ Announced /\ Fetching
    BY <1>5, <1>9 DEF UnmarkNears
  <2>2. CASE ~Announced /\ iHasBeenRead = 1 /\ unmark <= ToUnmark - 1
    <3>1. ToUnmark + Progress <= 9 + 3 * MaxAway
      BY <1>1, <2>2 DEF InTime
    <3> QED BY <1>3, <1>6, <1>7, <2>1, <2>2, <3>1, StillInTime
  <2>3. CASE Announced /\ Fetching
    <3>1. 1 + Progress <= 7 + 2 * MaxAway
      BY <1>1, <1>3, <2>3 DEF InTime
    <3> QED BY <1>6, <1>7, <2>1, <3>1
  <2> QED BY <2>1, <2>2, <2>3
<1> QED BY <1>5, <1>8, <1>9 DEF InTime

(* The five steps of the reader keep its schedule. *)
LEMMA ReaderKeeps ==
  ASSUME IsRead, onWire' \in Byte \cup {NoByte},
         UNCHANGED iRegRead_Final \/ FrameDone
  PROVE  ReaderTypeOK' /\ AskedFor' /\ InTime'
<1>1. /\ Announced' <=> FrameDone \/ (Announced /\ ~Fetching)
      /\ FrameDone => ~Announced
      /\ FrameDone /\ iHasBeenRead = 1 => beat = 1
      /\ iRegValueReadAvailable \in {0, 1} /\ iHasBeenRead \in {0, 1}
      /\ ReaderTypeOK /\ AskedFor /\ MaxAway \in Nat
  BY FlagStep
<1>3. Word(0) # Word(1)
  BY DEF Word
<1> USE DEF ReaderTypeOK, Fetching
<1>4. CASE StayAway
  <2>1. /\ beat = 0 /\ beat' = 0 /\ goal' = goal /\ away' = away + 1 /\ away < MaxAway
        /\ avs_ReadData' = Word(0) /\ iHasBeenRead' \in {iHasBeenRead, 0}
    BY <1>4, BusEffect DEF StayAway
  <2>2. ReaderTypeOK'
    BY <1>1, <2>1
  <2>3. AskedFor'
    BY <1>1, <2>1 DEF AskedFor
  <2>4. InTime'
    BY <1>1, <2>1, <2>2, Schedule DEF TakeNears, UnmarkNears, AskedFor, ToTake,
                                    ToUnmark
  <2> QED BY <2>2, <2>3, <2>4
<1>5. CASE StartRead
  <2>1. /\ beat = 0 /\ beat' = 1 /\ goal' = goal /\ away' = 0
        /\ avs_ReadData' = Word(0) /\ iHasBeenRead' \in {iHasBeenRead, 0}
    BY <1>5, BusEffect DEF StartRead
  <2>2. ReaderTypeOK'
    BY <1>1, <2>1
  <2>3. AskedFor'
    BY <1>1, <2>1 DEF AskedFor
  <2>4. InTime'
    BY <1>1, <2>1, <2>2, Schedule DEF TakeNears, UnmarkNears, AskedFor, ToTake,
                                    ToUnmark
  <2> QED BY <2>2, <2>3, <2>4
<1>6. CASE HoldRead
  <2>1. beat = 1 /\ beat' = 2 /\ goal' = goal /\ away' = away
    BY <1>6 DEF HoldRead
  <2>2. ReaderTypeOK'
    BY <1>1, <2>1
  <2>3. CASE goal = "byte"
    <3>1. avs_ReadData' = Octet(iRegRead_Final) /\ iHasBeenRead' = 1
      BY <2>1, <2>3, BusEffect
    <3>2. Announced /\ ~FrameDone /\ Announced' /\ UNCHANGED iRegRead_Final
      BY <1>1, <2>1, <2>3 DEF AskedFor
    <3>3. AskedFor'
      BY <2>1, <2>3, <3>1, <3>2 DEF AskedFor
    <3>4. InTime'
      BY <1>1, <2>1, <2>2, <2>3, <3>2, Schedule DEF TakeNears, UnmarkNears,
                                                  ToTake
    <3> QED BY <2>2, <3>3, <3>4
  <2>4. CASE goal = "flag"
    <3>1. /\ avs_ReadData' = Word(iRegValueReadAvailable)
          /\ iHasBeenRead' = IF Announced THEN iHasBeenRead ELSE 0
      BY <2>1, <2>4, BusEffect
    <3>2. iHasBeenRead' = 0
      BY <1>1, <2>1, <3>1 DEF AskedFor
    <3>3. avs_ReadData' = Word(1) <=> Announced
      BY <1>1, <1>3, <3>1 DEF Announced
    <3>4. AskedFor'
      BY <1>1, <2>1, <2>4, <3>2, <3>3 DEF AskedFor
    <3>5. InTime'
      BY <1>1, <2>1, <2>2, <2>4, <3>2, <3>3, Schedule DEF TakeNears, UnmarkNears,
                                                  ToTake
    <3> QED BY <2>2, <3>4, <3>5
  <2> QED BY <1>1, <2>3, <2>4
<1>7. CASE TakeFlag
  <2>1. /\ beat = 2 /\ beat' = 0 /\ goal = "flag" /\ away' = away /\ away = 0
        /\ goal' = IF avs_ReadData = Word(1) THEN "byte" ELSE "flag"
        /\ iHasBeenRead' = IF Announced THEN iHasBeenRead ELSE 0
    BY <1>1, <1>7, BusEffect DEF TakeFlag
  <2>2. ReaderTypeOK'
    BY <1>1, <2>1
  <2>3. iHasBeenRead' = 0
    BY <1>1, <2>1 DEF AskedFor
  <2>4. AskedFor'
    BY <1>1, <2>1, <2>3 DEF AskedFor
  <2>5. InTime'
    BY <1>1, <2>1, <2>2, <2>3, Schedule DEF TakeNears, UnmarkNears,
                                           ToTake, AskedFor
  <2> QED BY <2>2, <2>4, <2>5
<1>8. CASE TakeByte
  <2>1. /\ beat = 2 /\ beat' = 0 /\ goal = "byte" /\ goal' = "flag"
        /\ away' = away /\ away = 0 /\ iHasBeenRead' = 1
    BY <1>1, <1>8, BusEffect DEF TakeByte
  <2>2. Announced /\ ~Announced'
    BY <1>1, <2>1 DEF AskedFor
  <2>3. ReaderTypeOK'
    BY <1>1, <2>1
  <2>4. AskedFor'
    BY <2>1, <2>2 DEF AskedFor
  <2>5. InTime'
    BY <1>1, <2>1, <2>2, <2>3, Schedule DEF TakeNears, UnmarkNears
  <2> QED BY <2>3, <2>4, <2>5
<1> QED BY <1>4, <1>5, <1>6, <1>7, <1>8 DEF IsRead, ReaderStep

(* Short sequences. *)
LEMMA ShortSeqs ==
  ASSUME NEW S, NEW x \in S, NEW y \in S
  PROVE  /\ Append(<<>>, x) = <<x>>
         /\ Head(<<x>>) = x /\ Tail(<<x>>) = <<>> /\ Len(<<x>>) = 1
         /\ Head(Append(<<x>>, y)) = x /\ Tail(Append(<<x>>, y)) = Append(<<>>, y)
         /\ Len(Append(<<x>>, y)) = 2
         /\ <<x>> # <<>> /\ Append(<<x>>, y) # <<>>
<1>1. Append(<<>>, x) = <<x>>
  OBVIOUS
<1>2. Head(<<x>>) = x /\ Len(<<x>>) = 1 /\ <<x>> \in Seq(S)
  OBVIOUS
<1>3. Tail(<<x>>) = <<>>
  OBVIOUS
<1>4. Head(Append(<<x>>, y)) = x
  BY <1>2
<1>5. Len(Append(<<x>>, y)) = 2 /\ Append(<<x>>, y) \in Seq(S)
  BY <1>2
<1>6. <<x>> # <<>> /\ Append(<<x>>, y) # <<>>
  BY <1>2, <1>5
<1>7. Tail(Append(<<x>>, y)) = Append(<<>>, y)
  BY <1>2, <1>3, <1>6, HeadTailAppend
<1> QED BY <1>1, <1>2, <1>3, <1>4, <1>5, <1>6, <1>7

(* What the program has still to read changes with what happens on the     *)
(* wire, in the decoder and at the bus, and with nothing else.             *)
LEMMA ExpectedStep ==
  ASSUME IsRead, Faithful,
         expected' = IF FarBegin THEN Append(Taken, farPending) ELSE Taken
  PROVE  AsExpected' /\ onWire' \in Byte \cup {NoByte}
         /\ (UNCHANGED iRegRead_Final \/ FrameDone)
<1>1. /\ Announced' <=> FrameDone \/ (Announced /\ ~Fetching)
      /\ FrameDone => ~Announced
      /\ AskedFor
  BY FlagStep
<1>2. /\ iRegRead_Final \in Byte /\ onWire \in Byte \cup {NoByte}
      /\ FarBegin => farPending \in Byte
      /\ AsExpected /\ Tracks /\ RX(farLine)
  <2>1. FarBegin => farPending # NoByte
    BY DEF FarBegin, Far!Begin
  <2> QED BY <1>1, <2>1 DEF IsRead, ReaderInv, IsStep, TypeOK, LinkInv, WireInv, AskedFor
<1>3. /\ FrameDone => onWire \in Byte /\ iRegRead_Final' = onWire
      /\ FarBegin => onWire = NoByte
  BY <1>2 DEF Faithful
<1>4. ~FrameDone => iRegRead_Final' = iRegRead_Final
  BY <1>2 DEF RX, RxIdle, RxCount, RxStart, RxBit, RxStop, FrameDone
<1>5. TakeByte <=> Fetching
  BY DEF IsRead, ReaderStep, StayAway, StartRead, HoldRead, TakeFlag, TakeByte, Fetching
<1>6. Fetching => Announced
  BY <1>1 DEF AskedFor, Fetching
<1>7. /\ FarBegin => onWire' = farPending
      /\ ~FarBegin /\ FrameDone => onWire' = NoByte
      /\ ~FarBegin /\ ~FrameDone => onWire' = onWire
  BY <1>2 DEF Tracks
<1>8. expected = IF onWire = NoByte THEN Unread ELSE Append(Unread, onWire)
  BY <1>2 DEF AsExpected
<1>9. NoByte \notin Byte
  BY NoByteNotByte
<1>10. CASE FrameDone
  <2>1. ~Announced /\ Announced' /\ ~TakeByte /\ ~FarBegin
    BY <1>1, <1>3, <1>5, <1>6, <1>9, <1>10
  <2>2. expected = Append(<<>>, onWire) /\ expected' = expected
    BY <1>3, <1>8, <1>9, <1>10, <2>1 DEF Unread, Taken
  <2>3. Unread' = <<onWire>> /\ onWire' = NoByte
    BY <1>3, <1>7, <1>10, <2>1 DEF Unread
  <2>4. expected' = <<onWire>>
    BY <1>3, <1>10, <2>2, ShortSeqs
  <2> QED BY <1>10, <2>3, <2>4 DEF AsExpected
<1>11. CASE ~FrameDone
  <2>1. onWire' = (IF FarBegin THEN farPending ELSE onWire)
        /\ onWire' \in Byte \cup {NoByte}
    BY <1>2, <1>7, <1>11
  <2>2. CASE TakeByte
    <3>1. Announced /\ ~Announced' /\ Unread = <<iRegRead_Final>> /\ Unread' = <<>>
      BY <1>1, <1>5, <1>6, <1>11, <2>2 DEF Unread
    <3>2. expected # <<>> /\ Tail(expected) = IF onWire = NoByte THEN <<>> ELSE Append(<<>>, onWire)
      <4>1. CASE onWire = NoByte
        BY <1>2, <1>8, <3>1, <4>1, ShortSeqs
      <4>2. CASE onWire # NoByte
        <5>1. onWire \in Byte
          BY <1>2, <4>2
        <5> QED BY <1>2, <1>8, <3>1, <4>2, <5>1, ShortSeqs
      <4> QED BY <4>1, <4>2
    <3>3. expected' = IF onWire' = NoByte THEN <<>> ELSE Append(<<>>, onWire')
      BY <1>2, <1>3, <1>9, <2>1, <2>2, <3>2 DEF Taken
    <3> QED BY <2>1, <3>1, <3>3, <1>11, <1>4 DEF AsExpected
  <2>3. CASE ~TakeByte
    <3>1. Unread' = Unread
      BY <1>1, <1>4, <1>5, <1>11, <2>3 DEF Unread
    <3>2. expected' = IF onWire' = NoByte THEN Unread ELSE Append(Unread, onWire')
      BY <1>2, <1>3, <1>8, <1>9, <2>1, <2>3 DEF Taken
    <3> QED BY <1>4, <1>11, <2>1, <3>1, <3>2 DEF AsExpected
  <2> QED BY <2>2, <2>3
<1> QED BY <1>10, <1>11

LEMMA ReaderStart == LinkInit => ReaderInv
<1> SUFFICES ASSUME LinkInit PROVE ReaderInv
  OBVIOUS
<1>1. /\ goal = "flag" /\ beat = 0 /\ away = 0 /\ onWire = NoByte /\ expected = <<>>
      /\ iRegValueReadAvailable = 0 /\ iHasBeenRead = 0
  BY DEF LinkInit, Init, InReset
<1> QED BY <1>1 DEF ReaderInv, ReaderTypeOK, AsExpected, Unread, AskedFor, InTime,
                    Announced, Fetching

LEMMA EdgeIsRead ==
  ASSUME TypeOK, LinkInv, ReaderInv, Edge
  PROVE  IsRead /\ Faithful
<1>1. PICK b \in Bus : Clk(b, farLine)
  BY DEF Edge
<1>2. FarStep /\ RX(farLine) /\ Tracks /\ Read_Process(b) /\ ReaderStep
  BY <1>1 DEF Edge, Clk
<1>3. iRegClockCounter' = iRegClockCounter
  BY <1>1, RateHeld
<1> QED BY <1>2, <1>3, LinkStep DEF IsRead, IsStep

LEMMA ReaderStutter ==
  ASSUME ReaderInv, UNCHANGED linkVars
  PROVE  ReaderInv'
<1>1. /\ UNCHANGED <<goal, beat, away, onWire, expected>>
      /\ UNCHANGED <<iRegValueReadAvailable, iHasBeenRead, avs_ReadData, iRegRead_Final>>
      /\ UNCHANGED <<State_Read, Counter_Read, iRegClockCounter>>
  BY DEF linkVars, readerVars, vars, readVars, rxFrame, rxFlags, writeVars
<1>2. UNCHANGED <<Announced, Fetching, Unread, ToTake, ToUnmark, Progress>>
  BY <1>1 DEF Announced, Fetching, Unread, ToTake, ToUnmark, Progress, Half, Period
<1> QED BY <1>1, <1>2 DEF ReaderInv, ReaderTypeOK, AsExpected, AskedFor, InTime

LEMMA ReaderInvStep ==
  ASSUME TypeOK, LinkInv, ReaderInv, [Edge]_linkVars
  PROVE  ReaderInv'
<1>1. CASE Edge
  <2>1. IsRead /\ Faithful
        /\ expected' = IF FarBegin THEN Append(Taken, farPending) ELSE Taken
    BY <1>1, EdgeIsRead DEF Edge
  <2> QED BY <2>1, ExpectedStep, ReaderKeeps DEF ReaderInv
<1> QED BY <1>1, ReaderStutter

LEMMA ReaderSchedule == LinkSpec => []ReaderInv
<1>1. TypeOK /\ LinkInv /\ ReaderInv /\ [Edge]_linkVars => ReaderInv'
  BY ReaderInvStep
<1> QED BY <1>1, ReaderStart, LinkInStep, PTL DEF LinkSpec

(* Of what was sent, a prompt program has never more to read than the byte *)
(* announced and the one on the wire: no byte is overwritten before it has *)
(* been read, whatever the rate, the drift and the length of a word.       *)
THEOREM PromptReaderLosesNothing == LinkSpec => []NothingLost
<1>1. TypeOK /\ ReaderInv => NothingLost
  <2> SUFFICES ASSUME TypeOK, ReaderInv PROVE NothingLost
    OBVIOUS
  <2>1. onWire \in Byte \cup {NoByte} /\ iRegRead_Final \in Byte /\ AsExpected
    BY DEF ReaderInv, AskedFor, TypeOK
  <2>2. CASE onWire = NoByte
    BY <2>1, <2>2, ShortSeqs DEF AsExpected, Unread, NothingLost
  <2>3. CASE onWire # NoByte
    <3>1. onWire \in Byte
      BY <2>1, <2>3
    <3>2. Len(Append(<<>>, onWire)) = 1 /\ Len(Append(<<iRegRead_Final>>, onWire)) = 2
      BY <2>1, <3>1, ShortSeqs
    <3> QED BY <2>1, <2>3, <3>2 DEF AsExpected, Unread, NothingLost
  <2> QED BY <2>2, <2>3
<1> QED BY <1>1, ReaderSchedule, LinkInStep, PTL

(* Each read of the data register gives the oldest byte not yet read: none *)
(* twice, none out of order, none that was not sent.                       *)
THEOREM PromptReaderInOrder == LinkSpec => ReadsNext
<1>1. TypeOK /\ ReaderInv =>
        (TakeByte => expected # <<>> /\ avs_ReadData = Octet(Head(expected)))
  <2> SUFFICES ASSUME TypeOK, ReaderInv, TakeByte
               PROVE  expected # <<>> /\ avs_ReadData = Octet(Head(expected))
    OBVIOUS
  <2>1. Announced /\ avs_ReadData = Octet(iRegRead_Final)
    BY DEF ReaderInv, AskedFor, TakeByte, Fetching
  <2>2. onWire \in Byte \cup {NoByte} /\ iRegRead_Final \in Byte /\ AsExpected
    BY DEF ReaderInv, AskedFor, TypeOK
  <2>3. expected # <<>> /\ Head(expected) = iRegRead_Final
    <3>1. CASE onWire = NoByte
      BY <2>1, <2>2, <3>1, ShortSeqs DEF AsExpected, Unread
    <3>2. CASE onWire # NoByte
      <4>1. onWire \in Byte
        BY <2>2, <3>2
      <4> QED BY <2>1, <2>2, <3>2, <4>1, ShortSeqs DEF AsExpected, Unread
    <3> QED BY <3>1, <3>2
  <2> QED BY <2>1, <2>3
<1>2. TypeOK /\ ReaderInv /\ [Edge]_linkVars =>
        [TakeByte => expected # <<>> /\ avs_ReadData = Octet(Head(expected))]_linkVars
  BY <1>1
<1> QED BY <1>2, ReaderSchedule, LinkInStep, PTL DEF LinkSpec, ReadsNext
=============================================================================
