------------------------------ MODULE FpgaUart ------------------------------
(***************************************************************************)
(* The UART peripheral of hw/hdl/fpga_UART.vhd at the grain of the clock.  *)
(* The four VHDL processes read the signals as they were before the rising *)
(* edge and drive them after it, so one edge is one step in which all four *)
(* take part: unprimed variables are the old signals, primed ones the new. *)
(*                                                                         *)
(* Signals keep their VHDL names.  std_logic is 0 or 1.  A data word is a  *)
(* function from bit positions to bits.  The counters and the divisor are  *)
(* words of WordMod values (2^32 in the code) that wrap.  Signals that no  *)
(* reset branch assigns (iRegClockCounter, iReadPin, iHasBeenTransmit,     *)
(* iClearStatusError, avs_ReadData) start with, and keep across a reset,   *)
(* an arbitrary value.                                                     *)
(*                                                                         *)
(* The definitions marked "variant" are not part of the model: each is a   *)
(* plausible slip in the definition after it, kept to show that a property *)
(* tells the two apart.                                                    *)
(***************************************************************************)
EXTENDS Integers

CONSTANTS
  DataBits,    \* width of a data word (8)
  WordMod,     \* number of values of a 32-bit register (2^32)
  Bytes,       \* the data words the bus master transmits
  Divisors,    \* the clock divisors the bus master programs
  PowerUp,     \* what iRegClockCounter may hold before it is programmed
  Addresses    \* the register addresses seen on the bus

Byte == [0 .. DataBits - 1 -> {0, 1}]
Words == 0 .. WordMod - 1

ASSUME UartAssumption ==
  /\ DataBits \in Nat \ {0}
  /\ WordMod \in Nat \ {0}
  /\ Bytes \subseteq Byte
  /\ Divisors \subseteq Words
  /\ PowerUp \subseteq Words
  /\ Addresses \subseteq 0 .. 7

VARIABLES
  \* driven by Write_process
  iRegClockCounter, iRegToTransmit, iRegValueWriteAvailable, iClearStatusError,
  \* driven by Read_Process
  iHasBeenRead, avs_ReadData,
  \* driven by RX
  State_Read, Counter_Read, iRead_Current, iRegRead_Final, Error_Read,
  iRegValueReadAvailable, iReadPin, iReadPin_Previous,
  \* driven by TX
  State_Write, Counter_Write, ValueToReachWrite, TX_PORT, iHasBeenTransmit

writeVars == <<iRegClockCounter, iRegToTransmit, iRegValueWriteAvailable,
               iClearStatusError>>
readVars == <<iHasBeenRead, avs_ReadData>>
rxFrame == <<State_Read, Counter_Read, iRead_Current, iRegRead_Final>>
rxFlags == <<Error_Read, iRegValueReadAvailable>>
rxPins == <<iReadPin, iReadPin_Previous>>
txVars == <<State_Write, Counter_Write, ValueToReachWrite, TX_PORT,
            iHasBeenTransmit>>
vars == <<writeVars, readVars, rxFrame, rxFlags, rxPins, txVars>>

(* RX_Read: the states are numbered so that data bit i is state i. *)
IDLE == -2
Start_BIT == -1
STOP_BIT == DataBits

Zeros == [i \in 0 .. DataBits - 1 |-> 0]
Word(n) == [kind |-> "word", val |-> n]
Octet(b) == [kind |-> "byte", val |-> b]

IncNoWrap(n) == n + 1   \* variant
IncSaturates(n) == IF n = WordMod - 1 THEN n ELSE n + 1   \* variant
Inc(n) == IF n = WordMod - 1 THEN 0 ELSE n + 1

-----------------------------------------------------------------------------
(* The Avalon slave port during one clock cycle. The address lines always  *)
(* carry some address, chip select or not.                                 *)
Idle == [op : {"idle"}, addr : Addresses]
Read == [op : {"read"}, addr : Addresses]
Write == [op : {"write"}, addr : {0} \cap Addresses, data : Divisors]
         \cup [op : {"write"}, addr : {1} \cap Addresses, data : Bytes]
         \cup [op : {"write"}, addr : Addresses \ {0, 1}]
BusCycles == Idle \cup Read \cup Write

-----------------------------------------------------------------------------
(* Write_process: a write is obeyed only while no transmission is pending. *)
ObeyedAlways(b) == b.op = "write"   \* variant
Obeyed(b) == b.op = "write" /\ iRegValueWriteAvailable = 0

WriteDivisor(b) ==
  /\ Obeyed(b) /\ b.addr = 0
  /\ iRegClockCounter' = b.data
  /\ UNCHANGED <<iRegToTransmit, iRegValueWriteAvailable, iClearStatusError>>

WriteByte(b) ==
  /\ Obeyed(b) /\ b.addr = 1
  /\ iRegToTransmit' = b.data
  /\ iRegValueWriteAvailable' = 1
  /\ UNCHANGED <<iRegClockCounter, iClearStatusError>>

WriteClear(b) ==
  /\ Obeyed(b) /\ b.addr = 5
  /\ iClearStatusError' = 1
  /\ UNCHANGED <<iRegClockCounter, iRegToTransmit, iRegValueWriteAvailable>>

WriteIgnored(b) ==
  /\ b.op = "write"
  /\ ~Obeyed(b) \/ b.addr \notin {0, 1, 5}
  /\ UNCHANGED writeVars

NoWriteKeepsClear(b) ==   \* variant: the request is never withdrawn
  /\ b.op # "write"
  /\ iRegValueWriteAvailable' =
       IF iHasBeenTransmit = 1 THEN 0 ELSE iRegValueWriteAvailable
  /\ UNCHANGED <<iRegClockCounter, iRegToTransmit, iClearStatusError>>

NoWrite(b) ==
  /\ b.op # "write"
  /\ iRegValueWriteAvailable' =
       IF iHasBeenTransmit = 1 THEN 0 ELSE iRegValueWriteAvailable
  /\ iClearStatusError' = IF Error_Read = 0 THEN 0 ELSE iClearStatusError
  /\ UNCHANGED <<iRegClockCounter, iRegToTransmit>>

Write_process(b) ==
  WriteDivisor(b) \/ WriteByte(b) \/ WriteClear(b) \/ WriteIgnored(b) \/ NoWrite(b)

-----------------------------------------------------------------------------
(* Read_Process: the addressed register, one edge late. *)
Register(a) ==
  CASE a = 0 -> Word(iRegClockCounter)
    [] a = 2 -> Octet(iRegRead_Final)
    [] a = 3 -> Word(iRegValueWriteAvailable)
    [] a = 4 -> Word(iRegValueReadAvailable)
    [] a = 5 -> Word(Error_Read)
    [] a = 6 -> Octet([i \in 0 .. DataBits - 1 |-> IF i = DataBits - 1 THEN 0 ELSE 1])
    [] OTHER -> Word(0)

Read_ProcessKeepsMark(b) ==   \* variant: the mark of a read is not withdrawn
  /\ avs_ReadData' = IF b.op = "read" THEN Register(b.addr) ELSE Word(0)
  /\ iHasBeenRead' = IF b.op = "read" /\ b.addr = 2 THEN 1 ELSE iHasBeenRead

(* The later assignment wins: with nothing available and another address   *)
(* on the lines the mark of a read is withdrawn.                           *)
Read_Process(b) ==
  /\ avs_ReadData' = IF b.op = "read" THEN Register(b.addr) ELSE Word(0)
  /\ iHasBeenRead' = IF iRegValueReadAvailable = 0 /\ b.addr # 2 THEN 0
                     ELSE IF b.op = "read" /\ b.addr = 2 THEN 1
                     ELSE iHasBeenRead

-----------------------------------------------------------------------------
(* RX: the frame decoder. *)
FullPeriod == iRegClockCounter   \* variant: the start bit is not halved

PeriodToCount ==
  IF State_Read = Start_BIT THEN iRegClockCounter \div 2 ELSE iRegClockCounter

Elapsed == State_Read # IDLE /\ Counter_Read = PeriodToCount

RxIdle ==
  /\ State_Read = IDLE
  /\ State_Read' = IF iReadPin = 0 /\ iReadPin_Previous = 1 THEN Start_BIT ELSE IDLE
  /\ Counter_Read' = 0
  /\ iRead_Current' = Zeros
  /\ UNCHANGED iRegRead_Final

RxCount ==
  /\ State_Read # IDLE /\ ~Elapsed
  /\ Counter_Read' = Inc(Counter_Read)
  /\ UNCHANGED <<State_Read, iRead_Current, iRegRead_Final>>

RxStartInverted ==   \* variant: the start bit is confirmed by a high level
  /\ State_Read = Start_BIT /\ Elapsed
  /\ State_Read' = IF iReadPin = 1 /\ iReadPin_Previous = 1 THEN 0 ELSE IDLE
  /\ Counter_Read' = 0
  /\ UNCHANGED <<iRead_Current, iRegRead_Final>>

(* In the middle of the start bit: is it still low, or was it noise? *)
RxStart ==
  /\ State_Read = Start_BIT /\ Elapsed
  /\ State_Read' = IF iReadPin = 0 /\ iReadPin_Previous = 0 THEN 0 ELSE IDLE
  /\ Counter_Read' = 0
  /\ UNCHANGED <<iRead_Current, iRegRead_Final>>

RxBit ==
  /\ State_Read \in 0 .. DataBits - 1 /\ Elapsed
  /\ State_Read' = State_Read + 1
  /\ Counter_Read' = 0
  /\ iRead_Current' = [iRead_Current EXCEPT ![State_Read] = iReadPin]
  /\ UNCHANGED iRegRead_Final

RxStopForgets ==   \* variant: the byte is not saved for the user
  /\ State_Read = STOP_BIT /\ Elapsed
  /\ State_Read' = IDLE
  /\ Counter_Read' = 0
  /\ UNCHANGED <<iRead_Current, iRegRead_Final>>

RxStop ==
  /\ State_Read = STOP_BIT /\ Elapsed
  /\ State_Read' = IDLE
  /\ Counter_Read' = 0
  /\ iRegRead_Final' = iRead_Current
  /\ UNCHANGED iRead_Current

FrameDone == State_Read = STOP_BIT /\ Elapsed
BadStop == iReadPin # 1 \/ iReadPin_Previous # 1

RxFlagSticks ==   \* variant: the flag is not cleared by a read
  iRegValueReadAvailable' = IF FrameDone THEN 1 ELSE iRegValueReadAvailable

(* The two trailing conditions of the process, switched off in STOP_BIT. *)
RxFlagAvailable ==
  iRegValueReadAvailable' =
    IF FrameDone THEN 1
    ELSE IF iHasBeenRead = 1 /\ State_Read # STOP_BIT THEN 0
    ELSE iRegValueReadAvailable

RxFlagError ==
  Error_Read' =
    IF FrameDone /\ BadStop THEN 1
    ELSE IF iClearStatusError = 1 /\ State_Read # STOP_BIT THEN 0
    ELSE Error_Read

RX(pin) ==
  /\ iReadPin' = pin
  /\ iReadPin_Previous' = iReadPin
  /\ RxIdle \/ RxCount \/ RxStart \/ RxBit \/ RxStop
  /\ RxFlagAvailable
  /\ RxFlagError

-----------------------------------------------------------------------------
(* TX: the frame generator. *)
Sending == iRegValueWriteAvailable = 1 /\ iHasBeenTransmit = 0
TxDue == Sending /\ Counter_Write = ValueToReachWrite

TxNothingKeepsAck ==   \* variant: an old acknowledgement is not forgotten
  /\ iRegValueWriteAvailable = 0
  /\ UNCHANGED txVars

TxNothing ==
  /\ iRegValueWriteAvailable = 0
  /\ iHasBeenTransmit' = 0
  /\ UNCHANGED <<State_Write, Counter_Write, ValueToReachWrite, TX_PORT>>

TxWaitAck ==
  /\ iRegValueWriteAvailable = 1 /\ iHasBeenTransmit = 1
  /\ UNCHANGED txVars

TxCount ==
  /\ Sending /\ ~TxDue
  /\ Counter_Write' = Inc(Counter_Write)
  /\ UNCHANGED <<State_Write, ValueToReachWrite, TX_PORT, iHasBeenTransmit>>

TxStart ==
  /\ TxDue /\ State_Write = 0
  /\ State_Write' = 1
  /\ TX_PORT' = 0
  /\ ValueToReachWrite' = iRegClockCounter
  /\ Counter_Write' = 0
  /\ UNCHANGED iHasBeenTransmit

TxBit ==
  /\ TxDue /\ State_Write \in 1 .. DataBits
  /\ State_Write' = State_Write + 1
  /\ TX_PORT' = iRegToTransmit[State_Write - 1]
  /\ Counter_Write' = 0
  /\ UNCHANGED <<ValueToReachWrite, iHasBeenTransmit>>

TxStop ==
  /\ TxDue /\ State_Write = DataBits + 1
  /\ State_Write' = State_Write + 1
  /\ TX_PORT' = 1
  /\ Counter_Write' = 0
  /\ UNCHANGED <<ValueToReachWrite, iHasBeenTransmit>>

TxDoneNoAck ==   \* variant: the register file is not told
  /\ TxDue /\ State_Write = DataBits + 2
  /\ State_Write' = 0
  /\ Counter_Write' = 0
  /\ ValueToReachWrite' = 0
  /\ UNCHANGED <<TX_PORT, iHasBeenTransmit>>

TxDone ==
  /\ TxDue /\ State_Write = DataBits + 2
  /\ State_Write' = 0
  /\ Counter_Write' = 0
  /\ ValueToReachWrite' = 0
  /\ iHasBeenTransmit' = 1
  /\ UNCHANGED TX_PORT

TX == TxNothing \/ TxWaitAck \/ TxCount \/ TxStart \/ TxBit \/ TxStop \/ TxDone

-----------------------------------------------------------------------------
(* What nReset = '0' assigns, in the four reset branches. *)
InReset ==
  /\ iRegToTransmit = Zeros /\ iRegValueWriteAvailable = 0
  /\ iHasBeenRead = 0
  /\ iRead_Current = Zeros /\ iRegRead_Final = Zeros
  /\ Counter_Read = 0 /\ State_Read = IDLE
  /\ Error_Read = 0 /\ iRegValueReadAvailable = 0 /\ iReadPin_Previous = 0
  /\ State_Write = 0 /\ Counter_Write = 0 /\ ValueToReachWrite = 0 /\ TX_PORT = 1

Init ==
  /\ InReset
  /\ iRegClockCounter \in PowerUp
  /\ iReadPin \in {0, 1}
  /\ iHasBeenTransmit \in {0, 1}
  /\ iClearStatusError \in {0, 1}
  /\ avs_ReadData = Word(0)

Reset ==
  /\ iRegToTransmit' = Zeros /\ iRegValueWriteAvailable' = 0
  /\ iHasBeenRead' = 0
  /\ iRead_Current' = Zeros /\ iRegRead_Final' = Zeros
  /\ Counter_Read' = 0 /\ State_Read' = IDLE
  /\ Error_Read' = 0 /\ iRegValueReadAvailable' = 0 /\ iReadPin_Previous' = 0
  /\ State_Write' = 0 /\ Counter_Write' = 0 /\ ValueToReachWrite' = 0
  /\ TX_PORT' = 1
  /\ UNCHANGED <<iRegClockCounter, iReadPin, iHasBeenTransmit,
                 iClearStatusError, avs_ReadData>>

Clk(b, pin) == Write_process(b) /\ Read_Process(b) /\ RX(pin) /\ TX

Next ==
  \/ \E b \in BusCycles, pin \in {0, 1} : Clk(b, pin)
  \/ Reset

Spec == Init /\ [][Next]_vars

(* The clock keeps running, and the bus master is not writing at every      *)
(* edge of it: a processor that stores also fetches.  Nor does it write at *)
(* just those edges at which the error flag is down: once down it stays so *)
(* at least until the stop bit of the next frame.                          *)
QuietEdge == \E b \in Idle \cup Read, pin \in {0, 1} : Clk(b, pin)
Fairness == WF_vars(QuietEdge) /\ SF_vars(Error_Read = 0 /\ QuietEdge)

-----------------------------------------------------------------------------
(* The type invariant. *)
TypeOK ==
  /\ iRegClockCounter \in Words
  /\ iRegToTransmit \in Byte
  /\ iRegValueWriteAvailable \in {0, 1}
  /\ iClearStatusError \in {0, 1}
  /\ iHasBeenRead \in {0, 1}
  /\ avs_ReadData \in [kind : {"word"}, val : Words \cup {0, 1}]
                      \cup [kind : {"byte"}, val : Byte]
  /\ State_Read \in IDLE .. STOP_BIT
  /\ Counter_Read \in Words
  /\ iRead_Current \in Byte /\ iRegRead_Final \in Byte
  /\ Error_Read \in {0, 1} /\ iRegValueReadAvailable \in {0, 1}
  /\ iReadPin \in {0, 1} /\ iReadPin_Previous \in {0, 1}
  /\ State_Write \in 0 .. DataBits + 2
  /\ Counter_Write \in Words /\ ValueToReachWrite \in Words
  /\ TX_PORT \in {0, 1} /\ iHasBeenTransmit \in {0, 1}

NoByte == [i \in {} |-> 0]   \* a word with no bits, unlike any byte

(* The decoder is never stuck in a frame, even when the divisor was lowered *)
(* under its running counter: the counter wraps and meets it in the end.   *)
DivisorSettles == <>[][iRegClockCounter' = iRegClockCounter]_vars
RxReturns == DivisorSettles => (State_Read # IDLE ~> State_Read = IDLE)

(* A request to clear the error flag, which waits while a stop bit is being *)
(* sampled, is carried out in the end, and then withdrawn: it does not go  *)
(* on erasing the errors that come after it.                               *)
ClearTakesEffect ==
  DivisorSettles =>
    /\ iClearStatusError = 1 ~> iClearStatusError = 1 /\ Error_Read = 0
    /\ iClearStatusError = 1 ~> iClearStatusError = 0
=============================================================================
