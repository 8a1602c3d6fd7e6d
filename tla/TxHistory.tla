------------------------------ MODULE TxHistory -----------------------------
(***************************************************************************)
(* FpgaUart with a record of what the transmitter still owes the bus       *)
(* master: the byte the register file took from it, until the last cycle   *)
(* of that byte's stop bit has passed.  Only an accepted write puts a byte *)
(* there and only the end of a frame, or a reset, takes it away.  Whether  *)
(* the handshake of the two processes (iRegValueWriteAvailable against     *)
(* iHasBeenTransmit) loses the byte, forgets it or sends it twice is then  *)
(* a question about this record and the wire.                              *)
(***************************************************************************)
EXTENDS FpgaUart

VARIABLE owed   \* the byte taken and not yet sent completely, or NoByte

txHistoryVars == <<vars, owed>>

(* Read off the bus and the counters alone, not off the handshake.         *)
Accepts(b) == b.op = "write" /\ b.addr = 1 /\ iRegValueWriteAvailable = 0
FrameSent == TxDue /\ State_Write = DataBits + 2

HistoryClk(b, pin) ==
  /\ Clk(b, pin)
  /\ owed' = IF Accepts(b) THEN b.data ELSE IF FrameSent THEN NoByte ELSE owed

HistoryReset == Reset /\ owed' = NoByte

HistoryInit == Init /\ owed = NoByte

HistoryNext ==
  \/ \E b \in BusCycles, pin \in {0, 1} : HistoryClk(b, pin)
  \/ HistoryReset

HistorySpec == HistoryInit /\ [][HistoryNext]_txHistoryVars

FairSpec == HistorySpec /\ Fairness

-----------------------------------------------------------------------------
(* The transmitter seen as the abstract line: a byte waits from the write   *)
(* that leaves it until its start bit, then it is the frame in flight.     *)
Line == INSTANCE SerialLine WITH
  Divisors <- Words, MaxSkew <- 0,
  pending <- IF State_Write = 0 THEN owed ELSE NoByte,
  frame <- IF State_Write = 0 THEN NoByte ELSE owed,
  phase <- State_Write,
  elapsed <- Counter_Write,
  skew <- 0,
  divisor <- ValueToReachWrite,
  line <- TX_PORT

(* The transmitter and the register file agree about what is in flight: a  *)
(* frame is being sent only while the byte is marked pending and not yet   *)
(* acknowledged, with the divisor that is still in the register; between   *)
(* frames the transmitter is exactly as reset leaves it, whatever stale    *)
(* acknowledgement survived the reset; the pin shows, at every edge, the   *)
(* level this byte has in this part of its frame; and the handshake says   *)
(* that a byte is still to be sent exactly when one is, and which.         *)
TxInFlight ==
  State_Write # 0 =>
    /\ iRegValueWriteAvailable = 1 /\ iHasBeenTransmit = 0
    /\ ValueToReachWrite = iRegClockCounter
TxAtRest ==
  State_Write = 0 => Counter_Write = 0 /\ ValueToReachWrite = 0
TxCountsUp == Counter_Write <= ValueToReachWrite
TxLevel == TX_PORT = Line!Level(iRegToTransmit, State_Write)
OwedIsMarked == owed = IF Sending THEN iRegToTransmit ELSE NoByte
TxInv == TxInFlight /\ TxAtRest /\ TxCountsUp /\ TxLevel /\ OwedIsMarked

(* The frames on TX_PORT are those of the abstract line: every byte        *)
(* accepted over the bus is sent, once, before the next one is accepted,   *)
(* with exact bit times and undisturbed by whatever is written meanwhile.  *)
(* Only a reset gives a byte up.                                           *)
TxImplementsLine ==
  /\ Line!Spec
  /\ [][Line!Step \/ HistoryReset]_(Line!lineVars)

(* A byte handed to the transmitter is sent to its last bit (or a reset     *)
(* gives it up) and the register file is told: register 3 falls, and the   *)
(* loops that poll it end.                                                 *)
TxCompletes ==
  iRegValueWriteAvailable = 1 \/ owed # NoByte
    ~> iRegValueWriteAvailable = 0 /\ owed = NoByte
=============================================================================
