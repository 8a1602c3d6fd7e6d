---------------------------- MODULE FlagHistory -----------------------------
(***************************************************************************)
(* FpgaUart with a record of what the bus master still has to learn: the   *)
(* byte of the last frame it has not read (unread) and the framing error   *)
(* it has not asked to clear (unacked).  The status registers 4 and 5 are  *)
(* supposed to say the same.                                               *)
(*                                                                         *)
(* Register 4 does for a master that does not read the data register while *)
(* the last data bit and the stop bit of a frame are sampled (CarefulSpec),*)
(* whatever it writes and when.  It does not for one that merely polls the *)
(* flag before it reads (PolledSpec): the trailing conditions of the RX    *)
(* process are switched off in STOP_BIT, so a read made there leaves its   *)
(* mark until the next byte has raised the flag again, and takes that flag *)
(* away.  The error flag has the same weakness towards the writes.  So the *)
(* record keeps whether the end of the present frame was written into      *)
(* (meddled), and unacked counts the errors of the frames left alone.      *)
(***************************************************************************)
EXTENDS FpgaUart

VARIABLES unread, unacked, meddled

historyVars == <<unread, unacked, meddled>>
allVars == <<vars, historyVars>>

ReadsByte(b) == b.op = "read" /\ b.addr = 2

(* The end of a frame is being sampled; has it been left alone so far?     *)
Ending == State_Read \in {DataBits - 1, STOP_BIT}
LeftAlone(b) == ~meddled /\ b.op # "write"

ObservedClk(b, pin) ==
  /\ Clk(b, pin)
  /\ unread' = (FrameDone \/ (unread /\ ~ReadsByte(b)))
  /\ unacked' = ((FrameDone /\ BadStop /\ LeftAlone(b))
                 \/ (unacked /\ ~WriteClear(b)))
  /\ meddled' = (Ending /\ ~FrameDone /\ ~LeftAlone(b))

ObservedInit == Init /\ unread = FALSE /\ unacked = FALSE /\ meddled = FALSE
ObservedReset ==
  Reset /\ unread' = FALSE /\ unacked' = FALSE /\ meddled' = FALSE

(* A master that keeps to the protocol the program uses: it addresses the  *)
(* data register only to read it, and only while register 4 says that a    *)
(* byte is there; it writes nothing but register 5, and that only while    *)
(* register 5 reports an error.                                            *)
Polled(b) ==
  /\ b.addr = 2 => b.op = "read" /\ iRegValueReadAvailable = 1
  /\ b.op = "write" => b.addr = 5 /\ Error_Read = 1

PolledNext ==
  \/ \E b \in BusCycles, pin \in {0, 1} : Polled(b) /\ ObservedClk(b, pin)
  \/ ObservedReset

PolledSpec == ObservedInit /\ [][PolledNext]_allVars

(* A master that does not read the data register while the end of a frame  *)
(* is sampled, and after a read has put another address on the lines by    *)
(* then, which is what withdraws the mark.                                 *)
Careful(b) ==
  Ending => ~ReadsByte(b) /\ (iHasBeenRead = 1 => b.addr # 2)

CarefulNext ==
  \/ \E b \in BusCycles, pin \in {0, 1} : Careful(b) /\ ObservedClk(b, pin)
  \/ ObservedReset

CarefulSpec == ObservedInit /\ [][CarefulNext]_allVars

-----------------------------------------------------------------------------
(* The acknowledgements that are still standing belong to bytes and errors *)
(* already dealt with, and none of them is left when a frame completes: no *)
(* mark of a read, and no request to clear unless the frame's end was      *)
(* written into.                                                           *)
MarkIsOld ==
  /\ iHasBeenRead = 1 /\ iRegValueReadAvailable = 1 => ~unread
  /\ iHasBeenRead = 1 /\ State_Read = STOP_BIT => iRegValueReadAvailable = 0
ClearIsOld ==
  /\ iClearStatusError = 1 /\ Error_Read = 1 => ~unacked
  /\ iClearStatusError = 1 /\ State_Read = STOP_BIT /\ ~meddled => Error_Read = 0

(* A byte nobody has read is announced in register 4: no byte is lost      *)
(* without its flag ever having been up for the master to see.             *)
UnreadIsFlagged == unread => iRegValueReadAvailable = 1

(* The framing error of a frame whose end nobody wrote into is reported in *)
(* register 5 until somebody asks to clear it.                             *)
UnackedIsFlagged == unacked => Error_Read = 1

(* The flag of a byte that has been read is down one edge later, unless    *)
(* the next byte arrives at that very edge: the master is not invited to   *)
(* read the same byte again.                                               *)
ReadFlagFalls ==
  [][iRegValueReadAvailable = 1 /\ ~unread =>
       iRegValueReadAvailable' = 0 \/ unread']_allVars

CarefulInv == MarkIsOld /\ ClearIsOld /\ UnreadIsFlagged /\ UnackedIsFlagged
=============================================================================
