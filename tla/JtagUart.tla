------------------------------ MODULE JtagUart ------------------------------
(***************************************************************************)
(* The interrupt-driven ("fast") JTAG UART driver of the board support     *)
(* package, in its single-threaded build: the read, write, close and ioctl *)
(* calls of the program, preempted by the interrupt routine and by the     *)
(* once-a-second timeout routine, against the device and the host at the   *)
(* other end of the cable.                                                 *)
(*                                                                         *)
(* The program's calls are cut at every access to what an interrupt        *)
(* routine also uses; the interrupt routine is cut at every access to the  *)
(* device, since the host moves on meanwhile, and runs with the program    *)
(* stopped.  The section between alt_irq_disable_all and                   *)
(* alt_irq_enable_all is one step.  irq_enable is both the field of the    *)
(* state structure and the device's enable bits: the code always writes    *)
(* the two together, with interrupts off.                                  *)
(*                                                                         *)
(* The device (its FIFOs, its pending and activity bits) and the host are  *)
(* external: they are modelled from how the driver uses them.              *)
(*                                                                         *)
(* Definitions marked "variant" are plausible slips, not part of the model. *)
(***************************************************************************)
EXTENDS Integers, Sequences

CONSTANTS
  Bytes,            \* what the two ends send (numbers; the buffers start with 0)
  BufLen,           \* ALTERA_AVALON_JTAG_UART_BUF_LEN
  FifoDepth,        \* depth of the device's FIFOs
  WriteThreshold,   \* the write interrupt is pending at this fill or below
  IntMax,           \* INT_MAX
  DefaultTimeout,   \* ALTERA_AVALON_JTAG_UART_DEFAULT_TIMEOUT
  HasClock,         \* does the board have a system clock (alt_alarm_start)?
  WriteSizes,       \* lengths of the writes the program makes
  ReadSizes,        \* lengths of the reads the program makes
  Timeouts,         \* arguments of TIOCSTIMEOUT
  Modes             \* values of O_NONBLOCK in the descriptor's flags

ASSUME JtagAssumption ==
  /\ Bytes \subseteq Nat
  /\ BufLen \in Nat \ {0, 1}
  /\ FifoDepth \in Nat \ {0}
  /\ WriteThreshold \in 0 .. FifoDepth - 1
  /\ IntMax \in Nat /\ IntMax > 3
  /\ DefaultTimeout \in 1 .. IntMax - 1
  /\ HasClock \in BOOLEAN
  /\ WriteSizes \subseteq Nat /\ ReadSizes \subseteq Nat
  /\ Timeouts \subseteq Int
  /\ Modes \subseteq BOOLEAN

VARIABLES
  \* altera_avalon_jtag_uart_state
  timeout, irq_enable, host_inactive,
  rx_in, rx_out, tx_in, tx_out, rx_buf, tx_buf,
  \* the device
  rxFifo, txFifo, activity,
  \* the host: is it there, what it sends next, what it has just received
  hostUp, hostNext, hostGot,
  \* the interrupt routine: its place, the control word and data it has read
  isr, control, avail,
  \* the program's call: its place and its locals
  pc, nonblock, data, buffer, space, moved, in, out, n

stateVars == <<timeout, irq_enable, host_inactive>>
rxRing == <<rx_in, rx_out, rx_buf>>
txRing == <<tx_in, tx_out, tx_buf>>
device == <<rxFifo, txFifo, activity>>
host == <<hostUp, hostNext, hostGot>>
isrVars == <<isr, control, avail>>
locals == <<nonblock, data, buffer, space, moved, in, out, n>>
vars == <<stateVars, rxRing, txRing, device, host, isrVars, pc, locals>>

Slots == 0 .. BufLen - 1
Up(i, k) == (i + k) % BufLen

(* The bytes of a ring, oldest first. *)
Contents(buf, o, i) == [k \in 1 .. (i - o) % BufLen |-> buf[Up(o, k - 1)]]

NoControl == [ri |-> FALSE, wi |-> FALSE, room |-> 0]

-----------------------------------------------------------------------------
(* The device: what the control register reports. *)
ReadPending == "RE" \in irq_enable /\ rxFifo # <<>>
WritePending == "WE" \in irq_enable /\ Len(txFifo) <= WriteThreshold

(* The host. *)
HostConnect == ~hostUp /\ hostUp' = TRUE /\ UNCHANGED <<hostNext, hostGot, device>>
HostLeave == hostUp /\ hostUp' = FALSE /\ UNCHANGED <<hostNext, hostGot, device>>

HostPoll ==
  /\ hostUp /\ ~activity
  /\ activity' = TRUE
  /\ UNCHANGED <<rxFifo, txFifo, host>>

HostWants ==
  /\ hostNext = <<>>
  /\ ReadSizes # {}
  /\ \E b \in Bytes : hostNext' = <<b>>
  /\ UNCHANGED <<hostUp, hostGot, device>>

HostSend ==
  /\ hostUp /\ hostNext # <<>> /\ Len(rxFifo) < FifoDepth
  /\ rxFifo' = rxFifo \o hostNext
  /\ hostNext' = <<>>
  /\ activity' = TRUE
  /\ UNCHANGED <<txFifo, hostUp, hostGot>>

HostTake ==
  /\ hostUp /\ txFifo # <<>>
  /\ hostGot' = <<Head(txFifo)>>
  /\ txFifo' = Tail(txFifo)
  /\ activity' = TRUE
  /\ UNCHANGED <<rxFifo, hostUp, hostNext>>

software == <<stateVars, rxRing, txRing, isrVars, pc, locals>>

Host ==
  /\ HostConnect \/ HostLeave \/ HostPoll \/ HostWants \/ HostSend \/ HostTake
  /\ UNCHANGED software

-----------------------------------------------------------------------------
(* altera_avalon_jtag_uart_irq *)
IsrEnter ==
  /\ isr = "off"
  /\ ReadPending \/ WritePending
  /\ isr' = "control"
  /\ UNCHANGED <<stateVars, rxRing, txRing, device, control, avail>>

(* Return once nothing more to do. *)
IsrControl ==
  /\ isr = "control"
  /\ isr' = IF ReadPending THEN "receive" ELSE IF WritePending THEN "send" ELSE "off"
  /\ control' = IF ReadPending \/ WritePending
                THEN [ri |-> ReadPending, wi |-> WritePending,
                      room |-> FifoDepth - Len(txFifo)]
                ELSE NoControl
  /\ avail' = ReadPending
  /\ UNCHANGED <<stateVars, rxRing, txRing, device>>

RxFull == Up(rx_in, 1) = rx_out
AfterReceive == IF control.wi THEN "send" ELSE "control"

IsrReceiveUnchecked ==   \* variant: reads on when the buffer is full
  /\ isr = "receive" /\ rxFifo # <<>>
  /\ rx_buf' = [rx_buf EXCEPT ![rx_in] = Head(rxFifo)]
  /\ rx_in' = Up(rx_in, 1)
  /\ rxFifo' = Tail(rxFifo)
  /\ avail' = (Tail(rxFifo) # <<>>)
  /\ UNCHANGED <<stateVars, rx_out, txRing, txFifo, activity, isr, control>>

IsrReceive ==
  /\ isr = "receive" /\ ~RxFull /\ rxFifo # <<>>
  /\ rx_buf' = [rx_buf EXCEPT ![rx_in] = Head(rxFifo)]
  /\ rx_in' = Up(rx_in, 1)
  /\ rxFifo' = Tail(rxFifo)
  /\ avail' = (Tail(rxFifo) # <<>>)
  /\ UNCHANGED <<stateVars, rx_out, txRing, txFifo, activity, isr, control>>

(* RVALID is clear: and with it the count of what is left. *)
IsrNoMore ==
  /\ isr = "receive" /\ ~RxFull /\ rxFifo = <<>>
  /\ avail' = FALSE
  /\ isr' = AfterReceive
  /\ UNCHANGED <<stateVars, rxRing, txRing, device, control>>

IsrRxFullStaysOn ==   \* variant: the interrupt is left enabled
  /\ isr = "receive" /\ RxFull
  /\ avail' = FALSE
  /\ isr' = AfterReceive
  /\ UNCHANGED <<stateVars, rxRing, txRing, device, control>>

(* Still data available and no room for it: no more interrupts for now. *)
IsrRxFull ==
  /\ isr = "receive" /\ RxFull
  /\ irq_enable' = IF avail THEN irq_enable \ {"RE"} ELSE irq_enable
  /\ avail' = FALSE
  /\ isr' = AfterReceive
  /\ UNCHANGED <<timeout, host_inactive, rxRing, txRing, device, control>>

IsrSend ==
  /\ isr = "send" /\ control.room > 0 /\ tx_out # tx_in
  /\ txFifo' = Append(txFifo, tx_buf[tx_out])
  /\ tx_out' = Up(tx_out, 1)
  /\ control' = [control EXCEPT !.room = @ - 1]
  /\ UNCHANGED <<stateVars, rxRing, tx_in, tx_buf, rxFifo, activity, isr, avail>>

IsrSentAlwaysOff ==   \* variant: off even with bytes left for the next interrupt
  /\ isr = "send" /\ (control.room = 0 \/ tx_out = tx_in)
  /\ irq_enable' = irq_enable \ {"WE"}
  /\ isr' = "control"
  /\ UNCHANGED <<timeout, host_inactive, rxRing, txRing, device, control, avail>>

(* Nothing left to send although there is room: no more interrupts for now. *)
IsrSent ==
  /\ isr = "send" /\ (control.room = 0 \/ tx_out = tx_in)
  /\ irq_enable' = IF control.room > 0 THEN irq_enable \ {"WE"} ELSE irq_enable
  /\ isr' = "control"
  /\ UNCHANGED <<timeout, host_inactive, rxRing, txRing, device, control, avail>>

IsrStep ==
  /\ IsrEnter \/ IsrControl \/ IsrReceive \/ IsrNoMore \/ IsrRxFull \/ IsrSend
     \/ IsrSent
  /\ UNCHANGED <<host, pc, locals>>

-----------------------------------------------------------------------------
TickKeepsCount ==   \* variant: activity does not take the count back
  /\ HasClock /\ isr = "off"
  /\ activity' = FALSE
  /\ host_inactive' = IF activity \/ host_inactive >= IntMax - 2 THEN host_inactive
                      ELSE host_inactive + 1
  /\ UNCHANGED <<timeout, irq_enable, rxRing, txRing, rxFifo, txFifo, host,
                 isrVars, pc, locals>>

(* altera_avalon_jtag_uart_timeout, from the system clock's interrupt. *)
Tick ==
  /\ HasClock /\ isr = "off"
  /\ activity' = FALSE
  /\ host_inactive' = IF activity THEN 0
                      ELSE IF host_inactive < IntMax - 2 THEN host_inactive + 1
                      ELSE host_inactive
  /\ UNCHANGED <<timeout, irq_enable, rxRing, txRing, rxFifo, txFifo, host,
                 isrVars, pc, locals>>

Gone == host_inactive >= timeout

-----------------------------------------------------------------------------
(* The program.  A call starts from "idle" and ends there, its locals gone. *)
First(s, k) == SubSeq(s, 1, k)
Rest(s, k) == SubSeq(s, k + 1, Len(s))
Least(a, b) == IF a <= b THEN a ELSE b

NoLocals ==
  /\ nonblock = FALSE /\ data = <<>> /\ buffer = <<>>
  /\ space = 0 /\ moved = 0 /\ in = 0 /\ out = 0 /\ n = 0

Return ==
  /\ pc' = "idle"
  /\ nonblock' = FALSE /\ data' = <<>> /\ buffer' = <<>>
  /\ space' = 0 /\ moved' = 0 /\ in' = 0 /\ out' = 0 /\ n' = 0

(* altera_avalon_jtag_uart_read *)
Read(k, mode) ==
  /\ pc = "idle"
  /\ pc' = IF k > 0 THEN "r_look" ELSE "r_end"
  /\ space' = k /\ nonblock' = mode
  /\ UNCHANGED <<stateVars, rxRing, txRing, data, buffer, moved, in, out, n>>

ReadLook ==
  LET ready == IF rx_in >= rx_out THEN rx_in - rx_out ELSE BufLen - rx_out IN
  /\ pc = "r_look"
  /\ in' = rx_in
  /\ n' = Least(ready, space)
  /\ pc' = IF ready > 0 THEN "r_copy"
           ELSE IF buffer # <<>> \/ nonblock THEN "r_end"
           ELSE "r_wait"
  /\ UNCHANGED <<stateVars, rxRing, txRing, nonblock, data, buffer, space, moved, out>>

ReadCopy ==
  /\ pc = "r_copy"
  /\ buffer' = buffer \o [k \in 1 .. n |-> rx_buf[rx_out + k - 1]]
  /\ space' = space - n
  /\ pc' = "r_publish"
  /\ UNCHANGED <<stateVars, rxRing, txRing, nonblock, data, moved, in, out, n>>

ReadPublish ==
  /\ pc = "r_publish"
  /\ rx_out' = Up(rx_out, n)
  /\ n' = 0
  /\ pc' = IF space > 0 THEN "r_look" ELSE "r_end"
  /\ UNCHANGED <<stateVars, rx_in, rx_buf, txRing, nonblock, data, buffer, space,
                 moved, in, out>>

(* No OS: spin until more data arrives or until the host disconnects. *)
ReadWait ==
  /\ pc = "r_wait"
  /\ in # rx_in \/ Gone
  /\ pc' = "r_check"
  /\ UNCHANGED <<stateVars, rxRing, txRing, locals>>

ReadCheck ==
  /\ pc = "r_check"
  /\ pc' = IF in = rx_in THEN "r_end" ELSE "r_look"
  /\ UNCHANGED <<stateVars, rxRing, txRing, locals>>

ReadEndQuiet ==   \* variant: the interrupt is not enabled again
  /\ pc = "r_end"
  /\ Return
  /\ UNCHANGED <<stateVars, rxRing, txRing>>

(* If any data was read there is space: enable interrupts. *)
ReadEnd ==
  /\ pc = "r_end"
  /\ irq_enable' = IF buffer # <<>> THEN irq_enable \cup {"RE"} ELSE irq_enable
  /\ Return
  /\ UNCHANGED <<timeout, host_inactive, rxRing, txRing>>

(* altera_avalon_jtag_uart_write *)
Write(d, mode) ==
  /\ pc = "idle"
  /\ pc' = IF d # <<>> THEN "w_look" ELSE "w_kick"
  /\ data' = d /\ nonblock' = mode
  /\ UNCHANGED <<stateVars, rxRing, txRing, buffer, space, moved, in, out, n>>

WriteLookFillsUp ==   \* variant: no slot is kept free at the end of the buffer
  LET free == IF tx_in < tx_out THEN tx_out - 1 - tx_in ELSE BufLen - tx_in IN
  /\ pc = "w_look"
  /\ out' = tx_out
  /\ n' = Least(free, Len(data))
  /\ pc' = IF free > 0 THEN "w_copy" ELSE "w_kick"
  /\ UNCHANGED <<stateVars, rxRing, txRing, nonblock, data, buffer, space, moved, in>>

WriteLook ==
  LET free == IF tx_in < tx_out THEN tx_out - 1 - tx_in
              ELSE IF tx_out > 0 THEN BufLen - tx_in
              ELSE BufLen - 1 - tx_in IN
  /\ pc = "w_look"
  /\ out' = tx_out
  /\ n' = Least(free, Len(data))
  /\ pc' = IF free > 0 THEN "w_copy" ELSE "w_kick"
  /\ UNCHANGED <<stateVars, rxRing, txRing, nonblock, data, buffer, space, moved, in>>

WriteCopy ==
  /\ pc = "w_copy"
  /\ tx_buf' = [i \in Slots |-> IF i \in tx_in .. tx_in + n - 1
                                THEN data[i - tx_in + 1] ELSE tx_buf[i]]
  /\ pc' = "w_publish"
  /\ UNCHANGED <<stateVars, rxRing, tx_in, tx_out, locals>>

WritePublish ==
  /\ pc = "w_publish"
  /\ tx_in' = Up(tx_in, n)
  /\ data' = Rest(data, n)
  /\ moved' = moved + n
  /\ n' = 0
  /\ pc' = IF Len(data) > n THEN "w_look" ELSE "w_kick"
  /\ UNCHANGED <<stateVars, rxRing, tx_out, tx_buf, nonblock, buffer, space, in, out>>

WriteKickNot ==   \* variant: the interrupt routine is not kicked
  /\ pc = "w_kick"
  /\ pc' = IF data = <<>> \/ nonblock THEN "w_end" ELSE "w_wait"
  /\ UNCHANGED <<stateVars, rxRing, txRing, locals>>

WriteKick ==
  /\ pc = "w_kick"
  /\ irq_enable' = irq_enable \cup {"WE"}
  /\ pc' = IF data = <<>> \/ nonblock THEN "w_end" ELSE "w_wait"
  /\ UNCHANGED <<timeout, host_inactive, rxRing, txRing, locals>>

(* No OS: spin until the interrupt routine has removed some data. *)
WriteWait ==
  /\ pc = "w_wait"
  /\ out # tx_out \/ Gone
  /\ pc' = "w_host"
  /\ UNCHANGED <<stateVars, rxRing, txRing, locals>>

WriteHost ==
  /\ pc = "w_host"
  /\ pc' = IF host_inactive # 0 THEN "w_end" ELSE "w_look"
  /\ UNCHANGED <<stateVars, rxRing, txRing, locals>>

WriteEnd == pc = "w_end" /\ Return /\ UNCHANGED <<stateVars, rxRing, txRing>>

(* altera_avalon_jtag_uart_close *)
Close(mode) ==
  /\ pc = "idle"
  /\ pc' = "close" /\ nonblock' = mode
  /\ UNCHANGED <<stateVars, rxRing, txRing, data, buffer, space, moved, in, out, n>>

CloseEnd ==
  /\ pc = "close"
  /\ tx_out = tx_in \/ Gone \/ nonblock
  /\ Return
  /\ UNCHANGED <<stateVars, rxRing, txRing>>

(* altera_avalon_jtag_uart_ioctl, TIOCSTIMEOUT *)
SetTimeout(v) ==
  /\ pc = "idle"
  /\ timeout # IntMax
  /\ timeout' = IF v >= 2 /\ v < IntMax THEN v ELSE IntMax - 1
  /\ UNCHANGED <<irq_enable, host_inactive, rxRing, txRing, pc, locals>>

Call ==
  \/ \E mode \in Modes :
       \/ \E k \in ReadSizes : Read(k, mode)
       \/ \E k \in WriteSizes : \E d \in [1 .. k -> Bytes] : Write(d, mode)
       \/ Close(mode)
  \/ \E v \in Timeouts : SetTimeout(v)

Continue ==
  \/ ReadLook \/ ReadCopy \/ ReadPublish \/ ReadWait \/ ReadCheck \/ ReadEnd
  \/ WriteLook \/ WriteCopy \/ WritePublish \/ WriteKick \/ WriteWait
  \/ WriteHost \/ WriteEnd
  \/ CloseEnd

Running == isr = "off" /\ UNCHANGED <<device, host, isrVars>>
Starts == Call /\ Running
Continues == Continue /\ Running

-----------------------------------------------------------------------------
(* altera_avalon_jtag_uart_init: without a system clock the alarm cannot be *)
(* started and the host is taken to be present for ever.                   *)
Init ==
  /\ timeout = IF HasClock THEN DefaultTimeout ELSE IntMax
  /\ irq_enable = {"RE"} /\ host_inactive = 0
  /\ rx_in = 0 /\ rx_out = 0 /\ rx_buf = [i \in Slots |-> 0]
  /\ tx_in = 0 /\ tx_out = 0 /\ tx_buf = [i \in Slots |-> 0]
  /\ rxFifo = <<>> /\ txFifo = <<>> /\ activity \in BOOLEAN
  /\ hostUp \in BOOLEAN /\ hostNext = <<>> /\ hostGot = <<>>
  /\ isr = "off" /\ control = NoControl /\ avail = FALSE
  /\ pc = "idle" /\ NoLocals

Next == Host \/ IsrStep \/ Tick \/ Starts \/ Continues

Spec == Init /\ [][Next]_vars

(* The processor is faster than the cable, so the program gets its turn     *)
(* however often it is interrupted; the clock ticks; a host that is there   *)
(* reads what it is sent.                                                  *)
FairSpec ==
  /\ Spec
  /\ WF_vars(IsrStep)
  /\ SF_vars(Continues)
  /\ WF_vars(Tick)
  /\ WF_vars(HostTake /\ UNCHANGED software)

-----------------------------------------------------------------------------
(* The two directions of the driver, as byte streams: what a write has not  *)
(* yet put in the buffer, the buffer and the device's FIFO, the host.      *)
Output == INSTANCE ByteStream WITH
  Capacity <- BufLen - 1 + FifoDepth,
  src <- data, accepted <- moved,
  queue <- txFifo \o Contents(tx_buf, tx_out, tx_in),
  snk <- hostGot

(* The host sends one byte at a time.  A byte is the reader's once its     *)
(* place in the buffer is free again.                                      *)
Input == INSTANCE ByteStream WITH
  Capacity <- BufLen - 1 + FifoDepth,
  src <- hostNext, accepted <- 1 - Len(hostNext),
  queue <- Contents(rx_buf, rx_out, rx_in) \o rxFifo,
  snk <- IF pc = "r_publish" THEN First(buffer, Len(buffer) - n) ELSE buffer

(* What a write counts as accepted reaches the host, and what the host      *)
(* sends reaches a reader: each byte once, in order, unchanged, through     *)
(* any interleaving of calls and interrupts and any wrapping of the rings.  *)
OutputIsStream == Output!Spec
InputIsStream == Input!Spec

(* No interrupt is lost between the program and the interrupt routine:      *)
(* bytes wait to be sent only with the write interrupt enabled, or by a     *)
(* write that is about to enable it; the read interrupt is off only while   *)
(* the buffer is full, or by a read that is about to enable it.             *)
WriteArmed ==
  tx_in # tx_out =>
    "WE" \in irq_enable \/ pc \in {"w_look", "w_copy", "w_publish", "w_kick"}
ReadArmed ==
  "RE" \notin irq_enable =>
    \/ RxFull
    \/ buffer # <<>> /\ pc \in {"r_look", "r_copy", "r_publish", "r_end"}

(* A spinning call compares one index with a snapshot of it.  The snapshot  *)
(* is only equal to it while there is really nothing to read, or no room    *)
(* to write: the index cannot come round to it again.                       *)
SpinsForReason ==
  /\ pc = "r_wait" /\ in = rx_in => rx_in = rx_out
  /\ pc = "w_wait" /\ out = tx_out => Up(tx_in, 1) = tx_out

(* The interrupt routine fills the FIFO from a count it read some time ago: *)
(* there is at least that much room.                                        *)
RoomIsThere == isr = "send" => control.room <= FifoDepth - Len(txFifo)

(* With the longest timeout, and without a clock, the host is never taken   *)
(* to have gone.                                                           *)
NeverGone == timeout >= IntMax - 1 => ~Gone

JtagInv == WriteArmed /\ ReadArmed /\ SpinsForReason /\ RoomIsThere /\ NeverGone

(* The interrupt routine comes to an end, at whatever pace the host sends   *)
(* and reads meanwhile.                                                     *)
IsrEnds == isr # "off" ~> isr = "off"

(* A reader waiting with bytes in the device is woken.                      *)
ReaderWakes == pc = "r_wait" /\ rxFifo # <<>> ~> pc # "r_wait"

(* A blocked write or close ends: the host takes the bytes, or is found to  *)
(* have gone.                                                               *)
BlockedCallEnds ==
  <>[]hostUp \/ (HasClock /\ <>[]~hostUp) =>
    (pc \in {"w_wait", "close"} ~> pc = "idle")

(* A write's wait may end just as the host answers, or one tick after the   *)
(* last activity, and is then cut short by any inactivity.  But while the   *)
(* clock ticks and every tick finds activity, a blocking write takes all    *)
(* its bytes.                                                               *)
ActiveHostGetsAll ==
  []<><<Tick>>_vars /\ <>[][Tick => activity]_vars
    => <>[][WriteEnd /\ ~nonblock => data = <<>>]_vars
=============================================================================
