----------------------------- MODULE AltConsole -----------------------------
(***************************************************************************)
(* Console output without stdio: the HAL's log (alt_log_printf.c), which   *)
(* the program and the interrupt routines print to character by character  *)
(* with a formatter of its own, and alt_printf with alt_putstr, which go   *)
(* to standard output, by way of a buffer when semihosting is on.          *)
(*                                                                         *)
(* A text is a sequence of characters, each a string.  A message is a      *)
(* sequence of pieces; Format and Arguments give what the code is called   *)
(* with, Meant what its documentation says is printed.  Runs of literal    *)
(* characters are one character here; a width is one digit, and a number    *)
(* has HexDigits hexadecimal ones.                                         *)
(*                                                                         *)
(* An interrupt routine runs to its end before the program goes on.  What  *)
(* is written to the port while it has no room is lost.                    *)
(*                                                                         *)
(* Definitions marked "variant" are plausible slips, not part of the model. *)
(***************************************************************************)
EXTENDS Integers, Sequences, SequencesExt

CONSTANTS
  Characters,    \* all but Ctrl-D, which is "EOT"
  HexDigits,     \* digits of an int, a long and their unsigned forms in base 16
  Room,          \* characters the port can take
  EchoLen,       \* ALT_LOG_WRITE_ECHO_LEN
  BufSize,       \* ALT_PUTBUF_SIZE
  Interval,      \* ALT_LOG_SYS_CLK_INTERVAL
  Levels,        \* values of ALT_LOG_FLAGS
  Messages,      \* messages the program prints
  Writes,        \* texts the program gives to write()
  Backlogs,      \* values of tx_out - tx_in, the JTAG UART's, in the reports
  MaxPrints,     \* bound on the calls of the program
  MaxInterrupts  \* bound on those of the interrupt routines

(* The values of an int. *)
Sixteens[k \in Nat] == IF k = 0 THEN 1 ELSE 16 * Sixteens[k - 1]
IntValues == Sixteens[HexDigits]

(* The pieces of a message: a literal character, or a conversion and what is
   converted, a character, a string or a number. *)
Conversions == {"d", "i", "u", "o", "x", "X", "c", "s"}
Pieces ==
  {p \in [conv : Conversions \cup {"lit"}, zero : BOOLEAN, width : 0 .. 9,
          num : 0 .. IntValues - 1, str : Seq(Characters)] :
     /\ p.conv = "lit" => Len(p.str) = 1 /\ p.width = 0
     /\ p.conv = "c" => Len(p.str) = 1}

(* Characters of the HAL's own. *)
Lower == <<"0","1","2","3","4","5","6","7","8","9","a","b","c","d","e","f">>
Upper == <<"0","1","2","3","4","5","6","7","8","9","A","B","C","D","E","F">>
OwnCharacters ==
  {Lower[k] : k \in 1 .. 16} \cup {Upper[k] : k \in 1 .. 16} \cup Conversions
  \cup {" ", "-", "%", "=", "\n", "\r", "B", "S", "E", "C", "A", "I", "D"}

ASSUME ConsoleAssumption ==
  /\ OwnCharacters \subseteq Characters /\ "EOT" \notin Characters
  /\ {HexDigits, Room, EchoLen, BufSize} \subseteq Nat \ {0} /\ EchoLen >= 2
  /\ {Interval, MaxPrints, MaxInterrupts} \subseteq Nat
  /\ Levels \subseteq -1 .. 3
  /\ Messages \subseteq Seq(Pieces) /\ Writes \subseteq Seq(Characters \cup {"EOT"})
  /\ Backlogs \subseteq Int

VARIABLES
  level, semihosting,   \* how the system was built
  ctx,                  \* the call each of "program" and "handler" is in
  free,                 \* characters the port has room for
  buf, out,             \* alt_putcharbuf's buffer; standard output
  clkCount, clkSec,     \* alt_log_sys_clk_count, alt_system_clock_in_sec
  quota,                \* calls that each may still make
  said                  \* history: what standard output was to get

consoleVars == <<level, semihosting, ctx, free, buf, out, clkCount, clkSec, quota, said>>
sysClk == <<clkCount, clkSec>>
stdout == <<buf, out, said>>

-----------------------------------------------------------------------------
(* Messages, and what they mean. *)
Rep(c, n) == [k \in 1 .. (IF n > 0 THEN n ELSE 0) |-> c]

Lit(c) == [conv |-> "lit", zero |-> FALSE, width |-> 0, num |-> 0, str |-> <<c>>]
Num(conv, n) == [conv |-> conv, zero |-> FALSE, width |-> 0, num |-> n % IntValues, str |-> <<>>]
Str(conv, s) == [conv |-> conv, zero |-> FALSE, width |-> 0, num |-> 0, str |-> s]
Wide(p, width, zero) == [p EXCEPT !.width = width, !.zero = zero]

SpecOf(p) ==
  IF p.conv = "lit" THEN <<"%">>
  ELSE (IF p.zero THEN <<"0">> ELSE <<>>)
       \o (IF p.width > 0 THEN <<Lower[p.width + 1]>> ELSE <<>>) \o <<p.conv>>
FormatOf(p) ==
  IF p.conv = "lit" /\ p.str # <<"%">> THEN p.str ELSE <<"%">> \o SpecOf(p)
ArgumentsOf(p) == IF p.conv = "lit" THEN <<>> ELSE <<p>>
Format(msg) == FlattenSeq([k \in DOMAIN msg |-> FormatOf(msg[k])])
Arguments(msg) == FlattenSeq([k \in DOMAIN msg |-> ArgumentsOf(msg[k])])

(* A number has its last digit after those of the rest of it. *)
Negative(p) == p.conv \in {"d", "i"} /\ p.num >= IntValues \div 2
Magnitude(p) == IF Negative(p) THEN IntValues - p.num ELSE p.num
Base(p) == IF p.conv = "o" THEN 8 ELSE IF p.conv \in {"x", "X"} THEN 16 ELSE 10
Numeral(v, base, digits) ==
  LET upTo[n \in Nat] ==
        IF n < base THEN <<digits[n + 1]>>
        ELSE Append(upTo[n \div base], digits[(n % base) + 1])
  IN upTo[v]
MeantDigits(p) ==
  Numeral(Magnitude(p), Base(p), IF p.conv = "X" THEN Upper ELSE Lower)
MeantOf(p) ==
  IF p.conv \in {"lit", "c", "s"} THEN Rep(" ", p.width - Len(p.str)) \o p.str
  ELSE LET minus == IF Negative(p) THEN <<"-">> ELSE <<>>
           short == p.width - Len(minus) - Len(MeantDigits(p))
       IN IF p.zero THEN minus \o Rep("0", short) \o MeantDigits(p)
          ELSE Rep(" ", short) \o minus \o MeantDigits(p)
Meant(msg) == FlattenSeq([k \in DOMAIN msg |-> MeantOf(msg[k])])

-----------------------------------------------------------------------------
(* alt_log_private_printf: the state of its scan, in a call r. *)
NoCall == [kind |-> "none", w |-> <<>>, args |-> <<>>, state |-> "chars", zero |-> FALSE,
           before |-> -1, decimal |-> FALSE, q |-> <<>>, ready |-> FALSE,
           sent |-> <<>>, lost |-> FALSE, meant |-> <<>>]

(* The digits of v, and the largest power of the base in it. *)
CountDigits(v, base) ==
  LET loop[s \in Nat] == IF s \div base = 0 THEN <<1, 1>>
                         ELSE <<loop[s \div base][1] + 1, loop[s \div base][2] * base>>
  IN loop[v]

Digits(v0, p0, base, digits) ==
  LET loop[p \in Nat] ==
        [v \in Nat |-> IF p = 0 THEN <<>>
                       ELSE <<digits[(v \div p) + 1]>> \o loop[p \div base][v % p]]
  IN loop[p0][v0]

IntegerPrintSignUncounted(r, value, base, signed, digits) ==   \* variant: the sign takes no place
  LET sign == signed /\ value >= IntValues \div 2
      v == IF sign THEN IntValues - value ELSE value
      dp == CountDigits(v, base)
      before == r.before - dp[1]
      minus == IF sign THEN <<"-">> ELSE <<>>
  IN (IF r.zero THEN minus \o Rep("0", before) ELSE Rep(" ", before) \o minus)
     \o Digits(v, dp[2], base, digits)

IntegerPrint(r, value, base, signed, digits) ==
  LET sign == signed /\ value >= IntValues \div 2
      v == IF sign THEN IntValues - value ELSE value
      dp == CountDigits(v, base)
      before == r.before - dp[1] - (IF sign THEN 1 ELSE 0)
      minus == IF sign THEN <<"-">> ELSE <<>>
  IN (IF r.zero THEN minus \o Rep("0", before) ELSE Rep(" ", before) \o minus)
     \o Digits(v, dp[2], base, digits)

Converted(r, c) ==
  LET a == Head(r.args) IN
  CASE c \in {"d", "i"} -> IntegerPrint(r, a.num, 10, TRUE, Lower)
    [] c = "u" -> IntegerPrint(r, a.num, 10, FALSE, Lower)
    [] c = "o" -> IntegerPrint(r, a.num, 8, FALSE, Lower)
    [] c = "x" -> IntegerPrint(r, a.num, 16, FALSE, Lower)
    [] c = "X" -> IntegerPrint(r, a.num, 16, FALSE, Upper)
    [] c = "c" -> Rep(" ", r.before - 1) \o a.str
    [] c = "s" -> Rep(" ", r.before - Len(a.str)) \o a.str

IsDigit(c) == \E d \in 1 .. 10 : Lower[d] = c
DigitValue(c) == (CHOOSE d \in 1 .. 10 : Lower[d] = c) - 1

OtherFmtChar(r, c) ==
  CASE c = "." -> [r EXCEPT !.decimal = TRUE]
    [] IsDigit(c) ->
         IF r.decimal THEN r
         ELSE [r EXCEPT !.before = (IF @ < 0 THEN 0 ELSE @ * 10) + DigitValue(c)]
    [] c = "l" -> r
    [] c \in Conversions ->
         [r EXCEPT !.q = Converted(r, c), !.args = Tail(@), !.state = "chars"]
    [] OTHER -> [r EXCEPT !.state = "chars"]

FirstFmtChar(r, c) ==
  CASE c = "0" -> [r EXCEPT !.zero = TRUE, !.state = "other"]
    [] c = "%" -> [r EXCEPT !.q = <<c>>, !.state = "chars"]
    [] OTHER -> OtherFmtChar([r EXCEPT !.state = "other"], c)

Chars(r, c) ==
  IF c = "%"
  THEN [r EXCEPT !.zero = FALSE, !.before = -1, !.decimal = FALSE, !.state = "first"]
  ELSE [r EXCEPT !.q = <<c>>]

LogScan(r, c) == CASE r.state = "chars" -> Chars(r, c)
                   [] r.state = "first" -> FirstFmtChar(r, c)
                   [] r.state = "other" -> OtherFmtChar(r, c)

(* alt_printf: %x from the highest digit that is not zero. *)
HexPrint(v) ==
  LET places == {k \in 0 .. HexDigits - 1 : (v \div Sixteens[k]) % 16 # 0}
      top == CHOOSE k \in places : \A j \in places : j <= k
  IN IF v = 0 THEN <<"0">>
     ELSE [k \in 1 .. top + 1 |-> Lower[((v \div Sixteens[top + 1 - k]) % 16) + 1]]

PrintfScan(r, c) ==
  IF r.state = "chars"
  THEN IF c = "%" THEN [r EXCEPT !.state = "first"] ELSE [r EXCEPT !.q = <<c>>]
  ELSE CASE c = "%" -> [r EXCEPT !.q = <<c>>, !.state = "chars"]
         [] c \in {"c", "s"} ->
              [r EXCEPT !.q = Head(r.args).str, !.args = Tail(@), !.state = "chars"]
         [] c = "x" ->
              [r EXCEPT !.q = HexPrint(Head(r.args).num), !.args = Tail(@), !.state = "chars"]
         [] OTHER -> [r EXCEPT !.state = "chars"]

-----------------------------------------------------------------------------
Printers == {"program", "handler"}
Active(c) == ctx[c].kind # "none"
Turn(c) == Active(c) /\ (c = "program" => ~Active("handler"))

ConsoleInit ==
  /\ level \in Levels /\ semihosting \in BOOLEAN
  /\ ctx = [c \in Printers |-> NoCall]
  /\ free = Room
  /\ buf = <<>> /\ out = <<>> /\ said = <<>>
  /\ clkCount = 0 /\ clkSec = 0
  /\ quota = [c \in Printers |-> IF c = "program" THEN MaxPrints ELSE MaxInterrupts]

(* The next character of the format, once the last conversion is out. *)
Scan(c) ==
  /\ Turn(c) /\ ctx[c].q = <<>> /\ ctx[c].w # <<>>
  /\ LET r == [ctx[c] EXCEPT !.w = Tail(@)] IN
     ctx' = [ctx EXCEPT ![c] = IF r.kind = "log" THEN LogScan(r, Head(ctx[c].w))
                               ELSE PrintfScan(r, Head(ctx[c].w))]
  /\ UNCHANGED <<level, semihosting, free, stdout, sysClk, quota>>

(* alt_log_txchar: wait for room, then write.  A handler that comes between may
   have used up the room. *)
TxWait(c) ==
  /\ Turn(c) /\ ctx[c].kind = "log" /\ ctx[c].q # <<>> /\ ~ctx[c].ready
  /\ free > 0
  /\ ctx' = [ctx EXCEPT ![c].ready = TRUE]
  /\ UNCHANGED <<level, semihosting, free, stdout, sysClk, quota>>

TxChar(c) ==
  /\ Turn(c) /\ ctx[c].kind = "log" /\ ctx[c].ready
  /\ LET r == ctx[c] IN
     ctx' = [ctx EXCEPT ![c] = [r EXCEPT !.q = Tail(r.q), !.ready = FALSE,
               !.sent = IF free > 0 THEN Append(r.sent, Head(r.q)) ELSE r.sent,
               !.lost = r.lost \/ free = 0]]
  /\ free' = IF free > 0 THEN free - 1 ELSE 0
  /\ UNCHANGED <<level, semihosting, stdout, sysClk, quota>>

HostTake ==
  /\ free < Room /\ free' = Room
  /\ UNCHANGED <<level, semihosting, ctx, stdout, sysClk, quota>>

(* alt_putchar: by the driver or by newlib, at once. *)
alt_putchar(c) == out' = Append(out, c) /\ buf' = buf

(* That, or alt_putcharbuf and alt_putbufflush with semihosting. *)
PutChar ==
  /\ Turn("program") /\ ctx["program"].kind = "printf" /\ ctx["program"].q # <<>>
  /\ ctx' = [ctx EXCEPT !["program"].q = Tail(@)]
  /\ LET c == Head(ctx["program"].q) IN
     IF ~semihosting THEN alt_putchar(c)
     ELSE IF Len(buf) + 1 >= BufSize THEN out' = out \o Append(buf, c) /\ buf' = <<>>
     ELSE out' = out /\ buf' = Append(buf, c)
  /\ UNCHANGED <<level, semihosting, free, said, sysClk, quota>>

(* The call returns; alt_printf flushes its buffer. *)
PrintReturn(c) ==
  /\ Turn(c) /\ ctx[c].w = <<>> /\ ctx[c].q = <<>>
  /\ ctx' = [ctx EXCEPT ![c] = [NoCall EXCEPT !.sent = ctx[c].sent, !.lost = ctx[c].lost,
                                                 !.meant = ctx[c].meant]]
  /\ IF ctx[c].kind = "printf" THEN out' = out \o buf /\ buf' = <<>> ELSE UNCHANGED <<out, buf>>
  /\ UNCHANGED <<level, semihosting, free, said, sysClk, quota>>

-----------------------------------------------------------------------------
(* Calls.  MayCall: the context is free and has not used up its bound. *)
MayCall(c) ==
  /\ ~Active(c) /\ quota[c] > 0 /\ (c = "program" => ~Active("handler"))
  /\ quota' = [quota EXCEPT ![c] = @ - 1]

Say(c, kind, msg) ==
  ctx' = [ctx EXCEPT ![c] = [NoCall EXCEPT !.kind = kind, !.w = Format(msg),
                             !.args = Arguments(msg), !.meant = Meant(msg)]]

LogPrintf(msg) ==
  /\ MayCall("program") /\ Say("program", "log", msg)
  /\ UNCHANGED <<level, semihosting, free, stdout, sysClk>>

BootFlag == level # -1
ClkFlag == level \in {1, 2, 3}
StartupFlag == level \in {1, 2, 3}
WriteFlag == level \in {2, 3}
AlarmFlag == level \in {2, 3}
IsrFlag == level = 3

PrintBoot ==
  /\ BootFlag
  /\ LogPrintf(<<Lit("B")>>)

(* alt_log_jtag_uart_print_control_reg: inOut is tx_out - tx_in; the other fields
   of the register are bits like AC, and left out. *)
ControlReg(header, inOut) ==
  <<Str("s", <<header>>), Num("d", inOut), Lit("="), Num("d", free)>>

StartupInfo(inOut) ==
  /\ StartupFlag
  /\ LogPrintf(ControlReg("S", inOut))

(* alt_log_write: the head of what is written, its last character replaced by
   the end of the line and Ctrl-D, EOT, by a letter. *)
Echo(text) ==
  LET length == IF EchoLen > Len(text) THEN Len(text) ELSE EchoLen
      copied == [k \in 1 .. length |-> IF k = length THEN "\n" ELSE text[k]]
  IN [k \in 1 .. length |-> IF copied[k] = "EOT" THEN "D" ELSE copied[k]] \o <<"\r">>

LogWrite(text) ==
  /\ WriteFlag /\ Len(text) >= 2
  /\ LogPrintf(<<Lit("E"), Str("s", Echo(text))>>)

(* alt_log_system_clock, from the tick. *)
SystemClock ==
  /\ ClkFlag /\ MayCall("handler")
  /\ IF clkCount + 1 > Interval
     THEN /\ clkCount' = 0 /\ clkSec' = clkSec + 1
          /\ Say("handler", "log", <<Lit("C"), Num("u", clkSec)>>)
     ELSE /\ clkCount' = clkCount + 1
          /\ UNCHANGED <<ctx, clkSec>>
  /\ UNCHANGED <<level, semihosting, free, stdout>>

(* altera_avalon_jtag_uart_report_log, an alarm; alt_log_jtag_uart_isr_proc. *)
ReportLog(inOut) ==
  /\ AlarmFlag /\ MayCall("handler")
  /\ Say("handler", "log", ControlReg("A", inOut))
  /\ UNCHANGED <<level, semihosting, free, stdout, sysClk>>

IsrProc(inOut) ==
  /\ IsrFlag /\ MayCall("handler")
  /\ Say("handler", "log", ControlReg("I", inOut))
  /\ UNCHANGED <<level, semihosting, free, stdout, sysClk>>

(* alt_printf knows neither a width nor the other conversions. *)
Plain(msg) == \A k \in DOMAIN msg :
  msg[k].conv \in {"lit", "c", "s", "x"} /\ msg[k].width = 0 /\ ~msg[k].zero

alt_printf(msg) ==
  /\ Plain(msg) /\ MayCall("program")
  /\ Say("program", "printf", msg)
  /\ said' = said \o Meant(msg)
  /\ UNCHANGED <<level, semihosting, free, buf, out, sysClk>>

alt_putstr(text) ==
  /\ MayCall("program")
  /\ out' = out \o text /\ said' = said \o text
  /\ UNCHANGED <<level, semihosting, ctx, free, buf, sysClk>>

-----------------------------------------------------------------------------
ProgramCalls ==
  \/ PrintBoot
  \/ \E msg \in Messages : LogPrintf(msg) \/ alt_printf(msg)
  \/ \E text \in Writes : LogWrite(text) \/ alt_putstr(text)

Reports == \E inOut \in Backlogs :
  StartupInfo(inOut) \/ ReportLog(inOut) \/ IsrProc(inOut)

Output == \E c \in Printers : Scan(c) \/ TxWait(c) \/ TxChar(c) \/ PrintReturn(c)

ConsoleNext == ProgramCalls \/ Reports \/ SystemClock \/ Output \/ PutChar \/ HostTake

ConsoleSpec == ConsoleInit /\ [][ConsoleNext]_consoleVars

-----------------------------------------------------------------------------
(* alt_log_private_printf against its documentation: once a call has returned,
   and if nothing of it was lost, the port got what the message means. *)
LoggedAsMeant == \A c \in Printers :
  ~Active(c) /\ ctx[c].sent # <<>> /\ ~ctx[c].lost => ctx[c].sent = ctx[c].meant

(* alt_log_txchar: an interrupt routine never loses a character; the program
   only when one came between its look and its write. *)
OnlyProgramLoses == ~ctx["handler"].lost

(* alt_log_write: no Ctrl-D, which ends the terminal's connection, is logged. *)
NoCtrlD == \A c \in Printers : \A k \in DOMAIN ctx[c].sent : ctx[c].sent[k] # "EOT"

(* alt_putcharbuf and alt_printf: no character is left in the buffer when a call
   has returned, nor passed by one of a later call. *)
SaidInOrder == ~Active("program") => buf = <<>> /\ out = said

ConsoleInv == LoggedAsMeant /\ OnlyProgramLoses /\ NoCtrlD /\ SaidInOrder
=============================================================================
