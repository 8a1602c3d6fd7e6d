# Models and proofs for the FPGA UART

TLA+ models of the UART peripheral `hw/hdl/fpga_UART.vhd`, of the calculator
program that drives it (`sw/nios/application/hello_world.c`), and of the parts of
the Nios II board support package that have state worth checking.  TLC checks
small instances; TLAPS proves every safety invariant and action property of the
passing runs for all values of the constants.  Paths below are relative to `src/`;
`BSP` stands for `sw/nios/fpga_UART_bsp`, `HAL` for `BSP/HAL/src`.

## 1. The system

A Nios II processor runs one program.  It talks to a person through the UART
peripheral, which is an Avalon slave, and prints to a console through the JTAG
UART of the chip.  The board has no system clock (`ALT_SYS_CLK` is `none`), no
operating system and no second thread: all concurrency is between hardware
processes at the same clock edge, between the program and the hardware, and
between the program and interrupt routines.

| component | source | state | operations | talks to |
|---|---|---|---|---|
| register file | `fpga_UART.vhd:47-97` | divisor, byte to send, pending flag, request to clear the error, mark of a read, read data | bus reads and writes | the program over Avalon; RX and TX by shared signals |
| RX decoder | `fpga_UART.vhd:100-219` | state, counter, shift register, byte received, two flags, two-stage pin | one clock edge | the wire; register file |
| TX generator | `fpga_UART.vhd:222-258` | bit number, counter, period, pin, acknowledgement | one clock edge | register file; the wire |
| calculator | `hello_world.c` | two numbers, which one is being typed, the key at hand | the polling loop | the registers; the console |
| JTAG UART driver | `BSP/drivers/src/altera_avalon_jtag_uart_*.c` | two rings with their indices, interrupt mask, timeout, inactivity count | read, write, close, ioctl; interrupt routine; once-a-second alarm | the JTAG core; the file layer; alarms |
| alarms and tick | `HAL/alt_tick.c`, `alt_alarm_start.c`, `sys/alt_llist.h` | tick count, doubly linked list, due times, roll-over flags | start, stop, tick with callbacks | the clock interrupt; JTAG driver, time of day |
| file descriptors | `HAL/alt_open.c`, `alt_close.c`, `alt_fd_lock.c`, ... | pool of 32, high water mark, flags, device lists | open, close, ioctl, fcntl, registration, redirection | devices |
| file operations and lookup | `HAL/alt_find_dev.c`, `alt_find_file.c`, `alt_read.c`, `alt_stat.c`, ... | list of registered nodes | find, read, write, lseek, fstat, isatty, stat; DMA channels and flash memories by name | descriptors; drivers |
| interrupts and exceptions | `HAL/alt_irq_handler.c`, `alt_iic*.c`, `alt_instruction_exception_*.c`, `alt_irq.h`, `priv/alt_legacy_irq.h` | handler table, enable mask, priority mask, exception routine | register, enable, disable, dispatch, nesting | all interrupt routines |
| time of day | `HAL/alt_gettod.c`, `alt_settod.c`, `alt_times.c`, `alt_busy_sleep.c` | reset time, zone | get, set, sleep | tick count |
| heap and profiler | `HAL/alt_sbrk.c`, `alt_gmon.c`, `alt_mcount.S` | program break, stack limit; slab, lists of functions and arcs, start flag | grow, shrink; record an arc, start sampling | allocator; alarms |
| caches | `HAL/alt_dcache_*.c`, `alt_icache_*.c`, `alt_load.c`, `alt_uncached_*.c`, `alt_ecc_fatal_exception.c` | none of their own: the two caches | flush, discard, publish code, load, uncached memory | the processor |
| console without stdio | `HAL/alt_log_printf.c`, `alt_printf.c`, `alt_putcharbuf.c`, ... | scan of a format, buffer, heartbeat count | print, log, report from interrupt routines | the JTAG core |
| start-up and exit | `HAL/alt_main.c`, `BSP/alt_sys_init.c`, `alt_exit.c`, `HAL/crt0.S` | | once | registers devices, redirects stdio, constructors |

`PROJECT.json` lists these with their sources, and the parts that are left out.

### What is hard here, and what correctness means

* **The four clocked processes of the peripheral** share signals and hand each
  other flags: who takes a flag down, at which edge, and what happens if the
  reason to raise it again comes at the same edge.  A byte written must be sent
  exactly once, undisturbed by later writes; a flag must not be taken from a
  frame it does not belong to; no sequence of writes may leave a process stuck.
* **Sampling an asynchronous wire** with counters of N+1 cycles, a half period
  rounded down, and a two-cycle input delay: every frame of a far end whose edges
  drift must be decoded, at every rate.
* **The program** polls, reads and writes in separate bus accesses, while frames
  end; the peripheral has one byte of buffer and ignores writes during a
  transmission.
* **The JTAG driver** shares its rings and its interrupt mask with its interrupt
  routine: nothing may be lost, doubled or reordered in the rings, no wake-up may
  be lost, the interrupt routine must end.
* **Alarms** are rescheduled, started and stopped from callbacks in the middle of
  a walk over their list, over a tick count that wraps.
* **Descriptors** are taken before it is known whether an open succeeds; the lock
  of a device must keep everybody else out and must be given back.  Names are
  compared by length and reach past their ends.
* **Interrupts nest by priority** while the program and the routines register,
  enable and disable them in several steps; whatever the order, no routine may run
  in a critical section or for an interrupt that is off, and the masks of
  processor and software must agree again when all have returned.
* **The heap and the profiler** are entered from the program and from interrupt
  routines; what is read outside of a critical section is old when it is used.
* **Widths and roundings**: 32-bit products of the time of day, the rounding of
  the break, regions that are not whole cache lines, numbers as the log prints them.

## 2. Modules

| module | models | form |
|---|---|---|
| `SerialLine` | what a serial transmitter promises, cycle by cycle, with drift | abstract specification |
| `FpgaUart` | the peripheral, all four processes, one step per clock edge | detailed |
| `TxHistory` | `FpgaUart` with a record of the byte it took from the bus and has not sent completely | history variable; implements `SerialLine` |
| `FlagHistory` | `FpgaUart` with a record of what the bus master has not been told | history variables, two kinds of master |
| `MCTxHistory`, `MCFlagHistory` | the bytes written in the TLC instances of these two | instances |
| `SerialLink` | far transmitter, peripheral and the polling reader together | composition of `SerialLine` and `FpgaUart` |
| `Calculator` | `main()` against the peripheral at the grain of a frame | detailed |
| `ByteStream` | a bounded first-in first-out stream | abstract specification |
| `JtagUart` | the driver, its interrupt and timeout routines, the core and the host | detailed; implements `ByteStream` twice |
| `AltAlarm` | alarm list and tick | detailed |
| `AltFd` | descriptor pool, locks, start-up redirection | detailed |
| `AltCalls` | the system calls on top of it: lookup of names, dispatch, drivers' open and close, the life of a program | extends `AltFd` |
| `MCAltCalls` | names that begin and end alike | instance |
| `AltTime` | time of day and busy wait on the tick count | extends `AltAlarm` |
| `AltIrq` | dispatch, registration, nesting, exceptions | detailed |
| `AltHeap` | program break, allocator, profiler, and the stack above them | detailed |
| `AltCache` | cache maintenance among loads, stores and fetches | detailed |
| `AltConsole` | the log's formatter and port, `alt_printf` | detailed |
| `HalServices`, `MCHalServices` | the last five with `AltAlarm`, side by side | composition, instance |
| `FpgaUartProofs` | | proofs about `FpgaUart`, `TxHistory`, `FlagHistory` and `SerialLink` |
| `CalculatorProofs`, `JtagUartProofs`, `AltIrqProofs`, `AltHeapProofs` | | proofs about the module of that name |
| `AltCallsProofs` | | proofs about `AltFd` and `AltCalls` |
| `HalServicesProofs` | | proofs about `AltCache`, `AltTime`, `AltAlarm` and `AltConsole` |
| `DataLemmas` | | lemmas about numbers and sequences, induction and recursion |

The composition is by layers.  `SerialLink` joins peripheral and program at the
clock edge and shows that a prompt reader gets every byte.  `Calculator` is too
long for that grain, so it takes the peripheral as flags that go up when a frame
has ended and down when the byte is read.  That is what the peripheral does for a
master that does not *read* the data register while the end of a frame is
sampled, whatever it writes and when (`FlagHistory`, `CarefulSpec`); and
`CarefulReader` in `Calculator` shows that the program, with this user, does not: it
reads a byte only while no frame is on the wire.  The program's writes fall anywhere.
For the error flag that matters: a request to clear it that is written into the end
of a frame may take the error of that frame with it, so `FlagHistory` promises only
the errors of frames whose end nobody wrote into (`meddled`), and `Calculator` lets
such a request take the new error too.

### FpgaUart

The VHDL signals are the variables, under their own names.  A clock edge is the
step `Clk(b, pin)`: the four processes as conjuncts, each reading unprimed and
driving primed signals, exactly as VHDL signal assignment does.  `b` is what the
bus master does in this cycle (idle, read or write, always with some address on
the lines), `pin` the level sampled.  Each branch of a process is an operator
(`WriteByte`, `RxStop`, `TxDone`, ...).  `Reset` is the asynchronous reset; it
leaves alone the five signals that no reset branch assigns, and `Init` lets four of
them start with any value (the fifth, the read data, is driven before it is used).
The source's state names `READ_BIT_0` ... are numbers here, so that the eight
copies of a branch are one.

`TxHistory` adds `owed`: the byte an accepted write left with the register file, from
that edge to the last cycle of its stop bit.  It is read off the bus and the bit
counter, not off the handshake of the two processes, so that a byte the handshake
drops stays owed for ever and one it forgets to withdraw is sent without being owed;
only `Reset` gives a byte up.  `FlagHistory` does the same for what the master has not
been told: `unread`, `unacked` and `meddled`.

### Calculator

One step per access to a register the other side also changes: poll of the error
flag, write that clears it, poll of the byte flag, read, one step per byte sent
(with the wait for the transmitter as its guard).  `printf` changes nothing the
other side sees and is part of the step around it.  The person at the terminal is
external: types the next key once the echo has begun to appear, and after a line
feed, which has none, once it has been read.  Numbers are words of `WordMod`
values.  The reference answer is computed from what was typed, by a definition
that shares nothing with the program's running state.

### JtagUart

The program's calls are cut at every access to an index, a ring slot or a mask
bit that the interrupt routine also uses (`ReadLook` ... `ReadEnd`, `WriteLook` ...
`WriteEnd`); the interrupt routine is cut at every access to the device, since the
host moves on meanwhile, and runs with the program stopped.  A section between
`alt_irq_disable_all` and `alt_irq_enable_all` is one step.  The core's FIFOs, its
activity bit and the host are external, modelled from how the driver uses them.

### AltAlarm

Start and stop run with interrupts off and the tick at interrupt level, so each is
a step, but the tick is cut at each alarm it visits, and a callback may start or
stop any alarm before it returns 0 or a period.  `left` is history: the ticks
before the callback that was asked for.

### AltFd

Nothing here runs at interrupt level and the build is single-threaded, so a system
call is a step: the successful call and the call that fails after it has changed
something are actions of their own.  Names are the devices they find.  `held` and
`locks` are history: what the program was given and has not given back.

### AltCalls

Adds to a call of `AltFd` what it does first and last: the name is looked up (a name
is a sequence of characters with anything behind its end, since the comparisons
read there), the driver's open or close is called.  A call that changes nothing is
an operator that gives its possible answers, `"driver"` where the driver decides.
`alt_main` goes from registration over redirection and constructors to `main`, from
where `exit`, a return (which closes standard output) or `kill` lead to `_exit`.

`ALT_USE_DIRECT_DRIVERS` selects another half of each of these files, without names
and without a pool.  It is off on this board; since it serves the same programs it is
modelled too, as the operators `direct_*`, and compared with the calls above.

### AltIrq

The processor runs the top of a stack of contexts: the program, and above it one for
each exception.  A call on the registry, and `alt_irq_interruptible` with its
counterpart, are cut at each table entry and register they change; the dispatcher
at each reading of the pending list.  An exception is taken by entry, a choice
between interrupt and instruction exception from the masks found there, and exit.
Devices raise requests at any time; those in `Withdrawable` may drop them.

### AltHeap

A section with interrupts off is a step, so what is read outside of one has a step of
its own: the allocator's look at the break (`TrimLook`) before it gives memory back
(`Trim`), mcount's search before `__mcount_record`, the test of `pcsample_need_init`
before it is cleared.  newlib's allocator is external and trims only its last block.
`sbrk` is a function of the memory and of its caller: besides moving the break it
watches the stack, as with `ALT_STACK_CHECK` and either with or without
`ALT_EXCEPTION_STACK`, and the program's stack moves meanwhile (`StackMoves`), with the
check the compiler puts into every function.  `slipped`, `overtaken`, `unaligned` and
`wild` are history: what the code does not exclude and the properties except, each
only where it must.

### AltTime, AltCache, AltConsole

`AltTime` adds the offsets and the busy wait to the tick of `AltAlarm`; products are
taken modulo the width they have in the source.  `AltCache` keeps, instead of
contents, which bytes are newer in the data cache and which lines of the instruction
cache are old; every maintenance call is a loop with a step for each line, among
accesses of the processor and of interrupt routines.  `AltConsole` runs the log's
scan of its format one character at a time; each character is a look at the port and
a write, between which an interrupt routine may log a message of its own.

## 3. Runs

| run | instance | shows |
|---|---|---|
| `uart` | 2 data bits, counters modulo 3, two divisors reprogrammed at any time, two bytes besides the zero of reset, arbitrary RX wire, arbitrary master, resets | `TxImplementsLine`: what leaves TX is the abstract line, every byte taken is on it, and only a reset gives one up; `TxInv`; `TxCompletes`: it is sent to its end and the register file told; `RxReturns`; `ClearTakesEffect`: a request is carried out and then withdrawn |
| `flags_careful` | 2 data bits, counters modulo 4, two divisors, arbitrary wire, a master that reads carefully and writes at any time, resets | `UnreadIsFlagged`, `UnackedIsFlagged`: no unread byte goes unreported, and no error of a frame whose end nobody wrote into; `ReadFlagFalls`: no byte is announced twice; `CarefulInv`, the reason |
| `flags_byte_lost` | the same with a master that only polls before it acts | violation: an unread byte without its flag |
| `link_prompt` | 2 data bits, 4 cycles per bit, edges one cycle early or late, reader away at most one cycle | `LinkInv`, `Fidelity`: every frame decoded bit for bit; `ReadsNext`, `NothingLost`, `Delivered`: each byte read once, in order, in the end |
| `calculator` | four keys (`+`, return, line feed, `9`), up to six of them, words of 4 bits, framing errors | `AnswerIsSum`, `Answered`; `CarefulReader`; `ErrorPasses` |
| `jtag_write` | two byte values, ring of 3, FIFO of 1, writes of 0 and 3 bytes, blocking or not, timeouts, host coming and going | `OutputIsStream`, `JtagInv` |
| `jtag_read` | the same with reads of 0, 1 and 3, FIFO of 2, no system clock (as this board) | `InputIsStream`, `JtagInv` |
| `jtag_live` | reads and writes, ring of 2 | `IsrEnds`, `ReaderWakes`, `BlockedCallEnds`, `ActiveHostGetsAll` |
| `hal_services` | three alarms, tick count modulo 4; seconds of 6 ticks of time at three rates; two interrupts, four contexts, three calls; a heap of 8 bytes with the stack coming down to 4, slabs of 4; a data cache of 2 lines of 2 bytes over a memory of 3; a log of one message and two interrupts, numbers of two hexadecimal digits | `AlarmInv`, `OnTime`, `TickEnds`; `TimeInv`; `IrqInv`, `RoutinesWanted`, `HighestServed`; `HeapInv`; `CacheInv`; `ConsoleInv` |
| `alarm_stopped` | two alarms, a callback may stop the next one | violation: a stopped alarm is called |
| `fd_pool` | 5 descriptors, two devices and a file system that may refuse, requests with a lock bit slipped in, six names, a channel in each direction and a flash memory | `FdInv`, `LockKeepsOut`, `CallsInv` |
| `fd_lock` | one device and the null device | violation: a lock granted next to another descriptor |

The invariants of `hal_services` and `fd_pool` are conjunctions of named parts:

* `TimeInv`: `ClockKept`, the time of day is the time set plus the ticks since, in
  spite of two roundings, a borrow and a carry, and off by less than a second where
  the product of `settimeofday` overflows its word; `SleepsEnough`, a wait is short
  by no more than the truncated quotient of `alt_busy_sleep` drops.
* `IrqInv`: `SectionsHold`, nothing is served above a critical section, a call on the
  registry or a routine that did not let itself be interrupted; `PriorityRespected`;
  `MasksAgree`, the mask of the processor is the software's again when a call or a
  routine has ended; `TableHolds`; `SpinsOnlyIfWithdrawn`, `LostOnlyIfWithdrawn`, what
  a withdrawn request does to the dispatcher and nothing else does.
* `HeapInv`: `InBounds`, `BelowBreak`, `BlocksApart`; `StackGuarded`, the stack limit is
  the break; `StackWatched`, heap and stack do not cross unreported, whichever moved;
  `RecordsApart`, also after a slab was refused; `SampledOnce`.  `BelowBreak`,
  `BlocksApart` and `RecordsApart` except `slipped`, `StackGuarded` and `StackWatched`
  a break left off a word boundary, `SampledOnce` except `overtaken`.
* `CacheInv`: `WrittenBack`, `FetchedAsStored`, `UncachedApart`; `DiscardConfined`, a
  discard reaches the lines of its region and, for one that does not start with a
  line, the next one.
* `ConsoleInv`: `LoggedAsMeant`, the formatter against a definition of what each
  conversion means; `OnlyProgramLoses`; `NoCtrlD`; `SaidInOrder`.
* `CallsInv`: `FoundAsNamed`, the byte comparisons against equality of names and of
  mount points; `OpensBalanced`; `BuildsAgree`, the standard descriptors' modes and answers
  against those of the build with direct drivers; `TerminalsAgree`; `DestroyedOnce`.

The services of `hal_services` share no variable but the tick count, so their
interleavings say nothing; the run chooses one at the start (`part`) and each part
is explored completely.  `AlarmInv` and the two alarm properties are those of
`AltAlarm`, unchanged.

### The bounds, and why they are enough

* *Data bits 2*: the decoder and the generator treat the data bits alike, and two
  are the fewest with a first and a last one that differ (their order is seen).
  The proofs are for every number.
* *Counters modulo 3, 4 or 8*: the wrap happens within a run (`RxReturns` needs it);
  divisors above, equal to and below the count occur.
* *One cycle of drift at 4 cycles a bit* is the largest drift that rate allows
  (`LinkAssumption`: below half a bit).  The frame is 4 bits long, and the drift
  accumulates anew at every edge.  `Backlog` stops the far end three bytes
  ahead; `NothingLost` says it never gets that far.  A reader away for at most one
  cycle is much quicker than the real one has to be, but the frame is shorter in
  proportion.  How long the reader may be away is `PromptAssumption`; with the other
  constants as they are here it admits two cycles, and TLC finds the first byte lost at
  four.
* *Six keys* reach a second line after a first one with a plus sign, which is where
  state left over from a line would show; two-digit numbers overflow words of 4 bits.
* *Rings of 2 and 3 slots* are empty, full and wrapped within a call, and a write
  or read of 3 bytes takes several turns of the copying loop.
* *Three alarms* are the fewest with one before, one at and one after the place the
  walk has reached; delays and periods reach across the roll-over.  Delays are
  less than `WordMod - 1` (see the observations).
* *Five descriptors* leave two beyond the standard ones, so that one of them is the
  high water mark and the other is not; the pool also runs out.
* *Two interrupts and four contexts*: the program, both routines nested, and an
  exception in the upper one.  Three calls are the fewest with a registration, one
  that makes a routine interruptible and one from within it.
* *Two bytes written* in `uart`, with the zero left by reset, are what it takes to see
  one byte sent in another's place.  In `flags_careful` one does: what is sent does not
  matter there, but that writes are ignored meanwhile does.
* *A heap of 8 bytes* holds a block of the program, the histogram and one slab, or
  two slabs, and then refuses; increments of 1 leave the break off a word boundary.
  The stack pointer goes from the top of it to 4, so that the break can meet it there
  and it can be found below the break.  Routines run on an exception stack of their
  own, which takes the third branch of `sbrk`'s check besides the other two.
* *60 cycles, 3 a loop, in a second of 6 microseconds* make three and a third loops
  in a microsecond: a third is dropped.  The waits are none, one, and up to three
  counted loops with and without a rest.
  The proof is for every size.
* *Two lines of cache over three of memory*: one line has a rival for its place and
  one has not; the regions start and end inside lines, cover several, or are empty.
* *One message and two interrupts*: one that is logged between the program's look and
  write and one more; the messages have every conversion, with and without widths.

### Fairness

* `FpgaUart`: weak fairness of an edge at which the master is not writing.  The
  clock runs, and a processor that stores also fetches: it cannot occupy the port
  with writes at every edge.  Needed because pending and clear flags are taken down
  only at an edge without a write.  Divisors that are reprogrammed for ever are
  excluded (`DivisorSettles`), since a counter compared for equality may then be
  missed every time.  `ClearTakesEffect` needs one thing more, strong fairness of the
  edge without a write that meets the error flag down (`Fairness`): the decoder may
  raise the flag again with the next bad stop bit, but that is at least
  `DataBits + 2` edges away, and no processor writes at every one of these.
* `SerialLink`: weak fairness of the clock edge, nothing else; the bound on the
  reader's absence is part of the model (`MaxAway`).
* `Calculator`: frames end, the peripheral carries out a request to clear, the
  program runs.  The last includes that the console takes what is printed: with no
  host reading it, the program stops once the driver's buffer is full (below).
* `JtagUart`: the interrupt routine runs (weak), the program gets its turn between
  interrupts (strong, since it is not enabled while the routine runs; the cable is
  slower than the processor), the clock ticks, a host that is there reads.
  `BlockedCallEnds` asks in addition that the host stays or, on a board with a
  clock, has gone for good.
  `ActiveHostGetsAll` that the clock ticks and every tick finds activity.
* `AltAlarm`: a tick that has begun goes on.
* `AltIrq`: the processor runs (weak), and takes an interrupt that is pending again
  and again while they are on (strong: it looks at every instruction, and routines
  turn them off and on).  Nothing is assumed of the devices; `HighestServed` excepts
  a withdrawn request and a processor stopped in the debugger.

## 4. Disagreements found

Each is shown by a run that ends in a counterexample, against a sentence of the
source.

* **A byte loses its flag** (`flags_byte_lost`).  The mark left by a read during a
  stop bit is kept, because `fpga_UART.vhd:211` does not look at it in `STOP_BIT`,
  and takes the flag of the byte that this stop bit completes.
* **A stopped alarm is called** (`alarm_stopped`).  `alt_tick.c:102` reads the next
  alarm before it makes the callback.  If that callback stops the next alarm, the
  walk goes there all the same, calls it back, and, as a removed node is linked to
  itself, does not return to the list.
* **A lock is granted beside another descriptor** (`fd_lock`).  The scan of
  `alt_fd_lock.c:61` ends one short of the high water mark that
  `alt_file_locked` (`alt_open.c:79`) includes.

Observations made while modelling, of which no run is kept.

*Peripheral and driver*
* A request to clear an error given in a stop bit also clears the error this stop bit
  is about to report (`UnackedIsFlagged` under `PolledSpec`), and the flag of a byte
  read there stays up until the bit ends, so a poller reads it again.
* On the way out the handshake holds: a byte is accepted only at an edge at which its flag
  is down, and that edge withdraws any acknowledgement left over (`fpga_UART.vhd:231`),
  also one from before a reset.
* A blocking JTAG write that has just got room gives up with `-EIO` after a single
  tick without activity, not after the timeout
  (`altera_avalon_jtag_uart_write.c:187`); `ActiveHostGetsAll` says what remains.

*Interrupts and exceptions*
* A request withdrawn before the dispatcher reads the list leaves it searching an empty
  one for ever (`alt_irq_handler.c:141`); withdrawn before the entry looks, it is taken
  for an instruction exception, and a routine that says "skip" loses an instruction.
* `alt_irq_enable` in an interruptible routine writes the whole mask and admits lower
  priorities until the routine closes (`priv/alt_legacy_irq.h:93`; `rearmed`).
* The bound of `alt_iic_isr_register` is compared as signed (`alt_iic_isr_register.c:79`):
  a negative number passes.  The drivers' macros keep -1 away from it.
* The comment at `alt_exception_entry.S:276` has the sense of the test at line 279 reversed.

*Heap and profiler*
* A slab taken by an interrupt between an allocator's look at the break and its
  `sbrk(-n)` is above the new break and given away twice (`slipped`).
* The profiler may start sampling twice, which links one alarm into the list twice
  (`overtaken`); an arc may be recorded three times, where `alt_gmon.c:176-181` speaks of two.
* The comment above `sbrk` (`alt_sbrk.c:45-48`) says that it does no bounds checking and
  that memory may collide with the stack or overflow what there is.  The code does check:
  lines 88-91 refuse what goes beyond the linker's limit (`InBounds`), and lines 107-113,
  with `ALT_STACK_CHECK`, report a stack that is met (`StackWatched`).
* Once a request has left the break off a word boundary, the stack limit no longer
  follows it, and heap and stack may cross without a report (`unaligned`).
* From the exception stack the limit of the stack switched away from is compared with
  the new break and not that stack's pointer (lines 122-125): any request of a routine
  that is not negative is reported as an overflow while the stack is guarded.
* A refused slab is used all the same: the -1 is taken for its address, and the records
  of the arcs that follow are written from there (`wild`).  Those are not in the heap,
  and `RecordsApart` says nothing of them but that they disturb no other.

*Time*
* `alt_busy_sleep` counts by ALT_CPU_FREQ / (cycles_per_loop * 1000000), a quotient of
  whole numbers (lines 74-75, 112, 129).  At this board's 50 MHz and 3 cycles a loop that
  is 16 loops or 48 cycles in a microsecond of 50: a wait is 4% short.  The comment at
  lines 34-40 gives no such rounding.
* `settimeofday`'s product has 32 bits, which puts the time of day off by a part of a
  second when it overflows; rates that do not divide 10^6 lose time, and the
  time of day jumps back when the tick count rolls over.  An alarm started with the
  longest delay is due at once (`alt_alarm_start.c:82`).
* `alt_busy_sleep` with no remainder after its counted loops makes 2^32 more of them,
  and its loops change a register the compiler may believe unchanged.

*Files and start-up*
* With direct drivers `TIOCEXCL` goes to the driver, which does not know it: a device
  cannot be locked.  `fstat` of another number fails there without setting `errno`.
* Closing a locked standard descriptor leaves the lock in force (`alt_release_fd.c:46`);
  closing any standard one calls its driver's close while it stays in use.
* Before redirection the standard descriptors have the flags 0, `O_RDONLY`: a write gets
  `EACCES` and never reaches `alt_dev_null_write`, where `alt_dev.c` says output goes.
* `stat` of a missing or a locked name sets `EBADFD`, whatever `open` said; `isatty` reads
  a structure that a failed `fstat` did not fill.
* Of nested mount points the last registered is found, not the longest.
* `alt_dma_rxchan_depth` (`alt_dma.h:215`) and the flash calls dereference what could not
  be opened; the other DMA calls return `-ENODEV`.
* `_do_dtors` goes in the same direction as `_do_ctors`; `kill` of the program skips it.

*Caches*
* `alt_dcache_flush_no_writeback` of a region that does not start on a line discards one
  line more after its loop (`alt_dcache_flush_no_writeback.c:65-68`), also if the region
  ended before: of one byte at address 1, the line after the one it is in.  What was
  stored in that line is lost.  The same loop in `alt_dcache_flush` writes it back.

*Log*
* The heartbeat comes every `INTERVAL + 1` ticks (the comment at
  `alt_log_printf.c:464-466` says `INTERVAL`); of an echoed write the last character is
  replaced by a line end and one shorter than 2 is not echoed (lines 435-439 say the
  first `ALT_LOG_WRITE_ECHO_LEN` characters).
* A character of the program is lost when an interrupt routine logs between the look
  at the port and the write (line 98).  Logging is not enabled in this build.

## 5. Proofs

All for every value of the constants that satisfies the assumption its module states
and TLC evaluates:

* `UartAssumption` and, for the link, `LinkAssumption`: any number of data bits, any
  width of the counters, any divisors, any bus master.  `PromptAssumption` bounds
  the reader's absence by the length of a frame at every divisor in use at power-up.
* `JtagAssumption`: rings and FIFO of any size, any alphabet, any timeout.
* `FdAssumption`, `CallsAssumption`: any number of descriptors beyond the standard
  three, any devices, names, paths, requests and driver routines.
* `IrqAssumption`: any number of interrupts, routines, contexts and calls.
* `HeapAssumption`: any word, heap, slab, record and request sizes, any functions and
  callers, any movement of the stack pointer, routines with a stack of their own or not.
* `CacheAssumption`: lines and caches of any size, any regions and sections.
* `AlarmAssumption` with `TimeAssumption`: any word, second, rates, settings and waits,
  any frequency and cycles of a loop, but a rate is at most the microseconds of a second
  and the loops in a microsecond at least one and at most `INT_MAX`, or a step of the
  code divides by zero.
* `CalculatorAssumption`: any keys of 7 bits, any number of them, a long of any even
  number of values, with framing errors or without.
* `ConsoleAssumption`: any alphabet that contains the characters the code itself
  prints, and no Ctrl-D in a logged message (`NoCtrlD` is about echoed writes, which
  may contain it); any messages, any sizes of port, buffer and echo, numbers of any
  count of hexadecimal digits.  A width is one digit, as the formatter reads it.

| theorem | statement |
|---|---|
| `TypeCorrect` | `Spec => []TypeOK` |
| `TxCorrect` | `HistorySpec => []TxInv` |
| `TxRefinesLine` | `HistorySpec => TxImplementsLine`: the peripheral implements `SerialLine`, and gives a byte up only at a reset |
| `CarefulCorrect` | `CarefulSpec => []CarefulInv` |
| `NoByteUnreported`, `NoErrorUnreported` | `CarefulSpec => []UnreadIsFlagged`, `[]UnackedIsFlagged` |
| `NoByteTwice` | `CarefulSpec => ReadFlagFalls` |
| `LinkInStep` | `LinkSpec => [](TypeOK /\ LinkInv)` |
| `Reception` | `LinkSpec => Fidelity`: every frame is decoded bit for bit |
| `PromptReaderLosesNothing` | `LinkSpec => []NothingLost` |
| `PromptReaderInOrder` | `LinkSpec => ReadsNext`: the bytes read are those sent, in order, each once |
| `DialogueInvariant` | `Spec => []CalcInv` of `Calculator` |
| `AnswersAreSums` | `Spec => []AnswerIsSum`: what is shown is the answer to what was typed |
| `ReaderIsCareful` | `Spec => CarefulReader`: the program reads only when `CarefulSpec` lets a master read |
| `JtagCorrect` | `Spec => []JtagInv` of `JtagUart` |
| `OutputRefines`, `InputRefines` | `Spec => OutputIsStream`, `Spec => InputIsStream`: the driver implements `ByteStream` in both directions |
| `IrqCorrect` | `IrqSpec => []IrqInv` |
| `RoutinesAsRegistered` | `IrqSpec => RoutinesWanted`: what is called is enabled and registered |
| `PoolCorrect` | `Spec => []FdInv` of `AltFd`: no descriptor lost, no lock bit left over |
| `LockHonoured` | `Spec => LockKeepsOut` of `AltFd` |
| `CallsCorrect` | `CallsSpec => []CallsInv` |
| `PoolCorrectInProgram`, `LockHonouredInProgram` | `CallsSpec => []FdInv`, `CallsSpec => LockKeepsOut` |
| `HeapCorrect` | `HeapSpec => []HeapInv`, with the exceptions named in section 3 |
| `CachesCorrect` | `CacheSpec => []CacheInv` |
| `TimeKept` | `TimeSpec => []TimeInv`: the clock is kept, or less than a second off; waits are short only by the truncation |
| `AlarmCorrect`, `CalledOnTime` | `Spec => []AlarmInv`, `Spec => OnTime` of `AltAlarm`, if no callback stops the next alarm and no delay is the longest |
| `ConsoleCorrect` | `ConsoleSpec => []ConsoleInv`: the log prints what its messages mean |

*The transmitter.*  `TxInv` is inductive with `TypeOK`.  It says that a frame in
flight is the pending byte, not acknowledged, at the divisor still in the register
(writes are ignored meanwhile, `PendingHeld`); that between frames the generator is
as reset leaves it; that the pin has the level of the present bit; and that the
byte owed is the one in the register exactly while the handshake says that it is to be
sent (`OwedIsMarked`).  That last part is what carries the refinement: the line is
given the byte owed, before its start bit as `pending` and afterwards as `frame`, so
that a write which leaves a byte is an acceptance whatever the two flags then are, and
the byte can only leave by its last stop bit or by the reset.  Each branch of TX is an
action of the line, together with what the register file does at the same edge
(`LineStep`).

*The flags.*  `UnreadIsFlagged` alone is not inductive: a stale mark could take the
flag down.  `CarefulInv` adds where a mark can stand: not beside a flag that
announces something unread, and in `STOP_BIT` only with the flag down; and the same of
a request to clear, unless the frame's end was written into.  The part about the mark
holds because the bit before `STOP_BIT` lasts at least an edge, and a careful
master's address lines show another register there.  The other way round, a flag whose
byte has been read has its mark beside it (`ReadIsMarked`), and so falls at the next edge.

*The link.*  `LinkInv` relates the two clocks: both count cycles since the falling
edge of the start bit, and the equation between the counts (in `InStepStart`,
`InStepBit`, `InStepStop`) with the bound on the drift leaves three possible
distances in bits.  In each the sampled pin is a level of the bit the decoder is at.
The reader takes no part: it never writes (`BusReads`).

*The reader.*  That it loses nothing depends on two clocks as well: how long the
program is away, and how long the decoder needs for the next byte.  `ReaderInv` counts
both from the end of a frame (`InTime`): the edges until the byte is taken plus those
the decoder has made of the next frame stay below `2 * MaxAway + 7`, those until the
reader's mark is gone below `3 * MaxAway + 9`.  `PromptAssumption` is what makes both
less than a frame.  It is sufficient, and nearly necessary: see the bounds above.  From
it, `AsExpected`: what the program has still to read is at most the byte announced and
the one on the wire.

*The descriptors.*  The pool is scanned only up to the mark, so the mark must cover
every descriptor of a device (`HighWater`), and what `alt_file_locked` sees is then
all there is (`LockSeen`, from which `LockHonoured` follows).  `FdInv` is inductive
because it also says that the standard descriptors are never free, that a lock bit
comes with the bit of a device, and that nothing is locked during start-up.

*The JTAG driver.*  `JtagInv` says when each interrupt is enabled; it is inductive
once what a call has in hand is tied to the rings.  A call works with copies of the
indices, and the routine moves the other index meanwhile: `ReadHolds` and
`WriteHolds` say that the piece a call has decided to copy lies in one piece in the
ring, is still its to copy, and after copying is still what it was - since the other
side only ever makes the free, or the filled, part larger.  `RoomKept` is the same for
the routine and the host: the room counted in the control register only grows.  The
refinements map the stream to what is in the call's hands, in the ring and in the
FIFO, one after the other; a step that hands bytes on leaves the whole as it is, by
lemmas on concatenation and on the ring as a sequence.

*Interrupts.*  The stack of contexts is of any height, so `IrqInv` cannot be shown
context by context: `StackOK` says that below the top each stands between two
instructions of its own and that the one above it interrupted it only if it let
interrupts in.  `MasksOK` gives the value of the priority mask, and of every saved
one, as that of the highest context that raised it; `Climbs` that priorities rise
(unless `rearmed`).  `TableOK`, `EnabledOK` and `CauseOK` follow a registration through
its steps: which of handler, context, mask and enable bit may disagree between them.

*System calls.*  The pool below `AltCalls` takes one more step than `AltFd` has:
`stat` gives the descriptor it takes back at once, so that only the mark moves; `FdInv` and
`KeepsOut` are therefore proved again over `CallsNext`, from the same lemmas.
`OpensBalanced` counts descriptors: a step changes the set of those on a device by
one element, and its cardinality by one.  It needs `NotYet`: a standard descriptor
redirected by `alt_io_redirect` was the null device's, so that no driver misses a
close.  `BuildsAgree` needs `ModesOK`, that no call changes the access mode of a
standard descriptor.  `FoundAsNamed` is a lemma about `alt_find_dev` and
`alt_find_file`, by the first place where names differ, and needs no invariant.

*Caches.*  `CacheInv` says what holds when a loop has ended; while it runs, `WorkLeft`
says that whatever is still dirty, uncached or stale lies in the lines the loop has
still to visit, with the loop over the instruction cache still to come.  The lines
visited are those of the region because an address that is not the first of its
line is a multiple of a line away from the start, and the last line has an instruction
of its own after the loop.

*Time of day.*  `ResetKept`: the offset kept by `settimeofday`, plus the ticks
counted, is the time last set plus the ticks since, in microseconds and without any
rounding, while `wall.exact`; otherwise the two are less than a second apart (`ResetOff`), since
the wrapped product is taken modulo a second.  What it is off is settled at the
setting.  `TicksInSeconds` puts the two roundings of `gettimeofday` together; its borrow is of a
single second (`BorrowedOnce`), or the epoch stands in for what it would borrow from, but
only when the product overflowed and by no more than it is off.  `WaitsEnough` is arithmetic: a loop
counts no more than `IntMax`, so the loops made are at least `K` per microsecond
(`LoopsEnough`), and `K` leaves out the cycles of less than one loop
(`LoopsInMicrosecond`).

*The alarms.*  The two conditions are those under which the code does what it promises;
without them there are counterexamples (section 4).  The list needs no induction:
`Whole` says that no set of listed alarms is closed under `next`, which is what it means
that every ring leads through the head, and inserting and removing keep that, each by
one choice of another set.  A tick is described by the set of alarms it has still to
visit (`ToCome`), entered at `alarm` and left for the head; a callback may put alarms in
front of it or take any out but the one it is entered at.  Alarms in that set have
their time measured by the last tick (`Waiting`), the others by this one (`Asked`),
and `Expires` shows that exactly those due now are called, with and without a
roll-over in between.

*The heap.*  `HIInv` has the memory as a record, so that the lemmas are about the
functions on it: `GrantFacts` of what `sbrk` grants, `McountAllocateFacts` of what the
profiler makes of it.  `HeapInv` is not inductive: it needs that the unused rest of a
slab holds no record (`Slabs`), that the break, when it is above the limit by the
rounding of a refused request, is on a word boundary (`Bounded`), and that what the
allocator found when it looked is still so unless `slipped` (`TrimOK`) - but the block
it is about to cut never rises above the break, since routines only ask for memory.
Two allocations in one record need that a refusal by the first is not forgotten by the
second: `wild` stays until a slab is granted, as a refused one is taken for a full one.
`StackGuarded` and `StackWatched` go together (`SbrkWatches`): the limit moves with the
break and is compared with the stack there, or the stack moves and is compared with the
limit; once the break has been left off a boundary the limit is off it for good
(`Frozen`), because `sbrk` looks for it at a rounded break.  `SamplersOK` says
that whoever starts sampling is alone, because the flag is down.

*The calculator.*  `AnswerIsSum` compares what is shown with a definition that reads
the whole of what was typed; the program keeps two running numbers.  `CalcInv` ties
them together at every step of the loop.  It names three prefixes of what was typed,
which differ by at most a key: `Got`, what has been read; `Counted`, what the numbers
stand for, since a key is echoed before it is accumulated; `Settled`, what has been
answered.  `NumbersAreLine` says that `NumberA`, `NumberB` and `State` are the value,
wrapped, of what is left and right of the plus sign in the last line of `Counted`;
`Printed`, that what is shown, in the transmitter and in `out` are together the answer
to `Settled`.  The work is in what one more key does to the reference definitions
(which is the last line, where its plus is, the value of its digits), and in
arithmetic: wrapping after every digit is wrapping once at the end.  `CarefulReader`
needs only `OneKeyUnderWay`.

*The console.*  `LoggedAsMeant` speaks of a call that has ended.  While it runs
(`Logging`, `Scanning`), what was sent, what is converted and waits, and what the
pieces not yet scanned mean are, one after the other, what the message means; and the scan
stands at one of three places of a piece: before it (`AtPiece`), behind the `%`
(`AtSpec`), or past the flag, at the width or at the letter behind it
(`AtConversion`).  That the conversion is right is a lemma about numbers,
`ConvertedIsMeant`: the code counts the digits by dividing and then prints by falling powers of
the base, the definition takes digits from the end.  `HexPrintIsNumeral` is the
same for `alt_printf`, which looks at four bits at a time.  An interrupt routine finds
the room it saw, as nobody runs above it (`HandlerKeeps`); the program need not.
`OutputInOrder` follows `alt_printf`: what is out, in the buffer, converted and still to
come is what was to be said.

*Data.*  The induction principles of the library take an operator, which the provers
cannot instantiate.  `DataLemmas` states them with sets and functions in its place: a
set of numbers that contains 0 and the successors of its members is all of them (from
the least element a well-founded order gives), sequences follow by their length, and a
recursively defined function is unfolded from the function's own definition.  The
digits of a number, the value of a line and the meaning of a message are such functions.

*Only model-checked*: the liveness properties, as fairness and `ENABLED` are outside the
prover: `TxCompletes`, `RxReturns`, `ClearTakesEffect`, `Delivered`, `Answered`,
`ErrorPasses`, `IsrEnds`, `ReaderWakes`, `BlockedCallEnds`, `ActiveHostGetsAll`,
`TickEnds` and `HighestServed`.  The three properties of the violation runs are false.

## 6. Not modelled

The assembly of reset (`crt0.S`), of the saving of registers and of emulated
instructions; `alt_getchar`, which makes one call (under semihosting it ignores that
call's result); the counting of arcs that are recorded and the writing of the profile;
drivers of devices this board does not have; the multi-threaded and the polled builds of
the JTAG driver, which are not compiled.  A null device dereferenced after a
descriptor is closed twice has no defined outcome and is excluded.  Metastability
of the input pin is seen as either level.  The time of day, logging, profiling,
semihosting and the stack check (`ALT_STACK_CHECK`, with or without
`ALT_EXCEPTION_STACK`) are modelled as the source compiles them where they are
enabled; on this board they are not, as there is no system clock and the build leaves
the options off.

Consequences of the board to keep in mind: without a system clock the JTAG timeout
is never reached, so a console nobody reads blocks a write for ever once the driver's
buffer of 2048 bytes is full (`altera_avalon_jtag_uart_write.c:183`).

What is left is the proof of liveness.
