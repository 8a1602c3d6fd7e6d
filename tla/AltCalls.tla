------------------------------ MODULE AltCalls ------------------------------
(***************************************************************************)
(* The system calls on top of AltFd: the lookup of names (alt_find_dev,    *)
(* alt_find_file), read, write, lseek, fstat, isatty, ioctl and stat, here  *)
(* and in a build with direct drivers, the drivers' open() and close()      *)
(* behind the descriptors, DMA channels and flash memories, the calls that  *)
(* are not supported, and the life of a program from alt_main to _exit.     *)
(*                                                                         *)
(* A name is a sequence of characters, followed in memory by NUL and then   *)
(* by anything.  A call that changes nothing is an operator that gives the  *)
(* answers it can have: "driver" when it is left to the driver's routine,   *)
(* or the error.  errno is part of these answers.  The calls are those of   *)
(* main itself, not of constructors and destructors.                        *)
(*                                                                         *)
(* Definitions marked "variant" are plausible slips, not part of the model. *)
(***************************************************************************)
EXTENDS AltFd, Sequences

CONSTANTS
  Name,       \* the names of the nodes and of the channels
  Channels,   \* the DMA channels and flash memories, the last registered first
  ListOf,     \* the list each is in: "txchan", "rxchan" or "flash"
  FlashOpens, \* flash memories whose driver has an open(), which may fail
  Provides,   \* the routines each node's driver has
  Kinds,      \* what its fstat(), if any, may say a descriptor is, or "fails"
  Paths,      \* names the program opens or asks about
  Ctors       \* the number of static constructors, and of destructors

(* A string is what is in front of the NUL that ends it. *)
IsString(s) == s \in Seq({s[k] : k \in DOMAIN s} \ {"NUL"})

ASSUME CallsAssumption ==
  /\ Provides \in [Nodes -> SUBSET {"read", "write", "lseek", "fstat", "ioctl"}]
  /\ Kinds \in [Nodes -> SUBSET {"chr", "reg", "fails"}]
  /\ \A d \in Nodes : "fstat" \in Provides[d] => Kinds[d] # {}
  /\ \A d \in Nodes : IsString(Name[d]) /\ Len(Name[d]) > 0
  /\ \A path \in Paths : IsString(path)
  /\ Channels \in Seq({Channels[k] : k \in DOMAIN Channels})
  /\ \A k \in DOMAIN Channels :
       /\ IsString(Name[Channels[k]])
       /\ Channels[k] \notin Nodes /\ ListOf[Channels[k]] \in {"txchan", "rxchan", "flash"}
  /\ Ctors \in Nat

VARIABLES
  order,      \* the registered nodes, the last one registered first
  opens,      \* history: calls of a driver's open() accepted, less those of its
              \* close(), counted until
  stdClosed,  \* history: a standard descriptor is closed
  life,       \* how far alt_main has come
  built, undone   \* static constructors and destructors that were run

callsVars == <<vars, order, opens, stdClosed, life, built, undone>>
program == <<life, built, undone>>

-----------------------------------------------------------------------------
(* Byte k of a name, with what is behind its end. *)
Byte(s, k, beyond) ==
  CASE k <= Len(s) -> s[k]
    [] k = Len(s) + 1 -> "NUL"
    [] OTHER -> beyond
SameBytes(s, t, n, beyond) ==   \* memcmp
  \A k \in 1 .. n : Byte(s, k, beyond) = Byte(t, k, beyond)

(* What the searches compare with one node. *)
DevMatches(d, path, beyond) == SameBytes(Name[d], path, Len(path) + 1, beyond)

MountLen(d) == IF Name[d][Len(Name[d])] = "/" THEN Len(Name[d]) - 1 ELSE Len(Name[d])

FileMatchesAnywhere(d, path, beyond) ==   \* variant: the name may go on
  SameBytes(Name[d], path, MountLen(d), beyond)

FileMatches(d, path, beyond) ==
  /\ Byte(path, MountLen(d) + 1, beyond) \in {"/", "NUL"}
  /\ SameBytes(Name[d], path, MountLen(d), beyond)

(* The first in a list of those that match. *)
FirstOf(list, matching) ==
  IF matching = {} THEN None
  ELSE CHOOSE d \in matching : \E k \in DOMAIN list :
         list[k] = d /\ \A j \in 1 .. k - 1 : list[j] \notin matching

Listed(list) ==
  IF list = "dev" THEN registered \ FileSystems
  ELSE {c \in {Channels[k] : k \in DOMAIN Channels} : ListOf[c] = list}

alt_find_dev(list, path, beyond) ==
  FirstOf(IF list = "dev" THEN order ELSE Channels,
          {d \in Listed(list) : DevMatches(d, path, beyond)})
alt_find_file(path, beyond) ==
  FirstOf(order, {d \in registered \cap FileSystems : FileMatches(d, path, beyond)})

Find(path) == LET d == alt_find_dev("dev", path, "x") IN
              IF d # None THEN d ELSE alt_find_file(path, "x")

-----------------------------------------------------------------------------
(* The calls that change nothing here, for a descriptor in use or -1. *)
Readable(i) == "O_WRONLY" \notin fd_flags[i]
Writable(i) == {"O_WRONLY", "O_RDWR"} \cap fd_flags[i] # {}

read(i) == IF i < 0 THEN "EBADFD"
           ELSE IF Readable(i) /\ "read" \in Provides[dev[i]] THEN "driver" ELSE "EACCES"
write(i) == IF i < 0 THEN "EBADFD"
            ELSE IF Writable(i) /\ "write" \in Provides[dev[i]] THEN "driver" ELSE "EACCES"
lseek(i) == IF i < 0 THEN "EBADFD"
            ELSE IF "lseek" \in Provides[dev[i]] THEN "driver" ELSE "ENOTSUP"
ioctl(i, req) ==
  IF i < 0 THEN "EBADFD"
  ELSE IF "ALT_FD_DEV" \in fd_flags[i] /\ req \in {"TIOCEXCL", "TIOCNXCL"} THEN "lock"
  ELSE IF "ioctl" \in Provides[dev[i]] THEN "driver" ELSE "ENOTTY"

fstat(i) == IF i < 0 THEN {"EBADFD"}
            ELSE IF "fstat" \in Provides[dev[i]] THEN Kinds[dev[i]] ELSE {"chr"}

(* The structure is read even if fstat() failed and did not fill it. *)
isatty(i) ==
  IF i < 0 THEN {FALSE}
  ELSE IF "fstat" \notin Provides[dev[i]] THEN {TRUE}
  ELSE (IF "chr" \in fstat(i) THEN {TRUE} ELSE {})
       \cup (IF "reg" \in fstat(i) THEN {FALSE} ELSE {})
       \cup (IF "fails" \in fstat(i) THEN BOOLEAN ELSE {})

-----------------------------------------------------------------------------
(* The same calls of a build with ALT_USE_DIRECT_DRIVERS: no names and no pool,
   only the devices system.h names for the three standard descriptors, all present
   and reached through the functions of their drivers.  Nothing can be opened. *)
StdDriver(i, std) == IF i \in std THEN "driver" ELSE "EBADFD"

direct_read(i) == StdDriver(i, {0})
direct_write(i) == StdDriver(i, {1, 2})
direct_ioctl(i) == StdDriver(i, Std)
direct_fstat(i) == IF i \in Std THEN {"chr"} ELSE {"fails"}
direct_isatty(i) == IF i \in Std THEN {TRUE} ELSE {FALSE}
direct_open == "ENOSYS"
direct_close == "ENOSYS"
direct_lseek == "ENOSYS"

(* The routines in the JTAG UART's device structure, but close(), with and without
   ALTERA_AVALON_JTAG_UART_SMALL. *)
JtagUartProvides(small) == {"read", "write"} \cup (IF small THEN {} ELSE {"ioctl"})

-----------------------------------------------------------------------------
(* DMA channels: their calls report what could not be opened, but for the depth
   of a channel's queue, which is read through the null pointer. *)
alt_dma_txchan_open(path) == alt_find_dev("txchan", path, "x")
alt_dma_rxchan_open(path) == alt_find_dev("rxchan", path, "x")

TxCall(c) == IF c = None THEN "ENODEV" ELSE "driver"
RxCall(c) == IF c = None THEN "ENODEV" ELSE "driver"
alt_dma_rxchan_depth(c) == IF c = None THEN "undefined" ELSE "driver"

(* Flash memories: what open() gives, which only close() looks at before it uses it. *)
alt_flash_open_dev(path) ==
  LET d == alt_find_dev("flash", path, "x") IN
  IF d \in FlashOpens THEN {d, None} ELSE {d}

FlashCall(c) == IF c = None THEN "undefined" ELSE "driver"
alt_flash_close_dev(c) == IF c \in FlashOpens THEN "driver" ELSE "nothing"

(* The calls of newlib that the HAL does not support: each fails with this errno.
   There is one process. *)
fork == "ENOSYS"
execve(name) == "ENOSYS"
link(existing, new) == "ENOSYS"
unlink(name) == "ENOSYS"
rename(existing, new) == "ENOSYS"
wait == "ECHILD"
getpid == 0

-----------------------------------------------------------------------------
(* The driver of a descriptor that a call has just set has accepted its open(). *)
Accepted ==
  [d \in Nodes |-> IF stdClosed THEN 0
                   ELSE opens[d] + Cardinality({i \in Fds : dev[i] # d /\ dev'[i] = d})]

CallsInit ==
  /\ Init
  /\ order = <<Null>>
  /\ opens = [d \in Nodes |-> 0] /\ stdClosed = FALSE
  /\ life = "init" /\ built = 0 /\ undone = 0

RegisterNode(d) ==
  /\ d \notin registered /\ Register(d)
  /\ order' = <<d>> \o order
  /\ UNCHANGED <<opens, stdClosed, program>>

RedirectStd ==
  /\ boot # "register" /\ Boot
  /\ opens' = Accepted
  /\ UNCHANGED <<order, stdClosed, program>>

EndRegistration ==
  /\ Registered
  /\ UNCHANGED <<order, opens, stdClosed, program>>

(* alt_main after the redirection: the constructors, then main. *)
Construct ==
  /\ boot = "main" /\ life = "init" /\ built < Ctors
  /\ built' = built + 1
  /\ UNCHANGED <<vars, order, opens, stdClosed, life, undone>>

CallMain ==
  /\ boot = "main" /\ life = "init" /\ built = Ctors
  /\ life' = "main"
  /\ UNCHANGED <<vars, order, opens, stdClosed, built, undone>>

InMain == life = "main"

open(path, f) ==
  /\ InMain
  /\ Find(path) # None
  /\ Open(Find(path), f) \/ OpenRefused(Find(path))
  /\ opens' = Accepted
  /\ UNCHANGED <<order, stdClosed, program>>

Closing(i) ==
  /\ Close(i)
  /\ stdClosed' = (stdClosed \/ i \in Std)
  /\ opens' = IF stdClosed' THEN [d \in Nodes |-> 0] ELSE [opens EXCEPT ![dev[i]] = @ - 1]

close(i) ==
  /\ InMain /\ Closing(i)
  /\ UNCHANGED <<order, program>>

(* stat(): open, fstat and close.  If open() fails the others get -1, and the
   call says EBADFD whatever was wrong. *)
stat(path) ==
  /\ InMain /\ Find(path) # None
  /\ boot = "main" /\ CanOpen(Find(path))
  /\ \E i \in Fds : FirstFree(i) /\ alt_max_fd' = Marked(i)
  /\ UNCHANGED <<registered, dev, fd_flags, boot, history>>
  /\ UNCHANGED <<order, opens, stdClosed, program>>

Others ==
  /\ InMain
  /\ \E i \in Fds : \/ Lock(i) /\ ioctl(i, "TIOCEXCL") = "lock"
                    \/ Unlock(i) /\ ioctl(i, "TIOCNXCL") = "lock"
                    \/ \E f \in Requests : Fcntl(i, f)
  /\ UNCHANGED <<order, opens, stdClosed, program>>

(* main returns: standard output is closed, then exit(). *)
MainReturns ==
  /\ InMain /\ Closing(1)
  /\ life' = "exit"
  /\ UNCHANGED <<order, built, undone>>

CallExit ==
  /\ InMain /\ life' = "exit"
  /\ UNCHANGED <<vars, order, opens, stdClosed, built, undone>>

(* kill(pid, sig): a deadly signal to the program itself is _exit(0). *)
kill(pid, sig) ==
  IF pid > 0 THEN "ESRCH"
  ELSE IF sig \in {"SIGABRT", "SIGTERM", "SIGKILL"} THEN "_exit"
  ELSE IF sig \in {"0", "SIGCHLD", "SIGURG"} THEN "ok" ELSE "EINVAL"

Kill ==
  /\ InMain /\ \E pid \in {getpid, 1}, sig \in {"0", "SIGTERM", "SIGTTIN"} : kill(pid, sig) = "_exit"
  /\ life' = "stopped"
  /\ UNCHANGED <<vars, order, opens, stdClosed, built, undone>>

(* exit() runs what atexit() was given, _do_dtors, then _exit(), which spins. *)
Destroy ==
  /\ life = "exit" /\ undone < Ctors
  /\ undone' = undone + 1
  /\ UNCHANGED <<vars, order, opens, stdClosed, life, built>>

Stop ==
  /\ life = "exit" /\ undone = Ctors
  /\ life' = "stopped"
  /\ UNCHANGED <<vars, order, opens, stdClosed, built, undone>>

-----------------------------------------------------------------------------
CallsNext ==
  \/ \E d \in Devices \cup FileSystems : RegisterNode(d)
  \/ EndRegistration \/ RedirectStd
  \/ Construct \/ CallMain
  \/ \E path \in Paths : stat(path) \/ \E f \in Requests : open(path, f)
  \/ \E i \in Fds : close(i)
  \/ Others
  \/ MainReturns \/ CallExit \/ Kill \/ Destroy \/ Stop

CallsSpec == CallsInit /\ [][CallsNext]_callsVars

-----------------------------------------------------------------------------
(* alt_find_dev and alt_find_file against their documentation: the device of
   that name in the list, and in no other; a file system whose name, followed by
   "/" or nothing, begins the path.  What is in memory behind a name does not
   matter.  (Registration, the last to change the answers, is over when boot is
   "stdout".)  What is opened of a channel or a flash memory is of the right kind. *)
Mount(d) == SubSeq(Name[d], 1, MountLen(d))
Begins(s, t) == Len(s) <= Len(t) /\ SubSeq(t, 1, Len(s)) = s
Owners(path) == {d \in registered \cap FileSystems :
                   path = Mount(d) \/ Begins(Mount(d) \o <<"/">>, path)}
FoundAsNamed == boot = "stdout" => \A path \in Paths, beyond \in {"/", "x", "NUL"} :
  /\ \A list \in {"dev", "txchan", "rxchan", "flash"} :
       LET d == alt_find_dev(list, path, beyond)
           named == {n \in Listed(list) : Name[n] = path}
       IN IF named = {} THEN d = None ELSE d \in named
  /\ LET d == alt_find_file(path, beyond)
     IN IF Owners(path) = {} THEN d = None ELSE d \in Owners(path)
  /\ LET out == alt_dma_txchan_open(path)
         in == alt_dma_rxchan_open(path)
     IN /\ TxCall(out) = "driver" => ListOf[out] = "txchan"
        /\ RxCall(in) = "driver" => ListOf[in] = "rxchan"
        /\ alt_dma_rxchan_depth(in) = "undefined" => RxCall(in) = "ENODEV"
  /\ \A c \in alt_flash_open_dev(path) :
       FlashCall(c) = "driver" => ListOf[c] = "flash" /\ Name[c] = path

(* ALT_OPEN and ALT_CLOSE: a driver has been opened as often as descriptors refer
   to it, unless a standard one was closed, which goes on referring to it. *)
OpensBalanced ==
  ~stdClosed => \A d \in Nodes \ {Null} :
                      opens[d] = Cardinality({i \in Fds : dev[i] = d})

(* alt_io_redirect and ALT_FCNTL against the build with direct drivers: standard
   input is for reading only and the other two for writing only, whatever fcntl()
   and ioctl() do, and what one build answers on a device that has the routine (a
   character device, for fstat() and isatty()) the other does.  Requests of the
   device's own, that is: TIOCEXCL is a lock in one and the driver's in the other. *)
BuildsAgree ==
  \A i \in Std : dev[i] # Null =>
    /\ read(i) = "driver" <=> (direct_read(i) = "driver" /\ "read" \in Provides[dev[i]])
    /\ write(i) = "driver" <=> (direct_write(i) = "driver" /\ "write" \in Provides[dev[i]])
    /\ "ioctl" \in Provides[dev[i]] => ioctl(i, "TIOCGCONNECTED") = direct_ioctl(i)
    /\ Kinds[dev[i]] \subseteq {"chr"} =>
         fstat(i) = direct_fstat(i) /\ isatty(i) = direct_isatty(i)

(* isatty() agrees with fstat(), if that can be asked. *)
TerminalsAgree == \A i \in Usable :
  "fails" \notin fstat(i) => \A tty \in isatty(i) : tty => "chr" \in fstat(i)

(* The destructors run for a program that was constructed, and all or none. *)
DestroyedOnce ==
  /\ undone > 0 => built = Ctors /\ life \in {"exit", "stopped"}
  /\ life = "stopped" => undone \in {0, Ctors}

CallsInv ==
  /\ FoundAsNamed /\ OpensBalanced /\ BuildsAgree /\ TerminalsAgree /\ DestroyedOnce
=============================================================================
