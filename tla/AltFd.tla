-------------------------------- MODULE AltFd --------------------------------
(***************************************************************************)
(* The file descriptor layer of the HAL: the pool alt_fd_list with its high *)
(* water mark, open, close, ioctl, fcntl, the exclusive lock of a device,  *)
(* the registration of devices and file systems, and the redirection of    *)
(* the three standard descriptors at start-up.                             *)
(*                                                                         *)
(* The build is single-threaded and nothing here runs at interrupt level,  *)
(* so a system call is one step.  The program uses descriptors that it has *)
(* been given and has not closed (a null dev is dereferenced otherwise),   *)
(* and the three standard ones.  A device or file system stands for its    *)
(* name, so that looking a name up is a membership test.                   *)
(***************************************************************************)
EXTENDS Integers, FiniteSets

CONSTANTS
  Devices, FileSystems,
  Null,          \* alt_dev_null, the device that is always there
  Refusers,      \* those whose driver's open() may refuse
  MaxFd,         \* ALT_MAX_FD
  StdDevices,    \* the devices the standard descriptors are redirected to
  Requests       \* flags the program passes to open() and fcntl()

None == "none"   \* a null dev pointer
Nodes == Devices \cup FileSystems \cup {Null}
Std == 0 .. 2
Fds == 0 .. MaxFd - 1

(* ALT_FCNTL_FLAGS_MASK, ALT_FD_FLAGS_MASK and the access mode. *)
SoftFlags == {"O_NONBLOCK"}
FdFlags == {"ALT_FD_EXCL", "ALT_FD_DEV"}
Flags == SoftFlags \cup FdFlags \cup {"O_WRONLY", "O_RDWR"}

ASSUME FdAssumption ==
  /\ None \notin Nodes
  /\ Null \notin Devices \cup FileSystems
  /\ Devices \cap FileSystems = {}
  /\ Refusers \subseteq Devices \cup FileSystems
  /\ MaxFd \in Nat /\ MaxFd > 3
  /\ StdDevices \subseteq Devices
  /\ Requests \subseteq SUBSET Flags

VARIABLES
  registered,   \* alt_dev_list and alt_fs_list
  dev, fd_flags,   \* the fields of alt_fd_list
  alt_max_fd,
  boot,         \* start-up: registration, then stdout, stdin, stderr, then main
  held,         \* history: the descriptors open() has given and close() not taken
  locks         \* history: the descriptors locked, and neither unlocked nor closed

vars == <<registered, dev, fd_flags, alt_max_fd, boot, held, locks>>
history == <<held, locks>>

-----------------------------------------------------------------------------
(* alt_get_fd: the first free descriptor. *)
Free == {i \in Fds : dev[i] = None}
FirstFree(i) == i \in Free /\ \A j \in Free : i <= j
Marked(i) == IF i > alt_max_fd THEN i ELSE alt_max_fd

(* alt_file_locked, for the descriptor i just given to d. *)
LockedShort(d, i) ==   \* variant: the highest descriptor is not looked at
  \E j \in 0 .. Marked(i) - 1 :
    j # i /\ dev[j] = d /\ "ALT_FD_EXCL" \in fd_flags[j]
Locked(d, i) ==
  \E j \in 0 .. Marked(i) :
    j # i /\ dev[j] = d /\ "ALT_FD_EXCL" \in fd_flags[j]

(* The flags of a descriptor opened with f. *)
Opened(d, f) ==
  (f \ FdFlags) \cup (IF d \in FileSystems THEN {} ELSE {"ALT_FD_DEV"})

CanOpen(d) == d \in registered /\ Free # {}
Granted(d, i) == d \in FileSystems \/ ~Locked(d, i)

(* open() on success; the driver's own open() has agreed. *)
Open(d, f) ==
  /\ boot = "main" /\ CanOpen(d)
  /\ \E i \in Fds :
       /\ FirstFree(i) /\ Granted(d, i)
       /\ dev' = [dev EXCEPT ![i] = d]
       /\ fd_flags' = [fd_flags EXCEPT ![i] = Opened(d, f)]
       /\ alt_max_fd' = Marked(i)
       /\ held' = held \cup {i}
  /\ UNCHANGED <<registered, boot, locks>>

(* open() failing after it took a descriptor: the device is locked, or its  *)
(* own open() refuses.  The mark stays.                                    *)
MayRefuse(d, i) == ~Granted(d, i) \/ d \in Refusers

OpenRefusedKeeps(d) ==   \* variant: the descriptor is not given back
  /\ boot = "main" /\ CanOpen(d)
  /\ \E i \in Fds :
       /\ FirstFree(i) /\ MayRefuse(d, i)
       /\ dev' = [dev EXCEPT ![i] = d]
       /\ alt_max_fd' = Marked(i)
  /\ UNCHANGED <<registered, fd_flags, boot, history>>

OpenRefused(d) ==
  /\ boot = "main" /\ CanOpen(d)
  /\ \E i \in Fds :
       /\ FirstFree(i) /\ MayRefuse(d, i)
       /\ fd_flags' = [fd_flags EXCEPT ![i] = {}]
       /\ alt_max_fd' = Marked(i)
  /\ UNCHANGED <<registered, dev, boot, history>>

(* alt_release_fd: the standard descriptors are never released. *)
Release(i) ==
  IF i \in Std THEN UNCHANGED <<dev, fd_flags>>
  ELSE dev' = [dev EXCEPT ![i] = None] /\ fd_flags' = [fd_flags EXCEPT ![i] = {}]

Usable == Std \cup held

(* close(): the descriptor goes whatever the driver's close() returns. *)
Close(i) ==
  /\ boot = "main" /\ i \in Usable
  /\ Release(i)
  /\ held' = held \ {i} /\ locks' = locks \ {i}
  /\ UNCHANGED <<registered, alt_max_fd, boot>>

(* ioctl(TIOCEXCL), alt_fd_lock: note that the scan stops short of the mark. *)
OthersSeen(i) == {j \in 0 .. alt_max_fd - 1 : j # i /\ dev[j] = dev[i]}
Lock(i) ==
  /\ boot = "main" /\ i \in Usable
  /\ "ALT_FD_DEV" \in fd_flags[i]
  /\ OthersSeen(i) = {}
  /\ fd_flags' = [fd_flags EXCEPT ![i] = @ \cup {"ALT_FD_EXCL"}]
  /\ locks' = locks \cup {i}
  /\ UNCHANGED <<registered, dev, alt_max_fd, boot, held>>

(* ioctl(TIOCNXCL), alt_fd_unlock. *)
Unlock(i) ==
  /\ boot = "main" /\ i \in Usable
  /\ "ALT_FD_DEV" \in fd_flags[i]
  /\ fd_flags' = [fd_flags EXCEPT ![i] = @ \ {"ALT_FD_EXCL"}]
  /\ locks' = locks \ {i}
  /\ UNCHANGED <<registered, dev, alt_max_fd, boot, held>>

(* fcntl(F_SETFL) with arbitrary flags. *)
Fcntl(i, f) ==
  /\ boot = "main" /\ i \in Usable
  /\ fd_flags' = [fd_flags EXCEPT ![i] = (@ \ SoftFlags) \cup (f \cap SoftFlags)]
  /\ UNCHANGED <<registered, dev, alt_max_fd, boot, history>>

-----------------------------------------------------------------------------
(* alt_dev_reg, alt_fs_reg: what alt_sys_init registers. *)
Register(d) ==
  /\ boot = "register"
  /\ registered' = registered \cup {d}
  /\ UNCHANGED <<dev, fd_flags, alt_max_fd, boot, history>>

Registered ==
  /\ boot = "register" /\ boot' = "stdout"
  /\ UNCHANGED <<registered, dev, fd_flags, alt_max_fd, history>>

(* alt_io_redirect: alt_open_fd opens the named device, copies what it was  *)
(* given to the standard descriptor i and releases the new one; if it cannot *)
(* be opened the standard descriptor stays as it is.                       *)
Redirect(stage, i, d, f, next) ==
  /\ boot = stage /\ boot' = next
  /\ \/ /\ CanOpen(d)
        /\ \E j \in Fds :
             FirstFree(j) /\ Granted(d, j) /\ alt_max_fd' = Marked(j)
        /\ dev' = [dev EXCEPT ![i] = d]
        /\ fd_flags' = [fd_flags EXCEPT ![i] = Opened(d, f)]
     \/ /\ CanOpen(d)
        /\ \E j \in Fds :
             FirstFree(j) /\ MayRefuse(d, j) /\ alt_max_fd' = Marked(j)
        /\ UNCHANGED <<dev, fd_flags>>
     \/ ~CanOpen(d) /\ UNCHANGED <<dev, fd_flags, alt_max_fd>>
  /\ UNCHANGED <<registered, history>>

Boot ==
  \/ \E d \in Devices \cup FileSystems : Register(d)
  \/ Registered
  \/ \E d \in StdDevices :
       \/ Redirect("stdout", 1, d, {"O_WRONLY"}, "stdin")
       \/ Redirect("stdin", 0, d, {}, "stderr")
       \/ Redirect("stderr", 2, d, {"O_WRONLY"}, "main")

-----------------------------------------------------------------------------
Init ==
  /\ registered = {Null}
  /\ dev = [i \in Fds |-> IF i \in Std THEN Null ELSE None]
  /\ fd_flags = [i \in Fds |-> {}]
  /\ alt_max_fd = -1
  /\ boot = "register"
  /\ held = {} /\ locks = {}

Next ==
  \/ Boot
  \/ \E d \in Nodes : OpenRefused(d) \/ \E f \in Requests : Open(d, f)
  \/ \E i \in Fds :
       Close(i) \/ Lock(i) \/ Unlock(i) \/ \E f \in Requests : Fcntl(i, f)

Spec == Init /\ [][Next]_vars

-----------------------------------------------------------------------------
TypeOK ==
  /\ registered \subseteq Nodes
  /\ dev \in [Fds -> Nodes \cup {None}]
  /\ fd_flags \in [Fds -> SUBSET Flags]
  /\ alt_max_fd \in -1 .. MaxFd - 1
  /\ boot \in {"register", "stdout", "stdin", "stderr", "main"}
  /\ held \subseteq Fds /\ locks \subseteq Fds

(* The searches for a lock look only below the high water mark: there is no *)
(* descriptor of a device above it.                                        *)
HighWater ==
  /\ \A i \in Fds \ Std : dev[i] # None => i <= alt_max_fd
  /\ \A i \in Fds : "ALT_FD_DEV" \in fd_flags[i] => i <= alt_max_fd

(* The lock bits tell who has locked what: every lock that was granted and  *)
(* not given up is in force, it is a device's, and beyond the standard     *)
(* descriptors no bit is left over from an earlier owner or slipped in with *)
(* the flags of open() or fcntl().                                         *)
LocksAreReal ==
  /\ \A i \in locks : {"ALT_FD_EXCL", "ALT_FD_DEV"} \subseteq fd_flags[i]
  /\ \A i \in Fds \ Std : "ALT_FD_EXCL" \in fd_flags[i] => i \in locks
  /\ \A i \in Fds :
       /\ "ALT_FD_EXCL" \in fd_flags[i] => "ALT_FD_DEV" \in fd_flags[i]
       /\ "ALT_FD_DEV" \in fd_flags[i] => dev[i] \in Devices \cup {Null}
  /\ boot # "main" => locks = {}

(* No descriptor is lost: beyond the standard ones, which are never free,   *)
(* those in use are those the program holds, whichever way open() failed    *)
(* before.                                                                 *)
NoLeak ==
  /\ held = {i \in Fds \ Std : dev[i] # None}
  /\ \A i \in Std : dev[i] # None

FdInv == TypeOK /\ HighWater /\ LocksAreReal /\ NoLeak

(* open() never gives a descriptor on a device while one of its descriptors *)
(* is locked, wherever in the pool the two are.                            *)
LockKeepsOut ==
  [][\A i \in Fds : dev[i] = None /\ dev'[i] \in Devices =>
       \A j \in Fds : dev[j] = dev'[i] => "ALT_FD_EXCL" \notin fd_flags[j]]_vars

(* "If there are no other open file descriptors which reference the same    *)
(* device, then alt_fd_lock() will grant the lock" (alt_fd_lock.c), and     *)
(* -EACCES otherwise: a lock is granted only to the only descriptor.       *)
LockIsExclusive ==
  \A i, j \in Fds :
    i # j /\ dev[i] # None /\ dev[i] = dev[j] => "ALT_FD_EXCL" \notin fd_flags[i]
=============================================================================
