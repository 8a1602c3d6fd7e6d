--------------------------- MODULE AltCallsProofs ---------------------------
(***************************************************************************)
(* The descriptor pool of AltFd and the system calls of AltCalls above it, *)
(* proved for every number of descriptors and every set of devices, names, *)
(* paths and driver routines the assumptions admit.                        *)
(*                                                                         *)
(* The pool keeps its invariant and open() respects a lock; names are      *)
(* found as documented, a driver's open() and close() are balanced, the    *)
(* two builds agree on the standard descriptors, and the destructors run   *)
(* once.  stat() takes a descriptor no action of AltFd takes, so the pool  *)
(* under the calls has a proof of its own.                                 *)
(***************************************************************************)
EXTENDS AltCalls, SequenceTheorems, FiniteSetTheorems, WellFoundedInduction, TLAPS

-----------------------------------------------------------------------------
(* AltFd.  The invariant has to cover start-up as well as the program: the *)
(* marks set while the standard descriptors are redirected are the ones    *)
(* the searches for a lock rely on later.                                  *)
USE FdAssumption DEF FdAssumption

(* The flags open() gives a descriptor: none of the caller's is a lock.    *)
LEMMA OpenedFlags ==
  ASSUME NEW d \in Nodes, NEW f \in SUBSET Flags
  PROVE  /\ Opened(d, f) \in SUBSET Flags
         /\ "ALT_FD_EXCL" \notin Opened(d, f)
         /\ "ALT_FD_DEV" \in Opened(d, f) => d \in Devices \cup {Null}
BY DEF Opened, Flags, SoftFlags, FdFlags, Nodes

(* The descriptor alt_get_fd finds is not a standard one, is nobody's, and  *)
(* the mark moves up to it and never down.                                 *)
LEMMA FirstFreeFacts ==
  ASSUME FdInv, NEW i \in Fds, FirstFree(i)
  PROVE  /\ i \notin Std /\ i \notin held /\ i \notin locks /\ dev[i] = None
         /\ i > 2
         /\ Marked(i) \in -1 .. MaxFd - 1
         /\ i <= Marked(i) /\ alt_max_fd <= Marked(i)
<1> USE DEF FdInv, FirstFree, Free
<1>1. dev[i] = None /\ i \notin Std /\ i \notin held
  BY DEF NoLeak
<1>2. i \notin locks
  BY <1>1 DEF LocksAreReal, Nodes
<1>3. i > 2
  BY <1>1 DEF Std, Fds
<1>4. Marked(i) \in -1 .. MaxFd - 1 /\ i <= Marked(i) /\ alt_max_fd <= Marked(i)
  BY DEF Marked, TypeOK, Fds
<1> QED BY <1>1, <1>2, <1>3, <1>4

LEMMA FdStart == Init => FdInv
BY DEF Init, FdInv, TypeOK, HighWater, LocksAreReal, NoLeak, Nodes, Std, Fds

LEMMA OpenStep ==
  ASSUME FdInv, NEW d \in Nodes, NEW f \in Requests, Open(d, f)
  PROVE  FdInv'
<1> USE DEF FdInv
<1>1. f \in SUBSET Flags
  OBVIOUS
<1>2. PICK i \in Fds :
        /\ FirstFree(i) /\ Granted(d, i)
        /\ dev' = [dev EXCEPT ![i] = d]
        /\ fd_flags' = [fd_flags EXCEPT ![i] = Opened(d, f)]
        /\ alt_max_fd' = Marked(i)
        /\ held' = held \cup {i}
  BY DEF Open
<1>3. UNCHANGED <<registered, boot, locks>> /\ boot = "main"
  BY DEF Open
<1>4. d # None
  OBVIOUS
<1> HIDE DEF FdInv
<1>5. FdInv
  OBVIOUS
<1>6. TypeOK'
  BY <1>1, <1>2, <1>3, OpenedFlags, FirstFreeFacts DEF TypeOK, FdInv
<1>7. HighWater'
  BY <1>2, FirstFreeFacts DEF TypeOK, HighWater, FdInv, Fds
<1>8. LocksAreReal'
  BY <1>1, <1>2, <1>3, OpenedFlags, FirstFreeFacts DEF TypeOK, LocksAreReal, FdInv
<1>9. NoLeak'
  BY <1>2, <1>4, FirstFreeFacts DEF TypeOK, NoLeak, FdInv, Fds, Std
<1> QED BY <1>6, <1>7, <1>8, <1>9 DEF FdInv

LEMMA RefusedStep ==
  ASSUME FdInv, NEW d \in Nodes, OpenRefused(d)
  PROVE  FdInv'
<1>1. PICK i \in Fds :
        /\ FirstFree(i)
        /\ fd_flags' = [fd_flags EXCEPT ![i] = {}]
        /\ alt_max_fd' = Marked(i)
  BY DEF OpenRefused
<1>2. UNCHANGED <<registered, dev, boot, held, locks>>
  BY DEF OpenRefused, history
<1>3. TypeOK'
  BY <1>1, <1>2, FirstFreeFacts DEF TypeOK, FdInv
<1>4. HighWater'
  BY <1>1, <1>2, FirstFreeFacts DEF TypeOK, HighWater, FdInv, Fds
<1>5. LocksAreReal'
  BY <1>1, <1>2, FirstFreeFacts DEF TypeOK, LocksAreReal, FdInv
<1>6. NoLeak'
  BY <1>2 DEF NoLeak, FdInv
<1> QED BY <1>3, <1>4, <1>5, <1>6 DEF FdInv

LEMMA CloseStep ==
  ASSUME FdInv, NEW i \in Fds, Close(i)
  PROVE  FdInv'
<1> USE DEF FdInv
<1>1. /\ held' = held \ {i} /\ locks' = locks \ {i}
      /\ UNCHANGED <<registered, alt_max_fd, boot>>
      /\ boot = "main"
  BY DEF Close
<1>2. CASE i \in Std
  <2>1. UNCHANGED <<dev, fd_flags>> /\ i \notin held
    BY <1>2 DEF Close, Release, NoLeak
  <2> QED BY <1>1, <1>2, <2>1 DEF TypeOK, HighWater, LocksAreReal, NoLeak
<1>3. CASE i \notin Std
  <2>1. /\ dev' = [dev EXCEPT ![i] = None]
        /\ fd_flags' = [fd_flags EXCEPT ![i] = {}]
    BY <1>3 DEF Close, Release
  <2>2. TypeOK'
    BY <1>1, <2>1 DEF TypeOK
  <2>3. HighWater'
    BY <1>1, <2>1 DEF TypeOK, HighWater
  <2>4. LocksAreReal'
    BY <1>1, <2>1 DEF TypeOK, LocksAreReal
  <2>5. NoLeak'
    BY <1>1, <1>3, <2>1 DEF TypeOK, NoLeak
  <2> QED BY <2>2, <2>3, <2>4, <2>5
<1> QED BY <1>2, <1>3

(* The calls that change nothing but the flags of a descriptor. *)
LEMMA FlagStep ==
  ASSUME FdInv, NEW i \in Fds,
         Lock(i) \/ Unlock(i) \/ \E f \in Requests : Fcntl(i, f)
  PROVE  FdInv'
<1> USE DEF FdInv
<1>1. CASE Lock(i)
  BY <1>1 DEF Lock, TypeOK, HighWater, LocksAreReal, NoLeak, Flags, FdFlags
<1>2. CASE Unlock(i)
  BY <1>2 DEF Unlock, TypeOK, HighWater, LocksAreReal, NoLeak
<1>3. ASSUME NEW f \in Requests, Fcntl(i, f)
      PROVE  FdInv'
  <2>1. fd_flags' = [fd_flags EXCEPT ![i] = (@ \ SoftFlags) \cup (f \cap SoftFlags)]
    BY <1>3 DEF Fcntl
  <2>2. \A j \in Fds : fd_flags'[j] \in SUBSET Flags
                       /\ \A b \in FdFlags : b \in fd_flags'[j] <=> b \in fd_flags[j]
    BY <2>1 DEF TypeOK, Flags, SoftFlags, FdFlags
  <2>3. UNCHANGED <<registered, dev, alt_max_fd, boot, held, locks>>
    BY <1>3 DEF Fcntl, history
  <2>4. TypeOK'
    BY <2>1, <2>2, <2>3 DEF TypeOK
  <2>5. \A j \in Fds : /\ "ALT_FD_EXCL" \in fd_flags'[j] <=> "ALT_FD_EXCL" \in fd_flags[j]
                       /\ "ALT_FD_DEV" \in fd_flags'[j] <=> "ALT_FD_DEV" \in fd_flags[j]
    BY <2>2 DEF FdFlags
  <2> QED BY <2>3, <2>4, <2>5 DEF TypeOK, HighWater, LocksAreReal, NoLeak
<1> QED BY <1>1, <1>2, <1>3

(* Redirection: a standard descriptor takes over what open() was given.    *)
LEMMA RedirectStep ==
  ASSUME FdInv, NEW d \in StdDevices, NEW i \in Std, NEW f \in SUBSET Flags,
         NEW next \in {"stdin", "stderr", "main"}, NEW stage,
         stage # "main", Redirect(stage, i, d, f, next)
  PROVE  FdInv'
<1> USE DEF FdInv
<1>1. /\ UNCHANGED <<registered, held, locks>> /\ boot' = next
      /\ locks = {}
  BY DEF Redirect, history, LocksAreReal
<1>2. i \in Fds /\ d \in Nodes /\ d # None /\ d \in Devices
  BY DEF Std, Fds, Nodes
<1>3. CASE UNCHANGED <<dev, fd_flags, alt_max_fd>>
  BY <1>1, <1>3 DEF TypeOK, HighWater, LocksAreReal, NoLeak
<1>4. ASSUME NEW j \in Fds, FirstFree(j), alt_max_fd' = Marked(j),
             UNCHANGED <<dev, fd_flags>>
      PROVE  FdInv'
  BY <1>1, <1>4, FirstFreeFacts DEF TypeOK, HighWater, LocksAreReal, NoLeak, Fds
<1>5. ASSUME NEW j \in Fds, FirstFree(j), alt_max_fd' = Marked(j),
             dev' = [dev EXCEPT ![i] = d],
             fd_flags' = [fd_flags EXCEPT ![i] = Opened(d, f)]
      PROVE  FdInv'
  <2>1. i < j /\ alt_max_fd <= Marked(j) /\ j <= Marked(j)
        /\ Marked(j) \in -1 .. MaxFd - 1
    BY <1>5, FirstFreeFacts DEF Std, Fds
  <2>2. TypeOK'
    BY <1>1, <1>2, <1>5, <2>1, OpenedFlags DEF TypeOK
  <2>3. HighWater'
    BY <1>2, <1>5, <2>1 DEF TypeOK, HighWater, Fds
  <2>4. LocksAreReal'
    BY <1>1, <1>2, <1>5, OpenedFlags DEF TypeOK, LocksAreReal
  <2>5. NoLeak'
    BY <1>1, <1>2, <1>5 DEF TypeOK, NoLeak
  <2> QED BY <2>2, <2>3, <2>4, <2>5
<1> QED BY <1>3, <1>4, <1>5 DEF Redirect

LEMMA BootStep ==
  ASSUME FdInv, Boot
  PROVE  FdInv'
<1>1. ASSUME NEW d \in Devices \cup FileSystems, Register(d)
      PROVE  FdInv'
  BY <1>1 DEF FdInv, Register, history, TypeOK, HighWater, LocksAreReal, NoLeak,
              Nodes
<1>2. CASE Registered
  BY <1>2 DEF FdInv, Registered, history, TypeOK, HighWater, LocksAreReal, NoLeak
<1>3. ASSUME NEW d \in StdDevices,
             \/ Redirect("stdout", 1, d, {"O_WRONLY"}, "stdin")
             \/ Redirect("stdin", 0, d, {}, "stderr")
             \/ Redirect("stderr", 2, d, {"O_WRONLY"}, "main")
      PROVE  FdInv'
  BY <1>3, RedirectStep DEF Std, Flags
<1> QED BY <1>1, <1>2, <1>3 DEF Boot

-----------------------------------------------------------------------------
LEMMA FdStep == FdInv /\ [Next]_vars => FdInv'
<1> SUFFICES ASSUME FdInv, [Next]_vars PROVE FdInv'
  OBVIOUS
<1>1. CASE Boot
  BY <1>1, BootStep
<1>2. ASSUME NEW d \in Nodes, OpenRefused(d) PROVE FdInv'
  BY <1>2, RefusedStep
<1>3. ASSUME NEW d \in Nodes, NEW f \in Requests, Open(d, f) PROVE FdInv'
  BY <1>3, OpenStep
<1>4. ASSUME NEW i \in Fds, Close(i) PROVE FdInv'
  BY <1>4, CloseStep
<1>5. ASSUME NEW i \in Fds,
             Lock(i) \/ Unlock(i) \/ \E f \in Requests : Fcntl(i, f)
      PROVE  FdInv'
  BY <1>5, FlagStep
<1>6. CASE UNCHANGED vars
  BY <1>6 DEF vars, FdInv, TypeOK, HighWater, LocksAreReal, NoLeak
<1> QED BY <1>1, <1>2, <1>3, <1>4, <1>5, <1>6 DEF Next

(* No descriptor is lost, none carries a lock nobody holds, and the mark is *)
(* above every descriptor of a device, through start-up and any sequence   *)
(* of calls, successful or not.                                            *)
THEOREM PoolCorrect == Spec => []FdInv
<1> QED BY FdStart, FdStep, PTL DEF Spec

-----------------------------------------------------------------------------
(* What the search of alt_file_locked finds is all there is. *)
LEMMA LockSeen ==
  ASSUME FdInv, NEW d, NEW i \in Fds, ~Locked(d, i),
         NEW j \in Fds, j # i, dev[j] = d
  PROVE  "ALT_FD_EXCL" \notin fd_flags[j]
<1> SUFFICES ASSUME "ALT_FD_EXCL" \in fd_flags[j] PROVE FALSE
  OBVIOUS
<1>1. j <= alt_max_fd
  BY DEF FdInv, LocksAreReal, HighWater
<1>2. j \in 0 .. Marked(i)
  BY <1>1 DEF Marked, FdInv, TypeOK, Fds
<1> QED BY <1>2 DEF Locked

(* What LockKeepsOut says of a step. *)
KeepsOut ==
  \A i \in Fds : dev[i] = None /\ dev'[i] \in Devices =>
    \A j \in Fds : dev[j] = dev'[i] => "ALT_FD_EXCL" \notin fd_flags[j]

LEMMA KeepsOutStep == FdInv /\ [Next]_vars => KeepsOut
<1> SUFFICES ASSUME FdInv, Next \/ UNCHANGED vars,
                    NEW i \in Fds, dev[i] = None, dev'[i] \in Devices,
                    NEW j \in Fds, dev[j] = dev'[i]
             PROVE  "ALT_FD_EXCL" \notin fd_flags[j]
  BY DEF KeepsOut
<1> USE DEF FdInv, TypeOK
<1>1. dev'[i] # dev[i] /\ i \notin Std
  BY DEF Nodes, NoLeak
<1>2. CASE Boot
  <2>1. \/ UNCHANGED dev
        \/ \E k \in Std, d \in Nodes : dev' = [dev EXCEPT ![k] = d]
    BY <1>2 DEF Boot, Register, Registered, Redirect, Std, Nodes
  <2> QED BY <1>1, <2>1
<1>3. ASSUME NEW d \in Nodes, NEW f \in Requests, Open(d, f)
      PROVE  "ALT_FD_EXCL" \notin fd_flags[j]
  <2>1. PICK k \in Fds : /\ Granted(d, k) /\ FirstFree(k)
                         /\ dev' = [dev EXCEPT ![k] = d]
    BY <1>3 DEF Open
  <2>2. k = i /\ d = dev'[i]
    BY <1>1, <2>1
  <2>3. ~Locked(d, i) /\ j # i
    BY <1>1, <2>1, <2>2 DEF Granted
  <2> QED BY <2>2, <2>3, LockSeen
<1>4. ASSUME NEW d \in Nodes, OpenRefused(d) PROVE FALSE
  BY <1>1, <1>4 DEF OpenRefused
<1>5. ASSUME NEW k \in Fds, Close(k) PROVE FALSE
  <2>1. UNCHANGED dev \/ dev' = [dev EXCEPT ![k] = None]
    BY <1>5 DEF Close, Release
  <2> QED BY <1>1, <2>1 DEF Nodes
<1>6. ASSUME NEW k \in Fds,
             Lock(k) \/ Unlock(k) \/ \E f \in Requests : Fcntl(k, f)
      PROVE  FALSE
  BY <1>1, <1>6 DEF Lock, Unlock, Fcntl
<1>7. CASE UNCHANGED vars
  BY <1>1, <1>7 DEF vars
<1> QED BY <1>2, <1>3, <1>4, <1>5, <1>6, <1>7 DEF Next

(* open() never gives a descriptor on a locked device. *)
THEOREM LockHonoured == Spec => LockKeepsOut
<1> QED BY KeepsOutStep, PoolCorrect, PTL DEF Spec, LockKeepsOut, KeepsOut

HIDE FdAssumption

-----------------------------------------------------------------------------
(* AltCalls.  The lists are the registered nodes, and the counters count. *)
CallsTypeOK ==
  /\ order \in Seq(Nodes)
  /\ registered = {order[k] : k \in DOMAIN order}
  /\ opens \in [Nodes -> Int]
  /\ stdClosed \in BOOLEAN
  /\ life \in {"init", "main", "exit", "stopped"}
  /\ built \in 0 .. Ctors /\ undone \in 0 .. Ctors

(* main runs after all constructors, and nothing is destroyed before exit(). *)
LifeOK ==
  /\ life # "init" => built = Ctors /\ boot = "main"
  /\ life \in {"init", "main"} => undone = 0
  /\ life = "stopped" => undone \in {0, Ctors}

(* Until its turn in alt_io_redirect a standard descriptor is the null device's,
   so redirecting it takes nothing from a driver that was opened. *)
NotYet ==
  /\ boot \in {"register", "stdout"} => dev[1] = Null
  /\ boot \in {"register", "stdout", "stdin"} => dev[0] = Null
  /\ boot # "main" => dev[2] = Null

(* Once redirected it keeps the access mode it got, whatever is called. *)
ModesOK ==
  /\ dev[0] # Null => {"O_WRONLY", "O_RDWR"} \cap fd_flags[0] = {}
  /\ \A i \in {1, 2} : dev[i] # Null => "O_WRONLY" \in fd_flags[i]

StdOK == NotYet /\ ModesOK

IInv == FdInv /\ CallsTypeOK /\ LifeOK /\ StdOK /\ OpensBalanced
-----------------------------------------------------------------------------
(* Names.  A string holds no NUL, so the first one memcmp meets is its end. *)
LEMMA StringFacts ==
  ASSUME NEW s, IsString(s)
  PROVE  /\ Len(s) \in Nat
         /\ \A k \in 1 .. Len(s) : s[k] # "NUL"
<1> DEFINE A == {s[k] : k \in DOMAIN s} \ {"NUL"}
<1>1. s \in Seq(A)
  BY DEF IsString
<1>2. "NUL" \notin A
  OBVIOUS
<1> HIDE DEF A
<1> QED BY <1>1, <1>2, ElementOfSeq, LenProperties

(* A sequence over an alphabet without NUL is a string. *)
LEMMA SeqString ==
  ASSUME NEW A, NEW s \in Seq(A), "NUL" \notin A
  PROVE  IsString(s)
<1> DEFINE R == {s[k] : k \in DOMAIN s} \ {"NUL"}
<1>1. Len(s) \in Nat /\ DOMAIN s = 1 .. Len(s)
  BY LenProperties
<1>2. \A k \in 1 .. Len(s) : s[k] \in A
  BY ElementOfSeq
<1>3. \A k \in 1 .. Len(s) : s[k] \in R
  BY <1>1, <1>2
<1> HIDE DEF R
<1>4. s = [k \in 1 .. Len(s) |-> s[k]]
  BY LenProperties
<1>5. s \in Seq(R)
  BY <1>1, <1>3, <1>4, IsASeq
<1> QED BY <1>5 DEF IsString, R

(* Two strings with the same characters are the same. *)
LEMMA SameString ==
  ASSUME NEW s, NEW t, IsString(s), IsString(t), Len(s) = Len(t),
         \A k \in 1 .. Len(s) : s[k] = t[k]
  PROVE  s = t
<1> DEFINE A == {s[k] : k \in DOMAIN s} \ {"NUL"}
           B == {t[k] : k \in DOMAIN t} \ {"NUL"}
<1>1. s \in Seq(A) /\ t \in Seq(B)
  BY DEF IsString
<1> HIDE DEF A, B
<1>2. s \in Seq(A \cup B) /\ t \in Seq(A \cup B)
  BY <1>1, SeqMonotonic
<1> QED BY <1>2, SeqEqual

(* alt_find_dev compares one byte more than the name looked for has, its end:
   it finds that name and no longer one. *)
LEMMA WholeName ==
  ASSUME NEW s, NEW t, IsString(s), IsString(t), NEW beyond
  PROVE  SameBytes(s, t, Len(t) + 1, beyond) <=> s = t
<1>1. /\ Len(s) \in Nat /\ Len(t) \in Nat
      /\ \A k \in 1 .. Len(s) : s[k] # "NUL"
      /\ \A k \in 1 .. Len(t) : t[k] # "NUL"
  BY StringFacts
<1>2. ASSUME SameBytes(s, t, Len(t) + 1, beyond)
      PROVE  s = t
  <2>1. \A k \in 1 .. Len(t) + 1 : Byte(s, k, beyond) = Byte(t, k, beyond)
    BY <1>2 DEF SameBytes
  <2>2. ~ (Len(s) > Len(t))
    <3> SUFFICES ASSUME Len(s) > Len(t) PROVE FALSE
      OBVIOUS
    <3>1. Len(t) + 1 \in 1 .. Len(s) /\ Len(t) + 1 \in 1 .. Len(t) + 1
      BY <1>1
    <3>2. Byte(t, Len(t) + 1, beyond) = "NUL"
      BY <1>1 DEF Byte
    <3>3. Byte(s, Len(t) + 1, beyond) = s[Len(t) + 1]
      BY <1>1, <3>1 DEF Byte
    <3> QED BY <1>1, <2>1, <3>1, <3>2, <3>3
  <2>3. ~ (Len(s) < Len(t))
    <3> SUFFICES ASSUME Len(s) < Len(t) PROVE FALSE
      OBVIOUS
    <3>1. Len(s) + 1 \in 1 .. Len(t) /\ Len(s) + 1 \in 1 .. Len(t) + 1
      BY <1>1
    <3>2. Byte(s, Len(s) + 1, beyond) = "NUL"
      BY <1>1 DEF Byte
    <3>3. Byte(t, Len(s) + 1, beyond) = t[Len(s) + 1]
      BY <1>1, <3>1 DEF Byte
    <3> QED BY <1>1, <2>1, <3>1, <3>2, <3>3
  <2>4. Len(s) = Len(t)
    BY <1>1, <2>2, <2>3
  <2>5. \A k \in 1 .. Len(s) : s[k] = t[k]
    <3> SUFFICES ASSUME NEW k \in 1 .. Len(s) PROVE s[k] = t[k]
      OBVIOUS
    <3>1. k \in 1 .. Len(t) + 1 /\ k <= Len(s) /\ k <= Len(t)
      BY <1>1, <2>4
    <3> QED BY <2>1, <3>1 DEF Byte
  <2> QED BY <2>4, <2>5, SameString
<1>3. ASSUME s = t
      PROVE  SameBytes(s, t, Len(t) + 1, beyond)
  BY <1>3 DEF SameBytes
<1> QED BY <1>2, <1>3

(* alt_find_file compares as many bytes as the name of the file system has, less
   its last "/", and wants an end or a "/" behind them: the mount point itself, or
   what is below it. *)
LEMMA MountFacts ==
  ASSUME NEW d \in Nodes
  PROVE  /\ IsString(Name[d])
         /\ MountLen(d) \in Nat /\ MountLen(d) <= Len(Name[d])
         /\ Len(Mount(d)) = MountLen(d)
         /\ \A k \in 1 .. MountLen(d) : Mount(d)[k] = Name[d][k]
         /\ IsString(Mount(d))
         /\ IsString(Mount(d) \o <<"/">>)
         /\ Len(Mount(d) \o <<"/">>) = MountLen(d) + 1
         /\ \A k \in 1 .. MountLen(d) : (Mount(d) \o <<"/">>)[k] = Name[d][k]
         /\ (Mount(d) \o <<"/">>)[MountLen(d) + 1] = "/"
<1>1. IsString(Name[d]) /\ Len(Name[d]) > 0
  BY CallsAssumption
<1>2. Len(Name[d]) \in Nat /\ \A k \in 1 .. Len(Name[d]) : Name[d][k] # "NUL"
  BY <1>1, StringFacts
<1>3. MountLen(d) \in Nat /\ MountLen(d) <= Len(Name[d])
  BY <1>1, <1>2 DEF MountLen
<1> DEFINE n == MountLen(d)
           A == {Name[d][k] : k \in 1 .. n}
           B == A \cup {"/"}
<1>4. \A i \in 1 .. n : Name[d][i] \in A
  OBVIOUS
<1>5. n \in Int /\ n >= 0
  BY <1>3
<1> HIDE DEF A, n
<1>6. /\ SubSeq(Name[d], 1, n) \in Seq(A)
      /\ Len(SubSeq(Name[d], 1, n)) = n
      /\ \A i \in 1 .. n : SubSeq(Name[d], 1, n)[i] = Name[d][i]
  <2>1. /\ SubSeq(Name[d], 1, n) \in Seq(A)
        /\ Len(SubSeq(Name[d], 1, n)) = IF 1 <= n THEN n - 1 + 1 ELSE 0
        /\ \A i \in 1 .. n - 1 + 1 : SubSeq(Name[d], 1, n)[i] = Name[d][1 + i - 1]
    BY <1>4, <1>5, SubSeqProperties
  <2> QED BY <2>1, <1>5
<1>7. /\ Mount(d) \in Seq(A) /\ Len(Mount(d)) = n
      /\ \A i \in 1 .. n : Mount(d)[i] = Name[d][i]
  BY <1>6 DEF Mount, n
<1>8. "NUL" \notin A /\ "NUL" \notin B
  BY <1>2, <1>3 DEF A, n
<1>9. Mount(d) \in Seq(B) /\ <<"/">> \in Seq(B)
  BY <1>7, SeqMonotonic
<1>10. /\ Mount(d) \o <<"/">> \in Seq(B)
       /\ Len(Mount(d) \o <<"/">>) = n + 1
       /\ \A i \in 1 .. n + 1 : (Mount(d) \o <<"/">>)[i] =
            IF i <= n THEN Mount(d)[i] ELSE <<"/">>[i - n]
  BY <1>5, <1>7, <1>9, ConcatProperties
<1>11. /\ \A i \in 1 .. n : (Mount(d) \o <<"/">>)[i] = Name[d][i]
       /\ (Mount(d) \o <<"/">>)[n + 1] = "/"
  BY <1>5, <1>7, <1>10
<1> HIDE DEF B
<1>12. IsString(Mount(d)) /\ IsString(Mount(d) \o <<"/">>)
  BY <1>7, <1>8, <1>10, SeqString
<1> QED BY <1>1, <1>3, <1>7, <1>10, <1>11, <1>12 DEF n

LEMMA BelowMount ==
  ASSUME NEW d \in Nodes, NEW path, IsString(path), NEW beyond
  PROVE  FileMatches(d, path, beyond) <=>
           path = Mount(d) \/ Begins(Mount(d) \o <<"/">>, path)
<1> DEFINE s == Name[d]
           n == MountLen(d)
           m == Mount(d)
           b == Mount(d) \o <<"/">>
<1>1. /\ IsString(s) /\ n \in Nat /\ n <= Len(s)
      /\ IsString(m) /\ Len(m) = n /\ \A k \in 1 .. n : m[k] = s[k]
      /\ IsString(b) /\ Len(b) = n + 1 /\ \A k \in 1 .. n : b[k] = s[k]
      /\ b[n + 1] = "/"
  BY MountFacts
<1>2. /\ Len(s) \in Nat /\ Len(path) \in Nat
      /\ \A k \in 1 .. Len(s) : s[k] # "NUL"
      /\ \A k \in 1 .. Len(path) : path[k] # "NUL"
  BY <1>1, StringFacts
<1>3. FileMatches(d, path, beyond) <=>
        /\ Byte(path, n + 1, beyond) \in {"/", "NUL"}
        /\ \A k \in 1 .. n : Byte(s, k, beyond) = Byte(path, k, beyond)
  BY DEF FileMatches, SameBytes
<1>4. Begins(b, path) <=> n + 1 <= Len(path) /\ SubSeq(path, 1, n + 1) = b
  BY <1>1 DEF Begins
<1> HIDE DEF s, n, m, b
<1>5. \A k \in 1 .. n : Byte(s, k, beyond) = s[k]
  BY <1>1, <1>2 DEF Byte
<1>6. ASSUME n + 1 <= Len(path)
      PROVE  /\ \A k \in 1 .. n + 1 : Byte(path, k, beyond) = path[k]
             /\ Len(SubSeq(path, 1, n + 1)) = n + 1
             /\ \A k \in 1 .. n + 1 : SubSeq(path, 1, n + 1)[k] = path[k]
             /\ IsString(SubSeq(path, 1, n + 1))
  <2>1. \A k \in 1 .. n + 1 : Byte(path, k, beyond) = path[k]
    BY <1>1, <1>2, <1>6 DEF Byte
  <2> DEFINE A == {path[k] : k \in 1 .. n + 1}
  <2>2. \A k \in 1 .. n + 1 : path[k] \in A
    OBVIOUS
  <2>3. "NUL" \notin A
    BY <1>1, <1>2, <1>6
  <2> HIDE DEF A
  <2>4. /\ SubSeq(path, 1, n + 1) \in Seq(A)
        /\ Len(SubSeq(path, 1, n + 1)) = IF 1 <= n + 1 THEN n + 1 - 1 + 1 ELSE 0
        /\ \A k \in 1 .. n + 1 - 1 + 1 : SubSeq(path, 1, n + 1)[k] = path[1 + k - 1]
    BY <1>1, <2>2, SubSeqProperties
  <2>5. IsString(SubSeq(path, 1, n + 1))
    BY <2>3, <2>4, SeqString
  <2> QED BY <1>1, <2>1, <2>4, <2>5
<1>7. ASSUME FileMatches(d, path, beyond)
      PROVE  path = m \/ Begins(b, path)
  <2>1. ~ (Len(path) < n)
    <3> SUFFICES ASSUME Len(path) < n PROVE FALSE
      OBVIOUS
    <3>1. Len(path) + 1 \in 1 .. n /\ Len(path) + 1 \in 1 .. Len(s)
      BY <1>1, <1>2
    <3>2. Byte(path, Len(path) + 1, beyond) = "NUL"
      BY <1>2 DEF Byte
    <3> QED BY <1>2, <1>3, <1>5, <1>7, <3>1, <3>2
  <2>2. CASE Len(path) = n
    <3>1. \A k \in 1 .. n : path[k] = s[k]
      <4> SUFFICES ASSUME NEW k \in 1 .. n PROVE path[k] = s[k]
        OBVIOUS
      <4>1. Byte(path, k, beyond) = path[k]
        BY <1>1, <2>2 DEF Byte
      <4> QED BY <1>3, <1>5, <1>7, <4>1
    <3>2. \A k \in 1 .. Len(path) : path[k] = m[k]
      BY <1>1, <2>2, <3>1
    <3>3. path = m
      BY <1>1, <2>2, <3>2, SameString
    <3> QED BY <3>3
  <2>3. CASE Len(path) > n
    <3>1. n + 1 <= Len(path) /\ n + 1 \in 1 .. n + 1 /\ n + 1 \in 1 .. Len(path)
      BY <1>1, <1>2, <2>3
    <3>2. \A k \in 1 .. n : path[k] = s[k]
      <4> SUFFICES ASSUME NEW k \in 1 .. n PROVE path[k] = s[k]
        OBVIOUS
      <4>1. k \in 1 .. n + 1
        BY <1>1
      <4> QED BY <1>3, <1>5, <1>6, <1>7, <3>1, <4>1
    <3>3. path[n + 1] = "/"
      BY <1>2, <1>3, <1>6, <1>7, <3>1
    <3>4. \A k \in 1 .. n + 1 : SubSeq(path, 1, n + 1)[k] = b[k]
      <4> SUFFICES ASSUME NEW k \in 1 .. n + 1
                   PROVE  SubSeq(path, 1, n + 1)[k] = b[k]
        OBVIOUS
      <4>1. CASE k = n + 1
        BY <1>1, <1>6, <3>1, <3>3, <4>1
      <4>2. CASE k \in 1 .. n
        BY <1>1, <1>6, <3>1, <3>2, <4>2
      <4> QED BY <1>1, <4>1, <4>2
    <3>5. SubSeq(path, 1, n + 1) = b
      BY <1>1, <1>6, <3>1, <3>4, SameString
    <3> QED BY <1>4, <3>1, <3>5
  <2> QED BY <1>1, <1>2, <2>1, <2>2, <2>3
<1>8. ASSUME path = m
      PROVE  FileMatches(d, path, beyond)
  <2>1. Byte(path, n + 1, beyond) = "NUL"
    BY <1>1, <1>8 DEF Byte
  <2>2. \A k \in 1 .. n : Byte(path, k, beyond) = m[k]
    BY <1>1, <1>8 DEF Byte
  <2> QED BY <1>1, <1>3, <1>5, <2>1, <2>2
<1>9. ASSUME Begins(b, path)
      PROVE  FileMatches(d, path, beyond)
  <2>1. n + 1 <= Len(path) /\ SubSeq(path, 1, n + 1) = b
    BY <1>4, <1>9
  <2>2. \A k \in 1 .. n + 1 : Byte(path, k, beyond) = b[k]
    BY <1>6, <2>1
  <2>3. Byte(path, n + 1, beyond) = "/"
    BY <1>1, <2>2
  <2>4. \A k \in 1 .. n : Byte(s, k, beyond) = Byte(path, k, beyond)
    <3> SUFFICES ASSUME NEW k \in 1 .. n
                 PROVE  Byte(s, k, beyond) = Byte(path, k, beyond)
      OBVIOUS
    <3>1. k \in 1 .. n + 1
      BY <1>1
    <3> QED BY <1>1, <1>5, <2>2, <3>1
  <2> QED BY <1>3, <2>3, <2>4
<1> QED BY <1>7, <1>8, <1>9 DEF m, b

-----------------------------------------------------------------------------
(* The lists.  The search finds a match if the list has one. *)
LEMMA FirstFound ==
  ASSUME NEW S, NEW list \in Seq(S), NEW matching,
         matching \subseteq {list[k] : k \in DOMAIN list}, matching # {}
  PROVE  FirstOf(list, matching) \in matching
<1> DEFINE I == {k \in 1 .. Len(list) : list[k] \in matching}
<1>1. Len(list) \in Nat /\ DOMAIN list = 1 .. Len(list)
  BY LenProperties
<1>2. I \subseteq Nat
  BY <1>1
<1>3. PICK d : d \in matching
  OBVIOUS
<1>4. PICK k \in 1 .. Len(list) : list[k] = d
  BY <1>1, <1>3
<1>5. k \in I
  BY <1>3, <1>4
<1> HIDE DEF I
<1>6. PICK x \in I : \A y \in I : ~ (<<y, x>> \in OpToRel(<, Nat))
  BY <1>2, <1>5, WFMin, NatLessThanWellFounded
<1>7. \A y \in I : ~ (y < x)
  BY <1>2, <1>6 DEF OpToRel
<1>8. x \in 1 .. Len(list) /\ list[x] \in matching
  BY <1>6 DEF I
<1>9. \A j \in 1 .. x - 1 : list[j] \notin matching
  <2> SUFFICES ASSUME NEW j \in 1 .. x - 1, list[j] \in matching PROVE FALSE
    OBVIOUS
  <2>1. j \in 1 .. Len(list) /\ j < x
    BY <1>1, <1>8
  <2>2. j \in I
    BY <2>1 DEF I
  <2> QED BY <1>7, <2>1, <2>2
<1>10. \E n \in matching : \E i \in DOMAIN list :
         list[i] = n /\ \A j \in 1 .. i - 1 : list[j] \notin matching
  BY <1>1, <1>8, <1>9
<1> QED BY <1>10 DEF FirstOf

(* The list a search goes through holds what is registered there. *)
LEMMA ListsFacts ==
  ASSUME CallsTypeOK, NEW list
  PROVE  /\ list = "dev" => Listed(list) \subseteq {order[k] : k \in DOMAIN order}
         /\ list # "dev" => Listed(list) \subseteq {Channels[k] : k \in DOMAIN Channels}
         /\ \A n \in Listed(list) : IsString(Name[n])
<1>1. order \in Seq(Nodes) /\ registered = {order[k] : k \in DOMAIN order}
  BY DEF CallsTypeOK
<1>2. registered \subseteq Nodes
  BY <1>1, ElementOfSeq, LenProperties
<1>3. \A n \in Nodes : IsString(Name[n])
  BY CallsAssumption
<1>4. \A k \in DOMAIN Channels : IsString(Name[Channels[k]])
  BY CallsAssumption
<1>5. CASE list = "dev"
  BY <1>1, <1>2, <1>3, <1>5 DEF Listed
<1>6. CASE list # "dev"
  BY <1>4, <1>6 DEF Listed
<1> QED BY <1>5, <1>6

(* alt_find_dev gives a device of the name asked for, or there is none. *)
LEMMA DeviceFound ==
  ASSUME CallsTypeOK, NEW list, NEW path \in Paths, NEW beyond
  PROVE  LET d == alt_find_dev(list, path, beyond)
             named == {n \in Listed(list) : Name[n] = path}
         IN IF named = {} THEN d = None ELSE d \in named
<1> DEFINE named == {n \in Listed(list) : Name[n] = path}
           matching == {d \in Listed(list) : DevMatches(d, path, beyond)}
           through == IF list = "dev" THEN order ELSE Channels
<1>1. IsString(path)
  BY CallsAssumption
<1>2. \A n \in Listed(list) : DevMatches(n, path, beyond) <=> Name[n] = path
  BY <1>1, ListsFacts, WholeName DEF DevMatches
<1>3. matching = named
  BY <1>2
<1>4. alt_find_dev(list, path, beyond) = FirstOf(through, matching)
  BY DEF alt_find_dev
<1>5. through \in Seq(IF list = "dev" THEN Nodes ELSE {Channels[k] : k \in DOMAIN Channels})
  BY CallsAssumption DEF CallsTypeOK
<1>6. matching \subseteq {through[k] : k \in DOMAIN through}
  BY ListsFacts
<1> HIDE DEF matching, through, named
<1>7. CASE matching = {}
  BY <1>3, <1>4, <1>7 DEF FirstOf, named
<1>8. CASE matching # {}
  <2>1. FirstOf(through, matching) \in matching
    BY <1>5, <1>6, <1>8, FirstFound
  <2> QED BY <1>3, <1>4, <1>8, <2>1 DEF named
<1> QED BY <1>7, <1>8

(* alt_find_file gives a file system that owns the path, or there is none. *)
LEMMA FileFound ==
  ASSUME CallsTypeOK, NEW path \in Paths, NEW beyond
  PROVE  LET d == alt_find_file(path, beyond)
         IN IF Owners(path) = {} THEN d = None ELSE d \in Owners(path)
<1> DEFINE matching == {d \in registered \cap FileSystems : FileMatches(d, path, beyond)}
<1>1. IsString(path)
  BY CallsAssumption
<1>2. order \in Seq(Nodes) /\ registered = {order[k] : k \in DOMAIN order}
  BY DEF CallsTypeOK
<1>3. matching = Owners(path)
  BY <1>1, BelowMount DEF Owners, Nodes
<1>4. alt_find_file(path, beyond) = FirstOf(order, matching)
  BY DEF alt_find_file
<1>5. matching \subseteq {order[k] : k \in DOMAIN order}
  BY <1>2
<1> HIDE DEF matching
<1>6. CASE matching = {}
  BY <1>3, <1>4, <1>6 DEF FirstOf
<1>7. CASE matching # {}
  <2>1. FirstOf(order, matching) \in matching
    BY <1>2, <1>5, <1>7, FirstFound
  <2> QED BY <1>3, <1>4, <1>7, <2>1
<1> QED BY <1>6, <1>7

(* Whatever is registered, names are found as documented. *)
LEMMA NamesFound == CallsTypeOK => FoundAsNamed
<1> SUFFICES ASSUME CallsTypeOK, NEW path \in Paths, NEW beyond \in {"/", "x", "NUL"}
             PROVE  /\ \A list \in {"dev", "txchan", "rxchan", "flash"} :
                         LET d == alt_find_dev(list, path, beyond)
                             named == {n \in Listed(list) : Name[n] = path}
                         IN IF named = {} THEN d = None ELSE d \in named
                    /\ LET d == alt_find_file(path, beyond)
                       IN IF Owners(path) = {} THEN d = None ELSE d \in Owners(path)
                    /\ LET out == alt_dma_txchan_open(path)
                           in == alt_dma_rxchan_open(path)
                       IN /\ TxCall(out) = "driver" => ListOf[out] = "txchan"
                          /\ RxCall(in) = "driver" => ListOf[in] = "rxchan"
                          /\ alt_dma_rxchan_depth(in) = "undefined" => RxCall(in) = "ENODEV"
                    /\ \A c \in alt_flash_open_dev(path) :
                         FlashCall(c) = "driver" => ListOf[c] = "flash" /\ Name[c] = path
  BY DEF FoundAsNamed
<1>1. ASSUME NEW list \in {"txchan", "rxchan", "flash"},
             alt_find_dev(list, path, "x") # None
      PROVE  /\ ListOf[alt_find_dev(list, path, "x")] = list
             /\ Name[alt_find_dev(list, path, "x")] = path
  <2>1. alt_find_dev(list, path, "x") \in {n \in Listed(list) : Name[n] = path}
    BY <1>1, DeviceFound
  <2> QED BY <2>1 DEF Listed
<1>2. /\ TxCall(alt_dma_txchan_open(path)) = "driver" =>
           ListOf[alt_dma_txchan_open(path)] = "txchan"
      /\ RxCall(alt_dma_rxchan_open(path)) = "driver" =>
           ListOf[alt_dma_rxchan_open(path)] = "rxchan"
  BY <1>1 DEF TxCall, RxCall, alt_dma_txchan_open, alt_dma_rxchan_open
<1>3. alt_dma_rxchan_depth(alt_dma_rxchan_open(path)) = "undefined" =>
        RxCall(alt_dma_rxchan_open(path)) = "ENODEV"
  BY DEF alt_dma_rxchan_depth, RxCall
<1>4. ASSUME NEW c \in alt_flash_open_dev(path), FlashCall(c) = "driver"
      PROVE  ListOf[c] = "flash" /\ Name[c] = path
  <2>1. c # None
    BY <1>4 DEF FlashCall
  <2>2. c = alt_find_dev("flash", path, "x")
    BY <1>4, <2>1 DEF alt_flash_open_dev
  <2> QED BY <1>1, <2>1, <2>2
<1> QED BY <1>2, <1>3, <1>4, DeviceFound, FileFound

-----------------------------------------------------------------------------
(* isatty() agrees with fstat() in every state. *)
LEMMA Terminals == TerminalsAgree
<1> SUFFICES ASSUME NEW i \in Usable, "fails" \notin fstat(i), NEW tty \in isatty(i), tty
             PROVE  "chr" \in fstat(i)
  BY DEF TerminalsAgree
<1>1. CASE i < 0
  BY <1>1 DEF isatty
<1>2. CASE ~ (i < 0) /\ "fstat" \notin Provides[dev[i]]
  BY <1>2 DEF fstat
<1>3. CASE ~ (i < 0) /\ "fstat" \in Provides[dev[i]]
  <2> SUFFICES ASSUME "chr" \notin fstat(i) PROVE FALSE
    OBVIOUS
  <2>1. isatty(i) \subseteq {FALSE}
    BY <1>3 DEF isatty
  <2> QED BY <2>1
<1> QED BY <1>1, <1>2, <1>3

(* A standard descriptor that was redirected has the access mode the direct build
   has, and so the answers of the calls are the same. *)
LEMMA SameAnswers == FdInv /\ ModesOK => BuildsAgree
<1> SUFFICES ASSUME FdInv, ModesOK, NEW i \in Std, dev[i] # Null
             PROVE  /\ read(i) = "driver" <=>
                         (direct_read(i) = "driver" /\ "read" \in Provides[dev[i]])
                    /\ write(i) = "driver" <=>
                         (direct_write(i) = "driver" /\ "write" \in Provides[dev[i]])
                    /\ "ioctl" \in Provides[dev[i]] =>
                         ioctl(i, "TIOCGCONNECTED") = direct_ioctl(i)
                    /\ Kinds[dev[i]] \subseteq {"chr"} =>
                         fstat(i) = direct_fstat(i) /\ isatty(i) = direct_isatty(i)
  BY DEF BuildsAgree
<1>1. i \in {0, 1, 2} /\ ~ (i < 0) /\ i \in Fds
  BY FdAssumption DEF Std, Fds
<1>2. dev[i] \in Nodes
  BY <1>1 DEF FdInv, TypeOK, NoLeak
<1>3. /\ i = 0 => Readable(i) /\ ~Writable(i)
      /\ i \in {1, 2} => ~Readable(i) /\ Writable(i)
  BY <1>1 DEF ModesOK, Readable, Writable
<1>4. read(i) = "driver" <=> (direct_read(i) = "driver" /\ "read" \in Provides[dev[i]])
  BY <1>1, <1>3 DEF read, direct_read, StdDriver
<1>5. write(i) = "driver" <=> (direct_write(i) = "driver" /\ "write" \in Provides[dev[i]])
  BY <1>1, <1>3 DEF write, direct_write, StdDriver
<1>6. "ioctl" \in Provides[dev[i]] => ioctl(i, "TIOCGCONNECTED") = direct_ioctl(i)
  BY <1>1 DEF ioctl, direct_ioctl, StdDriver
<1>7. ASSUME Kinds[dev[i]] \subseteq {"chr"}
      PROVE  fstat(i) = {"chr"} /\ isatty(i) = {TRUE}
  <2>1. "fstat" \in Provides[dev[i]] => Kinds[dev[i]] = {"chr"}
    BY <1>2, <1>7, CallsAssumption
  <2>2. fstat(i) = {"chr"}
    BY <1>1, <2>1 DEF fstat
  <2>3. CASE "fstat" \in Provides[dev[i]]
    <3>1. "chr" \in fstat(i) /\ "reg" \notin fstat(i) /\ "fails" \notin fstat(i)
      BY <2>2
    <3>2. isatty(i) = ({TRUE} \cup {}) \cup {}
      BY <1>1, <2>3, <3>1, Zenon DEF isatty
    <3> QED BY <2>2, <3>2
  <2>4. CASE "fstat" \notin Provides[dev[i]]
    BY <1>1, <2>2, <2>4 DEF isatty
  <2> QED BY <2>3, <2>4
<1>8. direct_fstat(i) = {"chr"} /\ direct_isatty(i) = {TRUE}
  BY DEF direct_fstat, direct_isatty
<1> QED BY <1>4, <1>5, <1>6, <1>7, <1>8

(* What LifeOK says of the destructors. *)
LEMMA Destroyed == CallsTypeOK /\ LifeOK => DestroyedOnce
BY CallsAssumption DEF CallsTypeOK, LifeOK, DestroyedOnce

-----------------------------------------------------------------------------
(* What AltFd's steps do to the descriptors, as far as the counts and the access
   modes are concerned. *)

(* Where a step of the pool may give a descriptor to another device: it had none
   or the null device. *)
Grows == \A i \in Fds : dev'[i] = dev[i] \/ dev[i] \in {Null, None}

(* A driver's open() is counted for every descriptor that comes to refer to it. *)
LEMMA Counted ==
  ASSUME TypeOK, TypeOK', opens \in [Nodes -> Int], OpensBalanced, Grows,
         opens' = Accepted, stdClosed' = stdClosed
  PROVE  opens' \in [Nodes -> Int] /\ OpensBalanced'
<1>1. IsFiniteSet(Fds)
  BY FdAssumption, FS_Interval DEF Fds
<1> DEFINE H(d) == {i \in Fds : dev[i] = d}
           N(d) == {i \in Fds : dev[i] # d /\ dev'[i] = d}
           K(d) == {i \in Fds : dev'[i] = d}
<1>2. ASSUME NEW d \in Nodes
      PROVE  IsFiniteSet(N(d)) /\ Cardinality(N(d)) \in Nat
  <2>1. N(d) \in SUBSET Fds
    OBVIOUS
  <2> QED BY <1>1, <2>1, FS_Subset, FS_CardinalityType
<1>3. opens' \in [Nodes -> Int]
  <2>1. ASSUME NEW d \in Nodes
        PROVE  opens[d] + Cardinality(N(d)) \in Int
    <3> HIDE DEF N
    <3>1. Cardinality(N(d)) \in Nat /\ opens[d] \in Int
      BY <1>2
    <3> QED BY <3>1
  <2> QED BY <2>1 DEF Accepted
<1>4. ASSUME ~stdClosed, NEW d \in Nodes \ {Null}
      PROVE  opens'[d] = Cardinality(K(d))
  <2>1. d # None
    BY FdAssumption
  <2>2. K(d) = H(d) \cup N(d)
    BY <2>1 DEF Grows
  <2>3. H(d) \cap N(d) = {}
    OBVIOUS
  <2>4. IsFiniteSet(H(d)) /\ Cardinality(H(d)) \in Nat
    <3>1. H(d) \in SUBSET Fds
      OBVIOUS
    <3> QED BY <1>1, <3>1, FS_Subset, FS_CardinalityType
  <2>5. opens[d] = Cardinality(H(d))
    BY <1>4 DEF OpensBalanced
  <2>6. opens'[d] = opens[d] + Cardinality(N(d))
    BY <1>4 DEF Accepted
  <2> HIDE DEF H, N, K
  <2>7. Cardinality(H(d) \cup N(d)) =
          Cardinality(H(d)) + Cardinality(N(d)) - Cardinality(H(d) \cap N(d))
    BY <1>2, <2>4, FS_Union
  <2>8. Cardinality(H(d) \cap N(d)) = 0
    BY <2>3, FS_EmptySet
  <2> QED BY <1>2, <2>2, <2>4, <2>5, <2>6, <2>7, <2>8
<1>5. OpensBalanced'
  BY <1>4 DEF OpensBalanced
<1> QED BY <1>3, <1>5

(* close() gives one back: the descriptor it releases refers to no driver any
   more.  A standard one is not released, and the count ends. *)
LEMMA GivenBack ==
  ASSUME FdInv, CallsTypeOK, OpensBalanced, NEW i \in Fds, Closing(i)
  PROVE  /\ opens' \in [Nodes -> Int] /\ stdClosed' \in BOOLEAN
         /\ OpensBalanced'
<1>1. /\ Close(i) /\ stdClosed' = (stdClosed \/ i \in Std)
      /\ opens' = IF stdClosed' THEN [d \in Nodes |-> 0] ELSE [opens EXCEPT ![dev[i]] = @ - 1]
  BY DEF Closing
<1>2. stdClosed' \in BOOLEAN /\ opens \in [Nodes -> Int]
  BY <1>1 DEF CallsTypeOK
<1>3. CASE stdClosed'
  BY <1>1, <1>2, <1>3 DEF OpensBalanced
<1>4. CASE ~stdClosed'
  <2>1. i \notin Std /\ ~stdClosed
    BY <1>1, <1>4
  <2>2. /\ i \in held /\ dev[i] # None /\ dev[i] \in Nodes
    BY <1>1, <2>1 DEF Close, Usable, FdInv, NoLeak, TypeOK
  <2>3. dev' = [dev EXCEPT ![i] = None] /\ dev \in [Fds -> Nodes \cup {None}]
    BY <1>1, <2>1 DEF Close, Release, FdInv, TypeOK
  <2>4. opens' = [opens EXCEPT ![dev[i]] = opens[dev[i]] - 1]
    BY <1>1, <1>4
  <2>5. opens' \in [Nodes -> Int]
    BY <1>2, <2>2, <2>4
  <2>6. ASSUME NEW d \in Nodes \ {Null}
        PROVE  opens'[d] = Cardinality({j \in Fds : dev'[j] = d})
    <3> DEFINE H == {j \in Fds : dev[j] = d}
               K == {j \in Fds : dev'[j] = d}
    <3>1. IsFiniteSet(H) /\ Cardinality(H) \in Nat
      <4>1. IsFiniteSet(Fds) /\ H \in SUBSET Fds
        BY FdAssumption, FS_Interval DEF Fds
      <4> QED BY <4>1, FS_Subset, FS_CardinalityType
    <3>2. opens[d] = Cardinality(H)
      BY <2>1 DEF OpensBalanced
    <3>3. d # None
      BY FdAssumption
    <3>4. CASE d = dev[i]
      <4>1. K = H \ {i} /\ i \in H
        BY <2>3, <3>3, <3>4
      <4>2. opens'[d] = opens[d] - 1
        BY <1>2, <2>2, <2>4, <3>4
      <4> HIDE DEF H, K
      <4>3. Cardinality(H \ {i}) = Cardinality(H) - 1
        BY <3>1, <4>1, FS_RemoveElement
      <4>4. opens'[d] = Cardinality(K)
        BY <3>2, <4>1, <4>2, <4>3
      <4> QED BY <4>4 DEF K
    <3>5. CASE d # dev[i]
      <4>1. K = H
        BY <2>3, <3>3, <3>5
      <4>2. opens'[d] = opens[d]
        BY <1>2, <2>2, <2>4, <3>5
      <4> QED BY <3>2, <4>1, <4>2
    <3> QED BY <3>4, <3>5
  <2> QED BY <1>2, <2>5, <2>6 DEF OpensBalanced
<1> QED BY <1>3, <1>4

(* Redirecting a standard descriptor in its turn. *)
LEMMA RedirectCounts ==
  ASSUME FdInv, StdOK, NEW d \in StdDevices, NEW i \in Std, NEW f \in {{}, {"O_WRONLY"}},
         NEW stage, NEW next, Redirect(stage, i, d, f, next),
         dev[i] = Null, i = 0 <=> f = {}
  PROVE  Grows /\ ModesOK' /\ \A j \in Fds \ {i} : dev'[j] = dev[j]
<1>1. i \in Fds /\ {0, 1, 2} \subseteq Fds /\ i \in {0, 1, 2}
  BY FdAssumption DEF Std, Fds
<1>2. dev \in [Fds -> Nodes \cup {None}] /\ fd_flags \in [Fds -> SUBSET Flags]
  BY DEF FdInv, TypeOK
<1>3. CASE UNCHANGED <<dev, fd_flags>>
  BY <1>3 DEF Grows, StdOK, ModesOK
<1>4. CASE /\ dev' = [dev EXCEPT ![i] = d]
           /\ fd_flags' = [fd_flags EXCEPT ![i] = Opened(d, f)]
  <2>1. Grows /\ \A j \in Fds \ {i} : dev'[j] = dev[j]
    BY <1>1, <1>2, <1>4 DEF Grows
  <2>2. /\ i = 0 => {"O_WRONLY", "O_RDWR"} \cap Opened(d, f) = {}
        /\ i # 0 => "O_WRONLY" \in Opened(d, f)
    BY DEF Opened, FdFlags
  <2>3. fd_flags'[i] = Opened(d, f) /\ \A j \in Fds \ {i} : fd_flags'[j] = fd_flags[j]
    BY <1>1, <1>2, <1>4
  <2>4. ModesOK'
    <3>1. dev'[0] # Null => {"O_WRONLY", "O_RDWR"} \cap fd_flags'[0] = {}
      BY <1>1, <2>1, <2>2, <2>3 DEF StdOK, ModesOK
    <3>2. ASSUME NEW j \in {1, 2}, dev'[j] # Null
          PROVE  "O_WRONLY" \in fd_flags'[j]
      BY <1>1, <2>1, <2>2, <2>3, <3>2 DEF StdOK, ModesOK
    <3> QED BY <3>1, <3>2 DEF ModesOK
  <2> QED BY <2>1, <2>4
<1> QED BY <1>3, <1>4 DEF Redirect

(* The three stages of alt_io_redirect. *)
LEMMA RedirectStdStep ==
  ASSUME FdInv, StdOK, Boot, boot # "register"
  PROVE  Grows /\ StdOK' /\ registered' = registered /\ boot # "main"
<1>1. PICK d \in StdDevices :
        \/ Redirect("stdout", 1, d, {"O_WRONLY"}, "stdin")
        \/ Redirect("stdin", 0, d, {}, "stderr")
        \/ Redirect("stderr", 2, d, {"O_WRONLY"}, "main")
  BY DEF Boot, Register, Registered
<1>2. 0 \in Std /\ 1 \in Std /\ 2 \in Std /\ {0, 1, 2} \subseteq Fds
  BY FdAssumption DEF Std, Fds
<1>3. registered' = registered
  BY <1>1 DEF Redirect
<1>4. CASE Redirect("stdout", 1, d, {"O_WRONLY"}, "stdin")
  <2>1. boot = "stdout" /\ boot' = "stdin"
    BY <1>4 DEF Redirect
  <2>2. dev[1] = Null
    BY <2>1 DEF StdOK, NotYet
  <2>3. Grows /\ ModesOK' /\ \A j \in Fds \ {1} : dev'[j] = dev[j]
    BY <1>2, <1>4, <2>2, RedirectCounts
  <2> QED BY <1>2, <1>3, <2>1, <2>3 DEF StdOK, NotYet
<1>5. CASE Redirect("stdin", 0, d, {}, "stderr")
  <2>1. boot = "stdin" /\ boot' = "stderr"
    BY <1>5 DEF Redirect
  <2>2. dev[0] = Null
    BY <2>1 DEF StdOK, NotYet
  <2>3. Grows /\ ModesOK' /\ \A j \in Fds \ {0} : dev'[j] = dev[j]
    BY <1>2, <1>5, <2>2, RedirectCounts
  <2> QED BY <1>2, <1>3, <2>1, <2>3 DEF StdOK, NotYet
<1>6. CASE Redirect("stderr", 2, d, {"O_WRONLY"}, "main")
  <2>1. boot = "stderr" /\ boot' = "main"
    BY <1>6 DEF Redirect
  <2>2. dev[2] = Null
    BY <2>1 DEF StdOK, NotYet
  <2>3. Grows /\ ModesOK' /\ \A j \in Fds \ {2} : dev'[j] = dev[j]
    BY <1>2, <1>6, <2>2, RedirectCounts
  <2> QED BY <1>2, <1>3, <2>1, <2>3 DEF StdOK, NotYet
<1> QED BY <1>1, <1>4, <1>5, <1>6

(* In main: whatever is called on whichever descriptor, the devices and the access
   modes of the standard ones stay. *)
LEMMA ModesKept ==
  ASSUME FdInv, StdOK, boot = "main",
         \A i \in Std : /\ dev'[i] = dev[i]
                        /\ fd_flags'[i] \cap {"O_WRONLY", "O_RDWR"} =
                             fd_flags[i] \cap {"O_WRONLY", "O_RDWR"},
         boot' = boot
  PROVE  StdOK'
<1>1. 0 \in Std /\ 1 \in Std /\ 2 \in Std
  BY DEF Std
<1>2. NotYet'
  BY DEF NotYet
<1>3. ModesOK'
  <2>1. dev'[0] # Null => {"O_WRONLY", "O_RDWR"} \cap fd_flags'[0] = {}
    BY <1>1 DEF StdOK, ModesOK
  <2>2. ASSUME NEW i \in {1, 2}, dev'[i] # Null
        PROVE  "O_WRONLY" \in fd_flags'[i]
    <3>1. i \in Std
      BY <1>1
    <3>2. "O_WRONLY" \in fd_flags[i] \cap {"O_WRONLY", "O_RDWR"}
      BY <2>2, <3>1 DEF StdOK, ModesOK
    <3> QED BY <3>1, <3>2
  <2> QED BY <2>1, <2>2 DEF ModesOK
<1> QED BY <1>2, <1>3 DEF StdOK

(* open(), whether it succeeds or not. *)
LEMMA OpenCounts ==
  ASSUME FdInv, StdOK, NEW d, NEW f, Open(d, f) \/ OpenRefused(d)
  PROVE  Grows /\ StdOK' /\ registered' = registered /\ boot' = boot
<1>1. {0, 1, 2} \subseteq Fds /\ Std = {0, 1, 2}
  BY FdAssumption DEF Std, Fds
<1>2. dev \in [Fds -> Nodes \cup {None}] /\ fd_flags \in [Fds -> SUBSET Flags]
  BY DEF FdInv, TypeOK
<1>3. boot = "main" /\ registered' = registered /\ boot' = boot
  BY DEF Open, OpenRefused
<1>4. PICK i \in Fds :
        /\ FirstFree(i)
        /\ dev' = [dev EXCEPT ![i] = d] \/ dev' = dev
        /\ \E flags : fd_flags' = [fd_flags EXCEPT ![i] = flags]
  BY DEF Open, OpenRefused
<1>5. i \notin Std /\ dev[i] = None
  BY <1>4, FirstFreeFacts
<1>6. \A j \in Fds \ {i} : dev'[j] = dev[j] /\ fd_flags'[j] = fd_flags[j]
  BY <1>2, <1>4
<1>7. Grows
  BY <1>5, <1>6 DEF Grows
<1>8. StdOK'
  BY <1>1, <1>3, <1>5, <1>6, ModesKept
<1> QED BY <1>3, <1>7, <1>8

LEMMA CloseCounts ==
  ASSUME FdInv, StdOK, NEW i \in Fds, Close(i)
  PROVE  StdOK' /\ registered' = registered /\ boot' = boot
<1>1. {0, 1, 2} \subseteq Fds /\ Std = {0, 1, 2}
  BY FdAssumption DEF Std, Fds
<1>2. dev \in [Fds -> Nodes \cup {None}] /\ fd_flags \in [Fds -> SUBSET Flags]
  BY DEF FdInv, TypeOK
<1>3. boot = "main" /\ registered' = registered /\ boot' = boot
  BY DEF Close
<1>4. \A j \in Std : dev'[j] = dev[j] /\ fd_flags'[j] = fd_flags[j]
  <2>1. CASE i \in Std
    BY <2>1 DEF Close, Release
  <2>2. CASE i \notin Std
    BY <1>1, <1>2, <2>2 DEF Close, Release
  <2> QED BY <2>1, <2>2
<1> QED BY <1>3, <1>4, ModesKept

(* ioctl() and fcntl(). *)
LEMMA FlagCounts ==
  ASSUME FdInv, StdOK, NEW i \in Fds,
         Lock(i) \/ Unlock(i) \/ \E f \in Requests : Fcntl(i, f)
  PROVE  dev' = dev /\ StdOK' /\ registered' = registered /\ boot' = boot
<1>1. {0, 1, 2} \subseteq Fds /\ Std = {0, 1, 2}
  BY FdAssumption DEF Std, Fds
<1>2. fd_flags \in [Fds -> SUBSET Flags]
  BY DEF FdInv, TypeOK
<1>3. boot = "main" /\ registered' = registered /\ boot' = boot /\ dev' = dev
  BY DEF Lock, Unlock, Fcntl
<1>4. PICK new :
        /\ fd_flags' = [fd_flags EXCEPT ![i] = new]
        /\ new \cap {"O_WRONLY", "O_RDWR"} = fd_flags[i] \cap {"O_WRONLY", "O_RDWR"}
  <2>1. CASE Lock(i)
    <3> DEFINE w == fd_flags[i] \cup {"ALT_FD_EXCL"}
    <3>1. fd_flags' = [fd_flags EXCEPT ![i] = w]
      BY <2>1 DEF Lock
    <3>2. w \cap {"O_WRONLY", "O_RDWR"} = fd_flags[i] \cap {"O_WRONLY", "O_RDWR"}
      OBVIOUS
    <3> QED BY <3>1, <3>2
  <2>2. CASE Unlock(i)
    BY <2>2 DEF Unlock
  <2>3. ASSUME NEW f \in Requests, Fcntl(i, f)
        PROVE  \E new :
                 /\ fd_flags' = [fd_flags EXCEPT ![i] = new]
                 /\ new \cap {"O_WRONLY", "O_RDWR"} = fd_flags[i] \cap {"O_WRONLY", "O_RDWR"}
    <3> DEFINE w == (fd_flags[i] \ SoftFlags) \cup (f \cap SoftFlags)
    <3>1. fd_flags' = [fd_flags EXCEPT ![i] = w]
      BY <2>3 DEF Fcntl
    <3>2. w \cap {"O_WRONLY", "O_RDWR"} = fd_flags[i] \cap {"O_WRONLY", "O_RDWR"}
      BY DEF SoftFlags
    <3> QED BY <3>1, <3>2
  <2> QED BY <2>1, <2>2, <2>3
<1>5. \A j \in Std : fd_flags'[j] \cap {"O_WRONLY", "O_RDWR"} =
                       fd_flags[j] \cap {"O_WRONLY", "O_RDWR"}
  BY <1>1, <1>2, <1>4
<1> QED BY <1>3, <1>5, ModesKept

-----------------------------------------------------------------------------
(* The invariant, action by action. *)
LEMMA CallsStart == CallsInit => IInv
<1> SUFFICES ASSUME CallsInit PROVE IInv
  OBVIOUS
<1>1. FdInv
  BY FdStart DEF CallsInit
<1>2. CallsTypeOK
  <2>1. order = <<Null>> /\ registered = {Null} /\ Null \in Nodes
    BY DEF CallsInit, Init, Nodes
  <2>2. order \in Seq(Nodes) /\ registered = {order[k] : k \in DOMAIN order}
    BY <2>1
  <2>3. opens = [d \in Nodes |-> 0] /\ stdClosed = FALSE /\ life = "init"
    BY Zenon DEF CallsInit
  <2>4. opens \in [Nodes -> Int]
    BY <2>3
  <2>5. built \in 0 .. Ctors /\ undone \in 0 .. Ctors
    BY CallsAssumption DEF CallsInit
  <2> QED BY <2>2, <2>3, <2>4, <2>5 DEF CallsTypeOK
<1>3. LifeOK
  BY DEF LifeOK, CallsInit
<1>4. StdOK
  BY FdAssumption DEF StdOK, NotYet, ModesOK, CallsInit, Init, Std, Fds
<1>5. OpensBalanced
  <2> SUFFICES ASSUME NEW d \in Nodes \ {Null}
               PROVE  opens[d] = Cardinality({i \in Fds : dev[i] = d})
    BY DEF OpensBalanced
  <2>1. d # None
    BY FdAssumption
  <2>2. {i \in Fds : dev[i] = d} = {}
    BY <2>1 DEF CallsInit, Init
  <2> QED BY <2>2, FS_EmptySet DEF CallsInit
<1> QED BY <1>1, <1>2, <1>3, <1>4, <1>5 DEF IInv

(* What a step leaves alone, part by part. *)
LEMMA SameOrder ==
  ASSUME CallsTypeOK, registered' = registered, UNCHANGED <<order, program>>,
         opens' \in [Nodes -> Int], stdClosed' \in BOOLEAN
  PROVE  CallsTypeOK'
BY DEF CallsTypeOK, program

LEMMA SameLife ==
  ASSUME LifeOK, UNCHANGED program, boot = "main" => boot' = boot
  PROVE  LifeOK'
BY DEF LifeOK, program

LEMMA SameBalance ==
  ASSUME OpensBalanced, dev' = dev, UNCHANGED <<opens, stdClosed>>
  PROVE  OpensBalanced'
BY DEF OpensBalanced

LEMMA RegisterNodeKeeps ==
  ASSUME IInv, NEW d \in Devices \cup FileSystems, RegisterNode(d)
  PROVE  IInv'
<1>1. FdInv'
  BY FdStep DEF RegisterNode, Next, Boot, IInv
<1>2. /\ registered' = registered \cup {d} /\ d \in Nodes
      /\ UNCHANGED <<dev, fd_flags, boot, opens, stdClosed, program>>
      /\ order' = <<d>> \o order
  BY DEF RegisterNode, Register, Nodes
<1>3. order \in Seq(Nodes) /\ registered = {order[k] : k \in DOMAIN order}
  BY DEF IInv, CallsTypeOK
<1>4. /\ order' \in Seq(Nodes)
      /\ registered' = {order'[k] : k \in DOMAIN order'}
  <2>1. /\ order' \in Seq(Nodes) /\ Len(order') = 1 + Len(order)
        /\ \A k \in 1 .. 1 + Len(order) :
             order'[k] = IF k <= 1 THEN d ELSE order[k - 1]
    <3>1. <<d>> \in Seq(Nodes) /\ Len(<<d>>) = 1
      BY <1>2
    <3>2. \A k \in 1 .. 1 + Len(order) :
            (<<d>> \o order)[k] = IF k <= Len(<<d>>) THEN <<d>>[k] ELSE order[k - Len(<<d>>)]
      BY <1>3, <3>1, ConcatProperties
    <3>3. <<d>> \o order \in Seq(Nodes) /\ Len(<<d>> \o order) = 1 + Len(order)
      BY <1>3, <3>1, ConcatProperties
    <3>4. \A k \in 1 .. 1 + Len(order) : k <= 1 => <<d>>[k] = d
      BY <1>3, LenProperties
    <3> QED BY <1>2, <3>1, <3>2, <3>3, <3>4
  <2>2. /\ DOMAIN order' = 1 .. 1 + Len(order) /\ DOMAIN order = 1 .. Len(order)
        /\ Len(order) \in Nat
    BY <1>3, <2>1, LenProperties
  <2>3. ASSUME NEW n \in registered' PROVE n \in {order'[k] : k \in DOMAIN order'}
    <3>1. CASE n = d
      <4>1. 1 \in DOMAIN order' /\ order'[1] = d
        BY <2>1, <2>2
      <4> QED BY <3>1, <4>1
    <3>2. CASE n \in registered
      <4>1. PICK k \in 1 .. Len(order) : order[k] = n
        BY <1>3, <2>2, <3>2
      <4>2. k + 1 \in DOMAIN order' /\ order'[k + 1] = n
        BY <2>1, <2>2, <4>1
      <4> QED BY <4>2
    <3> QED BY <1>2, <3>1, <3>2
  <2>4. ASSUME NEW k \in DOMAIN order' PROVE order'[k] \in registered'
    <3>1. CASE k = 1
      BY <1>2, <2>1, <2>2, <3>1
    <3>2. CASE k # 1
      <4>1. k - 1 \in DOMAIN order /\ order'[k] = order[k - 1]
        BY <2>1, <2>2, <3>2
      <4> QED BY <1>2, <1>3, <4>1
    <3> QED BY <3>1, <3>2
  <2> QED BY <2>1, <2>3, <2>4
<1>5. CallsTypeOK'
  BY <1>2, <1>4 DEF IInv, CallsTypeOK, program
<1>6. LifeOK'
  BY <1>2, SameLife DEF IInv
<1>7. StdOK'
  BY <1>2 DEF IInv, StdOK, NotYet, ModesOK
<1>8. OpensBalanced'
  BY <1>2, SameBalance DEF IInv
<1> QED BY <1>1, <1>5, <1>6, <1>7, <1>8 DEF IInv

LEMMA EndRegistrationKeeps ==
  ASSUME IInv, EndRegistration
  PROVE  IInv'
<1>1. FdInv'
  BY FdStep DEF EndRegistration, Next, Boot, IInv
<1>2. /\ UNCHANGED <<registered, dev, fd_flags, order, opens, stdClosed, program>>
      /\ boot = "register" /\ boot' = "stdout"
  BY DEF EndRegistration, Registered
<1>3. CallsTypeOK'
  BY <1>2, SameOrder DEF IInv, CallsTypeOK
<1>4. LifeOK'
  BY <1>2, SameLife DEF IInv
<1>5. StdOK'
  BY <1>2 DEF IInv, StdOK, NotYet, ModesOK
<1>6. OpensBalanced'
  BY <1>2, SameBalance DEF IInv
<1> QED BY <1>1, <1>3, <1>4, <1>5, <1>6 DEF IInv

LEMMA RedirectStdKeeps ==
  ASSUME IInv, RedirectStd
  PROVE  IInv'
<1>1. FdInv'
  BY FdStep DEF RedirectStd, Next, IInv
<1>2. /\ opens' = Accepted /\ UNCHANGED <<order, stdClosed, program>>
      /\ Boot /\ boot # "register"
  BY DEF RedirectStd
<1>3. Grows /\ StdOK' /\ registered' = registered /\ boot # "main"
  BY <1>2, RedirectStdStep DEF IInv
<1>4. opens' \in [Nodes -> Int] /\ OpensBalanced'
  BY <1>1, <1>2, <1>3, Counted DEF IInv, CallsTypeOK, FdInv
<1>5. CallsTypeOK'
  BY <1>2, <1>3, <1>4, SameOrder DEF IInv, CallsTypeOK
<1>6. LifeOK'
  BY <1>2, <1>3, SameLife DEF IInv
<1> QED BY <1>1, <1>3, <1>4, <1>5, <1>6 DEF IInv

(* open() of a name that was found. *)
LEMMA OpenKeeps ==
  ASSUME IInv, NEW path \in Paths, NEW f \in Requests, open(path, f)
  PROVE  IInv'
<1>1. PICK d : d = Find(path)
  OBVIOUS
<1>2. /\ Open(d, f) \/ OpenRefused(d)
      /\ opens' = Accepted /\ UNCHANGED <<order, stdClosed, program>>
  BY <1>1 DEF open
<1>3. d \in Nodes
  BY <1>2 DEF Open, OpenRefused, CanOpen, IInv, FdInv, TypeOK
<1>4. FdInv'
  BY <1>2, <1>3, FdStep DEF Next, IInv
<1>5. Grows /\ StdOK' /\ registered' = registered /\ boot' = boot
  BY <1>2, OpenCounts DEF IInv
<1>6. opens' \in [Nodes -> Int] /\ OpensBalanced'
  BY <1>2, <1>4, <1>5, Counted DEF IInv, CallsTypeOK, FdInv
<1>7. CallsTypeOK'
  BY <1>2, <1>5, <1>6, SameOrder DEF IInv, CallsTypeOK
<1>8. LifeOK'
  BY <1>2, <1>5, SameLife DEF IInv
<1> QED BY <1>4, <1>5, <1>6, <1>7, <1>8 DEF IInv

(* close(), alone or as main returns. *)
LEMMA ClosingKeeps ==
  ASSUME IInv, NEW i \in Fds, Closing(i)
  PROVE  /\ FdInv' /\ StdOK' /\ OpensBalanced'
         /\ opens' \in [Nodes -> Int] /\ stdClosed' \in BOOLEAN
         /\ registered' = registered /\ boot' = boot
<1>1. Close(i)
  BY DEF Closing
<1>2. FdInv'
  BY <1>1, FdStep DEF Next, IInv
<1>3. StdOK' /\ registered' = registered /\ boot' = boot
  BY <1>1, CloseCounts DEF IInv
<1>4. opens' \in [Nodes -> Int] /\ stdClosed' \in BOOLEAN /\ OpensBalanced'
  BY GivenBack DEF IInv
<1> QED BY <1>2, <1>3, <1>4

LEMMA CloseKeeps ==
  ASSUME IInv, NEW i \in Fds, close(i)
  PROVE  IInv'
<1>1. Closing(i) /\ UNCHANGED <<order, program>>
  BY DEF close
<1>2. /\ FdInv' /\ StdOK' /\ OpensBalanced'
      /\ opens' \in [Nodes -> Int] /\ stdClosed' \in BOOLEAN
      /\ registered' = registered /\ boot' = boot
  BY <1>1, ClosingKeeps
<1>3. CallsTypeOK'
  BY <1>1, <1>2, SameOrder DEF IInv
<1>4. LifeOK'
  BY <1>1, <1>2, SameLife DEF IInv
<1> QED BY <1>2, <1>3, <1>4 DEF IInv

LEMMA MainReturnsKeeps ==
  ASSUME IInv, MainReturns
  PROVE  IInv'
<1>1. /\ Closing(1) /\ 1 \in Fds /\ life = "main" /\ life' = "exit"
      /\ UNCHANGED <<order, built, undone>>
  BY FdAssumption DEF MainReturns, InMain, Fds
<1>2. /\ FdInv' /\ StdOK' /\ OpensBalanced'
      /\ opens' \in [Nodes -> Int] /\ stdClosed' \in BOOLEAN
      /\ registered' = registered /\ boot' = boot
  BY <1>1, ClosingKeeps
<1>3. CallsTypeOK'
  BY <1>1, <1>2 DEF IInv, CallsTypeOK
<1>4. LifeOK'
  BY <1>1, <1>2 DEF IInv, LifeOK
<1> QED BY <1>2, <1>3, <1>4 DEF IInv

(* stat(): the descriptor comes and goes, the mark has moved up. *)
LEMMA StatKeeps ==
  ASSUME IInv, NEW path \in Paths, stat(path)
  PROVE  IInv'
<1>1. PICK i \in Fds : FirstFree(i) /\ alt_max_fd' = Marked(i)
  BY DEF stat
<1>2. /\ UNCHANGED <<registered, dev, fd_flags, boot, held, locks>>
      /\ UNCHANGED <<order, opens, stdClosed, program>>
  BY DEF stat, history
<1>3. /\ Marked(i) \in -1 .. MaxFd - 1 /\ alt_max_fd <= Marked(i)
      /\ alt_max_fd \in -1 .. MaxFd - 1
  BY <1>1, FirstFreeFacts DEF IInv, FdInv, TypeOK
<1>4. TypeOK'
  BY <1>1, <1>2, <1>3 DEF IInv, FdInv, TypeOK
<1>5. HighWater'
  <2>1. \A j \in Fds : j <= alt_max_fd => j <= Marked(i)
    BY <1>3, FdAssumption DEF Fds
  <2> QED BY <1>1, <1>2, <2>1 DEF IInv, FdInv, HighWater
<1>6. LocksAreReal' /\ NoLeak'
  BY <1>2 DEF IInv, FdInv, LocksAreReal, NoLeak
<1>7. CallsTypeOK' /\ LifeOK'
  BY <1>2, SameOrder, SameLife DEF IInv, CallsTypeOK
<1>8. StdOK'
  BY <1>2 DEF IInv, StdOK, NotYet, ModesOK
<1>9. OpensBalanced'
  BY <1>2, SameBalance DEF IInv
<1> QED BY <1>4, <1>5, <1>6, <1>7, <1>8, <1>9 DEF IInv, FdInv

LEMMA OthersKeeps ==
  ASSUME IInv, Others
  PROVE  IInv'
<1>1. PICK i \in Fds : Lock(i) \/ Unlock(i) \/ \E f \in Requests : Fcntl(i, f)
  BY DEF Others
<1>2. UNCHANGED <<order, opens, stdClosed, program>>
  BY DEF Others
<1>3. FdInv'
  BY <1>1, FdStep DEF Next, IInv
<1>4. dev' = dev /\ StdOK' /\ registered' = registered /\ boot' = boot
  BY <1>1, FlagCounts DEF IInv
<1>5. CallsTypeOK' /\ LifeOK'
  BY <1>2, <1>4, SameOrder, SameLife DEF IInv, CallsTypeOK
<1>6. OpensBalanced'
  BY <1>2, <1>4, SameBalance DEF IInv
<1> QED BY <1>3, <1>4, <1>5, <1>6 DEF IInv

(* The steps of a program's life leave the descriptors alone. *)
LEMMA LifeKeeps ==
  ASSUME IInv, Construct \/ CallMain \/ CallExit \/ Kill \/ Destroy \/ Stop
  PROVE  IInv'
<1>1. UNCHANGED <<vars, order, opens, stdClosed>>
  BY DEF Construct, CallMain, CallExit, Kill, Destroy, Stop
<1>2. FdInv' /\ StdOK' /\ OpensBalanced'
  BY <1>1, FdStep, SameBalance DEF IInv, vars, StdOK, NotYet, ModesOK
<1>3. CallsTypeOK' /\ LifeOK'
  <2>1. boot' = boot /\ registered' = registered
    BY <1>1 DEF vars
  <2>2. Ctors \in Nat
    BY CallsAssumption
  <2>3. CASE Construct
    BY <1>1, <2>1, <2>2, <2>3 DEF IInv, CallsTypeOK, LifeOK, Construct
  <2>4. CASE CallMain
    BY <1>1, <2>1, <2>4 DEF IInv, CallsTypeOK, LifeOK, CallMain
  <2>5. CASE CallExit
    BY <1>1, <2>1, <2>5 DEF IInv, CallsTypeOK, LifeOK, CallExit, InMain
  <2>6. CASE Kill
    BY <1>1, <2>1, <2>2, <2>6 DEF IInv, CallsTypeOK, LifeOK, Kill, InMain
  <2>7. CASE Destroy
    BY <1>1, <2>1, <2>2, <2>7 DEF IInv, CallsTypeOK, LifeOK, Destroy
  <2>8. CASE Stop
    BY <1>1, <2>1, <2>8 DEF IInv, CallsTypeOK, LifeOK, Stop
  <2> QED BY <2>3, <2>4, <2>5, <2>6, <2>7, <2>8
<1> QED BY <1>2, <1>3 DEF IInv

LEMMA CallsStep == IInv /\ [CallsNext]_callsVars => IInv'
<1> SUFFICES ASSUME IInv, [CallsNext]_callsVars PROVE IInv'
  OBVIOUS
<1>1. ASSUME NEW d \in Devices \cup FileSystems, RegisterNode(d) PROVE IInv'
  BY <1>1, RegisterNodeKeeps
<1>2. CASE EndRegistration
  BY <1>2, EndRegistrationKeeps
<1>3. CASE RedirectStd
  BY <1>3, RedirectStdKeeps
<1>4. ASSUME NEW path \in Paths, stat(path) PROVE IInv'
  BY <1>4, StatKeeps
<1>5. ASSUME NEW path \in Paths, NEW f \in Requests, open(path, f) PROVE IInv'
  BY <1>5, OpenKeeps
<1>6. ASSUME NEW i \in Fds, close(i) PROVE IInv'
  BY <1>6, CloseKeeps
<1>7. CASE Others
  BY <1>7, OthersKeeps
<1>8. CASE MainReturns
  BY <1>8, MainReturnsKeeps
<1>9. CASE Construct \/ CallMain \/ CallExit \/ Kill \/ Destroy \/ Stop
  BY <1>9, LifeKeeps
<1>10. CASE UNCHANGED callsVars
  <2>1. UNCHANGED <<vars, order, opens, stdClosed, life, built, undone>>
    BY <1>10 DEF callsVars, program
  <2>2. FdInv'
    BY <2>1, FdStep DEF IInv
  <2> QED BY <2>1, <2>2 DEF vars, IInv, CallsTypeOK, LifeOK, StdOK, NotYet, ModesOK,
                            OpensBalanced
<1> QED BY <1>1, <1>2, <1>3, <1>4, <1>5, <1>6, <1>7, <1>8, <1>9, <1>10 DEF CallsNext

LEMMA CallsInvariant == IInv => CallsInv
BY NamesFound, SameAnswers, Terminals, Destroyed DEF IInv, StdOK, CallsInv

(* Names are found as documented, drivers are opened and closed in balance, the
   build with direct drivers answers alike, isatty() agrees with fstat(), and the
   destructors run for a constructed program, all or none. *)
THEOREM CallsCorrect == CallsSpec => []CallsInv
<1> QED BY CallsStart, CallsStep, CallsInvariant, PTL DEF CallsSpec

(* The pool of descriptors stays correct under the calls of a whole program, stat()
   included, as it does under those of AltFd. *)
THEOREM PoolCorrectInProgram == CallsSpec => []FdInv
<1>1. IInv => FdInv
  BY DEF IInv
<1> QED BY <1>1, CallsStart, CallsStep, PTL DEF CallsSpec

(* Every call of a program is a step of the pool, but for stat(), which gives
   and takes back a descriptor in one. *)
LEMMA StepsOfThePool ==
  ASSUME FdInv, [CallsNext]_callsVars
  PROVE  [Next]_vars \/ dev' = dev
<1>1. ASSUME NEW d \in Devices \cup FileSystems, RegisterNode(d) PROVE Next
  BY <1>1 DEF RegisterNode, Next, Boot
<1>2. CASE EndRegistration
  BY <1>2 DEF EndRegistration, Next, Boot
<1>3. CASE RedirectStd
  BY <1>3 DEF RedirectStd, Next
<1>4. ASSUME NEW path \in Paths, stat(path) PROVE dev' = dev
  BY <1>4 DEF stat
<1>5. ASSUME NEW path \in Paths, NEW f \in Requests, open(path, f) PROVE Next
  <2>1. PICK d : d = Find(path)
    OBVIOUS
  <2>2. Open(d, f) \/ OpenRefused(d)
    BY <1>5, <2>1 DEF open
  <2>3. d \in Nodes
    BY <2>2 DEF Open, OpenRefused, CanOpen, FdInv, TypeOK
  <2> QED BY <2>2, <2>3 DEF Next
<1>6. ASSUME NEW i \in Fds, close(i) PROVE Next
  BY <1>6 DEF close, Closing, Next
<1>7. CASE Others
  BY <1>7 DEF Others, Next
<1>8. CASE MainReturns
  BY <1>8, FdAssumption DEF MainReturns, Closing, Next, Fds
<1>9. CASE Construct \/ CallMain \/ CallExit \/ Kill \/ Destroy \/ Stop
  BY <1>9 DEF Construct, CallMain, CallExit, Kill, Destroy, Stop
<1>10. CASE UNCHANGED callsVars
  BY <1>10 DEF callsVars
<1> QED BY <1>1, <1>2, <1>3, <1>4, <1>5, <1>6, <1>7, <1>8, <1>9, <1>10 DEF CallsNext

(* open() gives no descriptor on a locked device, whatever else the program
   calls. *)
THEOREM LockHonouredInProgram == CallsSpec => LockKeepsOut
<1>1. FdInv /\ [CallsNext]_callsVars => KeepsOut
  <2> SUFFICES ASSUME FdInv, [CallsNext]_callsVars PROVE KeepsOut
    OBVIOUS
  <2>1. CASE [Next]_vars
    BY <2>1, KeepsOutStep
  <2>2. CASE dev' = dev
    BY <2>2, FdAssumption DEF KeepsOut, Nodes
  <2> QED BY <2>1, <2>2, StepsOfThePool
<1> QED BY <1>1, PoolCorrectInProgram, PTL DEF CallsSpec, LockKeepsOut, KeepsOut

=============================================================================
