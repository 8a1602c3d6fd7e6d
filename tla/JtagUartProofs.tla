--------------------------- MODULE JtagUartProofs ---------------------------
(* Proofs about JtagUart, for buffers and FIFOs of every size, every timeout,
   every call and every interleaving with the interrupt routines: its
   invariant, and that each of the two directions is a byte stream. *)
EXTENDS JtagUart, SequenceTheorems, TLAPS

-----------------------------------------------------------------------------
(* The inductive invariant. *)
Reading == {"r_look", "r_copy", "r_publish", "r_wait", "r_check", "r_end"}
Writing == {"w_look", "w_copy", "w_publish", "w_kick", "w_wait", "w_host", "w_end"}

RxHeld == (rx_in - rx_out) % BufLen
TxHeld == (tx_in - tx_out) % BufLen

StateType ==
  /\ timeout \in 1 .. IntMax
  /\ irq_enable \subseteq {"RE", "WE"}
  /\ host_inactive \in 0 .. IntMax - 2

RingType ==
  /\ rx_in \in Slots /\ rx_out \in Slots /\ rx_buf \in [Slots -> Nat]
  /\ tx_in \in Slots /\ tx_out \in Slots /\ tx_buf \in [Slots -> Nat]

DeviceType ==
  /\ rxFifo \in Seq(Nat) /\ Len(rxFifo) <= FifoDepth
  /\ txFifo \in Seq(Nat) /\ Len(txFifo) <= FifoDepth
  /\ hostNext \in Seq(Bytes) /\ Len(hostNext) <= 1
  /\ hostGot \in Seq(Nat)

IsrType ==
  /\ isr \in {"off", "control", "receive", "send"}
  /\ control \in [ri : BOOLEAN, wi : BOOLEAN, room : 0 .. FifoDepth]
  /\ avail \in BOOLEAN

CallType ==
  /\ pc \in {"idle", "close"} \cup Reading \cup Writing
  /\ data \in Seq(Bytes) /\ buffer \in Seq(Nat)
  /\ space \in Nat /\ moved \in Nat /\ n \in Nat
  /\ in \in Slots /\ out \in Slots

JtagTypeOK == StateType /\ RingType /\ DeviceType /\ IsrType /\ CallType

(* A local holds something only while its call is under way. *)
LocalsGone ==
  /\ pc \notin Writing => data = <<>> /\ moved = 0
  /\ pc \notin Reading => buffer = <<>>

(* What a read is about to free is in the buffer in one piece, and what it  *)
(* has copied of it is what is still there.                                 *)
ReadHolds ==
  /\ pc \in {"r_copy", "r_publish"} =>
       n \in 1 .. RxHeld /\ rx_out + n <= BufLen
  /\ pc = "r_copy" => n <= space
  /\ pc \in {"r_look", "r_wait", "r_check"} => space > 0
  /\ pc = "r_publish" =>
       /\ n <= Len(buffer)
       /\ \A k \in 1 .. n : buffer[Len(buffer) - n + k] = rx_buf[rx_out + k - 1]
  /\ pc \in {"r_wait", "r_check"} => in = rx_out

(* What a write is about to publish fits, in one piece, and leaves a slot   *)
(* free; once copied it is still there.                                     *)
WriteHolds ==
  /\ pc \in {"w_look", "w_wait", "w_host"} => data # <<>>
  /\ pc \in {"w_copy", "w_publish"} =>
       n \in 1 .. Len(data) /\ tx_in + n <= BufLen /\ TxHeld + n <= BufLen - 1
  /\ pc = "w_publish" => \A k \in 1 .. n : tx_buf[tx_in + k - 1] = data[k]
  /\ pc \in {"w_kick", "w_wait", "w_host"} /\ data # <<>> => Up(tx_in, 1) = out

(* The room the interrupt routine has counted is there from the moment it    *)
(* reads the control register, not only while it sends.                     *)
RoomKept == isr \in {"receive", "send"} => control.room <= FifoDepth - Len(txFifo)

IInv ==
  /\ JtagTypeOK /\ LocalsGone /\ ReadHolds /\ WriteHolds /\ RoomKept
  /\ WriteArmed /\ ReadArmed /\ NeverGone

-----------------------------------------------------------------------------
(* Division with remainder. *)
LEMMA DivMod ==
  ASSUME NEW w \in Nat \ {0}, NEW a \in Int
  PROVE  /\ a \div w \in Int
         /\ a % w \in 0 .. w - 1
         /\ a = (w * (a \div w)) + (a % w)
  BY SMT

(* The remainder of what is off by at most one multiple. *)
LEMMA ModIs ==
  ASSUME NEW w \in Nat \ {0}, NEW a \in Int, -w <= a, a < 2 * w
  PROVE  a % w = IF a < 0 THEN a + w ELSE IF a < w THEN a ELSE a - w
<1>1. PICK q \in Int, r \in 0 .. w - 1 : a = (w * q) + r /\ r = a % w
  BY DivMod
<1>2. q \in {-1, 0, 1}
  <2>1. ASSUME q >= 2 PROVE FALSE
    <3>1. w * q >= w * 2
      BY <2>1, SMT
    <3> QED BY <1>1, <3>1
  <2>2. ASSUME q <= -2 PROVE FALSE
    <3>1. w * q <= w * (-2)
      BY <2>2, SMT
    <3> QED BY <1>1, <3>1
  <2> QED BY <2>1, <2>2
<1>3. w * q = IF q = 0 THEN 0 ELSE IF q = 1 THEN w ELSE -w
  BY <1>2, SMT
<1> QED
  BY <1>1, <1>2, <1>3

(* An index moved up the ring wraps at most once. *)
LEMMA UpIs ==
  ASSUME NEW i \in Slots, NEW k \in 0 .. BufLen
  PROVE  /\ Up(i, k) = IF i + k < BufLen THEN i + k ELSE i + k - BufLen
         /\ Up(i, k) \in Slots
<1>1. BufLen \in Nat \ {0}
  BY JtagAssumption
<1> DEFINE a == i + k
<1>2. a \in Int /\ -BufLen <= a /\ a < 2 * BufLen
  BY <1>1 DEF Slots
<1> HIDE DEF a
<1>3. a % BufLen = IF a < 0 THEN a + BufLen ELSE IF a < BufLen THEN a ELSE a - BufLen
  BY <1>1, <1>2, ModIs
<1> QED
  BY <1>1, <1>3 DEF Up, Slots, a

(* What a ring holds, from its two indices. *)
LEMMA HeldIs ==
  ASSUME NEW i \in Slots, NEW o \in Slots
  PROVE  /\ (i - o) % BufLen = IF i >= o THEN i - o ELSE i - o + BufLen
         /\ (i - o) % BufLen \in 0 .. BufLen - 1
<1>1. BufLen \in Nat \ {0}
  BY JtagAssumption
<1> DEFINE a == i - o
<1>2. a \in Int /\ -BufLen <= a /\ a < BufLen /\ a < 2 * BufLen
  BY <1>1 DEF Slots
<1> HIDE DEF a
<1>3. a % BufLen = IF a < 0 THEN a + BufLen ELSE IF a < BufLen THEN a ELSE a - BufLen
  BY <1>1, <1>2, ModIs
<1> QED
  BY <1>1, <1>3 DEF Slots, a

(* Moving the one index up adds to what is held, the other takes from it. *)
LEMMA HeldUp ==
  ASSUME NEW i \in Slots, NEW o \in Slots, NEW k \in Nat
  PROVE  /\ ((i - o) % BufLen) + k <= BufLen - 1 =>
              (Up(i, k) - o) % BufLen = ((i - o) % BufLen) + k
         /\ k <= (i - o) % BufLen =>
              (i - Up(o, k)) % BufLen = ((i - o) % BufLen) - k
<1>1. BufLen \in Nat \ {0}
  BY JtagAssumption
<1>2. /\ (i - o) % BufLen = IF i >= o THEN i - o ELSE i - o + BufLen
      /\ (i - o) % BufLen \in 0 .. BufLen - 1
  BY HeldIs
<1>3. ASSUME ((i - o) % BufLen) + k <= BufLen - 1
      PROVE  (Up(i, k) - o) % BufLen = ((i - o) % BufLen) + k
  <2>1. k \in 0 .. BufLen
    BY <1>1, <1>2, <1>3
  <2>2. PICK j \in Slots : j = Up(i, k)
    BY <2>1, UpIs
  <2>3. j = IF i + k < BufLen THEN i + k ELSE i + k - BufLen
    BY <2>1, <2>2, UpIs
  <2>4. (j - o) % BufLen = IF j >= o THEN j - o ELSE j - o + BufLen
    BY HeldIs
  <2>5. (j - o) % BufLen = ((i - o) % BufLen) + k
    BY <1>1, <1>2, <1>3, <2>3, <2>4 DEF Slots
  <2> QED BY <2>2, <2>5
<1>4. ASSUME k <= (i - o) % BufLen
      PROVE  (i - Up(o, k)) % BufLen = ((i - o) % BufLen) - k
  <2>1. k \in 0 .. BufLen
    BY <1>1, <1>2, <1>4
  <2>2. PICK j \in Slots : j = Up(o, k)
    BY <2>1, UpIs
  <2>3. j = IF o + k < BufLen THEN o + k ELSE o + k - BufLen
    BY <2>1, <2>2, UpIs
  <2>4. (i - j) % BufLen = IF i >= j THEN i - j ELSE i - j + BufLen
    BY HeldIs
  <2>5. (i - j) % BufLen = ((i - o) % BufLen) - k
    BY <1>1, <1>2, <1>4, <2>3, <2>4 DEF Slots
  <2> QED BY <2>2, <2>5
<1> QED
  BY <1>3, <1>4

-----------------------------------------------------------------------------
(* The slots of a ring in one piece, as a sequence. *)
Piece(buf, i, k) == [j \in 1 .. k |-> buf[i + j - 1]]

(* A function on 1 .. k with values in S is a sequence of length k. *)
LEMMA FunctionIsSeq ==
  ASSUME NEW S, NEW k \in Nat, NEW f \in [1 .. k -> S]
  PROVE  f \in Seq(S) /\ Len(f) = k
<1>1. f \in Seq(S)
  BY SeqDef
<1>2. Len(f) \in Nat /\ DOMAIN f = 1 .. Len(f) /\ DOMAIN f = 1 .. k
  BY <1>1, LenProperties
<1> QED
  BY <1>1, <1>2

(* The contents of a ring are a sequence of bytes, one of each held slot. *)
LEMMA ContentsIs ==
  ASSUME NEW b \in [Slots -> Nat], NEW o \in Slots, NEW i \in Slots
  PROVE  /\ Contents(b, o, i) \in Seq(Nat)
         /\ Len(Contents(b, o, i)) = (i - o) % BufLen
         /\ Len(Contents(b, o, i)) \in 0 .. BufLen - 1
         /\ \A k \in 1 .. (i - o) % BufLen : Contents(b, o, i)[k] = b[Up(o, k - 1)]
<1>1. BufLen \in Nat \ {0}
  BY JtagAssumption
<1>2. (i - o) % BufLen \in 0 .. BufLen - 1
  BY HeldIs
<1>3. PICK c : c = (i - o) % BufLen
  OBVIOUS
<1>4. \A k \in 1 .. c : b[Up(o, k - 1)] \in Nat
  <2>1. SUFFICES ASSUME NEW k \in 1 .. c PROVE b[Up(o, k - 1)] \in Nat
    OBVIOUS
  <2>2. k - 1 \in 0 .. BufLen
    BY <1>1, <1>2, <1>3
  <2>3. Up(o, k - 1) \in Slots
    BY <2>2, UpIs
  <2> QED BY <2>3
<1>5. Contents(b, o, i) = [k \in 1 .. c |-> b[Up(o, k - 1)]]
  BY <1>3 DEF Contents
<1>6. Contents(b, o, i) \in [1 .. c -> Nat]
  BY <1>4, <1>5
<1>7. Contents(b, o, i) \in Seq(Nat) /\ Len(Contents(b, o, i)) = c
  <2>1. c \in Nat
    BY <1>1, <1>2, <1>3
  <2> QED BY <2>1, <1>6, FunctionIsSeq
<1> QED
  BY <1>2, <1>3, <1>5, <1>7

(* A piece of a ring is a sequence of bytes. *)
LEMMA PieceIs ==
  ASSUME NEW b \in [Slots -> Nat], NEW i \in Slots, NEW k \in Nat, i + k <= BufLen
  PROVE  /\ Piece(b, i, k) \in Seq(Nat)
         /\ Len(Piece(b, i, k)) = k
         /\ \A j \in 1 .. k : Piece(b, i, k)[j] = b[i + j - 1]
<1>1. BufLen \in Nat \ {0}
  BY JtagAssumption
<1>2. \A j \in 1 .. k : i + j - 1 \in Slots
  BY <1>1 DEF Slots
<1>3. Piece(b, i, k) \in [1 .. k -> Nat]
  BY <1>2 DEF Piece
<1>4. Piece(b, i, k) \in Seq(Nat) /\ Len(Piece(b, i, k)) = k
  BY <1>3, FunctionIsSeq
<1> QED
  BY <1>4 DEF Piece

(* Only the slots held count. *)
LEMMA ContentsFrame ==
  ASSUME NEW b \in [Slots -> Nat], NEW c \in [Slots -> Nat],
         NEW o \in Slots, NEW i \in Slots,
         \A k \in 1 .. (i - o) % BufLen : b[Up(o, k - 1)] = c[Up(o, k - 1)]
  PROVE  Contents(b, o, i) = Contents(c, o, i)
<1>1. /\ Contents(b, o, i) \in Seq(Nat) /\ Contents(c, o, i) \in Seq(Nat)
      /\ Len(Contents(b, o, i)) = (i - o) % BufLen
      /\ Len(Contents(c, o, i)) = (i - o) % BufLen
  BY ContentsIs
<1>2. \A k \in 1 .. (i - o) % BufLen : Contents(b, o, i)[k] = Contents(c, o, i)[k]
  BY ContentsIs
<1> QED
  BY <1>1, <1>2, SeqEqual

(* The place of byte j of a ring of L slots which holds c from place o on,   *)
(* when it is one of the next after the last one.                           *)
LEMMA PlaceOfNext ==
  ASSUME NEW L \in Nat, NEW o \in 0 .. L - 1, NEW i \in 0 .. L - 1, NEW k \in Nat,
         NEW c \in Nat, NEW j \in 1 .. c + k, j > c, i + k <= L,
         c = IF i >= o THEN i - o ELSE i - o + L
  PROVE  i + (j - c) - 1 =
           IF o + (j - 1) < L THEN o + (j - 1) ELSE o + (j - 1) - L
  BY SMT

(* A piece written at the upper index, and the index moved over it: the     *)
(* bytes are added at the end.                                              *)
LEMMA ContentsAdd ==
  ASSUME NEW b \in [Slots -> Nat], NEW o \in Slots, NEW i \in Slots, NEW k \in Nat,
         ((i - o) % BufLen) + k <= BufLen - 1, i + k <= BufLen
  PROVE  Contents(b, o, Up(i, k)) = Contents(b, o, i) \o Piece(b, i, k)
<1>1. BufLen \in Nat \ {0}
  BY JtagAssumption
<1>2. PICK c \in 0 .. BufLen - 1 :
        c = (i - o) % BufLen /\ c = IF i >= o THEN i - o ELSE i - o + BufLen
  BY HeldIs
<1>3. k \in 0 .. BufLen
  BY <1>1, <1>2
<1>4. PICK u \in Slots : u = Up(i, k)
  BY <1>3, UpIs
<1>5. (u - o) % BufLen = c + k
  BY <1>2, <1>4, HeldUp
<1>6. PICK p : p = Contents(b, o, i)
  OBVIOUS
<1>7. PICK q : q = Piece(b, i, k)
  OBVIOUS
<1>8. p \in Seq(Nat) /\ Len(p) = c /\ \A j \in 1 .. c : p[j] = b[Up(o, j - 1)]
  BY <1>2, <1>6, ContentsIs
<1>9. q \in Seq(Nat) /\ Len(q) = k /\ \A j \in 1 .. k : q[j] = b[i + j - 1]
  BY <1>7, PieceIs
<1>10. /\ p \o q \in Seq(Nat)
       /\ Len(p \o q) = c + k
       /\ \A j \in 1 .. c + k : (p \o q)[j] = IF j <= c THEN p[j] ELSE q[j - c]
  BY <1>8, <1>9, ConcatProperties
<1>11. /\ Contents(b, o, u) \in Seq(Nat)
       /\ Len(Contents(b, o, u)) = c + k
       /\ \A j \in 1 .. c + k : Contents(b, o, u)[j] = b[Up(o, j - 1)]
  BY <1>5, ContentsIs
<1>12. ASSUME NEW j \in 1 .. c + k PROVE Contents(b, o, u)[j] = (p \o q)[j]
  <2>1. CASE j <= c
    <3>1. j \in 1 .. c
      BY <1>2, <2>1
    <3> QED BY <2>1, <1>8, <1>10, <1>11, <3>1
  <2>2. CASE j > c
    <3>1. j - c \in 1 .. k
      BY <1>2, <2>2
    <3>2. (p \o q)[j] = b[i + (j - c) - 1]
      BY <1>2, <1>9, <1>10, <2>2, <3>1
    <3>3. j - 1 \in 0 .. BufLen
      BY <1>1, <1>2
    <3>4. Up(o, j - 1) = IF o + (j - 1) < BufLen THEN o + (j - 1)
                         ELSE o + (j - 1) - BufLen
      BY <3>3, UpIs
    <3>5. /\ i \in 0 .. BufLen - 1 /\ o \in 0 .. BufLen - 1 /\ i + k <= BufLen
          /\ BufLen \in Nat /\ c \in Nat /\ j > c
          /\ c = IF i >= o THEN i - o ELSE i - o + BufLen
      BY <1>1, <1>2, <2>2 DEF Slots
    <3>6. i + (j - c) - 1 =
            IF o + (j - 1) < BufLen THEN o + (j - 1) ELSE o + (j - 1) - BufLen
      BY <3>5, PlaceOfNext
    <3>7. Up(o, j - 1) = i + (j - c) - 1
      BY <3>4, <3>6
    <3> QED BY <1>11, <3>2, <3>7
  <2>3. j <= c \/ j > c
    BY <1>2
  <2> QED BY <2>1, <2>2, <2>3
<1> QED
  BY <1>4, <1>6, <1>7, <1>10, <1>11, <1>12, SeqEqual

(* The lower index moved up: the first bytes are gone. *)
LEMMA ContentsDrop ==
  ASSUME NEW b \in [Slots -> Nat], NEW o \in Slots, NEW i \in Slots,
         NEW k \in 0 .. (i - o) % BufLen
  PROVE  Contents(b, Up(o, k), i) = Rest(Contents(b, o, i), k)
<1>1. BufLen \in Nat \ {0}
  BY JtagAssumption
<1>2. PICK c \in 0 .. BufLen - 1 :
        c = (i - o) % BufLen /\ c = IF i >= o THEN i - o ELSE i - o + BufLen
  BY HeldIs
<1>3. k \in 0 .. BufLen /\ k \in Nat
  BY <1>1, <1>2
<1>4. PICK u \in Slots : u = Up(o, k)
  BY <1>3, UpIs
<1>5. (i - u) % BufLen = c - k
  BY <1>2, <1>3, <1>4, HeldUp
<1>6. PICK p : p = Contents(b, o, i)
  OBVIOUS
<1>7. p \in Seq(Nat) /\ Len(p) = c /\ \A j \in 1 .. c : p[j] = b[Up(o, j - 1)]
  BY <1>2, <1>6, ContentsIs
<1>8. \A j \in k + 1 .. c : p[j] \in Nat
  BY <1>2, <1>3, <1>7, ElementOfSeq
<1>9. /\ Rest(p, k) \in Seq(Nat)
      /\ Len(Rest(p, k)) = c - k
      /\ \A j \in 1 .. c - k : Rest(p, k)[j] = p[k + j]
  <2>1. Rest(p, k) = SubSeq(p, k + 1, c)
    BY <1>7 DEF Rest
  <2>2. PICK m \in Int : m = k + 1
    BY <1>3
  <2>3. /\ SubSeq(p, m, c) \in Seq(Nat)
        /\ Len(SubSeq(p, m, c)) = IF m <= c THEN c - m + 1 ELSE 0
        /\ \A j \in 1 .. c - m + 1 : SubSeq(p, m, c)[j] = p[m + j - 1]
    BY <1>2, <1>8, <2>2, SubSeqProperties
  <2> QED BY <1>2, <1>3, <2>1, <2>2, <2>3
<1>10. /\ Contents(b, u, i) \in Seq(Nat)
       /\ Len(Contents(b, u, i)) = c - k
       /\ \A j \in 1 .. c - k : Contents(b, u, i)[j] = b[Up(u, j - 1)]
  BY <1>5, ContentsIs
<1>11. ASSUME NEW j \in 1 .. c - k PROVE Contents(b, u, i)[j] = Rest(p, k)[j]
  <2>1. k + j \in 1 .. c /\ j - 1 \in 0 .. BufLen /\ (k + j) - 1 \in 0 .. BufLen
    BY <1>1, <1>2, <1>3
  <2>2. Rest(p, k)[j] = b[Up(o, (k + j) - 1)]
    BY <1>7, <1>9, <2>1
  <2>3. u = IF o + k < BufLen THEN o + k ELSE o + k - BufLen
    BY <1>3, <1>4, UpIs
  <2>4. Up(u, j - 1) = IF u + (j - 1) < BufLen THEN u + (j - 1)
                       ELSE u + (j - 1) - BufLen
    BY <2>1, UpIs
  <2>5. Up(o, (k + j) - 1) = IF o + ((k + j) - 1) < BufLen THEN o + ((k + j) - 1)
                             ELSE o + ((k + j) - 1) - BufLen
    BY <2>1, UpIs
  <2>6. Up(u, j - 1) = Up(o, (k + j) - 1)
    BY <1>1, <1>2, <1>3, <2>1, <2>3, <2>4, <2>5 DEF Slots
  <2> QED BY <1>10, <2>2, <2>6
<1> QED
  BY <1>4, <1>6, <1>9, <1>10, <1>11, SeqEqual

-----------------------------------------------------------------------------
(* The first and the other elements of a sequence. *)
LEMMA CutIs ==
  ASSUME NEW S, NEW s \in Seq(S), NEW k \in 0 .. Len(s)
  PROVE  /\ First(s, k) \in Seq(S) /\ Len(First(s, k)) = k
         /\ \A j \in 1 .. k : First(s, k)[j] = s[j]
         /\ Rest(s, k) \in Seq(S) /\ Len(Rest(s, k)) = Len(s) - k
         /\ \A j \in 1 .. Len(s) - k : Rest(s, k)[j] = s[k + j]
<1>1. PICK c \in Nat : c = Len(s)
  BY LenProperties
<1>2. k \in Nat /\ k <= c
  BY <1>1
<1>3. \A j \in 1 .. c : s[j] \in S
  BY <1>1, ElementOfSeq
<1>4. /\ First(s, k) \in Seq(S) /\ Len(First(s, k)) = k
      /\ \A j \in 1 .. k : First(s, k)[j] = s[j]
  <2>1. PICK m \in Int : m = 1
    OBVIOUS
  <2>2. \A j \in m .. k : s[j] \in S
    BY <1>2, <1>3, <2>1
  <2>3. /\ SubSeq(s, m, k) \in Seq(S)
        /\ Len(SubSeq(s, m, k)) = IF m <= k THEN k - m + 1 ELSE 0
        /\ \A j \in 1 .. k - m + 1 : SubSeq(s, m, k)[j] = s[m + j - 1]
    BY <1>2, <2>2, SubSeqProperties
  <2> QED BY <1>2, <2>1, <2>3 DEF First
<1>5. /\ Rest(s, k) \in Seq(S) /\ Len(Rest(s, k)) = c - k
      /\ \A j \in 1 .. c - k : Rest(s, k)[j] = s[k + j]
  <2>1. PICK m \in Int : m = k + 1
    BY <1>2
  <2>2. \A j \in m .. c : s[j] \in S
    BY <1>2, <1>3, <2>1
  <2>3. /\ SubSeq(s, m, c) \in Seq(S)
        /\ Len(SubSeq(s, m, c)) = IF m <= c THEN c - m + 1 ELSE 0
        /\ \A j \in 1 .. c - m + 1 : SubSeq(s, m, c)[j] = s[m + j - 1]
    BY <2>2, SubSeqProperties
  <2>4. Rest(s, k) = SubSeq(s, m, c)
    BY <1>1, <2>1 DEF Rest
  <2>5. PICK r : r = Rest(s, k)
    OBVIOUS
  <2>6. r \in Seq(S) /\ Len(r) = IF m <= c THEN c - m + 1 ELSE 0
    BY <2>3, <2>4, <2>5
  <2>7. Len(r) = c - k
    BY <1>2, <2>1, <2>6
  <2>8. \A j \in 1 .. c - m + 1 : r[j] = s[m + j - 1]
    BY <2>3, <2>4, <2>5
  <2>9. \A j \in 1 .. c - k : j \in 1 .. c - m + 1 /\ m + j - 1 = k + j
    BY <1>2, <2>1
  <2>10. \A j \in 1 .. c - k : r[j] = s[k + j]
    BY <2>8, <2>9
  <2> QED BY <2>5, <2>6, <2>7, <2>10
<1> QED
  BY <1>1, <1>4, <1>5

(* A sequence cut anywhere is its two parts. *)
LEMMA CutJoins ==
  ASSUME NEW S, NEW s \in Seq(S), NEW k \in 0 .. Len(s)
  PROVE  s = First(s, k) \o Rest(s, k)
<1>1. PICK c \in Nat : c = Len(s)
  BY LenProperties
<1>2. k \in Nat /\ k <= c
  BY <1>1
<1>3. PICK p \in Seq(S) :
        p = First(s, k) /\ Len(p) = k /\ \A j \in 1 .. k : p[j] = s[j]
  BY CutIs
<1>4. PICK q \in Seq(S) :
        /\ q = Rest(s, k) /\ Len(q) = c - k
        /\ \A j \in 1 .. c - k : q[j] = s[k + j]
  <2>1. /\ Rest(s, k) \in Seq(S) /\ Len(Rest(s, k)) = Len(s) - k
        /\ \A j \in 1 .. Len(s) - k : Rest(s, k)[j] = s[k + j]
    BY CutIs
  <2> QED BY <1>1, <2>1
<1>5. /\ p \o q \in Seq(S)
      /\ Len(p \o q) = k + (c - k)
      /\ \A j \in 1 .. k + (c - k) : (p \o q)[j] = IF j <= k THEN p[j] ELSE q[j - k]
  BY <1>3, <1>4, ConcatProperties
<1>6. ASSUME NEW j \in 1 .. c PROVE s[j] = (p \o q)[j]
  <2>1. CASE j <= k
    BY <1>2, <1>3, <1>5, <2>1
  <2>2. CASE j > k
    <3>1. j - k \in 1 .. c - k /\ j \in 1 .. k + (c - k) /\ ~(j <= k) /\ k + (j - k) = j
      BY <1>2, <2>2
    <3>2. q[j - k] = s[k + (j - k)]
      BY <1>4, <3>1
    <3> QED BY <1>5, <3>1, <3>2
  <2>3. j <= k \/ j > k
    BY <1>2
  <2> QED BY <2>1, <2>2, <2>3
<1>7. Len(p \o q) = c
  BY <1>2, <1>5
<1>8. s = p \o q
  BY <1>1, <1>5, <1>6, <1>7, SeqEqual
<1> QED
  BY <1>3, <1>4, <1>8

(* Cutting a concatenation within its first part. *)
LEMMA CutConcat ==
  ASSUME NEW S, NEW s \in Seq(S), NEW t \in Seq(S), NEW k \in 0 .. Len(s)
  PROVE  /\ First(s \o t, k) = First(s, k)
         /\ Rest(s \o t, k) = Rest(s, k) \o t
<1>1. PICK c \in Nat : c = Len(s)
  BY LenProperties
<1>2. PICK d \in Nat : d = Len(t)
  BY LenProperties
<1>3. k \in Nat /\ k <= c
  BY <1>1
<1>4. PICK u \in Seq(S) :
        /\ u = s \o t /\ Len(u) = c + d
        /\ \A j \in 1 .. c + d : u[j] = IF j <= c THEN s[j] ELSE t[j - c]
  <2>1. /\ s \o t \in Seq(S) /\ Len(s \o t) = Len(s) + Len(t)
        /\ \A j \in 1 .. Len(s) + Len(t) :
             (s \o t)[j] = IF j <= Len(s) THEN s[j] ELSE t[j - Len(s)]
    BY ConcatProperties
  <2> QED BY <1>1, <1>2, <2>1
<1>5. k \in 0 .. Len(u)
  BY <1>3, <1>4
<1>6. /\ First(u, k) \in Seq(S) /\ Len(First(u, k)) = k
      /\ \A j \in 1 .. k : First(u, k)[j] = u[j]
      /\ Rest(u, k) \in Seq(S) /\ Len(Rest(u, k)) = (c + d) - k
      /\ \A j \in 1 .. (c + d) - k : Rest(u, k)[j] = u[k + j]
  BY <1>4, <1>5, CutIs
<1>7. /\ First(s, k) \in Seq(S) /\ Len(First(s, k)) = k
      /\ \A j \in 1 .. k : First(s, k)[j] = s[j]
  BY CutIs
<1>8. PICK q \in Seq(S) :
        /\ q = Rest(s, k) /\ Len(q) = c - k
        /\ \A j \in 1 .. c - k : q[j] = s[k + j]
  <2>1. /\ Rest(s, k) \in Seq(S) /\ Len(Rest(s, k)) = Len(s) - k
        /\ \A j \in 1 .. Len(s) - k : Rest(s, k)[j] = s[k + j]
    BY CutIs
  <2> QED BY <1>1, <2>1
<1>9. First(u, k) = First(s, k)
  <2>1. \A j \in 1 .. k : First(u, k)[j] = First(s, k)[j]
    BY <1>3, <1>4, <1>6, <1>7
  <2> QED BY <1>6, <1>7, <2>1, SeqEqual
<1>10. Rest(u, k) = q \o t
  <2>1. /\ q \o t \in Seq(S) /\ Len(q \o t) = (c - k) + d
        /\ \A j \in 1 .. (c - k) + d :
             (q \o t)[j] = IF j <= c - k THEN q[j] ELSE t[j - (c - k)]
    BY <1>2, <1>8, ConcatProperties
  <2>2. ASSUME NEW j \in 1 .. (c + d) - k PROVE Rest(u, k)[j] = (q \o t)[j]
    <3>1. /\ j \in 1 .. (c - k) + d /\ k + j \in 1 .. c + d
          /\ (k + j <= c <=> j <= c - k) /\ (k + j) - c = j - (c - k)
      BY <1>3
    <3>2. Rest(u, k)[j] = IF k + j <= c THEN s[k + j] ELSE t[(k + j) - c]
      BY <1>4, <1>6, <3>1
    <3>3. (q \o t)[j] = IF j <= c - k THEN q[j] ELSE t[j - (c - k)]
      BY <2>1, <3>1
    <3>4. j <= c - k => q[j] = s[k + j]
      BY <1>3, <1>8
    <3> QED BY <3>1, <3>2, <3>3, <3>4
  <2>3. Len(q \o t) = (c + d) - k
    BY <1>3, <2>1
  <2> QED BY <1>6, <2>1, <2>2, <2>3, SeqEqual
<1> QED
  BY <1>4, <1>8, <1>9, <1>10

(* The first bytes of a ring, when they are in one piece. *)
LEMMA ContentsFirst ==
  ASSUME NEW b \in [Slots -> Nat], NEW o \in Slots, NEW i \in Slots,
         NEW k \in 0 .. (i - o) % BufLen, o + k <= BufLen
  PROVE  First(Contents(b, o, i), k) = Piece(b, o, k)
<1>1. BufLen \in Nat \ {0}
  BY JtagAssumption
<1>2. PICK c \in 0 .. BufLen - 1 : c = (i - o) % BufLen
  BY HeldIs
<1>3. k \in Nat /\ k <= c
  BY <1>2
<1>4. PICK p \in Seq(Nat) :
        /\ p = Contents(b, o, i) /\ Len(p) = c
        /\ \A j \in 1 .. c : p[j] = b[Up(o, j - 1)]
  BY <1>2, ContentsIs
<1>5. k \in 0 .. Len(p)
  BY <1>3, <1>4
<1>6. /\ First(p, k) \in Seq(Nat) /\ Len(First(p, k)) = k
      /\ \A j \in 1 .. k : First(p, k)[j] = p[j]
  BY <1>5, CutIs
<1>7. /\ Piece(b, o, k) \in Seq(Nat) /\ Len(Piece(b, o, k)) = k
      /\ \A j \in 1 .. k : Piece(b, o, k)[j] = b[o + j - 1]
  BY <1>3, PieceIs
<1>8. ASSUME NEW j \in 1 .. k PROVE First(p, k)[j] = Piece(b, o, k)[j]
  <2>1. j \in 1 .. c /\ j - 1 \in 0 .. BufLen
    BY <1>1, <1>2, <1>3
  <2>2. Up(o, j - 1) = IF o + (j - 1) < BufLen THEN o + (j - 1)
                       ELSE o + (j - 1) - BufLen
    BY <2>1, UpIs
  <2>3. Up(o, j - 1) = o + j - 1
    <3>1. o \in Nat /\ j \in Int
      BY <1>1 DEF Slots
    <3> QED BY <1>1, <1>3, <2>2, <3>1
  <2> QED BY <1>4, <1>6, <1>7, <2>1, <2>3
<1> QED
  BY <1>4, <1>6, <1>7, <1>8, SeqEqual

-----------------------------------------------------------------------------
(* The inductive invariant holds at first. *)
LEMMA InvInit == Init => IInv
<1> SUFFICES ASSUME Init PROVE IInv
  OBVIOUS
<1> USE JtagAssumption
<1>1. StateType
  BY DEF Init, StateType
<1>2. RingType
  BY DEF Init, RingType, Slots
<1>3. DeviceType
  BY EmptySeq DEF Init, DeviceType
<1>4. IsrType
  <2>1. 0 \in 0 .. FifoDepth
    OBVIOUS
  <2>2. NoControl \in [ri : BOOLEAN, wi : BOOLEAN, room : 0 .. FifoDepth]
    BY <2>1 DEF NoControl
  <2> QED BY <2>2 DEF Init, IsrType
<1>5. CallType
  BY EmptySeq DEF Init, NoLocals, CallType, Slots, Reading, Writing
<1>6. LocalsGone /\ ReadHolds /\ WriteHolds /\ RoomKept
  BY DEF Init, NoLocals, LocalsGone, ReadHolds, WriteHolds, RoomKept, Reading, Writing
<1>7. WriteArmed /\ ReadArmed /\ NeverGone
  BY DEF Init, WriteArmed, ReadArmed, NeverGone, Gone
<1> QED
  BY <1>1, <1>2, <1>3, <1>4, <1>5, <1>6, <1>7 DEF IInv, JtagTypeOK

(* What a step leaves alone when it leaves the software alone. *)
LEMMA SoftwareFrame ==
  ASSUME IInv, UNCHANGED software
  PROVE  /\ (StateType /\ RingType /\ IsrType /\ CallType)'
         /\ (LocalsGone /\ ReadHolds /\ WriteHolds)'
         /\ (WriteArmed /\ ReadArmed /\ NeverGone)'
<1> USE DEF software, stateVars, rxRing, txRing, isrVars, locals
<1>1. (StateType /\ RingType /\ IsrType /\ CallType)'
  BY DEF IInv, JtagTypeOK, StateType, RingType, IsrType, CallType
<1>2. (LocalsGone /\ ReadHolds /\ WriteHolds)'
  BY DEF IInv, LocalsGone, ReadHolds, WriteHolds, RxHeld, TxHeld
<1>3. (WriteArmed /\ ReadArmed /\ NeverGone)'
  BY DEF IInv, WriteArmed, ReadArmed, NeverGone, RxFull, Gone
<1> QED
  BY <1>1, <1>2, <1>3

(* The steps of the host only move bytes and empty the FIFO it reads. *)
LEMMA HostKeeps ==
  ASSUME IInv, Host
  PROVE  IInv'
<1>1. UNCHANGED software
  BY DEF Host
<1>2. DeviceType
  BY DEF IInv, JtagTypeOK
<1>3. Bytes \subseteq Nat /\ FifoDepth \in Nat
  BY JtagAssumption
<1>4. DeviceType' /\ (Len(txFifo') <= Len(txFifo)) /\ Len(txFifo') \in Nat
  <2>0. Len(txFifo) \in Nat /\ Len(rxFifo) \in Nat
    BY <1>2, LenProperties DEF DeviceType
  <2>1. CASE HostConnect \/ HostLeave \/ HostPoll
    BY <1>2, <2>0, <2>1 DEF DeviceType, HostConnect, HostLeave, HostPoll, device, host
  <2>2. CASE HostWants
    <3>1. PICK b \in Bytes : hostNext' = <<b>>
      BY <2>2 DEF HostWants
    <3>2. hostNext' \in Seq(Bytes) /\ Len(hostNext') = 1
      BY <3>1
    <3> QED BY <1>2, <2>0, <2>2, <3>2 DEF DeviceType, HostWants, device
  <2>3. CASE HostSend
    <3>1. Len(hostNext) = 1 /\ hostNext \in Seq(Nat)
      <4>1. hostNext # <<>> /\ hostNext \in Seq(Bytes) /\ Len(hostNext) <= 1
        BY <1>2, <2>3 DEF DeviceType, HostSend
      <4>2. Len(hostNext) \in Nat \ {0}
        BY <4>1, EmptySeq
      <4>3. Len(hostNext) = 1
        BY <4>1, <4>2
      <4>4. hostNext \in Seq(Nat)
        BY <1>3, <4>1, SeqMonotonic
      <4> QED BY <4>3, <4>4
    <3>2. rxFifo' \in Seq(Nat) /\ Len(rxFifo') = Len(rxFifo) + 1
      <4>1. rxFifo \in Seq(Nat) /\ rxFifo' = rxFifo \o hostNext
        BY <1>2, <2>3 DEF DeviceType, HostSend
      <4>2. rxFifo \o hostNext \in Seq(Nat)
            /\ Len(rxFifo \o hostNext) = Len(rxFifo) + Len(hostNext)
        BY <3>1, <4>1, ConcatProperties
      <4> QED BY <3>1, <4>1, <4>2
    <3>3. hostNext' = <<>> /\ hostNext' \in Seq(Bytes) /\ Len(hostNext') = 0
      BY <2>3, EmptySeq DEF HostSend
    <3> QED BY <1>2, <1>3, <2>0, <2>3, <3>2, <3>3 DEF DeviceType, HostSend
  <2>4. CASE HostTake
    <3>1. txFifo # <<>> /\ txFifo \in Seq(Nat)
      BY <1>2, <2>4 DEF DeviceType, HostTake
    <3>2. Head(txFifo) \in Nat /\ Tail(txFifo) \in Seq(Nat)
          /\ Len(Tail(txFifo)) = Len(txFifo) - 1
      BY <3>1, HeadTailProperties
    <3>3. hostGot' \in Seq(Nat) /\ txFifo' \in Seq(Nat)
          /\ Len(txFifo') = Len(txFifo) - 1 /\ Len(txFifo') \in Nat
      BY <2>4, <3>2, LenProperties DEF HostTake
    <3> QED BY <1>2, <1>3, <2>0, <2>4, <3>3 DEF DeviceType, HostTake
  <2> QED BY <2>1, <2>2, <2>3, <2>4 DEF Host
<1>5. RoomKept'
  <2>1. isr' = isr /\ control' = control
    BY <1>1 DEF software, isrVars
  <2>2. Len(txFifo) \in Nat /\ Len(txFifo') \in Nat /\ control.room \in Int
    BY <1>2, <1>3, <1>4, LenProperties DEF DeviceType, IInv, JtagTypeOK, IsrType
  <2> QED BY <1>3, <1>4, <2>1, <2>2 DEF IInv, RoomKept
<1> QED
  BY <1>1, <1>4, <1>5, SoftwareFrame DEF IInv, JtagTypeOK

(* The clock only counts. *)
LEMMA TickKeeps ==
  ASSUME IInv, Tick
  PROVE  IInv'
<1> USE DEF Tick, rxRing, txRing, host, isrVars, locals
<1>1. StateType'
  BY JtagAssumption DEF IInv, JtagTypeOK, StateType
<1>2. (RingType /\ DeviceType /\ IsrType /\ CallType)'
  BY DEF IInv, JtagTypeOK, RingType, DeviceType, IsrType, CallType
<1>3. (LocalsGone /\ ReadHolds /\ WriteHolds /\ RoomKept)'
  BY DEF IInv, LocalsGone, ReadHolds, WriteHolds, RxHeld, TxHeld, RoomKept
<1>4. (WriteArmed /\ ReadArmed)'
  BY DEF IInv, WriteArmed, ReadArmed, RxFull
<1>5. NeverGone'
  BY <1>1, JtagAssumption DEF StateType, NeverGone, Gone
<1> QED
  BY <1>1, <1>2, <1>3, <1>4, <1>5 DEF IInv, JtagTypeOK

-----------------------------------------------------------------------------
(* What a step leaves alone when it leaves the rings and the call alone. *)
LEMMA CallFrame ==
  ASSUME IInv, UNCHANGED <<rxRing, txRing, pc, locals>>
  PROVE  (RingType /\ CallType /\ LocalsGone /\ ReadHolds /\ WriteHolds)'
<1> USE DEF rxRing, txRing, locals
<1>1. (RingType /\ CallType)'
  BY DEF IInv, JtagTypeOK, RingType, CallType
<1>2. (LocalsGone /\ ReadHolds /\ WriteHolds)'
  BY DEF IInv, LocalsGone, ReadHolds, WriteHolds, RxHeld, TxHeld
<1> QED
  BY <1>1, <1>2

(* What the invariant says of the two indices of each ring and the counts. *)
LEMMA RingFacts ==
  ASSUME IInv
  PROVE  /\ rx_in \in Slots /\ rx_out \in Slots /\ rx_buf \in [Slots -> Nat]
         /\ tx_in \in Slots /\ tx_out \in Slots /\ tx_buf \in [Slots -> Nat]
         /\ RxHeld = IF rx_in >= rx_out THEN rx_in - rx_out ELSE rx_in - rx_out + BufLen
         /\ TxHeld = IF tx_in >= tx_out THEN tx_in - tx_out ELSE tx_in - tx_out + BufLen
         /\ RxHeld \in 0 .. BufLen - 1 /\ TxHeld \in 0 .. BufLen - 1
         /\ BufLen \in Nat /\ BufLen > 1
         /\ n \in Nat /\ Len(data) \in Nat /\ Len(buffer) \in Nat
         /\ Len(txFifo) \in Nat /\ Len(rxFifo) \in Nat
<1>1. /\ rx_in \in Slots /\ rx_out \in Slots /\ rx_buf \in [Slots -> Nat]
      /\ tx_in \in Slots /\ tx_out \in Slots /\ tx_buf \in [Slots -> Nat]
  BY DEF IInv, JtagTypeOK, RingType
<1>2. /\ RxHeld = IF rx_in >= rx_out THEN rx_in - rx_out ELSE rx_in - rx_out + BufLen
      /\ TxHeld = IF tx_in >= tx_out THEN tx_in - tx_out ELSE tx_in - tx_out + BufLen
      /\ RxHeld \in 0 .. BufLen - 1 /\ TxHeld \in 0 .. BufLen - 1
  BY <1>1, HeldIs DEF RxHeld, TxHeld
<1>3. BufLen \in Nat /\ BufLen > 1
  BY JtagAssumption
<1>4. n \in Nat /\ Len(data) \in Nat /\ Len(buffer) \in Nat
  BY LenProperties DEF IInv, JtagTypeOK, CallType
<1>5. Len(txFifo) \in Nat /\ Len(rxFifo) \in Nat
  BY LenProperties DEF IInv, JtagTypeOK, DeviceType
<1> QED
  BY <1>1, <1>2, <1>3, <1>4, <1>5

(* Arithmetic of a ring of L slots with the indices i and o: one that is not *)
(* full holds less than L - 1, and what is held is not the next place.      *)
LEMMA NotFull ==
  ASSUME NEW L \in Nat, L > 1, NEW i \in 0 .. L - 1, NEW o \in 0 .. L - 1,
         (IF i + 1 < L THEN i + 1 ELSE i + 1 - L) # o
  PROVE  (IF i >= o THEN i - o ELSE i - o + L) + 1 <= L - 1
  BY SMT

LEMMA PlaceHeld ==
  ASSUME NEW L \in Nat, NEW i \in 0 .. L - 1, NEW o \in 0 .. L - 1,
         NEW c \in Nat, o + c <= L,
         c <= IF i >= o THEN i - o ELSE i - o + L,
         NEW k \in 1 .. c
  PROVE  o + k - 1 \in 0 .. L - 1 /\ o + k - 1 # i
  BY SMT

(* A byte put in the receive ring: one more is held, those held are intact. *)
LEMMA ReceiveFacts ==
  ASSUME IInv, IsrReceive
  PROVE  /\ rx_in' \in Slots /\ rx_buf' \in [Slots -> Nat]
         /\ RxHeld' = RxHeld + 1
         /\ rx_buf' = [rx_buf EXCEPT ![rx_in] = Head(rxFifo)]
         /\ Head(rxFifo) \in Nat
         /\ rxFifo' \in Seq(Nat) /\ Len(rxFifo') = Len(rxFifo) - 1
<1>1. rx_in' = Up(rx_in, 1) /\ rx_out' = rx_out /\ Up(rx_in, 1) # rx_out
  BY DEF IsrReceive, RxFull
<1>2. 1 \in 0 .. BufLen
  BY RingFacts
<1>3. /\ Up(rx_in, 1) = IF rx_in + 1 < BufLen THEN rx_in + 1 ELSE rx_in + 1 - BufLen
      /\ Up(rx_in, 1) \in Slots
  BY <1>2, RingFacts, UpIs
<1>4. RxHeld + 1 <= BufLen - 1
  <2>1. /\ BufLen \in Nat /\ BufLen > 1
        /\ rx_in \in 0 .. BufLen - 1 /\ rx_out \in 0 .. BufLen - 1
    BY RingFacts DEF Slots
  <2>2. (IF rx_in + 1 < BufLen THEN rx_in + 1 ELSE rx_in + 1 - BufLen) # rx_out
    BY <1>1, <1>3
  <2>3. (IF rx_in >= rx_out THEN rx_in - rx_out ELSE rx_in - rx_out + BufLen) + 1
          <= BufLen - 1
    BY <2>1, <2>2, NotFull
  <2> QED BY <2>3, RingFacts
<1>5. (Up(rx_in, 1) - rx_out) % BufLen = RxHeld + 1
  <2>1. ((rx_in - rx_out) % BufLen) + 1 <= BufLen - 1
    BY <1>4 DEF RxHeld
  <2>2. rx_in \in Slots /\ rx_out \in Slots /\ 1 \in Nat
    BY RingFacts
  <2>3. (Up(rx_in, 1) - rx_out) % BufLen = ((rx_in - rx_out) % BufLen) + 1
    BY <2>1, <2>2, HeldUp
  <2> QED BY <2>3 DEF RxHeld
<1>6. RxHeld' = RxHeld + 1
  BY <1>1, <1>5 DEF RxHeld
<1>7. rxFifo \in Seq(Nat) /\ rxFifo # <<>>
  BY DEF IInv, JtagTypeOK, DeviceType, IsrReceive
<1>8. /\ Head(rxFifo) \in Nat /\ Tail(rxFifo) \in Seq(Nat)
      /\ Len(Tail(rxFifo)) = Len(rxFifo) - 1
  BY <1>7, HeadTailProperties
<1>9. rx_buf' = [rx_buf EXCEPT ![rx_in] = Head(rxFifo)] /\ rxFifo' = Tail(rxFifo)
  BY DEF IsrReceive
<1>10. rx_buf' \in [Slots -> Nat]
  BY <1>8, <1>9, RingFacts
<1> QED
  BY <1>1, <1>3, <1>6, <1>8, <1>9, <1>10

LEMMA ReceiveKeeps ==
  ASSUME IInv, IsrReceive, UNCHANGED <<host, pc, locals>>
  PROVE  IInv'
<1> USE DEF IsrReceive, stateVars, txRing, host, locals
<1>1. StateType' /\ IsrType'
  BY DEF IInv, JtagTypeOK, StateType, IsrType
<1>2. RingType'
  BY ReceiveFacts, RingFacts DEF RingType
<1>3. DeviceType'
  <2>1. /\ Len(rxFifo') <= FifoDepth /\ rxFifo' \in Seq(Nat)
    BY ReceiveFacts, RingFacts, JtagAssumption DEF IInv, JtagTypeOK, DeviceType
  <2> QED BY <2>1 DEF IInv, JtagTypeOK, DeviceType
<1>4. CallType' /\ LocalsGone'
  BY DEF IInv, JtagTypeOK, CallType, LocalsGone
<1>5. WriteHolds' /\ RoomKept'
  BY DEF IInv, WriteHolds, RoomKept, TxHeld
<1>6. ReadHolds'
  <2>1. pc \in {"r_copy", "r_publish"} => n \in 1 .. RxHeld' /\ rx_out + n <= BufLen
    <3>1. RxHeld' = RxHeld + 1
      BY ReceiveFacts
    <3>2. RxHeld \in Nat /\ n \in Nat
      BY RingFacts
    <3>3. pc \in {"r_copy", "r_publish"} => n \in 1 .. RxHeld /\ rx_out + n <= BufLen
      BY DEF IInv, ReadHolds
    <3>4. n \in 1 .. RxHeld => n \in 1 .. RxHeld'
      BY <3>1, <3>2
    <3> QED BY <3>3, <3>4
  <2>2. ASSUME pc = "r_publish", NEW k \in 1 .. n
        PROVE  rx_buf'[rx_out + k - 1] = rx_buf[rx_out + k - 1]
    <3>1. n \in 1 .. RxHeld /\ rx_out + n <= BufLen
      BY <2>2 DEF IInv, ReadHolds
    <3>2. /\ BufLen \in Nat /\ n \in Nat
          /\ rx_in \in 0 .. BufLen - 1 /\ rx_out \in 0 .. BufLen - 1
      BY RingFacts DEF Slots
    <3>3. n <= IF rx_in >= rx_out THEN rx_in - rx_out ELSE rx_in - rx_out + BufLen
      <4>1. RxHeld \in Nat
            /\ RxHeld = IF rx_in >= rx_out THEN rx_in - rx_out ELSE rx_in - rx_out + BufLen
        BY RingFacts
      <4>2. n <= RxHeld
        BY <3>1, <3>2, <4>1
      <4> QED BY <4>1, <4>2
    <3>4. rx_out + k - 1 \in Slots /\ rx_out + k - 1 # rx_in
      BY <3>1, <3>2, <3>3, PlaceHeld DEF Slots
    <3> QED BY <3>4, ReceiveFacts, RingFacts
  <2>3. pc = "r_publish" =>
          \A k \in 1 .. n : buffer[Len(buffer) - n + k] = rx_buf'[rx_out + k - 1]
    BY <2>2 DEF IInv, ReadHolds
  <2> QED BY <2>1, <2>3 DEF IInv, ReadHolds
<1>7. WriteArmed' /\ NeverGone'
  BY DEF IInv, WriteArmed, NeverGone, Gone
<1>8. ReadArmed'
  BY DEF IInv, ReadArmed
<1> QED
  BY <1>1, <1>2, <1>3, <1>4, <1>5, <1>6, <1>7, <1>8 DEF IInv, JtagTypeOK

(* A byte taken from the transmit ring: one less is held. *)
LEMMA SendFacts ==
  ASSUME IInv, IsrSend
  PROVE  /\ tx_out' \in Slots
         /\ TxHeld >= 1 /\ TxHeld' = TxHeld - 1
         /\ tx_buf[tx_out] \in Nat
         /\ txFifo' = Append(txFifo, tx_buf[tx_out])
         /\ txFifo' \in Seq(Nat) /\ Len(txFifo') = Len(txFifo) + 1
<1>1. tx_out' = Up(tx_out, 1) /\ tx_in' = tx_in /\ tx_out # tx_in
  BY DEF IsrSend
<1>2. 1 \in 0 .. BufLen
  BY RingFacts
<1>3. Up(tx_out, 1) \in Slots
  BY <1>2, RingFacts, UpIs
<1>4. TxHeld >= 1
  <2>1. BufLen \in Nat /\ tx_in \in 0 .. BufLen - 1 /\ tx_out \in 0 .. BufLen - 1
    BY RingFacts DEF Slots
  <2>2. TxHeld = IF tx_in >= tx_out THEN tx_in - tx_out ELSE tx_in - tx_out + BufLen
    BY RingFacts
  <2> QED BY <1>1, <2>1, <2>2
<1>5. TxHeld' = TxHeld - 1
  <2>1. 1 <= (tx_in - tx_out) % BufLen
    BY <1>4 DEF TxHeld
  <2>2. tx_in \in Slots /\ tx_out \in Slots /\ 1 \in Nat
    BY RingFacts
  <2>3. (tx_in - Up(tx_out, 1)) % BufLen = ((tx_in - tx_out) % BufLen) - 1
    BY <2>1, <2>2, HeldUp
  <2> QED BY <1>1, <2>3 DEF TxHeld
<1>6. tx_buf[tx_out] \in Nat /\ txFifo \in Seq(Nat)
  BY RingFacts DEF IInv, JtagTypeOK, DeviceType
<1>7. txFifo' = Append(txFifo, tx_buf[tx_out])
  BY DEF IsrSend
<1>8. txFifo' \in Seq(Nat) /\ Len(txFifo') = Len(txFifo) + 1
  BY <1>6, <1>7, AppendProperties
<1> QED
  BY <1>1, <1>3, <1>4, <1>5, <1>6, <1>7, <1>8

LEMMA SendKeeps ==
  ASSUME IInv, IsrSend, UNCHANGED <<host, pc, locals>>
  PROVE  IInv'
<1>0. /\ UNCHANGED <<timeout, irq_enable, host_inactive, rx_in, rx_out, rx_buf>>
      /\ UNCHANGED <<tx_in, tx_buf, rxFifo, activity, isr, avail>>
      /\ UNCHANGED <<hostUp, hostNext, hostGot, pc, nonblock, data, buffer, space>>
      /\ UNCHANGED <<moved, in, out, n>>
      /\ isr = "send" /\ control.room > 0 /\ tx_out # tx_in
      /\ control' = [control EXCEPT !.room = @ - 1]
  BY DEF IsrSend, stateVars, rxRing, host, locals
<1>1. control.room \in 1 .. FifoDepth /\ control.room <= FifoDepth - Len(txFifo)
  BY <1>0 DEF IInv, JtagTypeOK, IsrType, RoomKept
<1>2. control'.room = control.room - 1
      /\ control' \in [ri : BOOLEAN, wi : BOOLEAN, room : 0 .. FifoDepth]
  <2>1. control \in [ri : BOOLEAN, wi : BOOLEAN, room : 0 .. FifoDepth]
    BY DEF IInv, JtagTypeOK, IsrType
  <2>2. control.room - 1 \in 0 .. FifoDepth
    BY <1>1, JtagAssumption
  <2> QED BY <1>0, <2>1, <2>2
<1>3. StateType' /\ IsrType'
  BY <1>0, <1>2 DEF IInv, JtagTypeOK, StateType, IsrType
<1>4. RingType'
  BY <1>0, SendFacts, RingFacts DEF RingType
<1>5. DeviceType' /\ RoomKept'
  <2>1. Len(txFifo') <= FifoDepth /\ control'.room <= FifoDepth - Len(txFifo')
    <3>1. Len(txFifo) \in Int /\ FifoDepth \in Int
      BY RingFacts, JtagAssumption
    <3>2. Len(txFifo') = Len(txFifo) + 1 /\ control'.room = control.room - 1
      BY <1>2, SendFacts
    <3> QED BY <1>1, <3>1, <3>2
  <2> QED BY <1>0, <2>1, SendFacts DEF IInv, JtagTypeOK, DeviceType, RoomKept
<1>6. CallType' /\ LocalsGone'
  BY <1>0 DEF IInv, JtagTypeOK, CallType, LocalsGone
<1>7. ReadHolds'
  BY <1>0 DEF IInv, ReadHolds, RxHeld
<1>8. WriteHolds'
  <2>1. TxHeld + n <= BufLen - 1 => TxHeld' + n <= BufLen - 1
    <3>1. TxHeld \in Int /\ n \in Int /\ BufLen \in Int
      BY RingFacts
    <3>2. TxHeld' = TxHeld - 1
      BY SendFacts
    <3> QED BY <3>1, <3>2
  <2> QED BY <1>0, <2>1, SendFacts, RingFacts DEF IInv, WriteHolds
<1>9. WriteArmed' /\ ReadArmed' /\ NeverGone'
  BY <1>0 DEF IInv, WriteArmed, ReadArmed, RxFull, NeverGone, Gone
<1> QED
  BY <1>3, <1>4, <1>5, <1>6, <1>7, <1>8, <1>9 DEF IInv, JtagTypeOK

(* The steps of the interrupt routine which move no byte. *)
LEMMA QuietIsrKeeps ==
  ASSUME IInv, IsrEnter \/ IsrControl \/ IsrNoMore \/ IsrRxFull \/ IsrSent,
         UNCHANGED <<host, pc, locals>>
  PROVE  IInv'
<1>0. /\ UNCHANGED <<timeout, host_inactive, rx_in, rx_out, rx_buf, tx_in, tx_out, tx_buf>>
      /\ UNCHANGED <<rxFifo, txFifo, activity, hostUp, hostNext, hostGot, pc, nonblock>>
      /\ UNCHANGED <<data, buffer, space, moved, in, out, n>>
  BY DEF IsrEnter, IsrControl, IsrNoMore, IsrRxFull, IsrSent, stateVars, rxRing, txRing,
         device, host, locals
<1>1. (RingType /\ CallType /\ LocalsGone /\ ReadHolds /\ WriteHolds)'
  BY <1>0, CallFrame DEF rxRing, txRing, locals
<1>2. DeviceType'
  BY <1>0 DEF IInv, JtagTypeOK, DeviceType
<1>3. irq_enable' \subseteq {"RE", "WE"}
  BY DEF IInv, JtagTypeOK, StateType, IsrEnter, IsrControl, IsrNoMore, IsrRxFull, IsrSent,
         stateVars
<1>4. StateType' /\ NeverGone'
  BY <1>0, <1>3 DEF IInv, JtagTypeOK, StateType, NeverGone, Gone
<1>5. IsrType' /\ RoomKept'
  <2>1. control \in [ri : BOOLEAN, wi : BOOLEAN, room : 0 .. FifoDepth]
        /\ avail \in BOOLEAN /\ isr \in {"off", "control", "receive", "send"}
    BY DEF IInv, JtagTypeOK, IsrType
  <2>2. CASE IsrEnter
    BY <2>1, <2>2 DEF IsrEnter, IsrType, RoomKept
  <2>3. CASE IsrControl
    <3>1. Len(txFifo) \in 0 .. FifoDepth /\ FifoDepth \in Nat
      BY RingFacts, JtagAssumption DEF IInv, JtagTypeOK, DeviceType
    <3>2. FifoDepth - Len(txFifo) \in 0 .. FifoDepth /\ 0 \in 0 .. FifoDepth
      BY <3>1
    <3>3. ReadPending \in BOOLEAN /\ WritePending \in BOOLEAN
      BY DEF ReadPending, WritePending
    <3>4. CASE ReadPending \/ WritePending
      <4>1. control' = [ri |-> ReadPending, wi |-> WritePending,
                        room |-> FifoDepth - Len(txFifo)]
        BY <2>3, <3>4 DEF IsrControl
      <4>2. control' \in [ri : BOOLEAN, wi : BOOLEAN, room : 0 .. FifoDepth]
        BY <3>2, <3>3, <4>1
      <4>3. control'.room = FifoDepth - Len(txFifo)
        BY <4>1
      <4>4. isr' \in {"receive", "send"} /\ avail' \in BOOLEAN /\ txFifo' = txFifo
        BY <1>0, <2>3, <3>3, <3>4 DEF IsrControl
      <4>5. control'.room <= FifoDepth - Len(txFifo')
        BY <3>1, <4>3, <4>4
      <4> QED BY <4>2, <4>4, <4>5 DEF IsrType, RoomKept
    <3>5. CASE ~(ReadPending \/ WritePending)
      <4>1. control' = NoControl /\ isr' = "off" /\ avail' \in BOOLEAN
        BY <2>3, <3>3, <3>5 DEF IsrControl
      <4>2. NoControl \in [ri : BOOLEAN, wi : BOOLEAN, room : 0 .. FifoDepth]
        BY <3>2 DEF NoControl
      <4> QED BY <4>1, <4>2 DEF IsrType, RoomKept
    <3> QED BY <3>4, <3>5
  <2>4. CASE IsrNoMore \/ IsrRxFull
    <3>1. /\ control' = control /\ avail' = FALSE /\ isr = "receive"
          /\ isr' \in {"send", "control"} /\ txFifo' = txFifo
      BY <1>0, <2>4 DEF IsrNoMore, IsrRxFull, AfterReceive
    <3> QED BY <2>1, <3>1 DEF IsrType, IInv, RoomKept
  <2>5. CASE IsrSent
    BY <2>1, <2>5 DEF IsrSent, IsrType, RoomKept
  <2> QED BY <2>2, <2>3, <2>4, <2>5
<1>6. WriteArmed'
  <2>1. CASE IsrSent
    <3>1. tx_in # tx_out => irq_enable' = irq_enable
      <4>1. control.room \in 0 .. FifoDepth
        BY DEF IInv, JtagTypeOK, IsrType
      <4> QED BY <2>1, <4>1 DEF IsrSent
    <3> QED BY <1>0, <3>1 DEF IInv, WriteArmed
  <2>2. CASE IsrEnter \/ IsrControl \/ IsrNoMore \/ IsrRxFull
    <3>1. "WE" \in irq_enable => "WE" \in irq_enable'
      BY <2>2 DEF IsrEnter, IsrControl, IsrNoMore, IsrRxFull, stateVars
    <3> QED BY <1>0, <3>1 DEF IInv, WriteArmed
  <2> QED BY <2>1, <2>2
<1>7. ReadArmed'
  <2>1. CASE IsrRxFull
    BY <1>0, <2>1 DEF IsrRxFull, ReadArmed, RxFull
  <2>2. CASE IsrEnter \/ IsrControl \/ IsrNoMore \/ IsrSent
    <3>1. "RE" \in irq_enable => "RE" \in irq_enable'
      BY <2>2 DEF IsrEnter, IsrControl, IsrNoMore, IsrSent, stateVars
    <3> QED BY <1>0, <3>1 DEF IInv, ReadArmed, RxFull
  <2> QED BY <2>1, <2>2
<1> QED
  BY <1>1, <1>2, <1>4, <1>5, <1>6, <1>7 DEF IInv, JtagTypeOK

-----------------------------------------------------------------------------
(* What the steps of the program have to keep: the rest of the invariant is *)
(* about what only the device and the interrupt routine change.             *)
ProgramInv ==
  /\ StateType /\ RingType /\ CallType
  /\ LocalsGone /\ ReadHolds /\ WriteHolds
  /\ WriteArmed /\ ReadArmed /\ NeverGone

LEMMA ProgramSuffices ==
  ASSUME IInv, Running, ProgramInv'
  PROVE  IInv'
<1>1. DeviceType' /\ IsrType' /\ RoomKept'
  BY DEF Running, device, host, isrVars, IInv, JtagTypeOK, DeviceType, IsrType, RoomKept
<1> QED
  BY <1>1 DEF ProgramInv, IInv, JtagTypeOK

(* The start of a call, from "idle". *)
LEMMA StartKeeps ==
  ASSUME IInv, Call
  PROVE  ProgramInv'
<1> USE DEF stateVars, rxRing, txRing, locals
<1>1. ASSUME NEW mode \in Modes, NEW k \in ReadSizes, Read(k, mode) PROVE ProgramInv'
  <2>0. k \in Nat
    BY JtagAssumption
  <2>1. (StateType /\ RingType /\ NeverGone)'
    BY <1>1 DEF Read, IInv, JtagTypeOK, StateType, RingType, NeverGone, Gone
  <2>2. CallType'
    BY <1>1, <2>0 DEF Read, IInv, JtagTypeOK, CallType, Reading
  <2>3. (LocalsGone /\ ReadHolds /\ WriteHolds /\ WriteArmed /\ ReadArmed)'
    BY <1>1, <2>0 DEF Read, IInv, LocalsGone, ReadHolds, WriteHolds, WriteArmed, ReadArmed,
       RxFull, Reading, Writing
  <2> QED BY <2>1, <2>2, <2>3 DEF ProgramInv
<1>2. ASSUME NEW mode \in Modes, NEW k \in WriteSizes, NEW d \in [1 .. k -> Bytes],
             Write(d, mode)
      PROVE  ProgramInv'
  <2>0. d \in Seq(Bytes)
    BY JtagAssumption, FunctionIsSeq
  <2>1. (StateType /\ RingType /\ NeverGone)'
    BY <1>2 DEF Write, IInv, JtagTypeOK, StateType, RingType, NeverGone, Gone
  <2>2. CallType'
    BY <1>2, <2>0 DEF Write, IInv, JtagTypeOK, CallType, Writing
  <2>3. (LocalsGone /\ ReadHolds /\ WriteArmed /\ ReadArmed)'
    BY <1>2 DEF Write, IInv, LocalsGone, ReadHolds, WriteArmed, ReadArmed, RxFull, Reading,
       Writing
  <2>4. WriteHolds'
    BY <1>2 DEF Write, WriteHolds
  <2> QED BY <2>1, <2>2, <2>3, <2>4 DEF ProgramInv
<1>3. ASSUME NEW mode \in Modes, Close(mode) PROVE ProgramInv'
  <2>1. (StateType /\ RingType /\ CallType /\ NeverGone)'
    BY <1>3 DEF Close, IInv, JtagTypeOK, StateType, RingType, CallType, NeverGone, Gone
  <2>2. (LocalsGone /\ ReadHolds /\ WriteHolds /\ WriteArmed /\ ReadArmed)'
    BY <1>3 DEF Close, IInv, LocalsGone, ReadHolds, WriteHolds, WriteArmed, ReadArmed,
       RxFull, Reading, Writing
  <2> QED BY <2>1, <2>2 DEF ProgramInv
<1>4. ASSUME NEW v \in Timeouts, SetTimeout(v) PROVE ProgramInv'
  <2>1. UNCHANGED <<rxRing, txRing, pc, locals, irq_enable, host_inactive>>
    BY <1>4 DEF SetTimeout
  <2>2. (RingType /\ CallType /\ LocalsGone /\ ReadHolds /\ WriteHolds)'
    BY <2>1, CallFrame
  <2>3. timeout' \in 1 .. IntMax
    BY <1>4, JtagAssumption DEF SetTimeout
  <2>4. StateType' /\ NeverGone'
    BY <2>1, <2>3, JtagAssumption DEF IInv, JtagTypeOK, StateType, NeverGone, Gone
  <2>5. WriteArmed' /\ ReadArmed'
    BY <2>1 DEF IInv, WriteArmed, ReadArmed, RxFull
  <2> QED BY <2>2, <2>4, <2>5 DEF ProgramInv
<1> QED
  BY <1>1, <1>2, <1>3, <1>4 DEF Call

(* The end of a call: nothing is left of it. *)
LEMMA EndKeeps ==
  ASSUME IInv, ReadEnd \/ WriteEnd \/ CloseEnd
  PROVE  ProgramInv'
<1> USE DEF stateVars, rxRing, txRing
<1>0. /\ Return /\ UNCHANGED <<timeout, host_inactive, rxRing, txRing>>
      /\ pc \in {"r_end", "w_end", "close"}
      /\ irq_enable' \subseteq {"RE", "WE"} /\ irq_enable \subseteq irq_enable'
      /\ buffer # <<>> => "RE" \in irq_enable'
  <2>1. irq_enable \subseteq {"RE", "WE"}
    BY DEF IInv, JtagTypeOK, StateType
  <2>2. pc \in {"w_end", "close"} => buffer = <<>>
    BY DEF IInv, LocalsGone, Reading
  <2> QED BY <2>1, <2>2 DEF ReadEnd, WriteEnd, CloseEnd
<1>1. (StateType /\ RingType /\ NeverGone)'
  BY <1>0 DEF IInv, JtagTypeOK, StateType, RingType, NeverGone, Gone
<1>2. CallType'
  BY <1>0, EmptySeq, JtagAssumption DEF Return, CallType, Slots
<1>3. (LocalsGone /\ ReadHolds /\ WriteHolds)'
  BY <1>0 DEF Return, LocalsGone, ReadHolds, WriteHolds
<1>4. WriteArmed' /\ ReadArmed'
  BY <1>0 DEF IInv, WriteArmed, ReadArmed, RxFull
<1> QED
  BY <1>1, <1>2, <1>3, <1>4 DEF ProgramInv

-----------------------------------------------------------------------------
(* What a read has found, wants and gets of it. *)
LEMMA LookFacts ==
  ASSUME NEW L \in Nat, L > 1, NEW i \in 0 .. L - 1, NEW o \in 0 .. L - 1,
         NEW k \in Nat, NEW ready,
         ready = IF i >= o THEN i - o ELSE L - o
  PROVE  /\ ready \in Nat /\ Least(ready, k) \in Nat
         /\ ready = 0 <=> i = o
         /\ Least(ready, k) <= k /\ o + Least(ready, k) <= L
         /\ Least(ready, k) <= IF i >= o THEN i - o ELSE i - o + L
         /\ ready > 0 /\ k > 0 => Least(ready, k) >= 1
  BY SMT DEF Least

LEMMA ReadLookKeeps ==
  ASSUME IInv, ReadLook
  PROVE  ProgramInv'
<1>1. PICK ready : ready = IF rx_in >= rx_out THEN rx_in - rx_out ELSE BufLen - rx_out
  OBVIOUS
<1>2. /\ pc = "r_look" /\ in' = rx_in /\ n' = Least(ready, space)
      /\ pc' = IF ready > 0 THEN "r_copy"
               ELSE IF buffer # <<>> \/ nonblock THEN "r_end" ELSE "r_wait"
      /\ UNCHANGED <<timeout, irq_enable, host_inactive, rx_in, rx_out, rx_buf>>
      /\ UNCHANGED <<tx_in, tx_out, tx_buf, nonblock, data, buffer, space, moved, out>>
  BY <1>1 DEF ReadLook, stateVars, rxRing, txRing
<1>3. /\ BufLen \in Nat /\ BufLen > 1 /\ space \in Nat /\ space > 0
      /\ rx_in \in 0 .. BufLen - 1 /\ rx_out \in 0 .. BufLen - 1
  BY <1>2, RingFacts DEF Slots, IInv, JtagTypeOK, CallType, ReadHolds
<1>4. PICK m \in Nat :
        /\ m = Least(ready, space)
        /\ ready \in Nat /\ (ready = 0 <=> rx_in = rx_out)
        /\ m <= space /\ rx_out + m <= BufLen
        /\ m <= IF rx_in >= rx_out THEN rx_in - rx_out ELSE rx_in - rx_out + BufLen
        /\ ready > 0 => m >= 1
  <2>1. PICK k \in Nat : k = space
    BY <1>3
  <2>2. /\ ready \in Nat /\ Least(ready, k) \in Nat
        /\ ready = 0 <=> rx_in = rx_out
        /\ Least(ready, k) <= k /\ rx_out + Least(ready, k) <= BufLen
        /\ Least(ready, k) <=
             IF rx_in >= rx_out THEN rx_in - rx_out ELSE rx_in - rx_out + BufLen
        /\ ready > 0 /\ k > 0 => Least(ready, k) >= 1
    BY <1>1, <1>3, LookFacts
  <2>3. PICK m \in Nat : m = Least(ready, k)
    BY <2>2
  <2> QED BY <1>3, <2>1, <2>2, <2>3
<1>5. n' = m /\ in' \in Slots
  BY <1>2, <1>4, RingFacts
<1>6. StateType' /\ RingType' /\ CallType' /\ NeverGone'
  BY <1>2, <1>5 DEF IInv, JtagTypeOK, StateType, RingType, CallType, NeverGone, Gone, Reading
<1>7. LocalsGone' /\ WriteHolds' /\ WriteArmed'
  BY <1>2 DEF IInv, LocalsGone, WriteHolds, WriteArmed, Reading, Writing
<1>8. ReadHolds'
  <2>1. CASE ready > 0
    <3>1. m \in 1 .. RxHeld
      <4>0. RxHeld \in Nat
            /\ RxHeld = IF rx_in >= rx_out THEN rx_in - rx_out ELSE rx_in - rx_out + BufLen
        BY RingFacts
      <4>1. m <= RxHeld /\ RxHeld \in Int
        BY <1>4, <4>0
      <4>2. m >= 1
        BY <1>4, <2>1
      <4> QED BY <4>1, <4>2
    <3>2. pc' = "r_copy" /\ RxHeld' = RxHeld
      BY <1>2, <2>1 DEF RxHeld
    <3> QED BY <1>2, <1>4, <1>5, <3>1, <3>2 DEF ReadHolds
  <2>2. CASE ~(ready > 0)
    <3>1. rx_in = rx_out
      BY <1>4, <2>2
    <3>2. pc' \in {"r_end", "r_wait"}
      BY <1>2, <2>2
    <3> QED BY <1>2, <1>3, <3>1, <3>2 DEF ReadHolds
  <2> QED BY <2>1, <2>2
<1>9. ReadArmed'
  BY <1>2 DEF IInv, ReadArmed, RxFull
<1> QED
  BY <1>6, <1>7, <1>8, <1>9 DEF ProgramInv

(* A read copies the piece it is about to free. *)
LEMMA ReadCopyFacts ==
  ASSUME IInv, ReadCopy
  PROVE  /\ n \in 1 .. RxHeld /\ rx_out + n <= BufLen
         /\ Piece(rx_buf, rx_out, n) \in Seq(Nat) /\ Len(Piece(rx_buf, rx_out, n)) = n
         /\ buffer' = buffer \o Piece(rx_buf, rx_out, n)
         /\ buffer' \in Seq(Nat) /\ Len(buffer') = Len(buffer) + n
         /\ \A k \in 1 .. n : buffer'[Len(buffer) + k] = rx_buf[rx_out + k - 1]
<1>1. n \in 1 .. RxHeld /\ rx_out + n <= BufLen
  BY DEF IInv, ReadHolds, ReadCopy
<1>2. PICK q : q = Piece(rx_buf, rx_out, n)
  OBVIOUS
<1>3. q \in Seq(Nat) /\ Len(q) = n /\ \A j \in 1 .. n : q[j] = rx_buf[rx_out + j - 1]
  BY <1>1, <1>2, RingFacts, PieceIs
<1>4. buffer \in Seq(Nat) /\ buffer' = buffer \o q
  BY <1>2 DEF IInv, JtagTypeOK, CallType, ReadCopy, Piece
<1>5. PICK c \in Nat : c = Len(buffer)
  BY RingFacts
<1>6. /\ buffer \o q \in Seq(Nat) /\ Len(buffer \o q) = c + n
      /\ \A j \in 1 .. c + n : (buffer \o q)[j] = IF j <= c THEN buffer[j] ELSE q[j - c]
  <2>1. /\ buffer \o q \in Seq(Nat) /\ Len(buffer \o q) = Len(buffer) + Len(q)
        /\ \A j \in 1 .. Len(buffer) + Len(q) :
             (buffer \o q)[j] = IF j <= Len(buffer) THEN buffer[j] ELSE q[j - Len(buffer)]
    BY <1>3, <1>4, ConcatProperties
  <2> QED BY <1>3, <1>5, <2>1
<1>7. ASSUME NEW k \in 1 .. n PROVE (buffer \o q)[c + k] = rx_buf[rx_out + k - 1]
  <2>1. n \in Nat
    BY RingFacts
  <2>2. c + k \in 1 .. c + n /\ ~(c + k <= c) /\ (c + k) - c = k
    BY <2>1
  <2> QED BY <1>3, <1>6, <2>2
<1> QED
  BY <1>1, <1>2, <1>3, <1>4, <1>5, <1>6, <1>7

LEMMA ReadCopyKeeps ==
  ASSUME IInv, ReadCopy
  PROVE  ProgramInv'
<1>1. /\ pc = "r_copy" /\ pc' = "r_publish" /\ space' = space - n
      /\ UNCHANGED <<timeout, irq_enable, host_inactive, rx_in, rx_out, rx_buf>>
      /\ UNCHANGED <<tx_in, tx_out, tx_buf, nonblock, data, moved, in, out, n>>
  BY DEF ReadCopy, stateVars, rxRing, txRing
<1>2. space' \in Nat
  <2>1. n \in Nat /\ space \in Nat /\ n <= space
    BY <1>1, RingFacts DEF IInv, JtagTypeOK, CallType, ReadHolds
  <2> QED BY <1>1, <2>1
<1>3. StateType' /\ RingType' /\ NeverGone'
  BY <1>1 DEF IInv, JtagTypeOK, StateType, RingType, NeverGone, Gone
<1>4. CallType'
  BY <1>1, <1>2, ReadCopyFacts DEF IInv, JtagTypeOK, CallType, Reading
<1>5. LocalsGone' /\ WriteHolds' /\ WriteArmed'
  BY <1>1 DEF IInv, LocalsGone, WriteHolds, WriteArmed, Reading, Writing
<1>6. ReadHolds'
  <2>1. PICK c \in Nat : c = Len(buffer)
    BY RingFacts
  <2>2. PICK m \in Nat : m = n
    BY RingFacts
  <2>3. Len(buffer') = c + m /\ (c + m) - m = c /\ m <= c + m
    <3>1. Len(buffer') = Len(buffer) + n
      BY ReadCopyFacts
    <3> QED BY <2>1, <2>2, <3>1
  <2>4. \A k \in 1 .. m : buffer'[c + k] = rx_buf[rx_out + k - 1]
    BY <2>1, <2>2, ReadCopyFacts
  <2>5. n' = m /\ rx_out' = rx_out /\ rx_buf' = rx_buf /\ RxHeld' = RxHeld
        /\ pc' = "r_publish"
    BY <1>1, <2>2 DEF RxHeld
  <2>6. m \in 1 .. RxHeld /\ rx_out + m <= BufLen
    BY <2>2, ReadCopyFacts
  <2>7. m <= Len(buffer')
        /\ \A k \in 1 .. m : buffer'[Len(buffer') - m + k] = rx_buf[rx_out + k - 1]
    BY <2>3, <2>4
  <2> QED BY <2>5, <2>6, <2>7 DEF ReadHolds
<1>7. ReadArmed'
  <2>1. "RE" \notin irq_enable => RxFull \/ buffer # <<>>
    BY DEF IInv, ReadArmed
  <2>2. Len(buffer') # 0
    BY ReadCopyFacts, RingFacts
  <2>3. buffer' # <<>>
    BY <2>2, EmptySeq
  <2> QED BY <1>1, <2>3 DEF ReadArmed
<1> QED
  BY <1>3, <1>4, <1>5, <1>6, <1>7 DEF ProgramInv

(* A read frees the piece it has copied. *)
LEMMA ReadPublishKeeps ==
  ASSUME IInv, ReadPublish
  PROVE  ProgramInv'
<1>1. /\ pc = "r_publish" /\ rx_out' = Up(rx_out, n) /\ n' = 0
      /\ pc' = IF space > 0 THEN "r_look" ELSE "r_end"
      /\ UNCHANGED <<timeout, irq_enable, host_inactive, rx_in, rx_buf>>
      /\ UNCHANGED <<tx_in, tx_out, tx_buf, nonblock, data, buffer, space, moved, in, out>>
  BY DEF ReadPublish, stateVars, txRing
<1>2. n \in 1 .. RxHeld /\ n <= Len(buffer)
  BY <1>1 DEF IInv, ReadHolds
<1>3. rx_out' \in Slots
  <2>1. n \in 0 .. BufLen
    BY <1>2, RingFacts
  <2> QED BY <1>1, <2>1, RingFacts, UpIs
<1>4. StateType' /\ RingType' /\ CallType' /\ NeverGone'
  BY <1>1, <1>3 DEF IInv, JtagTypeOK, StateType, RingType, CallType, NeverGone, Gone, Reading
<1>5. LocalsGone' /\ ReadHolds' /\ WriteHolds' /\ WriteArmed'
  BY <1>1 DEF IInv, LocalsGone, ReadHolds, WriteHolds, WriteArmed, Reading, Writing
<1>6. ReadArmed'
  <2>1. Len(buffer) # 0
    BY <1>2, RingFacts
  <2>2. buffer # <<>>
    BY <2>1, EmptySeq
  <2> QED BY <1>1, <2>2 DEF ReadArmed
<1> QED
  BY <1>4, <1>5, <1>6 DEF ProgramInv

(* A read waits, and looks again or ends. *)
LEMMA ReadWaitKeeps ==
  ASSUME IInv, ReadWait \/ ReadCheck
  PROVE  ProgramInv'
<1>1. /\ UNCHANGED <<timeout, irq_enable, host_inactive, rx_in, rx_out, rx_buf>>
      /\ UNCHANGED <<tx_in, tx_out, tx_buf, nonblock, data, buffer, space, moved>>
      /\ UNCHANGED <<in, out, n>>
      /\ pc \in {"r_wait", "r_check"} /\ pc' \in {"r_check", "r_look", "r_end"}
  BY DEF ReadWait, ReadCheck, stateVars, rxRing, txRing, locals
<1>2. StateType' /\ RingType' /\ CallType' /\ NeverGone'
  BY <1>1 DEF IInv, JtagTypeOK, StateType, RingType, CallType, NeverGone, Gone, Reading
<1>3. LocalsGone' /\ ReadHolds' /\ WriteHolds' /\ WriteArmed' /\ ReadArmed'
  BY <1>1 DEF IInv, LocalsGone, ReadHolds, WriteHolds, WriteArmed, ReadArmed, RxFull,
     Reading, Writing
<1> QED
  BY <1>2, <1>3 DEF ProgramInv

-----------------------------------------------------------------------------
(* A write looks for room in one piece, and takes as much of it as it needs. *)
LEMMA WriteLookKeeps ==
  ASSUME IInv, WriteLook
  PROVE  ProgramInv'
<1>1. PICK free : free = IF tx_in < tx_out THEN tx_out - 1 - tx_in
                         ELSE IF tx_out > 0 THEN BufLen - tx_in
                         ELSE BufLen - 1 - tx_in
  OBVIOUS
<1>2. /\ pc = "w_look" /\ out' = tx_out /\ n' = Least(free, Len(data))
      /\ pc' = IF free > 0 THEN "w_copy" ELSE "w_kick"
      /\ UNCHANGED <<timeout, irq_enable, host_inactive, rx_in, rx_out, rx_buf>>
      /\ UNCHANGED <<tx_in, tx_out, tx_buf, nonblock, data, buffer, space, moved, in>>
  BY <1>1 DEF WriteLook, stateVars, rxRing, txRing
<1>3. /\ BufLen \in Nat /\ BufLen > 1
      /\ tx_in \in 0 .. BufLen - 1 /\ tx_out \in 0 .. BufLen - 1
  BY RingFacts DEF Slots
<1>4. PICK d \in Nat : d = Len(data) /\ d > 0
  <2>1. data \in Seq(Bytes) /\ data # <<>>
    BY <1>2 DEF IInv, JtagTypeOK, CallType, WriteHolds
  <2>2. Len(data) \in Nat \ {0}
    BY <2>1, EmptySeq
  <2> QED BY <2>2
<1>5. PICK m \in Nat :
        /\ m = n' /\ free \in Nat
        /\ m <= d /\ tx_in + m <= BufLen
        /\ (IF tx_in >= tx_out THEN tx_in - tx_out ELSE tx_in - tx_out + BufLen) + m
             <= BufLen - 1
        /\ free > 0 => m >= 1
        /\ free = 0 =>
             (IF tx_in + 1 < BufLen THEN tx_in + 1 ELSE tx_in + 1 - BufLen) = tx_out
  <2>1. /\ free \in Nat /\ Least(free, d) \in Nat
        /\ Least(free, d) <= d /\ tx_in + Least(free, d) <= BufLen
        /\ (IF tx_in >= tx_out THEN tx_in - tx_out ELSE tx_in - tx_out + BufLen)
             + Least(free, d) <= BufLen - 1
        /\ free > 0 /\ d > 0 => Least(free, d) >= 1
        /\ free = 0 =>
             (IF tx_in + 1 < BufLen THEN tx_in + 1 ELSE tx_in + 1 - BufLen) = tx_out
    <3>0. PICK L \in Nat : L = BufLen
      BY <1>3
    <3>1. PICK i \in 0 .. L - 1, o \in 0 .. L - 1 : i = tx_in /\ o = tx_out
      BY <1>3, <3>0
    <3>2. L > 1 /\ free = IF i < o THEN o - 1 - i ELSE IF o > 0 THEN L - i ELSE L - 1 - i
      BY <1>1, <1>3, <3>0, <3>1
    <3>3. /\ free \in Nat /\ Least(free, d) \in Nat
          /\ Least(free, d) <= d /\ i + Least(free, d) <= L
          /\ (IF i >= o THEN i - o ELSE i - o + L) + Least(free, d) <= L - 1
          /\ free > 0 /\ d > 0 => Least(free, d) >= 1
          /\ free = 0 => (IF i + 1 < L THEN i + 1 ELSE i + 1 - L) = o
      BY <3>2, SMT DEF Least
    <3> QED BY <3>0, <3>1, <3>3
  <2>2. PICK m \in Nat : m = Least(free, d)
    BY <2>1
  <2>3. n' = m
    BY <1>2, <1>4, <2>2
  <2> QED BY <1>4, <2>1, <2>2, <2>3
<1>6. StateType' /\ RingType' /\ CallType' /\ NeverGone'
  BY <1>2, <1>5, RingFacts
  DEF IInv, JtagTypeOK, StateType, RingType, CallType, NeverGone, Gone, Writing
<1>7. LocalsGone' /\ ReadHolds' /\ WriteArmed' /\ ReadArmed'
  BY <1>2 DEF IInv, LocalsGone, ReadHolds, WriteArmed, ReadArmed, RxFull, Reading, Writing
<1>8. WriteHolds'
  <2>1. CASE free > 0
    <3>1. m \in 1 .. d
      BY <1>5, <2>1
    <3>2. TxHeld + m <= BufLen - 1
      BY <1>5, RingFacts
    <3>3. pc' = "w_copy" /\ TxHeld' = TxHeld
      BY <1>2, <2>1 DEF TxHeld
    <3> QED BY <1>2, <1>4, <1>5, <3>1, <3>2, <3>3 DEF WriteHolds
  <2>2. CASE ~(free > 0)
    <3>1. 1 \in 0 .. BufLen
      BY <1>3
    <3>2. Up(tx_in, 1) = tx_out
      <4>1. Up(tx_in, 1) =
              IF tx_in + 1 < BufLen THEN tx_in + 1 ELSE tx_in + 1 - BufLen
        BY <3>1, RingFacts, UpIs
      <4>2. free = 0
        BY <1>5, <2>2
      <4> QED BY <1>5, <4>1, <4>2
    <3>3. pc' = "w_kick"
      BY <1>2, <2>2
    <3> QED BY <1>2, <3>2, <3>3 DEF WriteHolds
  <2> QED BY <2>1, <2>2
<1> QED
  BY <1>6, <1>7, <1>8 DEF ProgramInv

(* A write copies its piece where nothing is held. *)
LEMMA WriteCopyFacts ==
  ASSUME IInv, WriteCopy
  PROVE  /\ n \in 1 .. Len(data) /\ tx_in + n <= BufLen /\ TxHeld + n <= BufLen - 1
         /\ tx_buf' \in [Slots -> Nat]
         /\ \A k \in 1 .. n : tx_buf'[tx_in + k - 1] = data[k]
         /\ \A i \in Slots : i \notin tx_in .. tx_in + n - 1 => tx_buf'[i] = tx_buf[i]
<1>1. n \in 1 .. Len(data) /\ tx_in + n <= BufLen /\ TxHeld + n <= BufLen - 1
  BY DEF IInv, WriteHolds, WriteCopy
<1>2. tx_buf' = [i \in Slots |-> IF i \in tx_in .. tx_in + n - 1
                                 THEN data[i - tx_in + 1] ELSE tx_buf[i]]
  BY DEF WriteCopy
<1>3. \A k \in 1 .. Len(data) : data[k] \in Nat
  <2>1. data \in Seq(Bytes) /\ Bytes \subseteq Nat
    BY JtagAssumption DEF IInv, JtagTypeOK, CallType
  <2> QED BY <2>1, ElementOfSeq
<1>4. BufLen \in Nat /\ tx_in \in 0 .. BufLen - 1 /\ n \in Nat /\ Len(data) \in Nat
  BY RingFacts DEF Slots
<1>5. ASSUME NEW i \in Slots PROVE tx_buf'[i] \in Nat
  <2>1. CASE i \in tx_in .. tx_in + n - 1
    <3>1. i - tx_in + 1 \in 1 .. Len(data)
      BY <1>1, <1>4, <2>1
    <3> QED BY <1>2, <1>3, <2>1, <3>1
  <2>2. CASE i \notin tx_in .. tx_in + n - 1
    BY <1>2, <2>2, RingFacts
  <2> QED BY <2>1, <2>2
<1>6. tx_buf' \in [Slots -> Nat]
  BY <1>2, <1>5
<1>7. ASSUME NEW k \in 1 .. n PROVE tx_buf'[tx_in + k - 1] = data[k]
  <2>1. /\ tx_in + k - 1 \in Slots /\ tx_in + k - 1 \in tx_in .. tx_in + n - 1
        /\ (tx_in + k - 1) - tx_in + 1 = k
    BY <1>1, <1>4 DEF Slots
  <2> QED BY <1>2, <2>1
<1>8. \A i \in Slots : i \notin tx_in .. tx_in + n - 1 => tx_buf'[i] = tx_buf[i]
  BY <1>2
<1> QED
  BY <1>1, <1>6, <1>7, <1>8

LEMMA WriteCopyKeeps ==
  ASSUME IInv, WriteCopy
  PROVE  ProgramInv'
<1>1. /\ pc = "w_copy" /\ pc' = "w_publish"
      /\ UNCHANGED <<timeout, irq_enable, host_inactive, rx_in, rx_out, rx_buf>>
      /\ UNCHANGED <<tx_in, tx_out, nonblock, data, buffer, space, moved, in, out, n>>
  BY DEF WriteCopy, stateVars, rxRing, locals
<1>2. StateType' /\ CallType' /\ NeverGone'
  BY <1>1 DEF IInv, JtagTypeOK, StateType, CallType, NeverGone, Gone, Writing
<1>3. RingType'
  BY <1>1, WriteCopyFacts, RingFacts DEF RingType
<1>4. LocalsGone' /\ ReadHolds' /\ WriteArmed' /\ ReadArmed'
  BY <1>1 DEF IInv, LocalsGone, ReadHolds, WriteArmed, ReadArmed, RxFull, Reading, Writing
<1>5. WriteHolds'
  <2>1. TxHeld' = TxHeld
    BY <1>1 DEF TxHeld
  <2> QED BY <1>1, <2>1, WriteCopyFacts DEF WriteHolds
<1> QED
  BY <1>2, <1>3, <1>4, <1>5 DEF ProgramInv

(* A write makes its piece known to the interrupt routine. *)
LEMMA WritePublishFacts ==
  ASSUME IInv, WritePublish
  PROVE  /\ n \in 1 .. Len(data) /\ tx_in + n <= BufLen /\ TxHeld + n <= BufLen - 1
         /\ \A k \in 1 .. n : tx_buf[tx_in + k - 1] = data[k]
         /\ tx_in' = Up(tx_in, n) /\ tx_in' \in Slots
         /\ data' = Rest(data, n) /\ data' \in Seq(Bytes) /\ Len(data') = Len(data) - n
<1>1. /\ n \in 1 .. Len(data) /\ tx_in + n <= BufLen /\ TxHeld + n <= BufLen - 1
      /\ \A k \in 1 .. n : tx_buf[tx_in + k - 1] = data[k]
  BY DEF IInv, WriteHolds, WritePublish
<1>2. tx_in' = Up(tx_in, n) /\ data' = Rest(data, n)
  BY DEF WritePublish
<1>3. tx_in' \in Slots
  <2>1. n \in Nat /\ tx_in \in Nat /\ BufLen \in Nat
    BY RingFacts DEF Slots
  <2>2. n \in 0 .. BufLen
    BY <1>1, <2>1
  <2> QED BY <1>2, <2>2, RingFacts, UpIs
<1>4. data' \in Seq(Bytes) /\ Len(data') = Len(data) - n
  <2>1. data \in Seq(Bytes)
    BY DEF IInv, JtagTypeOK, CallType
  <2>2. n \in 0 .. Len(data)
    BY <1>1, RingFacts
  <2>3. Rest(data, n) \in Seq(Bytes) /\ Len(Rest(data, n)) = Len(data) - n
    BY <2>1, <2>2, CutIs
  <2> QED BY <1>2, <2>3
<1> QED
  BY <1>1, <1>2, <1>3, <1>4

LEMMA WritePublishKeeps ==
  ASSUME IInv, WritePublish
  PROVE  ProgramInv'
<1>1. /\ pc = "w_publish" /\ moved' = moved + n /\ n' = 0
      /\ pc' = IF Len(data) > n THEN "w_look" ELSE "w_kick"
      /\ UNCHANGED <<timeout, irq_enable, host_inactive, rx_in, rx_out, rx_buf>>
      /\ UNCHANGED <<tx_out, tx_buf, nonblock, buffer, space, in, out>>
  BY DEF WritePublish, stateVars, rxRing
<1>2. moved' \in Nat
  <2>1. moved \in Nat /\ n \in Nat
    BY DEF IInv, JtagTypeOK, CallType
  <2> QED BY <1>1, <2>1
<1>3. StateType' /\ RingType' /\ NeverGone'
  BY <1>1, WritePublishFacts DEF IInv, JtagTypeOK, StateType, RingType, NeverGone, Gone
<1>4. CallType'
  BY <1>1, <1>2, WritePublishFacts DEF IInv, JtagTypeOK, CallType, Writing
<1>5. LocalsGone' /\ ReadHolds' /\ WriteArmed' /\ ReadArmed'
  BY <1>1 DEF IInv, LocalsGone, ReadHolds, WriteArmed, ReadArmed, RxFull, Reading, Writing
<1>6. WriteHolds'
  <2>1. PICK d \in Nat : d = Len(data)
    BY RingFacts
  <2>2. PICK m \in 1 .. d : m = n
    BY <2>1, WritePublishFacts
  <2>3. Len(data') = d - m
    BY <2>1, <2>2, WritePublishFacts
  <2>4. CASE d > m
    <3>1. Len(data') # 0
      BY <2>3, <2>4
    <3>2. data' # <<>> /\ pc' = "w_look"
      BY <1>1, <2>1, <2>2, <2>4, <3>1, EmptySeq
    <3> QED BY <3>2 DEF WriteHolds
  <2>5. CASE ~(d > m)
    <3>1. Len(data') = 0
      BY <2>2, <2>3, <2>5
    <3>2. data' \in Seq(Bytes)
      BY WritePublishFacts
    <3>3. data' = <<>> /\ pc' = "w_kick"
      BY <1>1, <2>1, <2>2, <2>5, <3>1, <3>2, EmptySeq
    <3> QED BY <3>3 DEF WriteHolds
  <2> QED BY <2>4, <2>5
<1> QED
  BY <1>3, <1>4, <1>5, <1>6 DEF ProgramInv

(* A write enables the interrupt, waits, and looks again or ends. *)
LEMMA WriteKickKeeps ==
  ASSUME IInv, WriteKick \/ WriteWait \/ WriteHost
  PROVE  ProgramInv'
<1>1. /\ UNCHANGED <<timeout, host_inactive, rx_in, rx_out, rx_buf>>
      /\ UNCHANGED <<tx_in, tx_out, tx_buf, nonblock, data, buffer, space, moved>>
      /\ UNCHANGED <<in, out, n>>
      /\ pc \in {"w_kick", "w_wait", "w_host"}
      /\ pc' \in {"w_wait", "w_host", "w_look", "w_end"}
      /\ pc = "w_kick" /\ pc' # "w_end" => data # <<>>
      /\ pc = "w_kick" => pc' # "w_look" /\ "WE" \in irq_enable'
  BY DEF WriteKick, WriteWait, WriteHost, stateVars, rxRing, txRing, locals
<1>2. irq_enable' \in {irq_enable, irq_enable \cup {"WE"}}
  BY DEF WriteKick, WriteWait, WriteHost, stateVars
<1>3. StateType' /\ RingType' /\ CallType' /\ NeverGone'
  BY <1>1, <1>2
  DEF IInv, JtagTypeOK, StateType, RingType, CallType, NeverGone, Gone, Writing
<1>4. LocalsGone' /\ ReadHolds' /\ ReadArmed'
  BY <1>1, <1>2 DEF IInv, LocalsGone, ReadHolds, ReadArmed, RxFull, Reading, Writing
<1>5. WriteArmed'
  BY <1>1, <1>2 DEF IInv, WriteArmed
<1>6. WriteHolds'
  BY <1>1 DEF IInv, WriteHolds
<1> QED
  BY <1>3, <1>4, <1>5, <1>6 DEF ProgramInv

-----------------------------------------------------------------------------
(* Every step keeps the inductive invariant. *)
LEMMA InvNext == IInv /\ [Next]_vars => IInv'
<1> SUFFICES ASSUME IInv, [Next]_vars PROVE IInv'
  OBVIOUS
<1>1. CASE Host
  BY <1>1, HostKeeps
<1>2. CASE IsrStep
  <2>1. UNCHANGED <<host, pc, locals>>
    BY <1>2 DEF IsrStep
  <2> QED BY <1>2, <2>1, ReceiveKeeps, SendKeeps, QuietIsrKeeps DEF IsrStep
<1>3. CASE Tick
  BY <1>3, TickKeeps
<1>4. CASE Starts
  <2>1. Running /\ ProgramInv'
    BY <1>4, StartKeeps DEF Starts
  <2> QED BY <2>1, ProgramSuffices
<1>5. CASE Continues
  <2>1. ProgramInv'
    BY <1>5, ReadLookKeeps, ReadCopyKeeps, ReadPublishKeeps, ReadWaitKeeps, EndKeeps,
       WriteLookKeeps, WriteCopyKeeps, WritePublishKeeps, WriteKickKeeps
    DEF Continues, Continue
  <2>2. Running
    BY <1>5 DEF Continues
  <2> QED BY <2>1, <2>2, ProgramSuffices
<1>6. CASE UNCHANGED vars
  <2>1. UNCHANGED software /\ UNCHANGED <<device, host>>
    BY <1>6 DEF vars, software
  <2>2. DeviceType' /\ RoomKept'
    BY <2>1 DEF software, isrVars, device, host, IInv, JtagTypeOK, DeviceType, RoomKept
  <2> QED BY <2>1, <2>2, SoftwareFrame DEF IInv, JtagTypeOK
<1> QED
  BY <1>1, <1>2, <1>3, <1>4, <1>5, <1>6 DEF Next

LEMMA InvAlways == Spec => []IInv
  BY InvInit, InvNext, PTL DEF Spec

(* The driver's own invariant: no interrupt is lost between the program and *)
(* the interrupt routine, calls spin only for a reason, the interrupt       *)
(* routine never overruns the FIFO, a host that cannot be missed is not.    *)
THEOREM JtagCorrect == Spec => []JtagInv
<1>1. IInv => JtagInv
  <2>1. ASSUME IInv PROVE SpinsForReason
    BY <2>1 DEF IInv, ReadHolds, WriteHolds, SpinsForReason
  <2>2. ASSUME IInv PROVE RoomIsThere
    BY <2>2 DEF IInv, RoomKept, RoomIsThere
  <2> QED BY <2>1, <2>2 DEF IInv, JtagInv
<1> QED
  BY <1>1, InvAlways, PTL

-----------------------------------------------------------------------------
(* The output stream.  What is under way: the device's FIFO, then the ring. *)
OutRing == Contents(tx_buf, tx_out, tx_in)
OutQueue == txFifo \o OutRing

LEMMA OutFacts ==
  ASSUME IInv
  PROVE  /\ OutRing \in Seq(Nat) /\ Len(OutRing) = TxHeld
         /\ txFifo \in Seq(Nat) /\ Len(txFifo) \in 0 .. FifoDepth
         /\ OutQueue \in Seq(Nat) /\ Len(OutQueue) = Len(txFifo) + TxHeld
<1>1. OutRing \in Seq(Nat) /\ Len(OutRing) = TxHeld
  BY RingFacts, ContentsIs DEF OutRing, TxHeld
<1>2. txFifo \in Seq(Nat) /\ Len(txFifo) \in 0 .. FifoDepth
  <2>1. txFifo \in Seq(Nat) /\ Len(txFifo) <= FifoDepth /\ FifoDepth \in Nat
    BY JtagAssumption DEF IInv, JtagTypeOK, DeviceType
  <2> QED BY <2>1, LenProperties
<1>3. OutQueue \in Seq(Nat) /\ Len(OutQueue) = Len(txFifo) + Len(OutRing)
  BY <1>1, <1>2, ConcatProperties DEF OutQueue
<1> QED
  BY <1>1, <1>2, <1>3

(* A byte sent by the interrupt routine moves from the ring to the FIFO:    *)
(* the stream has not moved.                                                *)
LEMMA SendStutters ==
  ASSUME IInv, IsrSend
  PROVE  OutQueue' = OutQueue
<1>1. PICK f \in Seq(Nat) : f = txFifo
  BY OutFacts
<1>2. PICK r \in Seq(Nat) : r = OutRing
  BY OutFacts
<1>3. PICK b \in Nat : b = tx_buf[tx_out]
  BY SendFacts
<1>4. 1 \in 0 .. TxHeld /\ 1 <= Len(r) /\ 1 \in 0 .. Len(r)
  BY <1>2, OutFacts, SendFacts, RingFacts
<1>5. First(r, 1) = <<b>>
  <2>0. tx_out \in 0 .. BufLen - 1 /\ BufLen \in Nat /\ 1 \in Nat
    BY RingFacts DEF Slots
  <2>1. tx_out + 1 <= BufLen
    BY <2>0
  <2>2. First(r, 1) = Piece(tx_buf, tx_out, 1)
    BY <1>2, <1>4, <2>1, RingFacts, ContentsFirst DEF OutRing, TxHeld
  <2>3. /\ Piece(tx_buf, tx_out, 1) \in Seq(Nat) /\ Len(Piece(tx_buf, tx_out, 1)) = 1
        /\ \A j \in 1 .. 1 : Piece(tx_buf, tx_out, 1)[j] = tx_buf[tx_out + j - 1]
    <3>1. tx_buf \in [Slots -> Nat] /\ tx_out \in Slots
      BY RingFacts
    <3> QED BY <2>0, <2>1, <3>1, PieceIs
  <2>4. tx_out + 1 - 1 = tx_out
    BY <2>0
  <2>5. Piece(tx_buf, tx_out, 1)[1] = b
    BY <1>3, <2>3, <2>4
  <2>6. <<b>> \in Seq(Nat) /\ Len(<<b>>) = 1 /\ <<b>>[1] = b
    OBVIOUS
  <2>7. \A j \in 1 .. 1 : Piece(tx_buf, tx_out, 1)[j] = <<b>>[j]
    BY <2>5, <2>6
  <2>8. Piece(tx_buf, tx_out, 1) = <<b>>
    BY <2>3, <2>6, <2>7, SeqEqual
  <2> QED BY <2>2, <2>8
<1>6. OutRing' = Rest(r, 1)
  <2>1. tx_out' = Up(tx_out, 1) /\ tx_buf' = tx_buf /\ tx_in' = tx_in
    BY DEF IsrSend
  <2>2. Contents(tx_buf, Up(tx_out, 1), tx_in) = Rest(OutRing, 1)
    BY <1>4, RingFacts, ContentsDrop DEF OutRing, TxHeld
  <2> QED BY <1>2, <2>1, <2>2 DEF OutRing
<1>7. txFifo' = f \o <<b>>
  BY <1>1, <1>3, SendFacts, AppendIsConcat
<1>8. PICK t \in Seq(Nat) : t = Rest(r, 1)
  BY <1>4, CutIs
<1>9. r = <<b>> \o t
  BY <1>4, <1>5, <1>8, CutJoins
<1>10. (f \o <<b>>) \o t = f \o (<<b>> \o t)
  <2>1. <<b>> \in Seq(Nat)
    OBVIOUS
  <2> QED BY <2>1, ConcatAssociative
<1> QED
  BY <1>1, <1>2, <1>6, <1>7, <1>8, <1>9, <1>10 DEF OutQueue

(* The place of byte k of what a ring of L slots holds is not among the next *)
(* c free ones.                                                              *)
LEMMA PlaceFree ==
  ASSUME NEW L \in Nat, NEW i \in 0 .. L - 1, NEW o \in 0 .. L - 1, NEW c \in Nat,
         (IF i >= o THEN i - o ELSE i - o + L) + c <= L - 1, i + c <= L,
         NEW k \in 1 .. (IF i >= o THEN i - o ELSE i - o + L)
  PROVE  (IF o + (k - 1) < L THEN o + (k - 1) ELSE o + (k - 1) - L)
           \notin i .. i + c - 1
  BY SMT

(* A write's copy changes no slot the ring holds: the stream has not moved. *)
LEMMA WriteCopyStutters ==
  ASSUME IInv, WriteCopy
  PROVE  Contents(tx_buf', tx_out, tx_in) = OutRing
<1>1. /\ BufLen \in Nat /\ n \in Nat
      /\ tx_in \in 0 .. BufLen - 1 /\ tx_out \in 0 .. BufLen - 1
  BY RingFacts DEF Slots
<1>2. tx_in + n <= BufLen
  BY WriteCopyFacts
<1>3. TxHeld + n <= BufLen - 1
      /\ TxHeld = IF tx_in >= tx_out THEN tx_in - tx_out ELSE tx_in - tx_out + BufLen
  BY WriteCopyFacts, RingFacts
<1>4. ASSUME NEW k \in 1 .. TxHeld
      PROVE  tx_buf'[Up(tx_out, k - 1)] = tx_buf[Up(tx_out, k - 1)]
  <2>1. k - 1 \in 0 .. BufLen
    BY <1>1, RingFacts
  <2>2. /\ Up(tx_out, k - 1) = IF tx_out + (k - 1) < BufLen THEN tx_out + (k - 1)
                               ELSE tx_out + (k - 1) - BufLen
        /\ Up(tx_out, k - 1) \in Slots
    BY <2>1, RingFacts, UpIs
  <2>3. (IF tx_out + (k - 1) < BufLen THEN tx_out + (k - 1)
         ELSE tx_out + (k - 1) - BufLen) \notin tx_in .. tx_in + n - 1
    BY <1>1, <1>2, <1>3, PlaceFree
  <2> QED BY <2>2, <2>3, WriteCopyFacts
<1>5. \A k \in 1 .. (tx_in - tx_out) % BufLen :
        tx_buf'[Up(tx_out, k - 1)] = tx_buf[Up(tx_out, k - 1)]
  BY <1>4 DEF TxHeld
<1>6. /\ tx_buf' \in [Slots -> Nat] /\ tx_buf \in [Slots -> Nat]
      /\ tx_out \in Slots /\ tx_in \in Slots
  BY WriteCopyFacts, RingFacts
<1> QED
  BY <1>5, <1>6, ContentsFrame DEF OutRing

(* What a write publishes is put at the end of the stream, and there is room. *)
LEMMA WritePublishPuts ==
  ASSUME IInv, WritePublish, txFifo' = txFifo
  PROVE  /\ OutQueue' = OutQueue \o First(data, n)
         /\ Len(OutQueue) + n <= BufLen - 1 + FifoDepth
<1>1. PICK d \in Nat : d = Len(data) /\ n \in 1 .. d /\ n \in 0 .. d
  BY WritePublishFacts, RingFacts
<1>2. n \in Nat
  BY RingFacts
<1>3. Piece(tx_buf, tx_in, n) = First(data, n)
  <2>1. /\ Piece(tx_buf, tx_in, n) \in Seq(Nat) /\ Len(Piece(tx_buf, tx_in, n)) = n
        /\ \A j \in 1 .. n : Piece(tx_buf, tx_in, n)[j] = tx_buf[tx_in + j - 1]
    BY <1>2, WritePublishFacts, RingFacts, PieceIs
  <2>2. data \in Seq(Nat)
    <3>1. data \in Seq(Bytes) /\ Bytes \subseteq Nat
      BY JtagAssumption DEF IInv, JtagTypeOK, CallType
    <3> QED BY <3>1, SeqMonotonic
  <2>3. /\ First(data, n) \in Seq(Nat) /\ Len(First(data, n)) = n
        /\ \A j \in 1 .. n : First(data, n)[j] = data[j]
    BY <1>1, <2>2, CutIs
  <2>4. \A j \in 1 .. n : Piece(tx_buf, tx_in, n)[j] = First(data, n)[j]
    BY <2>1, <2>3, WritePublishFacts
  <2> QED BY <2>1, <2>3, <2>4, SeqEqual
<1>4. OutRing' = OutRing \o First(data, n)
  <2>1. tx_in' = Up(tx_in, n) /\ tx_out' = tx_out /\ tx_buf' = tx_buf
    BY DEF WritePublish
  <2>2. ((tx_in - tx_out) % BufLen) + n <= BufLen - 1 /\ tx_in + n <= BufLen
    BY WritePublishFacts DEF TxHeld
  <2>3. Contents(tx_buf, tx_out, Up(tx_in, n)) = OutRing \o Piece(tx_buf, tx_in, n)
    BY <1>2, <2>2, RingFacts, ContentsAdd DEF OutRing
  <2> QED BY <1>3, <2>1, <2>3 DEF OutRing
<1>5. OutQueue' = OutQueue \o First(data, n)
  <2>1. PICK f \in Seq(Nat), r \in Seq(Nat), q \in Seq(Nat) :
          f = txFifo /\ r = OutRing /\ q = First(data, n)
    BY <1>2, <1>3, WritePublishFacts, RingFacts, PieceIs, OutFacts
  <2>2. (f \o r) \o q = f \o (r \o q)
    BY ConcatAssociative
  <2> QED BY <1>4, <2>1, <2>2 DEF OutQueue
<1>6. Len(OutQueue) + n <= BufLen - 1 + FifoDepth
  <2>1. /\ TxHeld + n <= BufLen - 1 /\ TxHeld \in Nat /\ BufLen \in Nat
        /\ FifoDepth \in Nat
    BY WritePublishFacts, RingFacts, JtagAssumption
  <2>2. PICK f \in 0 .. FifoDepth : f = Len(txFifo)
    BY OutFacts
  <2>3. Len(OutQueue) = f + TxHeld
    BY <2>2, OutFacts
  <2> QED BY <1>2, <2>1, <2>3
<1> QED
  BY <1>5, <1>6

(* Every step of the driver is a step of the output stream, or none. *)
LEMMA OutputStep == IInv /\ [Next]_vars => [Output!Next]_(Output!streamVars)
<1> SUFFICES ASSUME IInv, [Next]_vars PROVE [Output!Next]_(Output!streamVars)
  OBVIOUS
<1>1. ASSUME UNCHANGED <<data, moved, hostGot>>, OutQueue' = OutQueue
      PROVE  UNCHANGED Output!streamVars
  BY <1>1 DEF Output!streamVars, OutQueue, OutRing
<1>2. ASSUME UNCHANGED <<data, moved, hostGot, txFifo, tx_in, tx_out, tx_buf>>
      PROVE  UNCHANGED Output!streamVars
  BY <1>1, <1>2 DEF OutQueue, OutRing
<1>3. ASSUME data' \in Seq(Bytes), moved' = 0, UNCHANGED <<hostGot, txFifo>>,
             UNCHANGED txRing
      PROVE  Output!Next
  <2>1. Output!Offer
    BY <1>3 DEF Output!Offer, txRing
  <2> QED BY <2>1 DEF Output!Next
<1>4. CASE Host
  <2>1. UNCHANGED <<data, moved, tx_in, tx_out, tx_buf>>
    BY <1>4 DEF Host, software, txRing, locals
  <2>2. CASE HostTake
    <3>1. PICK f \in Seq(Nat) : f = txFifo /\ f # <<>>
      BY <2>2, OutFacts DEF HostTake
    <3>2. PICK r \in Seq(Nat) : r = OutRing
      BY OutFacts
    <3>3. Len(f) \in Nat \ {0}
      BY <3>1, EmptySeq
    <3>4. 1 \in 0 .. Len(f)
      BY <3>3
    <3>5. First(f, 1) = <<Head(f)>> /\ Rest(f, 1) = Tail(f)
      <4>1. Rest(f, 1) = Tail(f)
        BY <3>1, TailIsSubSeq DEF Rest
      <4>2. First(f, 1) \in Seq(Nat) /\ Len(First(f, 1)) = 1
            /\ \A j \in 1 .. 1 : First(f, 1)[j] = f[j]
        BY <3>4, CutIs
      <4>3. Head(f) = f[1] /\ Head(f) \in Nat
        BY <3>1, HeadTailProperties
      <4>4. <<Head(f)>> \in Seq(Nat) /\ Len(<<Head(f)>>) = 1 /\ <<Head(f)>>[1] = Head(f)
        BY <4>3
      <4>5. \A j \in 1 .. 1 : First(f, 1)[j] = <<Head(f)>>[j]
        BY <4>2, <4>3, <4>4
      <4> QED BY <4>1, <4>2, <4>4, <4>5, SeqEqual
    <3>6. /\ First(f \o r, 1) = <<Head(f)>> /\ Rest(f \o r, 1) = Tail(f) \o r
      BY <3>4, <3>5, CutConcat
    <3>7. hostGot' = <<Head(f)>> /\ txFifo' = Tail(f)
      BY <2>2, <3>1 DEF HostTake
    <3>8. 1 \in 1 .. Len(OutQueue)
      <4>1. Len(OutQueue) = Len(f) + TxHeld
        BY <3>1, OutFacts
      <4>2. TxHeld \in Nat
        BY RingFacts
      <4> QED BY <3>3, <4>1, <4>2
    <3>9. Output!Take(1)
      <4>1. OutQueue = f \o r
        BY <3>1, <3>2 DEF OutQueue
      <4>2. OutQueue' = Tail(f) \o r
        BY <2>1, <3>2, <3>7 DEF OutQueue, OutRing
      <4>3. OutQueue' = Rest(OutQueue, 1) /\ hostGot' = First(OutQueue, 1)
        BY <3>6, <3>7, <4>1, <4>2
      <4> QED BY <2>1, <4>3
          DEF Output!Take, Output!First, Output!Rest, First, Rest, OutQueue, OutRing
    <3> QED BY <3>8, <3>9 DEF Output!Next, OutQueue, OutRing
  <2>3. CASE HostConnect \/ HostLeave \/ HostPoll \/ HostWants \/ HostSend
    <3>1. UNCHANGED <<hostGot, txFifo>>
      BY <2>3 DEF HostConnect, HostLeave, HostPoll, HostWants, HostSend, host, device
    <3> QED BY <1>2, <2>1, <3>1
  <2> QED BY <1>4, <2>2, <2>3 DEF Host
<1>5. CASE IsrStep
  <2>1. UNCHANGED <<data, moved, hostGot>>
    BY <1>5 DEF IsrStep, locals, host
  <2>2. CASE IsrSend
    BY <1>1, <2>1, <2>2, SendStutters
  <2>3. CASE IsrEnter \/ IsrControl \/ IsrReceive \/ IsrNoMore \/ IsrRxFull \/ IsrSent
    <3>1. UNCHANGED <<txFifo, tx_in, tx_out, tx_buf>>
      BY <2>3 DEF IsrEnter, IsrControl, IsrReceive, IsrNoMore, IsrRxFull, IsrSent, device,
         txRing
    <3> QED BY <1>2, <2>1, <3>1
  <2> QED BY <1>5, <2>2, <2>3 DEF IsrStep
<1>6. CASE Tick
  BY <1>2, <1>6 DEF Tick, txRing, host, locals
<1>7. CASE Starts
  <2>1. UNCHANGED <<hostGot, txFifo>> /\ Call
    BY <1>7 DEF Starts, Running, host, device
  <2>2. ASSUME NEW mode \in Modes, NEW k \in WriteSizes, NEW d \in [1 .. k -> Bytes],
               Write(d, mode)
        PROVE  Output!Next
    <3>1. data' \in Seq(Bytes)
      BY <2>2, JtagAssumption, FunctionIsSeq DEF Write
    <3>2. moved' = 0 /\ UNCHANGED txRing
      BY <2>2 DEF Write, IInv, LocalsGone, Writing
    <3> QED BY <1>3, <2>1, <3>1, <3>2
  <2>3. ASSUME NEW mode \in Modes, (\E k \in ReadSizes : Read(k, mode)) \/ Close(mode)
        PROVE  UNCHANGED Output!streamVars
    <3>1. UNCHANGED <<data, moved, tx_in, tx_out, tx_buf>>
      BY <2>3 DEF Read, Close, txRing
    <3> QED BY <1>2, <2>1, <3>1
  <2>4. ASSUME NEW v \in Timeouts, SetTimeout(v) PROVE UNCHANGED Output!streamVars
    <3>1. UNCHANGED <<data, moved, tx_in, tx_out, tx_buf>>
      BY <2>4 DEF SetTimeout, txRing, locals
    <3> QED BY <1>2, <2>1, <3>1
  <2> QED BY <2>1, <2>2, <2>3, <2>4 DEF Call
<1>8. CASE Continues
  <2>1. UNCHANGED <<hostGot, txFifo>> /\ Continue
    BY <1>8 DEF Continues, Running, host, device
  <2>2. CASE WriteCopy
    <3>1. UNCHANGED <<data, moved, tx_in, tx_out>>
      BY <2>2 DEF WriteCopy, locals
    <3>2. OutRing' = OutRing
      BY <2>2, <3>1, WriteCopyStutters DEF OutRing
    <3> QED BY <1>1, <2>1, <3>1, <3>2 DEF OutQueue
  <2>3. CASE WritePublish
    <3>1. n \in 1 .. Len(data)
      BY <2>3, WritePublishFacts
    <3>2. /\ OutQueue' = OutQueue \o First(data, n)
          /\ Len(OutQueue) + n <= BufLen - 1 + FifoDepth
      BY <2>1, <2>3, WritePublishPuts
    <3>3. data' = Rest(data, n) /\ moved' = moved + n
      BY <2>3 DEF WritePublish
    <3>4. Output!Put(n)
      BY <2>1, <3>2, <3>3
      DEF Output!Put, Output!First, Output!Rest, First, Rest, OutQueue, OutRing
    <3> QED BY <3>1, <3>4 DEF Output!Next
  <2>4. CASE ReadEnd \/ WriteEnd \/ CloseEnd
    <3>1. data' = <<>> /\ moved' = 0 /\ UNCHANGED txRing
      BY <2>4 DEF ReadEnd, WriteEnd, CloseEnd, Return
    <3> QED BY <1>3, <2>1, <3>1, EmptySeq
  <2>5. CASE \/ ReadLook \/ ReadCopy \/ ReadPublish \/ ReadWait \/ ReadCheck
             \/ WriteLook \/ WriteKick \/ WriteWait \/ WriteHost
    <3>1. UNCHANGED <<data, moved, tx_in, tx_out, tx_buf>>
      BY <2>5 DEF ReadLook, ReadCopy, ReadPublish, ReadWait, ReadCheck, WriteLook, WriteKick,
         WriteWait, WriteHost, txRing, locals
    <3> QED BY <1>2, <2>1, <3>1
  <2> QED BY <2>1, <2>2, <2>3, <2>4, <2>5 DEF Continue
<1>9. CASE UNCHANGED vars
  BY <1>2, <1>9 DEF vars, txRing, device, host, locals
<1> QED
  BY <1>4, <1>5, <1>6, <1>7, <1>8, <1>9 DEF Next

(* What a write counts as accepted reaches the host, each byte once, in     *)
(* order, unchanged, whatever the interrupts and however often the ring     *)
(* wraps: the output direction is a byte stream.                            *)
THEOREM OutputRefines == Spec => OutputIsStream
<1>1. Init => Output!Init
  <2> SUFFICES ASSUME Init PROVE Output!Init
    OBVIOUS
  <2>1. IInv /\ TxHeld = 0
    <3>1. IInv
      BY InvInit
    <3>2. TxHeld = IF tx_in >= tx_out THEN tx_in - tx_out ELSE tx_in - tx_out + BufLen
      BY <3>1, RingFacts
    <3> QED BY <3>1, <3>2 DEF Init
  <2>2. OutQueue \in Seq(Nat) /\ Len(OutQueue) = 0
    <3>1. Len(txFifo) = 0
      BY DEF Init
    <3> QED BY <2>1, <3>1, OutFacts
  <2>3. OutQueue = <<>>
    BY <2>2, EmptySeq
  <2> QED BY <2>3 DEF Init, NoLocals, Output!Init, OutQueue, OutRing
<1> QED
  BY <1>1, OutputStep, InvAlways, PTL DEF Spec, OutputIsStream, Output!Spec

-----------------------------------------------------------------------------
(* The input stream.  What is under way: the ring, then the device's FIFO;  *)
(* what a reader has: its buffer, without what it has not freed yet.        *)
InRing == Contents(rx_buf, rx_out, rx_in)
InQueue == InRing \o rxFifo
Got == IF pc = "r_publish" THEN First(buffer, Len(buffer) - n) ELSE buffer

LEMMA InFacts ==
  ASSUME IInv
  PROVE  /\ InRing \in Seq(Nat) /\ Len(InRing) = RxHeld
         /\ rxFifo \in Seq(Nat) /\ Len(rxFifo) \in 0 .. FifoDepth
         /\ InQueue \in Seq(Nat) /\ Len(InQueue) = RxHeld + Len(rxFifo)
<1>1. InRing \in Seq(Nat) /\ Len(InRing) = RxHeld
  BY RingFacts, ContentsIs DEF InRing, RxHeld
<1>2. rxFifo \in Seq(Nat) /\ Len(rxFifo) \in 0 .. FifoDepth
  <2>1. rxFifo \in Seq(Nat) /\ Len(rxFifo) <= FifoDepth /\ FifoDepth \in Nat
    BY JtagAssumption DEF IInv, JtagTypeOK, DeviceType
  <2> QED BY <2>1, LenProperties
<1>3. InQueue \in Seq(Nat) /\ Len(InQueue) = Len(InRing) + Len(rxFifo)
  BY <1>1, <1>2, ConcatProperties DEF InQueue
<1> QED
  BY <1>1, <1>2, <1>3

(* A byte received moves from the FIFO to the ring: the stream has not moved. *)
LEMMA ReceiveStutters ==
  ASSUME IInv, IsrReceive
  PROVE  InQueue' = InQueue
<1>1. PICK f \in Seq(Nat) : f = rxFifo /\ f # <<>>
  BY InFacts DEF IsrReceive
<1>2. PICK r \in Seq(Nat) : r = InRing
  BY InFacts
<1>3. PICK b \in Nat : b = Head(f)
  BY <1>1, HeadTailProperties
<1>4. PICK t \in Seq(Nat) : t = Tail(f)
  BY <1>1, HeadTailProperties
<1>5. /\ rx_in' = Up(rx_in, 1) /\ rx_out' = rx_out /\ rxFifo' = t
      /\ rx_buf' = [rx_buf EXCEPT ![rx_in] = b]
  BY <1>1, <1>3, <1>4 DEF IsrReceive
<1>6. /\ rx_in \in Slots /\ rx_out \in Slots /\ rx_buf \in [Slots -> Nat]
      /\ rx_buf' \in [Slots -> Nat] /\ rx_in' \in Slots
  BY RingFacts, ReceiveFacts
<1>7. /\ BufLen \in Nat /\ 1 \in Nat
      /\ rx_in \in 0 .. BufLen - 1 /\ rx_out \in 0 .. BufLen - 1
  BY RingFacts DEF Slots
<1>8. ((rx_in - rx_out) % BufLen) + 1 <= BufLen - 1
  <2>1. RxHeld \in Nat /\ RxHeld' = RxHeld + 1
    BY RingFacts, ReceiveFacts
  <2>2. RxHeld' \in 0 .. BufLen - 1
    BY <1>5, <1>6, HeldIs DEF RxHeld
  <2>3. RxHeld + 1 <= BufLen - 1
    BY <1>7, <2>1, <2>2
  <2> QED BY <2>3 DEF RxHeld
<1>9. rx_in + 1 <= BufLen
  BY <1>7
<1>10. Contents(rx_buf', rx_out, Up(rx_in, 1))
         = Contents(rx_buf', rx_out, rx_in) \o Piece(rx_buf', rx_in, 1)
  BY <1>6, <1>7, <1>8, <1>9, ContentsAdd
<1>11. Contents(rx_buf', rx_out, rx_in) = r
  <2>1. ASSUME NEW k \in 1 .. RxHeld
        PROVE  rx_buf'[Up(rx_out, k - 1)] = rx_buf[Up(rx_out, k - 1)]
    <3>1. k - 1 \in 0 .. BufLen
      BY <1>7, RingFacts
    <3>2. /\ Up(rx_out, k - 1) = IF rx_out + (k - 1) < BufLen THEN rx_out + (k - 1)
                                 ELSE rx_out + (k - 1) - BufLen
          /\ Up(rx_out, k - 1) \in Slots
      BY <3>1, RingFacts, UpIs
    <3>3. RxHeld + 1 <= BufLen - 1
      BY <1>8 DEF RxHeld
    <3>4. RxHeld = IF rx_in >= rx_out THEN rx_in - rx_out ELSE rx_in - rx_out + BufLen
      BY RingFacts
    <3>5. (IF rx_out + (k - 1) < BufLen THEN rx_out + (k - 1)
           ELSE rx_out + (k - 1) - BufLen) \notin rx_in .. rx_in + 1 - 1
      BY <1>7, <1>9, <3>3, <3>4, PlaceFree
    <3>6. rx_in \in rx_in .. rx_in + 1 - 1
      BY <1>7
    <3>7. Up(rx_out, k - 1) # rx_in
      BY <3>2, <3>5, <3>6
    <3> QED BY <1>5, <1>6, <3>2, <3>7
  <2>2. \A k \in 1 .. (rx_in - rx_out) % BufLen :
          rx_buf'[Up(rx_out, k - 1)] = rx_buf[Up(rx_out, k - 1)]
    BY <2>1 DEF RxHeld
  <2> QED BY <1>2, <1>6, <2>2, ContentsFrame DEF InRing
<1>12. Piece(rx_buf', rx_in, 1) = <<b>>
  <2>1. /\ Piece(rx_buf', rx_in, 1) \in Seq(Nat) /\ Len(Piece(rx_buf', rx_in, 1)) = 1
        /\ \A j \in 1 .. 1 : Piece(rx_buf', rx_in, 1)[j] = rx_buf'[rx_in + j - 1]
    BY <1>6, <1>7, <1>9, PieceIs
  <2>2. rx_in + 1 - 1 = rx_in
    BY <1>7
  <2>3. Piece(rx_buf', rx_in, 1)[1] = b
    <3>1. rx_buf'[rx_in] = b
      BY <1>5, <1>6
    <3> QED BY <2>1, <2>2, <3>1
  <2>4. <<b>> \in Seq(Nat) /\ Len(<<b>>) = 1 /\ <<b>>[1] = b
    OBVIOUS
  <2>5. \A j \in 1 .. 1 : Piece(rx_buf', rx_in, 1)[j] = <<b>>[j]
    BY <2>3, <2>4
  <2> QED BY <2>1, <2>4, <2>5, SeqEqual
<1>13. InRing' = r \o <<b>>
  BY <1>5, <1>10, <1>11, <1>12 DEF InRing
<1>14. f = <<b>> \o t
  <2>1. Len(f) \in Nat \ {0}
    BY <1>1, EmptySeq
  <2>2. 1 \in 1 .. Len(f) /\ Len(f) \in 1 .. Len(f)
    BY <2>1
  <2>3. SubSeq(f, 1, Len(f)) = <<f[1]>> \o SubSeq(f, 1 + 1, Len(f))
    BY <2>2, SubSeqRecursiveFirst
  <2>4. SubSeq(f, 1, Len(f)) = f /\ Tail(f) = SubSeq(f, 2, Len(f))
    BY <1>1, SubSeqFull, TailIsSubSeq
  <2>5. Head(f) = f[1]
    BY <1>1
  <2> QED BY <1>3, <1>4, <2>3, <2>4, <2>5
<1>15. (r \o <<b>>) \o t = r \o (<<b>> \o t)
  <2>1. <<b>> \in Seq(Nat)
    OBVIOUS
  <2> QED BY <2>1, ConcatAssociative
<1> QED
  BY <1>1, <1>2, <1>5, <1>13, <1>14, <1>15 DEF InQueue

(* What a read frees is what the stream gives first, and what it has copied. *)
LEMMA ReadPublishTakes ==
  ASSUME IInv, ReadPublish, rxFifo' = rxFifo
  PROVE  /\ n \in 1 .. Len(InQueue)
         /\ InQueue' = Rest(InQueue, n)
         /\ Got' = Got \o First(InQueue, n)
<1>1. /\ pc = "r_publish" /\ pc' # "r_publish" /\ buffer' = buffer
      /\ rx_out' = Up(rx_out, n) /\ rx_in' = rx_in /\ rx_buf' = rx_buf
  BY DEF ReadPublish
<1>2. /\ n \in 1 .. RxHeld /\ rx_out + n <= BufLen /\ n <= Len(buffer)
      /\ \A k \in 1 .. n : buffer[Len(buffer) - n + k] = rx_buf[rx_out + k - 1]
  BY <1>1 DEF IInv, ReadHolds
<1>3. PICK m \in Nat : m = n /\ m \in 0 .. RxHeld
  BY <1>2, RingFacts
<1>4. PICK r \in Seq(Nat) : r = InRing /\ m \in 0 .. Len(r)
  BY <1>3, InFacts
<1>5. PICK f \in Seq(Nat) : f = rxFifo
  BY InFacts
<1>6. n \in 1 .. Len(InQueue)
  <2>1. RxHeld \in Nat /\ Len(rxFifo) \in Nat /\ Len(InQueue) = RxHeld + Len(rxFifo)
    BY RingFacts, InFacts
  <2> QED BY <1>2, <2>1
<1>7. InRing' = Rest(r, m)
  <2>1. m \in 0 .. (rx_in - rx_out) % BufLen
    BY <1>3 DEF RxHeld
  <2>2. Contents(rx_buf, Up(rx_out, m), rx_in) = Rest(InRing, m)
    BY <2>1, RingFacts, ContentsDrop DEF InRing
  <2> QED BY <1>1, <1>3, <1>4, <2>2 DEF InRing
<1>8. First(r \o f, m) = First(r, m) /\ Rest(r \o f, m) = Rest(r, m) \o f
  BY <1>4, CutConcat
<1>9. InQueue' = Rest(InQueue, n)
  BY <1>3, <1>4, <1>5, <1>7, <1>8 DEF InQueue
<1>10. First(r, m) = Piece(rx_buf, rx_out, m)
  <2>1. m \in 0 .. (rx_in - rx_out) % BufLen
    BY <1>3 DEF RxHeld
  <2> QED BY <1>2, <1>3, <1>4, <2>1, RingFacts, ContentsFirst DEF InRing
<1>11. PICK c \in Nat : c = Len(buffer) /\ m <= c /\ c - m \in 0 .. c
  BY <1>2, <1>3, RingFacts
<1>12. PICK d \in 0 .. c : d = c - m /\ c - d = m
  <2>1. c - m \in 0 .. c /\ c - (c - m) = m
    BY <1>11
  <2> QED BY <2>1, Zenon
<1>13. PICK s \in Seq(Nat) : s = buffer /\ d \in 0 .. Len(s)
  BY <1>11, <1>12 DEF IInv, JtagTypeOK, CallType
<1>14. Rest(s, d) = Piece(rx_buf, rx_out, m)
  <2>1. /\ Rest(s, d) \in Seq(Nat) /\ Len(Rest(s, d)) = Len(s) - d
        /\ \A j \in 1 .. Len(s) - d : Rest(s, d)[j] = s[d + j]
    BY <1>13, CutIs
  <2>2. Len(s) - d = m
    BY <1>11, <1>12, <1>13
  <2>3. /\ Piece(rx_buf, rx_out, m) \in Seq(Nat) /\ Len(Piece(rx_buf, rx_out, m)) = m
        /\ \A j \in 1 .. m : Piece(rx_buf, rx_out, m)[j] = rx_buf[rx_out + j - 1]
    BY <1>2, <1>3, RingFacts, PieceIs
  <2>4. \A j \in 1 .. m : s[d + j] = rx_buf[rx_out + j - 1]
    BY <1>2, <1>3, <1>11, <1>12, <1>13
  <2>5. \A j \in 1 .. m : Rest(s, d)[j] = Piece(rx_buf, rx_out, m)[j]
    BY <2>1, <2>2, <2>3, <2>4
  <2> QED BY <2>1, <2>2, <2>3, <2>5, SeqEqual
<1>15. s = First(s, d) \o Rest(s, d)
  BY <1>13, CutJoins
<1>16. Got = First(s, d)
  BY <1>1, <1>3, <1>11, <1>12, <1>13 DEF Got
<1>17. Got' = s
  BY <1>1, <1>13 DEF Got
<1>18. First(InQueue, n) = Piece(rx_buf, rx_out, m)
  BY <1>3, <1>4, <1>5, <1>8, <1>10 DEF InQueue
<1> QED
  BY <1>6, <1>9, <1>14, <1>15, <1>16, <1>17, <1>18

(* Every step of the driver is a step of the input stream, or none. *)
LEMMA InputStep == IInv /\ [Next]_vars => [Input!Next]_(Input!streamVars)
<1> SUFFICES ASSUME IInv, [Next]_vars PROVE [Input!Next]_(Input!streamVars)
  OBVIOUS
<1>1. ASSUME hostNext' = hostNext, InQueue' = InQueue, Got' = Got
      PROVE  UNCHANGED Input!streamVars
  BY <1>1 DEF Input!streamVars, InQueue, InRing, Got
<1>2. ASSUME UNCHANGED <<hostNext, rxFifo, rx_in, rx_out, rx_buf>>, Got' = Got
      PROVE  UNCHANGED Input!streamVars
  BY <1>1, <1>2 DEF InQueue, InRing
<1>3. CASE Host
  <2>1. UNCHANGED <<rx_in, rx_out, rx_buf>> /\ Got' = Got
    BY <1>3 DEF Host, software, rxRing, locals, Got
  <2>2. CASE HostWants
    <3>1. PICK b \in Bytes : hostNext' = <<b>> /\ rxFifo' = rxFifo
      BY <2>2 DEF HostWants, device
    <3>2. hostNext' \in Seq(Bytes) /\ 1 - Len(hostNext') = 0
      BY <3>1
    <3>3. Input!Offer
      BY <2>1, <3>1, <3>2 DEF Input!Offer, Got
    <3> QED BY <3>3 DEF Input!Next
  <2>3. CASE HostSend
    <3>1. /\ hostNext \in Seq(Bytes) /\ Len(hostNext) <= 1 /\ hostNext # <<>>
          /\ Len(rxFifo) < FifoDepth /\ rxFifo' = rxFifo \o hostNext /\ hostNext' = <<>>
      BY <2>3 DEF HostSend, IInv, JtagTypeOK, DeviceType
    <3>2. Len(hostNext) \in Nat \ {0}
      BY <3>1, EmptySeq
    <3>3. Len(hostNext) = 1
      <4>1. Len(hostNext) <= 1
        BY <3>1
      <4> QED BY <3>2, <4>1
    <3>4. First(hostNext, 1) = hostNext /\ Rest(hostNext, 1) = <<>>
      <4>1. SubSeq(hostNext, 1, Len(hostNext)) = hostNext
        BY <3>1, SubSeqFull
      <4>2. SubSeq(hostNext, 2, 1) = <<>>
        BY SubSeqEmpty
      <4> QED BY <3>3, <4>1, <4>2 DEF First, Rest
    <3>5. InQueue' = InQueue \o hostNext
      <4>1. PICK r \in Seq(Nat), f \in Seq(Nat) : r = InRing /\ f = rxFifo
        BY InFacts
      <4>2. hostNext \in Seq(Nat)
        <5>1. Bytes \subseteq Nat
          BY JtagAssumption
        <5> QED BY <3>1, <5>1, SeqMonotonic
      <4>3. (r \o f) \o hostNext = r \o (f \o hostNext)
        BY <4>2, ConcatAssociative
      <4> QED BY <2>1, <3>1, <4>1, <4>3 DEF InQueue, InRing
    <3>6. Len(InQueue) + 1 <= BufLen - 1 + FifoDepth
      <4>1. /\ Len(InQueue) = RxHeld + Len(rxFifo) /\ Len(rxFifo) \in Nat
            /\ RxHeld \in 0 .. BufLen - 1 /\ BufLen \in Nat /\ FifoDepth \in Nat
        BY InFacts, RingFacts, JtagAssumption
      <4> QED BY <3>1, <4>1
    <3>7. Len(hostNext') = 0 /\ 1 - Len(hostNext') = (1 - Len(hostNext)) + 1
      BY <3>1, <3>3, EmptySeq
    <3>8. Input!Put(1)
      BY <2>1, <3>1, <3>4, <3>5, <3>6, <3>7
      DEF Input!Put, Input!First, Input!Rest, First, Rest, InQueue, InRing, Got
    <3>9. 1 \in 1 .. Len(hostNext)
      BY <3>3
    <3> QED BY <3>8, <3>9 DEF Input!Next
  <2>4. CASE HostConnect \/ HostLeave \/ HostPoll \/ HostTake
    <3>1. UNCHANGED <<hostNext, rxFifo>>
      BY <2>4 DEF HostConnect, HostLeave, HostPoll, HostTake, host, device
    <3> QED BY <1>2, <2>1, <3>1
  <2> QED BY <1>3, <2>2, <2>3, <2>4 DEF Host
<1>4. CASE IsrStep
  <2>1. hostNext' = hostNext /\ Got' = Got
    BY <1>4 DEF IsrStep, locals, host, Got
  <2>2. CASE IsrReceive
    BY <1>1, <2>1, <2>2, ReceiveStutters
  <2>3. CASE IsrEnter \/ IsrControl \/ IsrNoMore \/ IsrRxFull \/ IsrSend \/ IsrSent
    <3>1. UNCHANGED <<rxFifo, rx_in, rx_out, rx_buf>>
      BY <2>3 DEF IsrEnter, IsrControl, IsrNoMore, IsrRxFull, IsrSend, IsrSent, device, rxRing
    <3> QED BY <1>2, <2>1, <3>1
  <2> QED BY <1>4, <2>2, <2>3 DEF IsrStep
<1>5. CASE Tick
  BY <1>2, <1>5 DEF Tick, rxRing, host, locals, Got
<1>6. CASE Starts
  <2>1. UNCHANGED <<hostNext, rxFifo>> /\ Call
    BY <1>6 DEF Starts, Running, host, device
  <2>2. UNCHANGED <<rx_in, rx_out, rx_buf, buffer>>
        /\ (pc = "idle" /\ pc' # "r_publish")
    BY <2>1 DEF Call, Read, Write, Close, SetTimeout, rxRing, locals
  <2>3. Got' = Got
    BY <2>2 DEF Got
  <2> QED BY <1>2, <2>1, <2>2, <2>3
<1>7. CASE Continues
  <2>1. UNCHANGED <<hostNext, rxFifo>> /\ Continue
    BY <1>7 DEF Continues, Running, host, device
  <2>2. CASE ReadCopy
    <3>1. UNCHANGED <<rx_in, rx_out, rx_buf, n>> /\ pc = "r_copy" /\ pc' = "r_publish"
      BY <2>2 DEF ReadCopy, rxRing
    <3>2. PICK s \in Seq(Nat) : s = buffer
      BY DEF IInv, JtagTypeOK, CallType
    <3>3. PICK q \in Seq(Nat) : q = Piece(rx_buf, rx_out, n) /\ Len(q) = n
      BY <2>2, ReadCopyFacts
    <3>4. Len(s) \in Nat /\ Len(s) \in 0 .. Len(s) /\ n \in Nat
      BY <3>2, RingFacts
    <3>5. First(s \o q, Len(s)) = First(s, Len(s)) /\ First(s, Len(s)) = s
      <4>1. First(s \o q, Len(s)) = First(s, Len(s))
        BY <3>4, CutConcat
      <4> QED BY <4>1, SubSeqFull DEF First
    <3>6. buffer' = s \o q /\ Len(buffer') = Len(s) + n
      BY <2>2, <3>2, <3>3, ReadCopyFacts
    <3>7. Len(buffer') - n' = Len(s)
      BY <3>1, <3>4, <3>6
    <3>8. Got' = Got
      BY <3>1, <3>2, <3>5, <3>6, <3>7 DEF Got
    <3> QED BY <1>2, <2>1, <3>1, <3>8
  <2>3. CASE ReadPublish
    <3>1. /\ n \in 1 .. Len(InQueue) /\ InQueue' = Rest(InQueue, n)
          /\ Got' = Got \o First(InQueue, n)
      BY <2>1, <2>3, ReadPublishTakes
    <3>2. Input!Take(n)
      BY <2>1, <3>1
      DEF Input!Take, Input!First, Input!Rest, First, Rest, InQueue, InRing, Got
    <3> QED BY <3>1, <3>2 DEF Input!Next, InQueue, InRing
  <2>4. CASE ReadEnd \/ WriteEnd \/ CloseEnd
    <3>1. UNCHANGED <<rx_in, rx_out, rx_buf>> /\ Got' = <<>>
      BY <2>4 DEF ReadEnd, WriteEnd, CloseEnd, Return, rxRing, Got
    <3>2. Input!Collect
      BY <2>1, <3>1 DEF Input!Collect, Got
    <3> QED BY <3>2 DEF Input!Next
  <2>5. CASE \/ ReadLook \/ ReadWait \/ ReadCheck
             \/ WriteLook \/ WriteCopy \/ WritePublish \/ WriteKick \/ WriteWait
             \/ WriteHost
    <3>1. UNCHANGED <<rx_in, rx_out, rx_buf, buffer>>
          /\ pc # "r_publish" /\ pc' # "r_publish"
      BY <2>5 DEF ReadLook, ReadWait, ReadCheck, WriteLook, WriteCopy, WritePublish, WriteKick,
         WriteWait, WriteHost, rxRing, locals
    <3>2. Got' = Got
      BY <3>1 DEF Got
    <3> QED BY <1>2, <2>1, <3>1, <3>2
  <2> QED BY <2>1, <2>2, <2>3, <2>4, <2>5 DEF Continue
<1>8. CASE UNCHANGED vars
  BY <1>2, <1>8 DEF vars, rxRing, device, host, locals, Got
<1> QED
  BY <1>3, <1>4, <1>5, <1>6, <1>7, <1>8 DEF Next

(* What the host sends reaches a reader, each byte once, in order, unchanged, *)
(* whatever the interrupts and however often the ring wraps: the input       *)
(* direction is a byte stream.                                               *)
THEOREM InputRefines == Spec => InputIsStream
<1>1. Init => Input!Init
  <2> SUFFICES ASSUME Init PROVE Input!Init
    OBVIOUS
  <2>1. IInv /\ RxHeld = 0
    <3>1. IInv
      BY InvInit
    <3>2. RxHeld = IF rx_in >= rx_out THEN rx_in - rx_out ELSE rx_in - rx_out + BufLen
      BY <3>1, RingFacts
    <3> QED BY <3>1, <3>2 DEF Init
  <2>2. InQueue \in Seq(Nat) /\ Len(InQueue) = 0
    <3>1. Len(rxFifo) = 0
      BY DEF Init
    <3> QED BY <2>1, <3>1, InFacts
  <2>3. InQueue = <<>> /\ Got = <<>>
    BY <2>2, EmptySeq DEF Init, NoLocals, Got
  <2>4. hostNext = <<>> /\ 1 - Len(hostNext) \in Nat
    BY DEF Init
  <2> QED BY <2>3, <2>4 DEF Input!Init, InQueue, InRing, Got
<1> QED
  BY <1>1, InputStep, InvAlways, PTL DEF Spec, InputIsStream, Input!Spec
=============================================================================
