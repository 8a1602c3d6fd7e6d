----------------------------- MODULE DataLemmas -----------------------------
(***************************************************************************)
(* Facts about data that the proofs of the components share: division with *)
(* remainder, and induction and recursion over the natural numbers and over *)
(* sequences.  Induction is stated with sets and functions in place of      *)
(* predicates and operators, so that each use of it is an instance of       *)
(* first-order logic.                                                      *)
(***************************************************************************)
EXTENDS Integers, Sequences, SequencesExt, SequenceTheorems, WellFoundedInduction, TLAPS

(* Division with remainder, by any n. *)
LEMMA DivMod ==
  ASSUME NEW n \in Nat \ {0}, NEW a \in Int
  PROVE  /\ a \div n \in Int
         /\ a % n \in 0 .. n - 1
         /\ a = (n * (a \div n)) + (a % n)
  BY SMT

LEMMA NatDiv ==
  ASSUME NEW n \in Nat \ {0}, NEW a \in Nat
  PROVE  a \div n \in Nat
  BY SMT

(* The quotient and the remainder are the only ones. *)
LEMMA OnlyQuotient ==
  ASSUME NEW n \in Nat \ {0}, NEW q \in Int, NEW r \in 0 .. n - 1
  PROVE  (n * q + r) \div n = q /\ (n * q + r) % n = r
  BY SMT

(* A multiple more changes the quotient and not the remainder. *)
LEMMA AddMultiple ==
  ASSUME NEW n \in Nat \ {0}, NEW a \in Int, NEW k \in Int
  PROVE  (a + n * k) \div n = a \div n + k /\ (a + n * k) % n = a % n
<1> DEFINE q == a \div n
           r == a % n
<1>1. q \in Int /\ r \in 0 .. n - 1 /\ a = n * q + r
  BY DivMod
<1> HIDE DEF q, r
<1>2. PICK p \in Int : p = q + k
  BY <1>1
<1>3. n * p = n * q + n * k
  BY <1>1, <1>2
<1>4. n * q \in Int /\ n * k \in Int /\ n * p \in Int
  BY <1>1, <1>2
<1>5. a + n * k = n * p + r
  BY <1>1, <1>3, <1>4
<1>6. (n * p + r) \div n = p /\ (n * p + r) % n = r
  BY <1>1, <1>2, OnlyQuotient
<1> QED BY <1>2, <1>5, <1>6 DEF q, r

Congruent(n, a, b) == \E k \in Int : a = b + n * k

LEMMA SameRemainder ==
  ASSUME NEW n \in Nat \ {0}, NEW a \in Int, NEW b \in Int, Congruent(n, a, b)
  PROVE  a % n = b % n
<1> PICK k \in Int : a = b + n * k
  BY DEF Congruent
<1>1. (b + n * k) % n = b % n
  BY AddMultiple
<1> QED BY <1>1

LEMMA SmallRemainder ==
  ASSUME NEW n \in Nat \ {0}, NEW r \in 0 .. n - 1
  PROVE  r \div n = 0 /\ r % n = r
<1>1. 0 \in Int /\ n * 0 + r = r
  OBVIOUS
<1>2. (n * 0 + r) \div n = 0 /\ (n * 0 + r) % n = r
  BY <1>1, OnlyQuotient
<1> QED BY <1>1, <1>2

(* Products keep the order. *)
LEMMA ProductOrder ==
  ASSUME NEW n \in Nat \ {0}, NEW a \in Int, NEW b \in Int
  PROVE  /\ a <= b => n * a <= n * b
         /\ a < b => n * a < n * b /\ n * a + n <= n * b
         /\ n * a < n * b => a < b
  BY SMT

LEMMA QuotientOrder ==
  ASSUME NEW n \in Nat \ {0}, NEW a \in Int, NEW b \in Int, a <= b
  PROVE  a \div n <= b \div n
<1> DEFINE q == a \div n
           p == b \div n
<1>1. /\ q \in Int /\ a % n \in 0 .. n - 1 /\ a = (n * q) + (a % n)
      /\ p \in Int /\ b % n \in 0 .. n - 1 /\ b = (n * p) + (b % n)
  BY DivMod
<1> HIDE DEF q, p
<1>2. ~ (p < q)
  <2> SUFFICES ASSUME p < q PROVE FALSE
    OBVIOUS
  <2>1. n * p + n <= n * q
    BY <1>1, ProductOrder
  <2>2. PICK x \in Int, y \in Int, r \in 0 .. n - 1, s \in 0 .. n - 1 :
          x = n * p /\ y = n * q /\ r = a % n /\ s = b % n
    BY <1>1
  <2>3. a = y + r /\ b = x + s /\ x + n <= y
    BY <1>1, <2>1, <2>2
  <2> QED BY <2>3
<1>3. p >= q
  BY <1>1, <1>2
<1> QED BY <1>3 DEF q, p

(* Dividing by n and then by m divides by n * m. *)
Nested(n, m, a) ==
  /\ (a \div n) \div m = a \div (n * m)
  /\ (a % (n * m)) \div n = (a \div n) % m
  /\ (a % (n * m)) % n = a % n

LEMMA NestedQuotient ==
  ASSUME NEW n \in Nat \ {0}, NEW m \in Nat \ {0}, NEW a \in Nat
  PROVE  n * m \in Nat \ {0} /\ Nested(n, m, a)
<1>1. PICK nm \in Nat \ {0} : nm = n * m
  <2>1. n * 1 <= n * m
    BY ProductOrder
  <2>2. n * m \in Int /\ n * 1 = n
    OBVIOUS
  <2> QED BY <2>1, <2>2
<1>2. PICK q \in Int, r \in 0 .. n - 1 : q = a \div n /\ r = a % n /\ a = n * q + r
  BY DivMod
<1>3. PICK s \in Int, t \in 0 .. m - 1 : s = q \div m /\ t = q % m /\ q = m * s + t
  BY DivMod
<1>4. PICK x \in Int : x = n * t
  OBVIOUS
<1>5. x + r \in 0 .. nm - 1
  <2>1. n * t + n <= n * m
    BY ProductOrder
  <2>2. n * 0 <= n * t
    BY ProductOrder
  <2>3. n * 0 = 0
    OBVIOUS
  <2> QED BY <1>1, <1>4, <2>1, <2>2, <2>3
<1>6. a = nm * s + (x + r)
  <2>1. n * q = n * (m * s) + n * t
    BY <1>3
  <2>2. n * (m * s) = nm * s
    BY <1>1
  <2>3. PICK y \in Int : y = nm * s
    OBVIOUS
  <2>4. n * q = y + x
    BY <1>4, <2>1, <2>2, <2>3
  <2> QED BY <1>2, <2>3, <2>4
<1>7. a \div nm = s /\ a % nm = x + r
  <2>1. (nm * s + (x + r)) \div nm = s /\ (nm * s + (x + r)) % nm = x + r
    BY <1>5, OnlyQuotient
  <2> QED BY <1>6, <2>1
<1>8. (x + r) \div n = t /\ (x + r) % n = r
  <2>1. (n * t + r) \div n = t /\ (n * t + r) % n = r
    BY OnlyQuotient
  <2> QED BY <1>4, <2>1
<1> QED BY <1>1, <1>2, <1>3, <1>7, <1>8 DEF Nested

-----------------------------------------------------------------------------
(* Every set of natural numbers that is not empty has a least one. *)
LEMMA LeastNat ==
  ASSUME NEW S, S \subseteq Nat, NEW s \in S
  PROVE  \E m \in S : \A k \in S : m <= k
<1>1. PICK m \in S : \A k \in S : ~ (<<k, m>> \in OpToRel(<, Nat))
  BY WFMin, NatLessThanWellFounded
<1>2. \A k \in S : ~ (k < m)
  BY <1>1 DEF OpToRel
<1> QED BY <1>2

(* Induction, where every smaller number may be used. *)
LEMMA StrongInduction ==
  ASSUME NEW S, \A n \in Nat : (\A m \in 0 .. n - 1 : m \in S) => n \in S
  PROVE  \A n \in Nat : n \in S
<1> SUFFICES ASSUME NEW x \in Nat, x \notin S PROVE FALSE
  OBVIOUS
<1> DEFINE Bad == {n \in Nat : n \notin S}
<1>1. Bad \subseteq Nat /\ x \in Bad
  OBVIOUS
<1>2. PICK m \in Bad : \A k \in Bad : m <= k
  BY <1>1, LeastNat
<1>3. m \in Nat /\ m \notin S
  BY <1>2
<1>4. \A k \in 0 .. m - 1 : k \in S
  BY <1>2, <1>3
<1> QED BY <1>3, <1>4

LEMMA Induction ==
  ASSUME NEW S, 0 \in S, \A n \in Nat : n \in S => n + 1 \in S
  PROVE  \A n \in Nat : n \in S
<1>1. ASSUME NEW n \in Nat, \A m \in 0 .. n - 1 : m \in S
      PROVE  n \in S
  <2>1. CASE n = 0
    BY <2>1
  <2>2. CASE n # 0
    <3>1. n - 1 \in Nat /\ n - 1 \in 0 .. n - 1 /\ (n - 1) + 1 = n
      BY <2>2
    <3>2. n - 1 \in S
      BY <1>1, <3>1
    <3> QED BY <3>1, <3>2
  <2> QED BY <2>1, <2>2
<1> QED BY <1>1, StrongInduction

-----------------------------------------------------------------------------
(* A function given below cut and from there on by its value at a smaller
   number exists: f[n] = first[n] for n < cut, and step[<<n, f[before[n]]>>]
   otherwise.  Prefixes of it exist by induction, and agree. *)
Recurs(f, cut, first, step, before) == \A n \in Nat :
  f[n] = IF n < cut THEN first[n] ELSE step[<<n, f[before[n]]>>]

LEMMA RecursiveFunction ==
  ASSUME NEW T, NEW cut \in Nat \ {0}, NEW first \in [Nat -> T],
         NEW step \in [Nat \X T -> T], NEW before \in [Nat -> Nat],
         \A n \in Nat : n >= cut => before[n] < n
  PROVE  \E f \in [Nat -> T] : Recurs(f, cut, first, step, before)
<1> DEFINE Follows(g, n) == \A m \in 0 .. n :
             g[m] = IF m < cut THEN first[m] ELSE step[<<m, g[before[m]]>>]
           Reached == {n \in Nat : \E g \in [0 .. n -> T] : Follows(g, n)}
<1>1. 0 \in Reached
  <2>1. [m \in 0 .. 0 |-> first[0]] \in [0 .. 0 -> T]
    OBVIOUS
  <2>2. Follows([m \in 0 .. 0 |-> first[0]], 0)
    OBVIOUS
  <2> QED BY <2>1, <2>2
<1>2. ASSUME NEW n \in Nat, n \in Reached
      PROVE  n + 1 \in Reached
  <2>1. PICK g \in [0 .. n -> T] : Follows(g, n)
    BY <1>2
  <2> DEFINE v == IF n + 1 < cut THEN first[n + 1] ELSE step[<<n + 1, g[before[n + 1]]>>]
             h == [m \in 0 .. n + 1 |-> IF m <= n THEN g[m] ELSE v]
  <2>2. v \in T
    <3>1. CASE n + 1 < cut
      BY <3>1
    <3>2. CASE ~ (n + 1 < cut)
      <4>1. n + 1 \in Nat /\ before[n + 1] \in 0 .. n
        BY <3>2
      <4>2. <<n + 1, g[before[n + 1]]>> \in Nat \X T
        BY <4>1
      <4> QED BY <3>2, <4>2
    <3> QED BY <3>1, <3>2
  <2> HIDE DEF v
  <2>3. h \in [0 .. n + 1 -> T]
    BY <2>2
  <2>4. \A m \in 0 .. n : h[m] = g[m]
    OBVIOUS
  <2>5. \A m \in 0 .. n + 1 : m >= cut => before[m] \in 0 .. n
    OBVIOUS
  <2>6. ASSUME NEW m \in 0 .. n
        PROVE  h[m] = IF m < cut THEN first[m] ELSE step[<<m, h[before[m]]>>]
    <3>1. h[m] = IF m < cut THEN first[m] ELSE step[<<m, g[before[m]]>>]
      BY <2>1, <2>4
    <3> HIDE DEF h
    <3>2. m >= cut => h[before[m]] = g[before[m]]
      <4>1. m \in 0 .. n + 1 /\ m \in Nat
        OBVIOUS
      <4>2. m >= cut => before[m] < m /\ before[m] \in Nat
        BY <4>1
      <4>3. m >= cut => before[m] \in 0 .. n
        BY <4>2
      <4> QED BY <2>4, <4>3
    <3>3. CASE m < cut
      BY <3>1, <3>3
    <3>4. CASE ~ (m < cut)
      <4>1. h[m] = step[<<m, g[before[m]]>>]
        BY <3>1, <3>4
      <4>2. h[before[m]] = g[before[m]]
        BY <3>2, <3>4
      <4> QED BY <3>4, <4>1, <4>2
    <3> QED BY <3>3, <3>4
  <2>7. h[n + 1] = IF n + 1 < cut THEN first[n + 1] ELSE step[<<n + 1, h[before[n + 1]]>>]
    <3>1. h[n + 1] = v
      OBVIOUS
    <3>2. ~ (n + 1 < cut) => h[before[n + 1]] = g[before[n + 1]]
      BY <2>4, <2>5
    <3> HIDE DEF h
    <3>3. CASE n + 1 < cut
      BY <3>1, <3>3 DEF v
    <3>4. CASE ~ (n + 1 < cut)
      BY <3>1, <3>2, <3>4 DEF v
    <3> QED BY <3>3, <3>4
  <2>8. Follows(h, n + 1)
    <3> HIDE DEF h
    <3> SUFFICES ASSUME NEW m \in 0 .. n + 1
                 PROVE  h[m] = IF m < cut THEN first[m] ELSE step[<<m, h[before[m]]>>]
      OBVIOUS
    <3>1. CASE m = n + 1
      BY <2>7, <3>1
    <3>2. CASE m \in 0 .. n
      BY <2>6, <3>2
    <3> QED BY <3>1, <3>2
  <2> HIDE DEF h, Follows
  <2> QED BY <2>3, <2>8
<1>3. \A n \in Nat : n \in Reached
  <2> HIDE DEF Reached
  <2> QED BY <1>1, <1>2, Induction
<1> DEFINE G(n) == CHOOSE g \in [0 .. n -> T] : Follows(g, n)
           f == [n \in Nat |-> G(n)[n]]
<1>4. \A n \in Nat : G(n) \in [0 .. n -> T] /\ Follows(G(n), n)
  BY <1>3
<1> HIDE DEF G
<1>5. ASSUME NEW a \in Nat, NEW b \in Nat
      PROVE  \A k \in Nat : k <= a /\ k <= b => G(a)[k] = G(b)[k]
  <2> DEFINE Same == {k \in Nat : k <= a /\ k <= b => G(a)[k] = G(b)[k]}
  <2>1. ASSUME NEW k \in Nat, \A m \in 0 .. k - 1 : m \in Same
        PROVE  k \in Same
    <3> SUFFICES ASSUME k <= a, k <= b PROVE G(a)[k] = G(b)[k]
      OBVIOUS
    <3>1. k \in 0 .. a /\ k \in 0 .. b
      OBVIOUS
    <3>2. /\ G(a)[k] = IF k < cut THEN first[k] ELSE step[<<k, G(a)[before[k]]>>]
          /\ G(b)[k] = IF k < cut THEN first[k] ELSE step[<<k, G(b)[before[k]]>>]
      BY <1>4, <3>1
    <3>3. k >= cut => before[k] \in 0 .. k - 1
      OBVIOUS
    <3>4. k >= cut => G(a)[before[k]] = G(b)[before[k]]
      BY <2>1, <3>3
    <3> QED BY <3>2, <3>4
  <2> HIDE DEF Same
  <2>2. \A k \in Nat : k \in Same
    BY <2>1, StrongInduction
  <2> QED BY <2>2 DEF Same
<1>6. f \in [Nat -> T]
  BY <1>4
<1>7. ASSUME NEW n \in Nat
      PROVE  f[n] = IF n < cut THEN first[n] ELSE step[<<n, f[before[n]]>>]
  <2>1. f[n] = IF n < cut THEN first[n] ELSE step[<<n, G(n)[before[n]]>>]
    <3>1. n \in 0 .. n /\ f[n] = G(n)[n]
      OBVIOUS
    <3>2. G(n)[n] = IF n < cut THEN first[n] ELSE step[<<n, G(n)[before[n]]>>]
      BY <1>4, <3>1
    <3> QED BY <3>1, <3>2
  <2>2. n >= cut => /\ before[n] \in Nat /\ before[n] <= n
                    /\ f[before[n]] = G(before[n])[before[n]]
    <3>1. before[n] \in Nat
      OBVIOUS
    <3>2. f[before[n]] = G(before[n])[before[n]]
      BY <3>1
    <3> QED BY <3>1, <3>2
  <2>3. n >= cut => G(before[n])[before[n]] = G(n)[before[n]]
    BY <1>5, <2>2
  <2> HIDE DEF f
  <2>4. CASE n < cut
    BY <2>1, <2>4
  <2>5. CASE ~ (n < cut)
    BY <2>1, <2>2, <2>3, <2>5
  <2> QED BY <2>4, <2>5
<1> HIDE DEF f
<1> QED BY <1>6, <1>7 DEF Recurs

-----------------------------------------------------------------------------
(* FlattenSeq of the community modules puts a sequence of sequences together
   from the left, one by one.  Cat keeps \o closed to the provers, which take
   it for the definition of each item otherwise. *)
Cat(a, b) == a \o b

Puts(f, ss, n) ==
  /\ n > 0 => f[1] = ss[1]
  /\ \A i \in 2 .. n : f[i] = Cat(f[i - 1], ss[i])

LEMMA ItemsOf ==
  ASSUME NEW S, NEW ss \in Seq(S)
  PROVE  /\ Len(ss) \in Nat
         /\ DOMAIN ss = 1 .. Len(ss)
         /\ \A k \in 1 .. Len(ss) : ss[k] \in S
BY ElementOfSeq, LenProperties

LEMMA PutsExists ==
  ASSUME NEW S, NEW n \in Nat \ {0}, NEW ss, \A k \in 1 .. n : ss[k] \in Seq(S)
  PROVE  \E f \in [1 .. n -> Seq(S)] : Puts(f, ss, n)
<1> DEFINE Piece(k) == IF k \in 1 .. n THEN ss[k] ELSE <<>>
           first == [k \in Nat |-> Piece(k)]
           step == [p \in Nat \X Seq(S) |-> p[2] \o Piece(p[1])]
           before == [k \in Nat |-> IF k = 0 THEN 0 ELSE k - 1]
<1>1. \A k : Piece(k) \in Seq(S)
  OBVIOUS
<1>2. \A k \in 1 .. n : Piece(k) = ss[k]
  OBVIOUS
<1> HIDE DEF Piece
<1>3. first \in [Nat -> Seq(S)]
  BY <1>1
<1>4. step \in [Nat \X Seq(S) -> Seq(S)]
  BY <1>1
<1>5. before \in [Nat -> Nat] /\ \A k \in Nat : k >= 2 => before[k] < k
  OBVIOUS
<1> HIDE DEF first, step, before
<1>6. PICK h \in [Nat -> Seq(S)] : Recurs(h, 2, first, step, before)
  <2>1. 2 \in Nat \ {0}
    OBVIOUS
  <2> QED BY <1>3, <1>4, <1>5, <2>1, RecursiveFunction
<1> DEFINE f == [k \in 1 .. n |-> h[k]]
<1>7. f \in [1 .. n -> Seq(S)]
  OBVIOUS
<1>8. f[1] = ss[1]
  <2>1. 1 \in Nat /\ 1 < 2 /\ 1 \in 1 .. n
    OBVIOUS
  <2>2. h[1] = first[1]
    BY <1>6, <2>1 DEF Recurs
  <2> QED BY <1>2, <2>1, <2>2 DEF first
<1>9. ASSUME NEW k \in 2 .. n
      PROVE  f[k] = Cat(f[k - 1], ss[k])
  <2>1. k \in Nat /\ ~ (k < 2) /\ k - 1 \in Nat /\ k - 1 \in 1 .. n /\ k \in 1 .. n
    OBVIOUS
  <2>2. before[k] = k - 1
    BY <2>1 DEF before
  <2>3. h[k] = step[<<k, h[k - 1]>>]
    BY <1>6, <2>1, <2>2 DEF Recurs
  <2>4. step[<<k, h[k - 1]>>] = h[k - 1] \o Piece(k)
    BY <2>1 DEF step
  <2> QED BY <1>2, <2>1, <2>3, <2>4 DEF Cat
<1> HIDE DEF f
<1> QED BY <1>7, <1>8, <1>9 DEF Puts

LEMMA PutsUnique ==
  ASSUME NEW n \in Nat, NEW ss, NEW f, NEW g, Puts(f, ss, n), Puts(g, ss, n)
  PROVE  \A k \in 1 .. n : f[k] = g[k]
<1> DEFINE Same == {k \in Nat : k \in 1 .. n => f[k] = g[k]}
<1>1. 0 \in Same
  OBVIOUS
<1>2. ASSUME NEW k \in Nat, k \in Same
      PROVE  k + 1 \in Same
  <2> SUFFICES ASSUME k + 1 \in 1 .. n PROVE f[k + 1] = g[k + 1]
    OBVIOUS
  <2>1. CASE k = 0
    BY <2>1 DEF Puts
  <2>2. CASE k # 0
    <3>1. k \in 1 .. n /\ k + 1 \in 2 .. n /\ (k + 1) - 1 = k
      BY <2>2
    <3> QED BY <1>2, <3>1 DEF Puts
  <2> QED BY <2>1, <2>2
<1> HIDE DEF Same
<1>3. \A k \in Nat : k \in Same
  BY <1>1, <1>2, Induction
<1>4. \A k \in 1 .. n : k \in Nat
  OBVIOUS
<1> QED BY <1>3, <1>4 DEF Same

LEMMA PutsLonger ==
  ASSUME NEW n \in Nat \ {0}, NEW ss, NEW tt, NEW f, NEW g,
         Puts(f, tt, n + 1), Puts(g, ss, n), \A k \in 1 .. n : tt[k] = ss[k]
  PROVE  f[n + 1] = Cat(g[n], tt[n + 1])
<1>1. Puts(f, ss, n)
  <2>1. f[1] = ss[1]
    <3>1. n + 1 > 0 /\ 1 \in 1 .. n
      OBVIOUS
    <3> QED BY <3>1 DEF Puts
  <2>2. ASSUME NEW k \in 2 .. n
        PROVE  f[k] = Cat(f[k - 1], ss[k])
    <3>1. k \in 2 .. n + 1 /\ k \in 1 .. n
      OBVIOUS
    <3> QED BY <3>1 DEF Puts
  <2> QED BY <2>1, <2>2 DEF Puts
<1>2. f[n] = g[n]
  <2>1. n \in 1 .. n
    OBVIOUS
  <2> QED BY <1>1, <2>1, PutsUnique
<1>3. f[n + 1] = Cat(f[n], tt[n + 1])
  <2>1. n + 1 \in 2 .. n + 1 /\ (n + 1) - 1 = n
    OBVIOUS
  <2>2. f[n + 1] = Cat(f[(n + 1) - 1], tt[n + 1])
    BY <2>1 DEF Puts
  <2> QED BY <2>1, <2>2
<1> QED BY <1>2, <1>3

LEMMA FlattenIsLast ==
  ASSUME NEW n \in Nat \ {0}, NEW ss, Len(ss) = n, NEW T, NEW f \in [1 .. n -> T],
         Puts(f, ss, n)
  PROVE  FlattenSeq(ss) = f[n]
<1> DEFINE F(g) == [i \in 1 .. Len(ss) |-> IF i = 1 THEN ss[i] ELSE Cat(g[i - 1], ss[i])]
           V == CHOOSE g : g = F(g)
<1>1. FlattenSeq(ss) = V[n]
  BY DEF FlattenSeq, Cat
<1>2. ASSUME NEW k \in 1 .. n
      PROVE  f[k] = IF k = 1 THEN ss[k] ELSE Cat(f[k - 1], ss[k])
  <2>1. CASE k = 1
    BY <2>1 DEF Puts
  <2>2. CASE k # 1
    <3>1. k \in 2 .. n
      BY <2>2
    <3> QED BY <2>2, <3>1 DEF Puts
  <2> QED BY <2>1, <2>2
<1>3. f = F(f)
  BY <1>2
<1> HIDE DEF F
<1>4. V = F(V)
  BY <1>3
<1> HIDE DEF V
<1>5. \A k \in 1 .. n : V[k] = IF k = 1 THEN ss[k] ELSE Cat(V[k - 1], ss[k])
  BY <1>4 DEF F
<1>6. Puts(V, ss, n)
  <2>1. 1 \in 1 .. n /\ \A k \in 2 .. n : k \in 1 .. n /\ k # 1
    OBVIOUS
  <2>2. V[1] = ss[1]
    BY <1>5, <2>1
  <2>3. \A k \in 2 .. n : V[k] = Cat(V[k - 1], ss[k])
    BY <1>5, <2>1
  <2> QED BY <2>2, <2>3 DEF Puts
<1>7. V[n] = f[n]
  BY <1>6, PutsUnique
<1> QED BY <1>1, <1>7

LEMMA FlattenByPuts ==
  ASSUME NEW S, NEW ss \in Seq(Seq(S)), Len(ss) > 0
  PROVE  \E f \in [1 .. Len(ss) -> Seq(S)] :
           Puts(f, ss, Len(ss)) /\ FlattenSeq(ss) = f[Len(ss)]
<1>1. Len(ss) \in Nat \ {0} /\ \A k \in 1 .. Len(ss) : ss[k] \in Seq(S)
  BY ItemsOf
<1>2. PICK f \in [1 .. Len(ss) -> Seq(S)] : Puts(f, ss, Len(ss))
  BY <1>1, PutsExists
<1> QED BY <1>1, <1>2, FlattenIsLast

LEMMA FlattenEmpty == FlattenSeq(<<>>) = <<>>
BY DEF FlattenSeq

LEMMA FlattenType ==
  ASSUME NEW S, NEW ss \in Seq(Seq(S))
  PROVE  FlattenSeq(ss) \in Seq(S)
<1>1. Len(ss) \in Nat
  BY ItemsOf
<1>2. CASE Len(ss) = 0
  <2>1. ss = <<>>
    BY <1>2, EmptySeq
  <2>2. FlattenSeq(ss) = <<>>
    BY <2>1, FlattenEmpty
  <2> QED BY <2>2, EmptySeq
<1>3. CASE Len(ss) > 0
  <2>1. PICK f \in [1 .. Len(ss) -> Seq(S)] : FlattenSeq(ss) = f[Len(ss)]
    BY <1>3, FlattenByPuts
  <2>2. Len(ss) \in 1 .. Len(ss)
    BY <1>1, <1>3
  <2> QED BY <2>1, <2>2
<1> QED BY <1>1, <1>2, <1>3

LEMMA FlattenAppend ==
  ASSUME NEW S, NEW ss \in Seq(Seq(S)), NEW s \in Seq(S)
  PROVE  FlattenSeq(Append(ss, s)) = FlattenSeq(ss) \o s
<1> DEFINE n == Len(ss)
           tt == Append(ss, s)
<1>1. /\ n \in Nat /\ tt \in Seq(Seq(S)) /\ Len(tt) = n + 1 /\ tt[n + 1] = s
      /\ \A k \in 1 .. n : tt[k] = ss[k]
  BY AppendProperties, ItemsOf
<1> HIDE DEF tt
<1>2. PICK f : Puts(f, tt, n + 1) /\ FlattenSeq(tt) = f[n + 1]
  <2>1. Len(tt) > 0
    BY <1>1
  <2>2. PICK f \in [1 .. Len(tt) -> Seq(S)] :
          Puts(f, tt, Len(tt)) /\ FlattenSeq(tt) = f[Len(tt)]
    BY <1>1, <2>1, FlattenByPuts
  <2> QED BY <1>1, <2>2
<1>3. CASE n = 0
  <2>1. ss = <<>>
    BY <1>3, EmptySeq
  <2>2. f[1] = s
    BY <1>1, <1>2, <1>3 DEF Puts
  <2>3. FlattenSeq(ss) = <<>>
    BY <2>1, FlattenEmpty
  <2>4. <<>> \o s = s
    BY ConcatEmptySeq
  <2> QED BY <1>2, <1>3, <2>2, <2>3, <2>4 DEF tt
<1>4. CASE n > 0
  <2>1. PICK g : Puts(g, ss, n) /\ FlattenSeq(ss) = g[n]
    BY <1>4, FlattenByPuts
  <2>2. f[n + 1] = Cat(g[n], tt[n + 1])
    <3>1. n \in Nat \ {0}
      BY <1>1, <1>4
    <3>2. Puts(f, tt, n + 1)
      BY <1>2
    <3>3. Puts(g, ss, n)
      BY <2>1
    <3>4. \A k \in 1 .. n : tt[k] = ss[k]
      BY <1>1
    <3> HIDE DEF n
    <3> QED BY <3>1, <3>2, <3>3, <3>4, PutsLonger
  <2> QED BY <1>1, <1>2, <2>1, <2>2 DEF tt, Cat
<1> QED BY <1>1, <1>3, <1>4

(* Two sets of sequences: one that has the empty sequence, and with a sequence
   those that are longer by an item at the end, has them all. *)
LEMMA SequenceInduction ==
  ASSUME NEW S, NEW T, <<>> \in T,
         \A s \in Seq(S), e \in S : s \in T => Append(s, e) \in T
  PROVE  \A s \in Seq(S) : s \in T
<1> DEFINE Long == {n \in Nat : \A s \in Seq(S) : Len(s) = n => s \in T}
<1>1. 0 \in Long
  BY EmptySeq
<1>2. ASSUME NEW n \in Nat, n \in Long
      PROVE  n + 1 \in Long
  <2> SUFFICES ASSUME NEW s \in Seq(S), Len(s) = n + 1 PROVE s \in T
    OBVIOUS
  <2>1. s # <<>>
    BY EmptySeq
  <2>2. PICK u \in Seq(S), e \in S : s = Append(u, e)
    BY <2>1, SequenceEmptyOrAppend
  <2>3. Len(u) = n
    <3>1. Len(u) \in Nat /\ Len(s) = Len(u) + 1
      BY <2>2, AppendProperties, LenProperties
    <3> QED BY <3>1
  <2>4. u \in T
    BY <1>2, <2>3
  <2> QED BY <2>2, <2>4
<1> HIDE DEF Long
<1>3. \A n \in Nat : n \in Long
  BY <1>1, <1>2, Induction
<1>4. \A s \in Seq(S) : Len(s) \in Nat
  BY LenProperties
<1> QED BY <1>3, <1>4 DEF Long

LEMMA FlattenOne ==
  ASSUME NEW S, NEW s \in Seq(S)
  PROVE  FlattenSeq(<<s>>) = s
<1>1. <<>> \in Seq(Seq(S)) /\ Append(<<>>, s) = <<s>>
  OBVIOUS
<1>2. FlattenSeq(Append(<<>>, s)) = FlattenSeq(<<>>) \o s
  BY <1>1, FlattenAppend
<1>3. <<>> \o s = s
  BY ConcatEmptySeq
<1> QED BY <1>1, <1>2, <1>3, FlattenEmpty

LEMMA FlattenCons ==
  ASSUME NEW S, NEW s \in Seq(S), NEW ss \in Seq(Seq(S))
  PROVE  FlattenSeq(<<s>> \o ss) = s \o FlattenSeq(ss)
<1> DEFINE T == {tt \in Seq(Seq(S)) : FlattenSeq(<<s>> \o tt) = s \o FlattenSeq(tt)}
<1>1. <<s>> \in Seq(Seq(S))
  OBVIOUS
<1>2. <<>> \in T
  <2>1. <<>> \in Seq(Seq(S)) /\ <<s>> \o <<>> = <<s>>
    BY <1>1, ConcatEmptySeq
  <2>2. s \o <<>> = s
    BY ConcatEmptySeq
  <2> QED BY <2>1, <2>2, FlattenOne, FlattenEmpty
<1>3. ASSUME NEW tt \in Seq(Seq(S)), NEW e \in Seq(S), tt \in T
      PROVE  Append(tt, e) \in T
  <2>1. <<s>> \o tt \in Seq(Seq(S)) /\ Append(tt, e) \in Seq(Seq(S))
    BY <1>1, ConcatProperties, AppendProperties
  <2>2. <<s>> \o Append(tt, e) = Append(<<s>> \o tt, e)
    <3>1. <<e>> \in Seq(Seq(S)) /\ Append(tt, e) = tt \o <<e>>
      BY AppendIsConcat
    <3>2. (<<s>> \o tt) \o <<e>> = <<s>> \o (tt \o <<e>>)
      BY <1>1, <3>1, ConcatAssociative
    <3>3. Append(<<s>> \o tt, e) = (<<s>> \o tt) \o <<e>>
      BY <2>1, AppendIsConcat
    <3> QED BY <3>1, <3>2, <3>3
  <2>3. FlattenSeq(Append(<<s>> \o tt, e)) = FlattenSeq(<<s>> \o tt) \o e
    BY <2>1, FlattenAppend
  <2>4. FlattenSeq(Append(tt, e)) = FlattenSeq(tt) \o e
    BY FlattenAppend
  <2>5. PICK f \in Seq(S) : f = FlattenSeq(tt)
    BY FlattenType
  <2>6. FlattenSeq(<<s>> \o tt) = s \o f
    BY <1>3, <2>5
  <2>7. (s \o f) \o e = s \o (f \o e)
    BY ConcatAssociative
  <2> QED BY <2>1, <2>2, <2>3, <2>4, <2>5, <2>6, <2>7
<1> HIDE DEF T
<1>4. \A tt \in Seq(Seq(S)) : tt \in T
  BY <1>2, <1>3, SequenceInduction
<1> QED BY <1>4 DEF T

(* A sequence, by its first item and the others. *)
LEMMA ConsOf ==
  ASSUME NEW S, NEW s \in Seq(S), s # <<>>
  PROVE  /\ Head(s) \in S /\ Tail(s) \in Seq(S)
         /\ s = <<Head(s)>> \o Tail(s)
<1> PICK n \in Nat \ {0} : n = Len(s)
  BY EmptySeq
<1>1. 1 \in 1 .. Len(s) /\ Len(s) \in 1 .. Len(s) /\ 1 + 1 = 2
  OBVIOUS
<1>2. SubSeq(s, 1, Len(s)) = <<s[1]>> \o SubSeq(s, 2, Len(s))
  BY <1>1, SubSeqRecursiveFirst
<1>3. SubSeq(s, 1, Len(s)) = s /\ Tail(s) = SubSeq(s, 2, Len(s))
  BY SubSeqFull, TailIsSubSeq
<1>4. Head(s) = s[1]
  BY <1>1, <1>3, HeadTailOfSubSeq
<1> QED BY <1>2, <1>3, <1>4, HeadTailProperties

LEMMA ConsParts ==
  ASSUME NEW S, NEW e \in S, NEW s \in Seq(S)
  PROVE  /\ <<e>> \o s \in Seq(S) /\ <<e>> \o s # <<>>
         /\ Head(<<e>> \o s) = e /\ Tail(<<e>> \o s) = s
         /\ Len(<<e>> \o s) = Len(s) + 1
<1> DEFINE t == <<e>> \o s
<1>1. <<e>> \in Seq(S) /\ Len(<<e>>) = 1 /\ <<e>>[1] = e
  OBVIOUS
<1>2. /\ t \in Seq(S) /\ Len(t) = 1 + Len(s)
      /\ \A i \in 1 .. 1 + Len(s) : t[i] = IF i <= 1 THEN <<e>>[i] ELSE s[i - 1]
  BY <1>1, ConcatProperties
<1>3. Len(s) \in Nat
  BY LenProperties
<1> HIDE DEF t
<1>4. t # <<>>
  BY <1>2, <1>3, EmptySeq
<1>5. t = <<Head(t)>> \o Tail(t) /\ Head(t) \in S /\ Tail(t) \in Seq(S)
  BY <1>2, <1>4, ConsOf
<1>6. Len(Tail(t)) = Len(s) /\ \A i \in 1 .. Len(Tail(t)) : Tail(t)[i] = t[i + 1]
  BY <1>2, <1>3, <1>4, HeadTailProperties
<1>7. \A i \in 1 .. Len(s) : Tail(t)[i] = s[i]
  <2> SUFFICES ASSUME NEW i \in 1 .. Len(s) PROVE Tail(t)[i] = s[i]
    OBVIOUS
  <2>1. i + 1 \in 1 .. 1 + Len(s) /\ ~ (i + 1 <= 1) /\ (i + 1) - 1 = i
    BY <1>3
  <2>2. t[i + 1] = s[i]
    BY <1>2, <2>1
  <2> QED BY <1>6, <2>2
<1>8. Tail(t) = s
  BY <1>5, <1>6, <1>7, SeqEqual
<1>9. Head(t) = e
  <2>1. 1 \in 1 .. 1 + Len(s) /\ 1 <= 1
    BY <1>3
  <2>2. t[1] = e
    BY <1>1, <1>2, <2>1
  <2>3. 1 \in 1 .. Len(t) /\ Len(t) \in 1 .. Len(t)
    BY <1>2, <1>3
  <2>4. Head(SubSeq(t, 1, Len(t))) = t[1] /\ SubSeq(t, 1, Len(t)) = t
    BY <1>2, <2>3, HeadTailOfSubSeq, SubSeqFull
  <2> QED BY <2>2, <2>4
<1> QED BY <1>2, <1>3, <1>4, <1>8, <1>9 DEF t

(* What a function makes of each item of a sequence, put together. *)
Mapped(f, s) == [k \in DOMAIN s |-> f[s[k]]]

LEMMA MappedType ==
  ASSUME NEW S, NEW T, NEW f, NEW s \in Seq(S), \A x \in S : f[x] \in T
  PROVE  Mapped(f, s) \in Seq(T) /\ Len(Mapped(f, s)) = Len(s)
<1> PICK n \in Nat : n = Len(s) /\ DOMAIN s = 1 .. n
  BY LenProperties
<1>1. \A k \in 1 .. n : s[k] \in S
  BY ElementOfSeq
<1>2. Mapped(f, s) = [k \in 1 .. n |-> f[s[k]]]
  BY DEF Mapped
<1>3. \A k \in 1 .. n : f[s[k]] \in T
  BY <1>1
<1>4. Mapped(f, s) \in [1 .. n -> T]
  BY <1>2, <1>3
<1> QED BY <1>4

MapsCons(f, e, s) == Mapped(f, <<e>> \o s) = <<f[e]>> \o Mapped(f, s)

LEMMA MappedCons ==
  ASSUME NEW S, NEW f, NEW e \in S, NEW s \in Seq(S)
  PROVE  MapsCons(f, e, s)
<1> USE DEF MapsCons
<1> DEFINE T == {f[x] : x \in S}
<1>0. \A x \in S : f[x] \in T
  OBVIOUS
<1> HIDE DEF T
<1> PICK n \in Nat : n = Len(s)
  BY LenProperties
<1> PICK t \in Seq(S) : t = <<e>> \o s
  BY ConsParts
<1>1. /\ Len(t) = n + 1
      /\ \A i \in 1 .. n + 1 : t[i] = IF i <= 1 THEN <<e>>[i] ELSE s[i - 1]
  <2>1. <<e>> \in Seq(S) /\ Len(<<e>>) = 1
    OBVIOUS
  <2>2. \A i \in 1 .. 1 + Len(s) : t[i] = IF i <= 1 THEN <<e>>[i] ELSE s[i - 1]
    BY <2>1, ConcatProperties
  <2> QED BY <2>2, ConsParts
<1> DEFINE a == Mapped(f, t)
           b == <<f[e]>> \o Mapped(f, s)
<1>2. a \in Seq(T) /\ Len(a) = n + 1 /\ \A i \in 1 .. n + 1 : a[i] = f[t[i]]
  <2>1. DOMAIN t = 1 .. n + 1
    BY <1>1, LenProperties
  <2> QED BY <1>0, <1>1, <2>1, MappedType DEF Mapped
<1>3. /\ Mapped(f, s) \in Seq(T) /\ Len(Mapped(f, s)) = n
      /\ \A i \in 1 .. n : Mapped(f, s)[i] = f[s[i]]
  <2>1. DOMAIN s = 1 .. n
    BY LenProperties
  <2> QED BY <1>0, <2>1, MappedType DEF Mapped
<1>4. PICK m \in Seq(T), v \in T : m = Mapped(f, s) /\ v = f[e]
  BY <1>0, <1>3
<1>5. /\ b \in Seq(T) /\ Len(b) = n + 1
      /\ \A i \in 1 .. n + 1 : b[i] = IF i <= 1 THEN <<v>>[i] ELSE m[i - 1]
  <2>1. <<v>> \in Seq(T) /\ Len(<<v>>) = 1 /\ Len(m) = n
    BY <1>3, <1>4
  <2>2. /\ <<v>> \o m \in Seq(T) /\ Len(<<v>> \o m) = 1 + n
        /\ \A i \in 1 .. 1 + n : (<<v>> \o m)[i] = IF i <= 1 THEN <<v>>[i] ELSE m[i - 1]
    BY <2>1, ConcatProperties
  <2> QED BY <1>4, <2>2
<1> HIDE DEF a, b
<1>6. ASSUME NEW i \in 1 .. n + 1
      PROVE  a[i] = b[i]
  <2>1. CASE i = 1
    <3>1. t[i] = e /\ b[i] = v
      BY <1>1, <1>5, <2>1
    <3> QED BY <1>2, <1>4, <3>1
  <2>2. CASE i # 1
    <3>1. i - 1 \in 1 .. n /\ ~ (i <= 1)
      BY <2>2
    <3>2. t[i] = s[i - 1] /\ b[i] = m[i - 1]
      BY <1>1, <1>5, <3>1
    <3>3. m[i - 1] = f[s[i - 1]]
      BY <1>3, <1>4, <3>1
    <3> QED BY <1>2, <3>2, <3>3
  <2> QED BY <2>1, <2>2
<1>7. a = b
  BY <1>2, <1>5, <1>6, SeqEqual
<1> QED BY <1>7 DEF a, b

FlattensCons(f, e, s) ==
  FlattenSeq(Mapped(f, <<e>> \o s)) = f[e] \o FlattenSeq(Mapped(f, s))

LEMMA FlattenMapped ==
  ASSUME NEW S, NEW C, NEW f, NEW e \in S, NEW s \in Seq(S),
         \A x \in S : f[x] \in Seq(C)
  PROVE  /\ FlattenSeq(Mapped(f, s)) \in Seq(C)
         /\ FlattensCons(f, e, s)
<1>1. Mapped(f, s) \in Seq(Seq(C)) /\ f[e] \in Seq(C)
  BY MappedType
<1>2. MapsCons(f, e, s)
  BY MappedCons
<1>3. Mapped(f, <<e>> \o s) = <<f[e]>> \o Mapped(f, s)
  BY <1>2 DEF MapsCons
<1> QED BY <1>1, <1>3, FlattenCons, FlattenType DEF FlattensCons

(* Texts one after the other, and a text with one more. *)
Groups(a, b, c) == (a \o b) \o c = a \o (b \o c)

LEMMA ConcatGroups ==
  ASSUME NEW S, NEW a \in Seq(S), NEW b \in Seq(S), NEW c \in Seq(S)
  PROVE  Groups(a, b, c)
BY ConcatAssociative DEF Groups

Extends(t, s, e) ==
  Len(t) = Len(s) + 1 /\ t[Len(s) + 1] = e /\ \A k \in 1 .. Len(s) : t[k] = s[k]

LEMMA AppendExtends ==
  ASSUME NEW S, NEW s \in Seq(S), NEW e \in S
  PROVE  Extends(Append(s, e), s, e)
BY AppendProperties DEF Extends
=============================================================================
