-------------------------- MODULE CalculatorProofs --------------------------
(***************************************************************************)
(* Proofs about the calculator: for any keys, any number of them, any width *)
(* of a long and with or without framing errors, the dialogue is the one    *)
(* expected, and the program reads the data register only when that is safe *)
(* for the flags of the peripheral.                                        *)
(***************************************************************************)
EXTENDS Calculator, DataLemmas

USE CalculatorAssumption DEF CalculatorAssumption

-----------------------------------------------------------------------------
(* The inductive invariant.  Got is what the program has read of what was
   typed: all of it but the key that is on its way or waits to be read.
   Counted is what its numbers stand for: while it works on a key, that one is
   not yet in them.  Settled is what is answered, or about to be: the answer
   is out or in out but for the key at which it has just arrived. *)
UnderWay == coming # None \/ available
Answering == pc \in {"branch", "send", "done"}

Got == IF UnderWay THEN Front(typed) ELSE typed
Counted == IF Answering THEN Front(Got) ELSE Got
Settled == IF pc = "branch" THEN Counted ELSE Got

(* What is still to be shown of the answers settled. *)
Sending == IF pending = None THEN <<>> ELSE <<pending>>
Unsent == IF pc = "send" THEN out ELSE <<>>

CalcTypeOK ==
  /\ available \in BOOLEAN /\ received \in Int
  /\ error \in BOOLEAN /\ clearing \in BOOLEAN
  /\ pending \in Nat \cup {None}
  /\ coming \in Keys \cup {None}
  /\ typed \in Seq(Keys) /\ shown \in Seq(Nat) /\ out \in Seq(Nat)
  /\ pc \in {"error", "clear", "available", "read", "branch", "send", "done"}
  /\ State \in {0, 1} /\ NumberA \in Int /\ NumberB \in Int /\ key \in Int

(* One key at a time is on its way or waits, the last one typed. *)
OneKeyUnderWay ==
  /\ UnderWay => typed # <<>>
  /\ coming # None => coming = Last(typed) /\ ~available
  /\ available => received = Last(typed)

(* The program is where it says it is. *)
Position ==
  /\ pc = "read" => available
  /\ Answering => Got # <<>> /\ key = Last(Got) /\ key # NL
  /\ pc = "send" => out # <<>>

(* The numbers are those of the line so far, but for the width of a long. *)
NumbersAreLine ==
  /\ NumberA = Wrap(Value(Counted, Left(Counted)))
  /\ NumberB = Wrap(Value(Counted, Right(Counted)))
  /\ State = IF \/ pc \in {"send", "done"} /\ key = CR
                \/ Pluses(Counted) = {}
             THEN 0 ELSE 1

(* What was shown, and is on the way out, is the answer to what is settled. *)
Printed == shown \o (Sending \o Unsent) = Expected(Settled)

CalcInv ==
  CalcTypeOK /\ OneKeyUnderWay /\ Position /\ NumbersAreLine /\ Printed
-----------------------------------------------------------------------------
(* The width of a long.  Two integers that differ by a multiple of WordMod wrap
   to the same number, and it is the one Fitting names. *)
LEMMA HalfWord ==
  /\ WordMod \in Nat \ {0} /\ WordMod \div 2 \in Nat \ {0}
  /\ WordMod = 2 * (WordMod \div 2)
OBVIOUS

LEMMA WrapIs ==
  ASSUME NEW n \in Int
  PROVE  /\ Wrap(n) \in -(WordMod \div 2) .. WordMod \div 2 - 1
         /\ \E q \in Int : Wrap(n) = n + WordMod * q
         /\ Wrap(n) \in Int
<1> PICK h \in Nat \ {0} : h = WordMod \div 2 /\ WordMod = 2 * h
  BY HalfWord
<1>1. PICK q \in Int, r \in 0 .. WordMod - 1 :
        r = (n + h) % WordMod /\ n + h = WordMod * q + r
  BY DivMod, HalfWord
<1>2. Wrap(n) = r - h
  BY <1>1 DEF Wrap
<1>3. -q \in Int /\ WordMod * (-q) = -(WordMod * q)
  OBVIOUS
<1>4. PICK x \in Int : x = WordMod * q
  OBVIOUS
<1>5. Wrap(n) = n + WordMod * (-q)
  BY <1>1, <1>2, <1>3, <1>4
<1>6. Wrap(n) \in -h .. h - 1
  BY <1>1, <1>2
<1> QED BY <1>3, <1>5, <1>6

LEMMA WrapSame ==
  ASSUME NEW m \in Int, NEW n \in Int, Congruent(WordMod, m, n)
  PROVE  Wrap(m) = Wrap(n)
<1> PICK h \in Nat : h = WordMod \div 2
  BY HalfWord
<1> PICK a \in Int, b \in Int : a = m + h /\ b = n + h
  OBVIOUS
<1>1. Congruent(WordMod, a, b)
  <2>1. PICK q \in Int : m = n + WordMod * q
    BY DEF Congruent
  <2>2. PICK x \in Int : x = WordMod * q
    BY HalfWord
  <2>3. a = b + WordMod * q
    BY <2>1, <2>2
  <2> QED BY <2>3 DEF Congruent
<1>2. a % WordMod = b % WordMod
  BY <1>1, SameRemainder, HalfWord
<1> QED BY <1>2 DEF Wrap

LEMMA WrapAdd ==
  ASSUME NEW a \in Int, NEW b \in Int
  PROVE  Wrap(Wrap(a) + b) = Wrap(a + b)
<1>1. PICK q \in Int : Wrap(a) = a + WordMod * q
  BY WrapIs
<1>2. PICK x \in Int : x = WordMod * q
  BY HalfWord
<1>3. /\ Wrap(a) + b \in Int /\ a + b \in Int
      /\ Congruent(WordMod, Wrap(a) + b, a + b)
  BY <1>1, <1>2 DEF Congruent
<1> QED BY <1>3, WrapSame

LEMMA WrapSum ==
  ASSUME NEW a \in Int, NEW b \in Int
  PROVE  Wrap(Wrap(a) + Wrap(b)) = Wrap(a + b)
<1>1. Wrap(b) \in Int
  BY WrapIs, HalfWord
<1>2. Wrap(Wrap(a) + Wrap(b)) = Wrap(a + Wrap(b))
  BY <1>1, WrapAdd
<1>3. a + Wrap(b) = Wrap(b) + a /\ b + a = a + b
  BY <1>1
<1>4. Wrap(Wrap(b) + a) = Wrap(b + a)
  BY WrapAdd
<1> QED BY <1>2, <1>3, <1>4

(* One digit more: the number so far times ten, and the digit. *)
LEMMA WrapDigit ==
  ASSUME NEW v \in Int, NEW d \in Int
  PROVE  Wrap(Wrap(Wrap(v) * 10) + d - ASCII0) = Wrap(10 * v + d - ASCII0)
<1>1. PICK q \in Int : Wrap(v) = v + WordMod * q
  BY WrapIs
<1>2. PICK x \in Int : x = WordMod * q
  BY HalfWord
<1>3. WordMod * (10 * q) = 10 * (WordMod * q)
  BY HalfWord
<1>4. Wrap(v) \in Int /\ Wrap(v) * 10 = 10 * v + WordMod * (10 * q)
  BY <1>1, <1>2, <1>3
<1>5. Wrap(Wrap(v) * 10) = Wrap(10 * v)
  <2>1. Wrap(v) * 10 \in Int /\ 10 * v \in Int /\ 10 * q \in Int
    BY <1>4
  <2>2. Congruent(WordMod, Wrap(v) * 10, 10 * v)
    BY <1>4, <2>1 DEF Congruent
  <2> QED BY <2>1, <2>2, WrapSame
<1>6. Wrap(10 * v) \in Int
  BY WrapIs, HalfWord
<1>7. Wrap(10 * v) + d - ASCII0 = Wrap(10 * v) + (d - ASCII0)
      /\ 10 * v + d - ASCII0 = 10 * v + (d - ASCII0)
  BY <1>6 DEF ASCII0
<1>8. Wrap(Wrap(10 * v) + (d - ASCII0)) = Wrap(10 * v + (d - ASCII0))
  <2>1. 10 * v \in Int /\ d - ASCII0 \in Int
    BY DEF ASCII0
  <2> QED BY <2>1, WrapAdd
<1> QED BY <1>5, <1>7, <1>8

LEMMA WrapZero == Wrap(0) = 0
<1> PICK h \in Nat \ {0} : h = WordMod \div 2 /\ WordMod = 2 * h
  BY HalfWord
<1>1. h \in 0 .. WordMod - 1
  OBVIOUS
<1>2. h % WordMod = h
  BY <1>1, SmallRemainder, HalfWord
<1> QED BY <1>2 DEF Wrap

LEMMA FittingIsWrap ==
  ASSUME NEW n \in Int
  PROVE  Fitting(n) = Wrap(n)
<1> DEFINE Fits(v) == v \in -(WordMod \div 2) .. WordMod \div 2 - 1 /\ (v - n) % WordMod = 0
<1> PICK h \in Nat \ {0} : h = WordMod \div 2 /\ WordMod = 2 * h
  BY HalfWord
<1>1. Fits(Wrap(n))
  <2>1. PICK q \in Int : Wrap(n) = n + WordMod * q
    BY WrapIs
  <2>2. PICK x \in Int : x = WordMod * q
    OBVIOUS
  <2>3. Wrap(n) - n = WordMod * q + 0 /\ 0 \in 0 .. WordMod - 1
    BY <2>1, <2>2
  <2>4. (WordMod * q + 0) % WordMod = 0
    BY <2>3, OnlyQuotient, HalfWord
  <2> QED BY <2>3, <2>4, WrapIs
<1>2. ASSUME NEW v \in -h .. h - 1, (v - n) % WordMod = 0
      PROVE  v = Wrap(n)
  <2>1. PICK q \in Int : v - n = WordMod * q
    <3>1. v - n \in Int
      OBVIOUS
    <3>2. PICK q \in Int, r \in 0 .. WordMod - 1 :
            r = (v - n) % WordMod /\ v - n = WordMod * q + r
      BY <3>1, DivMod, HalfWord
    <3>3. PICK x \in Int : x = WordMod * q
      BY HalfWord
    <3> QED BY <1>2, <3>2, <3>3
  <2>2. PICK x \in Int : x = WordMod * q
    BY HalfWord
  <2>3. v \in Int /\ Congruent(WordMod, v, n)
    BY <2>1, <2>2 DEF Congruent
  <2>4. Wrap(v) = Wrap(n)
    BY <2>3, WrapSame
  <2>5. v + h \in 0 .. WordMod - 1
    OBVIOUS
  <2>6. (v + h) % WordMod = v + h
    BY <2>5, SmallRemainder, HalfWord
  <2>7. Wrap(v) = v
    BY <2>6 DEF Wrap
  <2> QED BY <2>4, <2>7
<1>3. Fitting(n) = CHOOSE v \in -h .. h - 1 : (v - n) % WordMod = 0
  BY DEF Fitting
<1>4. \A v \in -h .. h - 1 : (v - n) % WordMod = 0 <=> v = Wrap(n)
  BY <1>1, <1>2
<1>5. Wrap(n) \in -h .. h - 1 /\ (Wrap(n) - n) % WordMod = 0
  BY <1>1
<1>6. Fitting(n) \in -h .. h - 1 /\ (Fitting(n) - n) % WordMod = 0
  BY <1>3, <1>5
<1> QED BY <1>4, <1>6

-----------------------------------------------------------------------------
(* itoa ends, and makes a sequence of characters. *)
Unit(n) == <<ASCII0 + n>>
Longer(s, n) == Append(s, ASCII0 + (n % 10))
Negative(s) == <<45>> \o s

LEMMA DecimalParts ==
  ASSUME NEW s \in Seq(Nat), NEW n \in Nat
  PROVE  Unit(n) \in Seq(Nat) /\ Longer(s, n) \in Seq(Nat) /\ Negative(s) \in Seq(Nat)
<1>1. ASCII0 + n \in Nat /\ ASCII0 + (n % 10) \in Nat
  BY DEF ASCII0
<1>2. Unit(n) \in Seq(Nat)
  BY <1>1 DEF Unit
<1>3. Longer(s, n) \in Seq(Nat)
  BY <1>1, AppendProperties DEF Longer
<1>4. <<45>> \in Seq(Nat)
  OBVIOUS
<1>5. Negative(s) \in Seq(Nat)
  BY <1>4, ConcatProperties DEF Negative
<1> QED BY <1>2, <1>3, <1>5

LEMMA DecimalDef ==
  \A n \in Int : Decimal[n] = IF n < 0 THEN Negative(Decimal[-n])
                              ELSE IF n < 10 THEN Unit(n)
                              ELSE Longer(Decimal[n \div 10], n)
<1> DEFINE first == [n \in Nat |-> Unit(n)]
           step == [p \in Nat \X Seq(Nat) |-> Longer(p[2], p[1])]
           before == [n \in Nat |-> n \div 10]
           F(g) == [n \in Int |-> IF n < 0 THEN Negative(g[-n])
                                  ELSE IF n < 10 THEN Unit(n)
                                  ELSE Longer(g[n \div 10], n)]
<1>1. Decimal = CHOOSE g : g = F(g)
  BY DEF Decimal, Negative, Unit, Longer
<1>2. first \in [Nat -> Seq(Nat)]
  <2>1. <<>> \in Seq(Nat)
    OBVIOUS
  <2>2. \A n \in Nat : Unit(n) \in Seq(Nat)
    BY <2>1, DecimalParts
  <2> QED BY <2>2
<1>3. step \in [Nat \X Seq(Nat) -> Seq(Nat)]
  <2>1. \A p \in Nat \X Seq(Nat) : p[1] \in Nat /\ p[2] \in Seq(Nat)
    OBVIOUS
  <2>2. \A p \in Nat \X Seq(Nat) : Longer(p[2], p[1]) \in Seq(Nat)
    BY <2>1, DecimalParts
  <2> QED BY <2>2
<1>4. before \in [Nat -> Nat] /\ \A n \in Nat : n >= 10 => before[n] < n
  OBVIOUS
<1>5. /\ \A n \in Nat : first[n] = Unit(n) /\ before[n] = n \div 10
      /\ \A n \in Nat, s \in Seq(Nat) : step[<<n, s>>] = Longer(s, n)
  OBVIOUS
<1> HIDE DEF first, step, before
<1>6. PICK f \in [Nat -> Seq(Nat)] : Recurs(f, 10, first, step, before)
  <2>1. 10 \in Nat \ {0}
    OBVIOUS
  <2> QED BY <1>2, <1>3, <1>4, <2>1, RecursiveFunction
<1>7. ASSUME NEW n \in Nat
      PROVE  f[n] = IF n < 10 THEN Unit(n) ELSE Longer(f[n \div 10], n)
  <2>1. f[n] = IF n < 10 THEN first[n] ELSE step[<<n, f[before[n]]>>]
    BY <1>6 DEF Recurs
  <2>2. n \div 10 \in Nat /\ f[n \div 10] \in Seq(Nat)
    OBVIOUS
  <2> QED BY <1>5, <2>1, <2>2
<1> DEFINE g == [n \in Int |-> IF n < 0 THEN Negative(f[-n]) ELSE f[n]]
<1>8. ASSUME NEW n \in Int
      PROVE  g[n] = IF n < 0 THEN Negative(g[-n])
                    ELSE IF n < 10 THEN Unit(n) ELSE Longer(g[n \div 10], n)
  <2>1. CASE n < 0
    <3>1. -n \in Nat /\ ~ (-n < 0)
      BY <2>1
    <3>2. g[n] = Negative(f[-n]) /\ g[-n] = f[-n]
      BY <2>1, <3>1
    <3> HIDE DEF g
    <3> QED BY <2>1, <3>2
  <2>2. CASE n >= 0
    <3>1. n \in Nat /\ g[n] = f[n]
      BY <2>2
    <3>2. n >= 10 => n \div 10 \in Nat /\ ~ (n \div 10 < 0)
      BY <3>1
    <3>3. n >= 10 => g[n \div 10] = f[n \div 10]
      BY <3>2
    <3> HIDE DEF g
    <3> QED BY <1>7, <2>2, <3>1, <3>3
  <2> QED BY <2>1, <2>2
<1>9. g = F(g)
  <2>1. g = [n \in Int |-> g[n]]
    OBVIOUS
  <2> HIDE DEF g
  <2> QED BY <1>8, <2>1
<1> HIDE DEF F, g
<1>10. Decimal = F(Decimal)
  BY <1>1, <1>9
<1> QED BY <1>10 DEF F

LEMMA DecimalType == ASSUME NEW n \in Int PROVE Decimal[n] \in Seq(Nat)
<1> DEFINE S == {m \in Nat : Decimal[m] \in Seq(Nat)}
<1>1. ASSUME NEW m \in Nat, \A k \in 0 .. m - 1 : k \in S
      PROVE  m \in S
  <2>1. CASE m < 10
    <3>1. Decimal[m] = Unit(m)
      BY <2>1, DecimalDef
    <3>2. <<>> \in Seq(Nat)
      OBVIOUS
    <3>3. Unit(m) \in Seq(Nat)
      BY <3>2, DecimalParts
    <3> QED BY <3>1, <3>3
  <2>2. CASE m >= 10
    <3>1. m \div 10 \in 0 .. m - 1
      BY <2>2
    <3>2. Decimal[m] = Longer(Decimal[m \div 10], m)
      BY <2>2, DecimalDef
    <3>3. Decimal[m \div 10] \in Seq(Nat)
      BY <1>1, <3>1
    <3> QED BY <3>2, <3>3, DecimalParts
  <2> QED BY <2>1, <2>2
<1> HIDE DEF S
<1>2. \A m \in Nat : m \in S
  BY <1>1, StrongInduction
<1>3. \A m \in Nat : Decimal[m] \in Seq(Nat)
  BY <1>2 DEF S
<1>4. CASE n < 0
  <2>1. -n \in Nat /\ Decimal[n] = Negative(Decimal[-n])
    BY <1>4, DecimalDef
  <2>2. Decimal[-n] \in Seq(Nat)
    BY <1>3, <2>1
  <2> QED BY <2>1, <2>2, DecimalParts
<1> QED BY <1>3, <1>4

-----------------------------------------------------------------------------
(* The number whose digits are at some places of a sequence of keys: its value
   up to each of the keys exists, and is the only one. *)
Adds(v, ks, places, n) ==
  /\ v[0] = 0
  /\ \A j \in 1 .. n :
       v[j] = IF j \in places THEN 10 * v[j - 1] + ks[j] - ASCII0 ELSE v[j - 1]

LEMMA AddsExists ==
  ASSUME NEW n \in Nat, NEW ks, \A j \in 1 .. n : ks[j] \in Int, NEW places
  PROVE  \E v \in [Nat -> Int] : Adds(v, ks, places, n)
<1> DEFINE Digit(j) == IF j \in 1 .. n THEN ks[j] - ASCII0 ELSE 0
           first == [j \in Nat |-> 0]
           step == [p \in Nat \X Int |->
                      IF p[1] \in places THEN 10 * p[2] + Digit(p[1]) ELSE p[2]]
           before == [j \in Nat |-> IF j = 0 THEN 0 ELSE j - 1]
<1>1. \A j : Digit(j) \in Int
  BY DEF ASCII0
<1>2. \A j \in 1 .. n : Digit(j) = ks[j] - ASCII0
  OBVIOUS
<1> HIDE DEF Digit
<1>3. first \in [Nat -> Int] /\ step \in [Nat \X Int -> Int]
  BY <1>1
<1>4. before \in [Nat -> Nat] /\ \A j \in Nat : j >= 1 => before[j] < j
  OBVIOUS
<1>5. PICK v \in [Nat -> Int] : Recurs(v, 1, first, step, before)
  <2>1. 1 \in Nat \ {0}
    OBVIOUS
  <2> HIDE DEF first, step, before
  <2> QED BY <1>3, <1>4, <2>1, RecursiveFunction
<1>6. v[0] = 0
  <2>1. 0 \in Nat /\ 0 < 1 /\ first[0] = 0
    OBVIOUS
  <2> HIDE DEF first, step, before
  <2> QED BY <1>5, <2>1 DEF Recurs
<1>7. ASSUME NEW j \in 1 .. n
      PROVE  v[j] = IF j \in places THEN 10 * v[j - 1] + ks[j] - ASCII0 ELSE v[j - 1]
  <2>1. j \in Nat /\ ~ (j < 1) /\ before[j] = j - 1 /\ j - 1 \in Nat
    OBVIOUS
  <2>2. v[j] = step[<<j, v[j - 1]>>]
    <3> HIDE DEF step, before
    <3> QED BY <1>5, <2>1 DEF Recurs
  <2>3. v[j - 1] \in Int
    BY <2>1
  <2>4. v[j] = IF j \in places THEN 10 * v[j - 1] + Digit(j) ELSE v[j - 1]
    BY <2>1, <2>2, <2>3
  <2>5. ks[j] \in Int
    OBVIOUS
  <2> QED BY <1>2, <2>3, <2>4, <2>5 DEF ASCII0
<1> QED BY <1>6, <1>7 DEF Adds

LEMMA AddsUnique ==
  ASSUME NEW n \in Nat, NEW ks, NEW places, NEW v, NEW w,
         Adds(v, ks, places, n), Adds(w, ks, places, n)
  PROVE  \A j \in 0 .. n : v[j] = w[j]
<1> DEFINE Same == {j \in Nat : j <= n => v[j] = w[j]}
<1>1. 0 \in Same
  BY DEF Adds
<1>2. ASSUME NEW j \in Nat, j \in Same
      PROVE  j + 1 \in Same
  <2> SUFFICES ASSUME j + 1 <= n PROVE v[j + 1] = w[j + 1]
    OBVIOUS
  <2>1. j + 1 \in 1 .. n /\ (j + 1) - 1 = j /\ v[j] = w[j]
    BY <1>2
  <2>2. /\ v[j + 1] = IF j + 1 \in places THEN 10 * v[j] + ks[j + 1] - ASCII0 ELSE v[j]
        /\ w[j + 1] = IF j + 1 \in places THEN 10 * w[j] + ks[j + 1] - ASCII0 ELSE w[j]
    BY <2>1 DEF Adds
  <2> QED BY <2>1, <2>2
<1> HIDE DEF Same
<1>3. \A j \in Nat : j \in Same
  BY <1>1, <1>2, Induction
<1> QED BY <1>3 DEF Same

LEMMA ValueIs ==
  ASSUME NEW n \in Nat, NEW ks, Len(ks) = n, NEW places,
         NEW v \in [Nat -> Int], Adds(v, ks, places, n)
  PROVE  Value(ks, places) = v[n]
<1> DEFINE F(g) == [j \in 0 .. Len(ks) |->
                      IF j = 0 THEN 0
                      ELSE IF j \in places THEN 10 * g[j - 1] + ks[j] - ASCII0
                      ELSE g[j - 1]]
           V == CHOOSE g : g = F(g)
           u == [j \in 0 .. n |-> v[j]]
<1>1. Value(ks, places) = V[n]
  BY DEF Value
<1>2. ASSUME NEW j \in 0 .. n
      PROVE  u[j] = IF j = 0 THEN 0
                    ELSE IF j \in places THEN 10 * u[j - 1] + ks[j] - ASCII0
                    ELSE u[j - 1]
  <2>1. CASE j = 0
    BY <2>1 DEF Adds
  <2>2. CASE j # 0
    <3>1. j \in 1 .. n /\ u[j] = v[j] /\ u[j - 1] = v[j - 1]
      BY <2>2
    <3>2. v[j] = IF j \in places THEN 10 * v[j - 1] + ks[j] - ASCII0 ELSE v[j - 1]
      BY <3>1 DEF Adds
    <3> HIDE DEF u
    <3> QED BY <2>2, <3>1, <3>2
  <2> QED BY <2>1, <2>2
<1>3. u = F(u)
  <2>1. u = [j \in 0 .. n |-> u[j]]
    OBVIOUS
  <2> HIDE DEF u
  <2> QED BY <1>2, <2>1
<1> HIDE DEF F, u
<1>4. V = F(V)
  BY <1>3
<1> HIDE DEF V
<1>5. \A j \in 0 .. n : V[j] = IF j = 0 THEN 0
                               ELSE IF j \in places THEN 10 * V[j - 1] + ks[j] - ASCII0
                               ELSE V[j - 1]
  BY <1>4 DEF F
<1>6. Adds(V, ks, places, n)
  BY <1>5 DEF Adds
<1>7. n \in 0 .. n
  OBVIOUS
<1> QED BY <1>1, <1>6, <1>7, AddsUnique

LEMMA ValueBy ==
  ASSUME NEW ks \in Seq(Int), NEW places
  PROVE  \E v \in [Nat -> Int] :
           Adds(v, ks, places, Len(ks)) /\ Value(ks, places) = v[Len(ks)]
<1>1. Len(ks) \in Nat /\ \A j \in 1 .. Len(ks) : ks[j] \in Int
  OBVIOUS
<1>2. PICK v \in [Nat -> Int] : Adds(v, ks, places, Len(ks))
  BY <1>1, AddsExists
<1> QED BY <1>1, <1>2, ValueIs

LEMMA ValueType ==
  ASSUME NEW ks \in Seq(Int), NEW places
  PROVE  Value(ks, places) \in Int
BY ValueBy

(* One key more is one digit more, or none. *)
Agree(n, places, others) == \A j \in 1 .. n : j \in places <=> j \in others

LEMMA ValueAppend ==
  ASSUME NEW ks \in Seq(Int), NEW k \in Int, NEW before, NEW after,
         Agree(Len(ks), after, before)
  PROVE  Value(Append(ks, k), after) =
           IF Len(ks) + 1 \in after THEN 10 * Value(ks, before) + k - ASCII0
           ELSE Value(ks, before)
<1> PICK n \in Nat : n = Len(ks)
  OBVIOUS
<1> PICK kk \in Seq(Int) : kk = Append(ks, k)
  BY AppendProperties
<1>1. Len(kk) = n + 1 /\ kk[n + 1] = k /\ \A j \in 1 .. n : kk[j] = ks[j]
  BY AppendProperties
<1>2. PICK v : Adds(v, kk, after, n + 1) /\ Value(kk, after) = v[n + 1]
  BY <1>1, ValueBy
<1>3. PICK w : Adds(w, ks, before, n) /\ Value(ks, before) = w[n]
  BY ValueBy
<1>4. Adds(v, ks, before, n)
  <2> SUFFICES ASSUME NEW j \in 1 .. n
               PROVE  v[j] = IF j \in before THEN 10 * v[j - 1] + ks[j] - ASCII0 ELSE v[j - 1]
    BY <1>2 DEF Adds
  <2>1. j \in 1 .. n + 1 /\ kk[j] = ks[j] /\ (j \in after <=> j \in before)
    BY <1>1 DEF Agree
  <2>2. v[j] = IF j \in after THEN 10 * v[j - 1] + kk[j] - ASCII0 ELSE v[j - 1]
    BY <1>2, <2>1 DEF Adds
  <2> QED BY <2>1, <2>2
<1>5. v[n] = w[n]
  <2>1. n \in 0 .. n
    OBVIOUS
  <2>2. Adds(w, ks, before, n)
    BY <1>3
  <2>3. \A j \in 0 .. n : v[j] = w[j]
    BY <1>4, <2>2, AddsUnique
  <2> QED BY <2>1, <2>3
<1>6. v[n + 1] = IF n + 1 \in after THEN 10 * v[n] + kk[n + 1] - ASCII0 ELSE v[n]
  <2>1. n + 1 \in 1 .. n + 1 /\ (n + 1) - 1 = n
    OBVIOUS
  <2> QED BY <1>2, <2>1 DEF Adds
<1> QED BY <1>1, <1>2, <1>3, <1>5, <1>6

LEMMA ValueOfNothing ==
  ASSUME NEW ks \in Seq(Int)
  PROVE  Value(ks, {}) = 0
<1> PICK n \in Nat : n = Len(ks)
  OBVIOUS
<1>1. PICK v \in [Nat -> Int] : Adds(v, ks, {}, n) /\ Value(ks, {}) = v[n]
  BY ValueBy
<1> DEFINE z == [j \in Nat |-> 0]
<1>2. Adds(z, ks, {}, n) /\ z[n] = 0
  BY DEF Adds
<1> HIDE DEF z
<1>3. n \in 0 .. n
  OBVIOUS
<1>4. v[n] = z[n]
  BY <1>1, <1>2, <1>3, AddsUnique
<1> QED BY <1>1, <1>2, <1>4

-----------------------------------------------------------------------------
(* What one key more does to the line, and to the two numbers in it. *)
LEMMA Keycodes ==
  /\ NL \in Int /\ CR \in Int /\ PLUS \in Int /\ NL # CR /\ NL # PLUS /\ CR # PLUS
BY DEF NL, CR, PLUS

LEMMA AppendIs ==
  ASSUME NEW ks \in Seq(Int), NEW k \in Int
  PROVE  /\ Len(ks) \in Nat /\ DOMAIN ks = 1 .. Len(ks)
         /\ Append(ks, k) \in Seq(Int) /\ Len(Append(ks, k)) = Len(ks) + 1
         /\ DOMAIN Append(ks, k) = 1 .. Len(ks) + 1
         /\ \A j \in 1 .. Len(ks) : Append(ks, k)[j] = ks[j]
         /\ Append(ks, k)[Len(ks) + 1] = k
<1>1. Len(ks) \in Nat /\ DOMAIN ks = 1 .. Len(ks)
  BY LenProperties
<1>2. Append(ks, k) \in Seq(Int) /\ Len(Append(ks, k)) = Len(ks) + 1
  BY AppendProperties
<1>3. DOMAIN Append(ks, k) = 1 .. Len(ks) + 1
  BY <1>2, LenProperties
<1> QED BY <1>1, <1>2, <1>3, AppendProperties

LEMMA LineAppend ==
  ASSUME NEW ks \in Seq(Int), NEW k \in Int
  PROVE  /\ OnLine(ks) \subseteq 1 .. Len(ks)
         /\ k = CR => OnLine(Append(ks, k)) = {}
         /\ k = NL => OnLine(Append(ks, k)) = OnLine(ks)
         /\ k \notin {CR, NL} => OnLine(Append(ks, k)) = OnLine(ks) \cup {Len(ks) + 1}
<1> DEFINE kk == Append(ks, k)
<1> PICK n \in Nat : n = Len(ks)
  OBVIOUS
<1>1. /\ DOMAIN ks = 1 .. n /\ Len(kk) = n + 1 /\ DOMAIN kk = 1 .. n + 1
      /\ \A j \in 1 .. n : kk[j] = ks[j]
      /\ kk[n + 1] = k
  BY AppendIs
<1> HIDE DEF kk
<1>2. OnLine(ks) = {j \in 1 .. n : ks[j] # NL /\ \A m \in j .. n : ks[m] # CR}
  BY <1>1 DEF OnLine
<1>3. OnLine(kk) = {j \in 1 .. n + 1 : kk[j] # NL /\ \A m \in j .. n + 1 : kk[m] # CR}
  BY <1>1 DEF OnLine
<1>4. k = CR => OnLine(kk) = {}
  <2>1. \A j \in 1 .. n + 1 : n + 1 \in j .. n + 1
    OBVIOUS
  <2> QED BY <1>1, <1>3, <2>1
<1>5. ASSUME k # CR, NEW j \in 1 .. n
      PROVE  j \in OnLine(kk) <=> j \in OnLine(ks)
  <2>1. j \in 1 .. n + 1 /\ kk[j] = ks[j]
    BY <1>1
  <2>2. (\A m \in j .. n + 1 : kk[m] # CR) <=> (\A m \in j .. n : ks[m] # CR)
    <3>1. \A m \in j .. n + 1 : m = n + 1 \/ (m \in j .. n /\ m \in 1 .. n)
      OBVIOUS
    <3>2. \A m \in j .. n : m \in j .. n + 1 /\ m \in 1 .. n
      OBVIOUS
    <3>3. \A m \in 1 .. n : kk[m] = ks[m]
      BY <1>1
    <3>4. kk[n + 1] # CR
      BY <1>1, <1>5
    <3> QED BY <3>1, <3>2, <3>3, <3>4
  <2> QED BY <1>2, <1>3, <2>1, <2>2
<1>6. ASSUME k # CR
      PROVE  n + 1 \in OnLine(kk) <=> k # NL
  <2>1. n + 1 \in 1 .. n + 1 /\ \A m \in n + 1 .. n + 1 : m = n + 1
    OBVIOUS
  <2> QED BY <1>1, <1>3, <1>6, <2>1
<1>7. OnLine(kk) \subseteq 1 .. n + 1 /\ OnLine(ks) \subseteq 1 .. n
  BY <1>2, <1>3
<1>8. \A j \in 1 .. n + 1 : j = n + 1 \/ j \in 1 .. n
  OBVIOUS
<1>9. n + 1 \notin 1 .. n
  OBVIOUS
<1>10. k = NL => OnLine(kk) = OnLine(ks)
  BY <1>5, <1>6, <1>7, <1>8, <1>9, Keycodes
<1>11. k \notin {CR, NL} => OnLine(kk) = OnLine(ks) \cup {n + 1}
  BY <1>5, <1>6, <1>7, <1>8, <1>9
<1> QED BY <1>4, <1>7, <1>10, <1>11 DEF kk

LEMMA PlusesAppend ==
  ASSUME NEW ks \in Seq(Int), NEW k \in Int
  PROVE  /\ Pluses(ks) \subseteq 1 .. Len(ks)
         /\ k = CR => Pluses(Append(ks, k)) = {}
         /\ k = PLUS => Pluses(Append(ks, k)) = Pluses(ks) \cup {Len(ks) + 1}
         /\ k \notin {CR, PLUS} => Pluses(Append(ks, k)) = Pluses(ks)
<1> DEFINE kk == Append(ks, k)
<1> PICK n \in Nat : n = Len(ks)
  OBVIOUS
<1>1. kk[n + 1] = k /\ \A j \in 1 .. n : kk[j] = ks[j]
  BY AppendIs
<1>2. /\ OnLine(ks) \subseteq 1 .. n
      /\ k = CR => OnLine(kk) = {}
      /\ k = NL => OnLine(kk) = OnLine(ks)
      /\ k \notin {CR, NL} => OnLine(kk) = OnLine(ks) \cup {n + 1}
  BY LineAppend
<1> HIDE DEF kk
<1>3. /\ Pluses(ks) = {j \in OnLine(ks) : ks[j] = PLUS}
      /\ Pluses(kk) = {j \in OnLine(kk) : kk[j] = PLUS}
  BY DEF Pluses
<1>4. {j \in OnLine(ks) : kk[j] = PLUS} = Pluses(ks)
  BY <1>1, <1>2, <1>3
<1>5. Pluses(ks) \subseteq 1 .. n
  BY <1>2, <1>3
<1>6. k = CR => Pluses(kk) = {}
  BY <1>2, <1>3
<1>7. k = PLUS => Pluses(kk) = Pluses(ks) \cup {n + 1}
  <2> SUFFICES ASSUME k = PLUS PROVE Pluses(kk) = Pluses(ks) \cup {n + 1}
    OBVIOUS
  <2>1. OnLine(kk) = OnLine(ks) \cup {n + 1}
    BY <1>2, Keycodes
  <2> QED BY <1>1, <1>3, <1>4, <2>1
<1>8. k \notin {CR, PLUS} => Pluses(kk) = Pluses(ks)
  <2> SUFFICES ASSUME k \notin {CR, PLUS} PROVE Pluses(kk) = Pluses(ks)
    OBVIOUS
  <2>1. CASE k = NL
    BY <1>2, <1>3, <1>4, <2>1
  <2>2. CASE k # NL
    <3>1. OnLine(kk) = OnLine(ks) \cup {n + 1}
      BY <1>2, <2>2
    <3> QED BY <1>1, <1>3, <1>4, <3>1
  <2> QED BY <2>1, <2>2
<1> QED BY <1>5, <1>6, <1>7, <1>8 DEF kk

(* A key that is no digit leaves both numbers; a carriage return ends the line;
   any other is a digit of the first number before a plus, of the second after
   one. *)
IsDigit(k) == k \notin {NL, CR, PLUS}

LEMMA SidesAppend ==
  ASSUME NEW ks \in Seq(Int), NEW k \in Int
  PROVE  /\ k = CR => Left(Append(ks, k)) = {} /\ Right(Append(ks, k)) = {}
         /\ k # CR => \A j \in 1 .. Len(ks) :
              /\ j \in Left(Append(ks, k)) <=> j \in Left(ks)
              /\ j \in Right(Append(ks, k)) <=> j \in Right(ks)
         /\ k # CR => /\ Len(ks) + 1 \in Left(Append(ks, k))
                           <=> IsDigit(k) /\ Pluses(ks) = {}
                      /\ Len(ks) + 1 \in Right(Append(ks, k))
                           <=> IsDigit(k) /\ Pluses(ks) # {}
<1> DEFINE kk == Append(ks, k)
<1> PICK n \in Nat : n = Len(ks)
  OBVIOUS
<1>1. /\ OnLine(ks) \subseteq 1 .. n
      /\ k = CR => OnLine(kk) = {}
      /\ k = NL => OnLine(kk) = OnLine(ks)
      /\ k \notin {CR, NL} => OnLine(kk) = OnLine(ks) \cup {n + 1}
  BY LineAppend
<1>2. /\ Pluses(ks) \subseteq 1 .. n
      /\ k = PLUS => Pluses(kk) = Pluses(ks) \cup {n + 1}
      /\ k \notin {CR, PLUS} => Pluses(kk) = Pluses(ks)
  BY PlusesAppend
<1> HIDE DEF kk
<1>3. /\ \A j : j \in Left(ks) <=> j \in OnLine(ks) /\ \A m \in Pluses(ks) : j < m
      /\ \A j : j \in Left(kk) <=> j \in OnLine(kk) /\ \A m \in Pluses(kk) : j < m
      /\ \A j : j \in Right(ks) <=>
           j \in OnLine(ks) /\ j \notin Pluses(ks) /\ \E m \in Pluses(ks) : m < j
      /\ \A j : j \in Right(kk) <=>
           j \in OnLine(kk) /\ j \notin Pluses(kk) /\ \E m \in Pluses(kk) : m < j
  BY DEF Left, Right
<1>4. k = CR => Left(kk) = {} /\ Right(kk) = {}
  BY <1>1, <1>3
<1>5. ASSUME k # CR, NEW j \in 1 .. n
      PROVE  /\ j \in Left(kk) <=> j \in Left(ks)
             /\ j \in Right(kk) <=> j \in Right(ks)
  <2>1. j < n + 1 /\ j # n + 1 /\ ~ (n + 1 < j)
    OBVIOUS
  <2>2. j \in OnLine(kk) <=> j \in OnLine(ks)
    BY <1>1, <1>5, <2>1
  <2>3. CASE k = PLUS
    <3>1. Pluses(kk) = Pluses(ks) \cup {n + 1}
      BY <1>2, <2>3
    <3> QED BY <1>3, <2>1, <2>2, <3>1
  <2>4. CASE k # PLUS
    <3>1. Pluses(kk) = Pluses(ks)
      BY <1>2, <1>5, <2>4
    <3> QED BY <1>3, <2>2, <3>1
  <2> QED BY <2>3, <2>4
<1>6. ASSUME k # CR
      PROVE  /\ n + 1 \in Left(kk) <=> IsDigit(k) /\ Pluses(ks) = {}
             /\ n + 1 \in Right(kk) <=> IsDigit(k) /\ Pluses(ks) # {}
  <2>1. n + 1 \notin 1 .. n /\ \A m \in 1 .. n : m < n + 1 /\ ~ (n + 1 < m)
    OBVIOUS
  <2>2. CASE k = NL
    <3>1. n + 1 \notin OnLine(kk)
      BY <1>1, <2>1, <2>2
    <3> QED BY <1>3, <2>2, <3>1 DEF IsDigit
  <2>3. CASE k = PLUS
    <3>1. n + 1 \in Pluses(kk)
      BY <1>2, <2>3
    <3>2. ~ (n + 1 < n + 1)
      OBVIOUS
    <3> QED BY <1>3, <2>3, <3>1, <3>2 DEF IsDigit
  <2>4. CASE k \notin {NL, PLUS}
    <3>1. n + 1 \in OnLine(kk) /\ Pluses(kk) = Pluses(ks) /\ n + 1 \notin Pluses(kk)
      BY <1>1, <1>2, <1>6, <2>1, <2>4
    <3>2. \A m \in Pluses(ks) : m < n + 1 /\ ~ (n + 1 < m)
      BY <1>2, <2>1
    <3>3. IsDigit(k)
      BY <1>6, <2>4 DEF IsDigit
    <3> QED BY <1>3, <3>1, <3>2, <3>3
  <2> QED BY <2>2, <2>3, <2>4
<1> QED BY <1>4, <1>5, <1>6 DEF kk

First(ks) == Value(ks, Left(ks))
Second(ks) == Value(ks, Right(ks))

LEMMA NumbersAppend ==
  ASSUME NEW ks \in Seq(Int), NEW k \in Int
  PROVE  /\ First(Append(ks, k)) =
              IF k = CR THEN 0
              ELSE IF IsDigit(k) /\ Pluses(ks) = {} THEN 10 * First(ks) + k - ASCII0
              ELSE First(ks)
         /\ Second(Append(ks, k)) =
              IF k = CR THEN 0
              ELSE IF IsDigit(k) /\ Pluses(ks) # {} THEN 10 * Second(ks) + k - ASCII0
              ELSE Second(ks)
<1> PICK kk \in Seq(Int) : kk = Append(ks, k)
  BY AppendProperties
<1>1. CASE k = CR
  <2>1. Left(kk) = {} /\ Right(kk) = {}
    BY <1>1, SidesAppend
  <2> QED BY <1>1, <2>1, ValueOfNothing DEF First, Second
<1>2. CASE k # CR
  <2> PICK A, B, C, D : A = Left(kk) /\ B = Right(kk) /\ C = Left(ks) /\ D = Right(ks)
    OBVIOUS
  <2>1. /\ Agree(Len(ks), A, C)
        /\ Agree(Len(ks), B, D)
        /\ Len(ks) + 1 \in A <=> IsDigit(k) /\ Pluses(ks) = {}
        /\ Len(ks) + 1 \in B <=> IsDigit(k) /\ Pluses(ks) # {}
    BY <1>2, SidesAppend DEF Agree
  <2>2. Value(Append(ks, k), A) =
          IF Len(ks) + 1 \in A THEN 10 * Value(ks, C) + k - ASCII0 ELSE Value(ks, C)
    BY <2>1, ValueAppend
  <2>3. Value(Append(ks, k), B) =
          IF Len(ks) + 1 \in B THEN 10 * Value(ks, D) + k - ASCII0 ELSE Value(ks, D)
    BY <2>1, ValueAppend
  <2> QED BY <1>2, <2>1, <2>2, <2>3 DEF First, Second
<1> QED BY <1>1, <1>2

LEMMA NumbersType ==
  ASSUME NEW ks \in Seq(Int)
  PROVE  First(ks) \in Int /\ Second(ks) \in Int
BY ValueType DEF First, Second

LEMMA NumbersEmpty ==
  First(<<>>) = 0 /\ Second(<<>>) = 0 /\ Pluses(<<>>) = {}
<1>1. <<>> \in Seq(Int) /\ DOMAIN <<>> = {}
  OBVIOUS
<1>2. OnLine(<<>>) = {}
  BY <1>1 DEF OnLine
<1>3. Pluses(<<>>) = {} /\ Left(<<>>) = {} /\ Right(<<>>) = {}
  BY <1>2 DEF Pluses, Left, Right
<1> QED BY <1>1, <1>3, ValueOfNothing DEF First, Second

-----------------------------------------------------------------------------
(* What is expected for one key more is what was expected, and its response. *)
LEMMA ResponseType ==
  ASSUME NEW ks \in Seq(Int), NEW k \in Nat
  PROVE  Response(ks, k) \in Seq(Nat)
<1>1. SumOf(ks) \in Int
  <2>1. First(ks) + Second(ks) \in Int
    BY NumbersType
  <2> QED BY <2>1, FittingIsWrap, WrapIs DEF SumOf, First, Second
<1>2. Decimal[SumOf(ks)] \in Seq(Nat)
  BY <1>1, DecimalType
<1>3. <<EQUALS>> \in Seq(Nat) /\ <<CR, NL>> \in Seq(Nat)
  BY DEF EQUALS, CR, NL
<1>4. (<<EQUALS>> \o Decimal[SumOf(ks)]) \o <<CR, NL>> \in Seq(Nat)
  BY <1>2, <1>3, ConcatProperties
<1>5. CASE k = NL
  <2>1. Response(ks, k) = <<>>
    BY <1>5, Keycodes DEF Response
  <2> QED BY <2>1
<1>6. CASE k = CR
  <2>1. Response(ks, k) = (<<EQUALS>> \o Decimal[SumOf(ks)]) \o <<CR, NL>>
    BY <1>6, Keycodes DEF Response
  <2> QED BY <1>4, <2>1
<1>7. CASE k # NL /\ k # CR
  BY <1>7 DEF Response
<1> QED BY <1>5, <1>6, <1>7

Responses(ks) == [i \in DOMAIN ks |-> Response(SubSeq(ks, 1, i - 1), ks[i])]

LEMMA PrefixOfAppend ==
  ASSUME NEW ks \in Seq(Nat), NEW k \in Nat, NEW i \in 0 .. Len(ks)
  PROVE  /\ SubSeq(Append(ks, k), 1, i) = SubSeq(ks, 1, i)
         /\ SubSeq(ks, 1, i) \in Seq(Nat)
<1>1. /\ Len(ks) \in Nat /\ Append(ks, k) \in Seq(Nat)
      /\ Len(Append(ks, k)) = Len(ks) + 1
      /\ \A j \in 1 .. Len(ks) : Append(ks, k)[j] = ks[j]
  BY AppendProperties
<1>2. SubSeq(ks, 1, i) = [j \in 1 .. i |-> ks[j]]
  BY SubSeqRestrict DEF Restrict
<1>3. i \in 0 .. Len(Append(ks, k))
  BY <1>1
<1>4. SubSeq(Append(ks, k), 1, i) = [j \in 1 .. i |-> Append(ks, k)[j]]
  BY <1>1, <1>3, SubSeqRestrict DEF Restrict
<1>5. \A j \in 1 .. i : j \in 1 .. Len(ks)
  BY <1>1
<1> QED BY <1>1, <1>2, <1>4, <1>5, SubSeqProperties

LEMMA ResponsesType ==
  ASSUME NEW ks \in Seq(Nat)
  PROVE  Responses(ks) \in Seq(Seq(Nat)) /\ Len(Responses(ks)) = Len(ks)
<1> PICK n \in Nat : n = Len(ks) /\ DOMAIN ks = 1 .. n
  BY LenProperties
<1>1. Responses(ks) = [i \in 1 .. n |-> Response(SubSeq(ks, 1, i - 1), ks[i])]
  BY DEF Responses
<1>2. ASSUME NEW i \in 1 .. n
      PROVE  Response(SubSeq(ks, 1, i - 1), ks[i]) \in Seq(Nat)
  <2>1. i - 1 \in 0 .. Len(ks) /\ ks[i] \in Nat /\ 0 \in Nat
    BY ElementOfSeq
  <2>2. SubSeq(ks, 1, i - 1) \in Seq(Nat)
    BY <2>1, PrefixOfAppend
  <2>3. SubSeq(ks, 1, i - 1) \in Seq(Int)
    BY <2>2
  <2> QED BY <2>1, <2>3, ResponseType
<1>3. Responses(ks) \in [1 .. n -> Seq(Nat)]
  BY <1>1, <1>2
<1> QED BY <1>3

LEMMA ResponsesAppend ==
  ASSUME NEW ks \in Seq(Nat), NEW k \in Nat
  PROVE  Responses(Append(ks, k)) = Append(Responses(ks), Response(ks, k))
<1> PICK n \in Nat : n = Len(ks)
  BY LenProperties
<1> PICK kk \in Seq(Nat) : kk = Append(ks, k)
  BY AppendProperties
<1>1. /\ Len(kk) = n + 1 /\ \A i \in 1 .. n : kk[i] = ks[i]
      /\ kk[n + 1] = k
  BY AppendProperties
<1>2. \A i \in 1 .. n + 1 : SubSeq(kk, 1, i - 1) = SubSeq(ks, 1, i - 1)
  BY PrefixOfAppend
<1>3. SubSeq(ks, 1, n) = ks
  BY SubSeqFull
<1>4. DOMAIN kk = 1 .. n + 1 /\ DOMAIN ks = 1 .. n
  BY <1>1, LenProperties
<1> DEFINE R(i) == Response(SubSeq(ks, 1, i - 1), ks[i])
           last == Response(ks, k)
<1>5. Responses(ks) = [i \in 1 .. n |-> R(i)]
  BY <1>4 DEF Responses
<1>6. Responses(kk) = [i \in 1 .. n + 1 |-> Response(SubSeq(kk, 1, i - 1), kk[i])]
  BY <1>4 DEF Responses
<1>7. ASSUME NEW i \in 1 .. n
      PROVE  Response(SubSeq(kk, 1, i - 1), kk[i]) = R(i)
  <2>1. i \in 1 .. n + 1
    OBVIOUS
  <2>2. SubSeq(kk, 1, i - 1) = SubSeq(ks, 1, i - 1) /\ kk[i] = ks[i]
    BY <1>1, <1>2, <2>1
  <2> QED BY <2>2
<1>8. Response(SubSeq(kk, 1, (n + 1) - 1), kk[n + 1]) = last
  <2>1. (n + 1) - 1 = n /\ n + 1 \in 1 .. n + 1
    OBVIOUS
  <2>2. SubSeq(kk, 1, n) = ks
    BY <1>2, <1>3, <2>1
  <2> QED BY <1>1, <2>1, <2>2
<1> HIDE DEF R, last
<1>9. Responses(kk) = [i \in 1 .. n + 1 |-> IF i = n + 1 THEN last ELSE R(i)]
  <2>1. \A i \in 1 .. n + 1 : i = n + 1 \/ i \in 1 .. n
    OBVIOUS
  <2>2. \A i \in 1 .. n + 1 : Response(SubSeq(kk, 1, i - 1), kk[i])
                               = IF i = n + 1 THEN last ELSE R(i)
    BY <1>7, <1>8, <2>1
  <2> QED BY <1>6, <2>2
<1>10. Append(Responses(ks), last) = [i \in 1 .. n + 1 |-> IF i = n + 1 THEN last ELSE R(i)]
  <2>1. Responses(ks) \in Seq(Seq(Nat)) /\ Len(Responses(ks)) = n
    BY ResponsesType
  <2>2. last \in Seq(Nat)
    <3>1. ks \in Seq(Int)
      OBVIOUS
    <3> QED BY <3>1, ResponseType DEF last
  <2>3. /\ Append(Responses(ks), last) \in Seq(Seq(Nat))
        /\ Len(Append(Responses(ks), last)) = n + 1
        /\ \A i \in 1 .. n : Append(Responses(ks), last)[i] = Responses(ks)[i]
        /\ Append(Responses(ks), last)[n + 1] = last
    BY <2>1, <2>2, AppendProperties
  <2>4. \A i \in 1 .. n : Responses(ks)[i] = R(i)
    BY <1>5
  <2> DEFINE a == Append(Responses(ks), last)
  <2>5. a \in [1 .. n + 1 -> Seq(Nat)] /\ a[n + 1] = last /\ \A i \in 1 .. n : a[i] = R(i)
    BY <2>3, <2>4, LenProperties
  <2> HIDE DEF a
  <2>6. \A i \in 1 .. n + 1 : i = n + 1 \/ (i # n + 1 /\ i \in 1 .. n)
    OBVIOUS
  <2>7. \A i \in 1 .. n + 1 : a[i] = IF i = n + 1 THEN last ELSE R(i)
    BY <2>5, <2>6
  <2>8. a = [i \in 1 .. n + 1 |-> a[i]]
    BY <2>5
  <2>9. a = [i \in 1 .. n + 1 |-> IF i = n + 1 THEN last ELSE R(i)]
    BY <2>7, <2>8
  <2> QED BY <2>9 DEF a
<1> QED BY <1>9, <1>10 DEF last

LEMMA ExpectedAppend ==
  ASSUME NEW ks \in Seq(Nat), NEW k \in Nat
  PROVE  Expected(Append(ks, k)) = Expected(ks) \o Response(ks, k)
<1>1. Responses(ks) \in Seq(Seq(Nat)) /\ Response(ks, k) \in Seq(Nat)
  <2>1. ks \in Seq(Int)
    OBVIOUS
  <2> QED BY <2>1, ResponsesType, ResponseType
<1>2. FlattenSeq(Append(Responses(ks), Response(ks, k)))
        = FlattenSeq(Responses(ks)) \o Response(ks, k)
  BY <1>1, FlattenAppend
<1>3. Expected(ks) = FlattenSeq(Responses(ks))
      /\ Expected(Append(ks, k)) = FlattenSeq(Responses(Append(ks, k)))
  BY DEF Expected, Responses
<1> QED BY <1>2, <1>3, ResponsesAppend

LEMMA ExpectedType ==
  ASSUME NEW ks \in Seq(Nat)
  PROVE  Expected(ks) \in Seq(Nat)
<1>1. Responses(ks) \in Seq(Seq(Nat))
  BY ResponsesType
<1> QED BY <1>1, FlattenType DEF Expected, Responses

LEMMA ExpectedEmpty == Expected(<<>>) = <<>>
<1>1. <<>> \in Seq(Nat)
  OBVIOUS
<1>2. Responses(<<>>) = <<>>
  BY <1>1, ResponsesType, EmptySeq
<1> QED BY <1>2, FlattenEmpty DEF Expected, Responses

-----------------------------------------------------------------------------
(* The inductive invariant holds initially, and every step keeps it. *)
LEMMA FrontLast ==
  ASSUME NEW S, NEW s \in Seq(S), s # <<>>
  PROVE  /\ Front(s) \in Seq(S) /\ Last(s) \in S /\ s = Append(Front(s), Last(s))
         /\ Len(s) = Len(Front(s)) + 1
<1> PICK n \in Nat \ {0} : n = Len(s)
  BY EmptySeq
<1>1. \A i \in 1 .. n : s[i] \in S
  BY ElementOfSeq
<1>2. /\ Front(s) = SubSeq(s, 1, n - 1) /\ Last(s) = s[n] /\ n \in 1 .. n
      /\ n - 1 \in Int /\ 1 \in Int
  BY DEF Front, Last
<1>3. \A i \in 1 .. n - 1 : i \in 1 .. n
  OBVIOUS
<1>4. /\ Front(s) \in Seq(S) /\ Len(Front(s)) = n - 1
      /\ \A i \in 1 .. n - 1 : Front(s)[i] = s[i]
  <2>1. /\ SubSeq(s, 1, n - 1) \in Seq(S)
        /\ Len(SubSeq(s, 1, n - 1)) = IF 1 <= n - 1 THEN (n - 1) - 1 + 1 ELSE 0
        /\ \A i \in 1 .. (n - 1) - 1 + 1 : SubSeq(s, 1, n - 1)[i] = s[1 + i - 1]
    BY <1>1, <1>2, <1>3, SubSeqProperties
  <2> QED BY <1>2, <2>1
<1>5. Last(s) \in S
  BY <1>1, <1>2
<1>6. s = Append(Front(s), Last(s))
  <2>1. /\ Append(Front(s), Last(s)) \in Seq(S)
        /\ Len(Append(Front(s), Last(s))) = n
        /\ \A i \in 1 .. n - 1 : Append(Front(s), Last(s))[i] = s[i]
        /\ Append(Front(s), Last(s))[n] = s[n]
    BY <1>2, <1>4, <1>5, AppendProperties
  <2>2. \A i \in 1 .. n : i = n \/ i \in 1 .. n - 1
    OBVIOUS
  <2>3. \A i \in 1 .. n : Append(Front(s), Last(s))[i] = s[i]
    BY <2>1, <2>2
  <2> QED BY <2>1, <2>3, SeqEqual
<1> QED BY <1>4, <1>5, <1>6

LEMMA FrontOfAppend ==
  ASSUME NEW S, NEW s \in Seq(S), NEW e \in S
  PROVE  Front(Append(s, e)) = s /\ Last(Append(s, e)) = e
<1>1. Append(s, e) \in Seq(S) /\ Append(s, e) # <<>>
  BY AppendProperties
<1>2. /\ Front(Append(s, e)) \in Seq(S) /\ Last(Append(s, e)) \in S
      /\ Append(s, e) = Append(Front(Append(s, e)), Last(Append(s, e)))
  BY <1>1, FrontLast
<1> QED BY <1>2, AppendInjective

LEMMA KeysAreNumbers ==
  ASSUME NEW ks \in Seq(Keys)
  PROVE  ks \in Seq(Nat) /\ ks \in Seq(Int) /\ \A k \in Keys : k \in Nat
<1>1. Keys \subseteq Nat /\ Keys \subseteq Int
  OBVIOUS
<1> QED BY <1>1, SeqMonotonic

(* How the views of what was typed hang together. *)
LEMMA Views ==
  ASSUME CalcTypeOK, OneKeyUnderWay, Position
  PROVE  /\ Got \in Seq(Keys) /\ Counted \in Seq(Keys) /\ Settled \in Seq(Keys)
         /\ UnderWay => typed = Append(Got, Last(typed)) /\ Last(typed) \in Keys
         /\ Answering => Got = Append(Counted, key) /\ key \in Keys /\ key # NL
<1>1. typed \in Seq(Keys)
  BY DEF CalcTypeOK
<1>2. /\ Got \in Seq(Keys)
      /\ UnderWay => typed = Append(Got, Last(typed)) /\ Last(typed) \in Keys
  <2>1. CASE UnderWay
    <3>1. typed # <<>> /\ Got = Front(typed)
      BY <2>1 DEF OneKeyUnderWay, Got
    <3> QED BY <1>1, <3>1, FrontLast
  <2>2. CASE ~UnderWay
    BY <1>1, <2>2 DEF Got
  <2> QED BY <2>1, <2>2
<1>3. /\ Counted \in Seq(Keys)
      /\ Answering => Got = Append(Counted, key) /\ key \in Keys /\ key # NL
  <2>1. CASE Answering
    <3>1. Got # <<>> /\ Counted = Front(Got) /\ key = Last(Got) /\ key # NL
      BY <2>1 DEF Position, Counted
    <3> QED BY <1>2, <3>1, FrontLast
  <2>2. CASE ~Answering
    BY <1>2, <2>2 DEF Counted
  <2> QED BY <2>1, <2>2
<1> QED BY <1>2, <1>3 DEF Settled

LEMMA OutTypes ==
  ASSUME CalcTypeOK
  PROVE  Sending \in Seq(Nat) /\ Unsent \in Seq(Nat)
<1>1. Sending \in Seq(Nat)
  <2>1. CASE pending = None
    BY <2>1 DEF Sending
  <2>2. CASE pending # None
    <3>1. pending \in Nat
      BY <2>2 DEF CalcTypeOK
    <3> QED BY <2>2, <3>1 DEF Sending
  <2> QED BY <2>1, <2>2
<1>2. Unsent \in Seq(Nat)
  <2>1. CASE pc = "send"
    BY <2>1 DEF CalcTypeOK, Unsent
  <2>2. CASE pc # "send"
    BY <2>2 DEF Unsent
  <2> QED BY <2>1, <2>2
<1> QED BY <1>1, <1>2

(* Everything shown was expected, and already for what the program has got. *)
LEMMA ShownExpected ==
  ASSUME CalcInv
  PROVE  /\ \E rest \in Seq(Nat) : Expected(Got) = shown \o rest
         /\ \E rest \in Seq(Nat) : Expected(typed) = shown \o rest
<1> USE DEF CalcInv
<1>1. /\ Got \in Seq(Keys) /\ Counted \in Seq(Keys) /\ typed \in Seq(Keys)
      /\ UnderWay => typed = Append(Got, Last(typed)) /\ Last(typed) \in Keys
      /\ Answering => Got = Append(Counted, key) /\ key \in Keys /\ key # NL
  BY Views DEF CalcTypeOK
<1>2. shown \in Seq(Nat) /\ Sending \o Unsent \in Seq(Nat)
  <2>1. Sending \in Seq(Nat) /\ Unsent \in Seq(Nat)
    BY OutTypes
  <2> QED BY <2>1, ConcatProperties DEF CalcTypeOK
<1>3. ASSUME NEW ks \in Seq(Keys), NEW k \in Keys,
             \E rest \in Seq(Nat) : Expected(ks) = shown \o rest
      PROVE  \E rest \in Seq(Nat) : Expected(Append(ks, k)) = shown \o rest
  <2>1. PICK rest \in Seq(Nat) : Expected(ks) = shown \o rest
    BY <1>3
  <2>2. ks \in Seq(Nat) /\ ks \in Seq(Int) /\ k \in Nat
    BY KeysAreNumbers
  <2>3. Response(ks, k) \in Seq(Nat)
    BY <2>2, ResponseType
  <2>4. Expected(Append(ks, k)) = (shown \o rest) \o Response(ks, k)
    BY <2>1, <2>2, ExpectedAppend
  <2>5. (shown \o rest) \o Response(ks, k) = shown \o (rest \o Response(ks, k))
    <3>1. shown \in Seq(Nat)
      BY <1>2
    <3>2. PICK r \in Seq(Nat) : r = Response(ks, k)
      BY <2>3
    <3>3. (shown \o rest) \o r = shown \o (rest \o r)
      BY <3>1, ConcatAssociative
    <3> QED BY <3>2, <3>3
  <2>6. rest \o Response(ks, k) \in Seq(Nat)
    BY <2>3, ConcatProperties
  <2> QED BY <2>4, <2>5, <2>6
<1>4. \E rest \in Seq(Nat) : Expected(Settled) = shown \o rest
  BY <1>2 DEF Printed
<1>5. \E rest \in Seq(Nat) : Expected(Got) = shown \o rest
  <2>1. CASE pc = "branch"
    <3>1. Settled = Counted /\ Answering
      BY <2>1 DEF Settled, Answering
    <3> QED BY <1>1, <1>3, <1>4, <3>1
  <2>2. CASE pc # "branch"
    BY <1>4, <2>2 DEF Settled
  <2> QED BY <2>1, <2>2
<1>6. \E rest \in Seq(Nat) : Expected(typed) = shown \o rest
  <2>1. CASE UnderWay
    BY <1>1, <1>3, <1>5, <2>1
  <2>2. CASE ~UnderWay
    BY <1>5, <2>2 DEF Got
  <2> QED BY <2>1, <2>2
<1> QED BY <1>5, <1>6

LEMMA CalcInit == Init => CalcInv
<1> SUFFICES ASSUME Init PROVE CalcInv
  OBVIOUS
<1> USE DEF Init
<1>1. ~UnderWay /\ ~Answering /\ Got = <<>> /\ Counted = <<>> /\ Settled = <<>>
  BY DEF UnderWay, Answering, Got, Counted, Settled, None
<1>2. CalcTypeOK
  <2>1. /\ available \in BOOLEAN /\ error \in BOOLEAN /\ clearing \in BOOLEAN
        /\ pc \in {"error", "clear", "available", "read", "branch", "send", "done"}
    OBVIOUS
  <2>2. /\ received \in Int /\ pending \in Nat \cup {None} /\ coming \in Keys \cup {None}
        /\ State \in {0, 1} /\ NumberA \in Int /\ NumberB \in Int /\ key \in Int
    OBVIOUS
  <2>3. typed \in Seq(Keys) /\ shown \in Seq(Nat) /\ out \in Seq(Nat)
    OBVIOUS
  <2> QED BY <2>1, <2>2, <2>3 DEF CalcTypeOK
<1>3. OneKeyUnderWay /\ Position
  BY <1>1 DEF OneKeyUnderWay, Position, UnderWay, None
<1>4. NumbersAreLine
  <2>1. /\ Value(<<>>, Left(<<>>)) = 0 /\ Value(<<>>, Right(<<>>)) = 0
        /\ Pluses(<<>>) = {}
    BY NumbersEmpty DEF First, Second
  <2> QED BY <1>1, <2>1, WrapZero DEF NumbersAreLine
<1>5. Printed
  <2>1. Sending = <<>> /\ Unsent = <<>>
    BY DEF Sending, Unsent
  <2>2. <<>> \in Seq(Nat)
    OBVIOUS
  <2>3. <<>> \o (<<>> \o <<>>) = <<>>
    BY <2>2, ConcatEmptySeq
  <2> QED BY <1>1, <2>1, <2>3, ExpectedEmpty DEF Printed
<1> QED BY <1>2, <1>3, <1>4, <1>5 DEF CalcInv

(* Steps that leave what the program has got, and what it does with it. *)
LEMMA GotKeeps ==
  ASSUME CalcInv, CalcTypeOK', OneKeyUnderWay', Got' = Got,
         UNCHANGED <<pending, shown, numbers, key, out>>,
         \/ pc' = pc
         \/ ~Answering /\ pc' \in {"error", "clear", "available", "read"},
         pc' = "read" => available'
  PROVE  CalcInv'
<1> USE DEF CalcInv, numbers
<1>1. Answering' = Answering /\ (pc' = "send" <=> pc = "send")
      /\ (pc' = "branch" <=> pc = "branch") /\ (pc' = "done" <=> pc = "done")
  BY DEF Answering
<1>2. Counted' = Counted /\ Settled' = Settled
  BY <1>1 DEF Counted, Settled
<1>3. Position'
  BY <1>1 DEF Position
<1>4. NumbersAreLine'
  BY <1>1, <1>2 DEF NumbersAreLine
<1>5. Printed'
  <2>1. Sending' = Sending /\ Unsent' = Unsent
    BY <1>1 DEF Sending, Unsent
  <2> QED BY <1>2, <2>1 DEF Printed
<1> QED BY <1>3, <1>4, <1>5

LEMMA TypeKeeps ==
  ASSUME CalcInv, NEW k \in Keys, Type(k)
  PROVE  CalcInv'
<1> USE DEF CalcInv
<1> USE DEF Type, uart, program, numbers
<1>1. typed \in Seq(Keys) /\ typed' = Append(typed, k)
  BY DEF CalcTypeOK
<1>2. typed' \in Seq(Keys) /\ typed' # <<>> /\ Front(typed') = typed /\ Last(typed') = k
  BY <1>1, FrontOfAppend, AppendProperties
<1>3. ~UnderWay
  <2>1. CASE typed = <<>>
    BY <2>1 DEF OneKeyUnderWay
  <2>2. CASE typed # <<>>
    <3>1. /\ coming = None
          /\ IF Last(typed) = NL THEN ~available
             ELSE Len(shown) > Len(Expected(Front(typed)))
      BY <2>2 DEF MayType
    <3> SUFFICES ASSUME available PROVE FALSE
      BY <3>1 DEF UnderWay
    <3>2. Len(shown) > Len(Expected(Front(typed)))
      BY <3>1
    <3>3. Got = Front(typed)
      BY DEF Got, UnderWay
    <3>4. PICK rest \in Seq(Nat) : Expected(Got) = shown \o rest
      BY ShownExpected
    <3>5. shown \in Seq(Nat)
      BY DEF CalcTypeOK
    <3>6. Len(shown \o rest) = Len(shown) + Len(rest) /\ Len(rest) \in Nat /\ Len(shown) \in Nat
      BY <3>5, ConcatProperties, LenProperties
    <3> QED BY <3>2, <3>3, <3>4, <3>6
  <2> QED BY <2>1, <2>2
<1>4. Got' = Got
  <2>1. k # None
    BY DEF None
  <2>2. UnderWay'
    BY <2>1 DEF UnderWay
  <2> QED BY <1>2, <1>3, <2>2 DEF Got
<1>5. CalcTypeOK'
  BY <1>2 DEF CalcTypeOK
<1>6. OneKeyUnderWay'
  BY <1>2, <1>3 DEF OneKeyUnderWay, UnderWay
<1>7. pc' = "read" => available'
  BY DEF Position
<1> QED BY <1>4, <1>5, <1>6, <1>7, GotKeeps

LEMMA ArriveKeeps ==
  ASSUME CalcInv, NEW bad \in Noise, Arrive(bad)
  PROVE  CalcInv'
<1> USE DEF CalcInv
<1> USE DEF Arrive, program, numbers
<1>1. typed' = typed /\ coming = Last(typed) /\ UnderWay /\ UnderWay'
  BY DEF OneKeyUnderWay, UnderWay
<1>2. Got' = Got
  BY <1>1 DEF Got
<1>3. bad \in BOOLEAN
  OBVIOUS
<1>4. CalcTypeOK'
  <2>1. coming \in Int /\ received' \in Int
    BY DEF CalcTypeOK
  <2>2. available' \in BOOLEAN /\ error' \in BOOLEAN /\ clearing' \in BOOLEAN
    BY <1>3 DEF CalcTypeOK
  <2> QED BY <2>1, <2>2 DEF CalcTypeOK
<1>5. OneKeyUnderWay'
  BY <1>1 DEF OneKeyUnderWay, UnderWay
<1> QED BY <1>2, <1>4, <1>5, GotKeeps

LEMMA ClearedKeeps ==
  ASSUME CalcInv, Cleared
  PROVE  CalcInv'
<1> USE DEF CalcInv
<1> USE DEF Cleared, person, program, numbers
<1>1. Got' = Got /\ UnderWay' = UnderWay
  BY DEF Got, UnderWay
<1>2. CalcTypeOK'
  BY DEF CalcTypeOK
<1>3. OneKeyUnderWay'
  BY <1>1 DEF OneKeyUnderWay
<1>4. pc' = "read" => available'
  BY DEF Position
<1> QED BY <1>1, <1>2, <1>3, <1>4, GotKeeps

LEMMA PollKeeps ==
  ASSUME CalcInv, UNCHANGED person, PollError \/ ClearError \/ PollAvailable
  PROVE  CalcInv'
<1> USE DEF CalcInv
<1> USE DEF person, uart, numbers
<1>1. /\ UNCHANGED <<available, received, pending, NumberA, NumberB, State, key, out>>
      /\ UNCHANGED <<error, coming, typed, shown>>
      /\ ~Answering /\ pc' \in {"error", "clear", "available", "read"}
      /\ pc' = "read" => available'
  BY DEF PollError, ClearError, PollAvailable, Answering
<1>2. Got' = Got /\ UnderWay' = UnderWay
  BY <1>1 DEF Got, UnderWay
<1>3. clearing' \in BOOLEAN
  <2>1. CASE PollError \/ PollAvailable
    BY <2>1 DEF PollError, PollAvailable, CalcTypeOK
  <2>2. CASE ClearError
    <3>1. clearing' = (clearing \/ pending = None)
      BY <2>2 DEF ClearError
    <3> QED BY <3>1
  <2> QED BY <2>1, <2>2
<1>4. CalcTypeOK'
  BY <1>1, <1>3 DEF CalcTypeOK
<1>5. OneKeyUnderWay'
  BY <1>1, <1>2 DEF OneKeyUnderWay
<1> QED BY <1>1, <1>2, <1>4, <1>5, GotKeeps

LEMMA StutterKeeps ==
  ASSUME CalcInv, UNCHANGED vars
  PROVE  CalcInv'
<1> USE DEF CalcInv
<1> USE DEF vars, person, program, uart, numbers
<1>1. Got' = Got /\ UnderWay' = UnderWay
  BY DEF Got, UnderWay
<1>2. CalcTypeOK' /\ OneKeyUnderWay' /\ (pc' = "read" => available')
  BY <1>1 DEF CalcTypeOK, OneKeyUnderWay, Position
<1> QED BY <1>1, <1>2, GotKeeps

(* The terminal shows the character on the wire. *)
LEMMA TransmittedKeeps ==
  ASSUME CalcInv, Transmitted
  PROVE  CalcInv'
<1> USE DEF CalcInv
<1> USE DEF Transmitted, program, numbers
<1>1. pending \in Nat /\ shown \in Seq(Nat)
  BY DEF CalcTypeOK
<1>2. /\ Got' = Got /\ UnderWay' = UnderWay /\ Counted' = Counted /\ Settled' = Settled
      /\ Answering' = Answering
  BY DEF Got, UnderWay, Counted, Settled, Answering
<1>3. CalcTypeOK'
  BY <1>1, AppendProperties DEF CalcTypeOK
<1>4. OneKeyUnderWay' /\ Position'
  BY <1>2 DEF OneKeyUnderWay, Position
<1>5. NumbersAreLine'
  BY <1>2 DEF NumbersAreLine
<1>6. Printed'
  <2>1. Sending = <<pending>> /\ Sending' = <<>> /\ Unsent' = Unsent
    BY DEF Sending, Unsent
  <2>2. Unsent \in Seq(Nat)
    BY DEF Unsent, CalcTypeOK
  <2> PICK u \in Seq(Nat) : u = Unsent
    BY <2>2
  <2>3. <<pending>> \in Seq(Nat) /\ <<>> \in Seq(Nat)
    BY <1>1
  <2>4. shown' = shown \o <<pending>>
    BY <1>1, AppendIsConcat
  <2>5. (shown \o <<pending>>) \o u = shown \o (<<pending>> \o u)
    BY <1>1, <2>3, ConcatAssociative
  <2>6. <<>> \o u = u
    BY ConcatEmptySeq
  <2> QED BY <1>2, <2>1, <2>4, <2>5, <2>6 DEF Printed
<1> QED BY <1>3, <1>4, <1>5, <1>6

(* A line feed is taken and forgotten; any other key is to be answered. *)
LEMMA ReadByteKeeps ==
  ASSUME CalcInv, UNCHANGED person, ReadByte
  PROVE  CalcInv'
<1> USE DEF CalcInv
<1> USE DEF person, numbers
<1> PICK k : k = received
  OBVIOUS
<1>1. /\ pc = "read" /\ available /\ available' = FALSE /\ key' = k
      /\ UNCHANGED <<received, error, clearing, pending, NumberA, NumberB, State, out>>
      /\ UNCHANGED <<coming, typed, shown>>
      /\ pc' = IF k = NL THEN "error" ELSE "branch"
  BY DEF ReadByte, Position
<1>2. coming = None /\ k = Last(typed)
  BY <1>1 DEF OneKeyUnderWay
<1>3. UnderWay /\ ~UnderWay' /\ ~Answering /\ Counted = Got /\ Settled = Got /\ Got' = typed
  BY <1>1, <1>2 DEF UnderWay, Answering, Counted, Settled, Got
<1>4. Got \in Seq(Keys) /\ typed = Append(Got, k) /\ k \in Keys
  BY <1>2, <1>3, Views
<1>5. Got \in Seq(Nat) /\ Got \in Seq(Int) /\ k \in Nat
  BY <1>4, KeysAreNumbers
<1>6. CalcTypeOK'
  BY <1>1, <1>5 DEF CalcTypeOK
<1>7. OneKeyUnderWay'
  BY <1>1, <1>2, <1>3 DEF OneKeyUnderWay
<1>8. Sending' = Sending /\ Unsent' = Unsent
  BY <1>1 DEF Sending, Unsent
<1>9. shown \o (Sending \o Unsent) = Expected(Got)
  BY <1>3 DEF Printed
<1>10. /\ NumberA = Wrap(First(Got)) /\ NumberB = Wrap(Second(Got))
       /\ State = IF Pluses(Got) = {} THEN 0 ELSE 1
  BY <1>1, <1>3 DEF NumbersAreLine, First, Second
<1>11. CASE k = NL
  <2>1. pc' = "error" /\ ~Answering' /\ Counted' = typed /\ Settled' = typed
    BY <1>1, <1>3, <1>11 DEF Answering, Counted, Settled
  <2>2. Position'
    BY <1>1, <2>1 DEF Position
  <2>3. /\ First(typed) = First(Got) /\ Second(typed) = Second(Got)
        /\ Pluses(typed) = Pluses(Got)
    BY <1>4, <1>5, <1>11, NumbersAppend, PlusesAppend, Keycodes DEF IsDigit
  <2>4. NumbersAreLine'
    BY <1>1, <1>10, <2>1, <2>3 DEF NumbersAreLine, First, Second
  <2>5. Expected(typed) = Expected(Got)
    <3>1. Response(Got, k) = <<>>
      BY <1>11, Keycodes DEF Response
    <3>2. Expected(typed) = Expected(Got) \o Response(Got, k)
      BY <1>4, <1>5, ExpectedAppend
    <3>3. PICK e \in Seq(Nat) : e = Expected(Got)
      BY <1>5, ExpectedType
    <3>4. e \o <<>> = e
      BY ConcatEmptySeq
    <3> QED BY <3>1, <3>2, <3>3, <3>4
  <2>6. Printed'
    BY <1>1, <1>8, <1>9, <2>1, <2>5 DEF Printed
  <2> QED BY <1>6, <1>7, <2>2, <2>4, <2>6
<1>12. CASE k # NL
  <2>1. /\ pc' = "branch" /\ Answering'
        /\ typed # <<>> /\ Front(typed) = Got
    BY <1>1, <1>4, <1>12, FrontOfAppend, AppendProperties DEF Answering
  <2>2. Counted' = Got /\ Settled' = Got
    BY <1>3, <2>1 DEF Counted, Settled
  <2>3. Position'
    BY <1>1, <1>2, <1>3, <1>12, <2>1 DEF Position
  <2>4. NumbersAreLine'
    BY <1>1, <1>10, <2>1, <2>2 DEF NumbersAreLine, First, Second
  <2>5. Printed'
    BY <1>1, <1>8, <1>9, <2>2 DEF Printed
  <2> QED BY <1>6, <1>7, <2>3, <2>4, <2>5
<1> QED BY <1>11, <1>12

(* What is printed for a key is its response. *)
LEMMA RespondKeeps ==
  ASSUME CalcInv, UNCHANGED person, UNCHANGED uart, UNCHANGED <<NumberA, NumberB, key>>,
         pc = "branch", pc' = "send", out' = Response(Counted, key),
         State' = IF key = CR THEN 0 ELSE State
  PROVE  CalcInv'
<1> USE DEF CalcInv
<1> USE DEF person, uart
<1>1. /\ Got' = Got /\ UnderWay' = UnderWay /\ Answering /\ Answering'
      /\ Counted' = Counted /\ Settled = Counted /\ Settled' = Got
  BY DEF Got, UnderWay, Answering, Counted, Settled
<1>2. Counted \in Seq(Keys) /\ Got = Append(Counted, key) /\ key \in Keys /\ key # NL
  BY <1>1, Views
<1>3. Counted \in Seq(Nat) /\ Counted \in Seq(Int) /\ key \in Nat
  BY <1>2, KeysAreNumbers
<1>4. PICK r \in Seq(Nat) : r = Response(Counted, key)
  BY <1>3, ResponseType
<1>5. r # <<>>
  <2>1. CASE key = CR
    <3>1. PICK d \in Seq(Nat) : d = Decimal[SumOf(Counted)]
      <4>1. First(Counted) + Second(Counted) \in Int
        BY <1>3, NumbersType
      <4>2. SumOf(Counted) \in Int
        BY <4>1, FittingIsWrap, WrapIs DEF SumOf, First, Second
      <4> QED BY <4>2, DecimalType
    <3>2. r = <<EQUALS>> \o d \o <<CR, NL>>
      BY <1>4, <2>1, <3>1, Keycodes DEF Response
    <3>3. <<EQUALS>> \in Seq(Nat) /\ <<CR, NL>> \in Seq(Nat) /\ <<CR, NL>> # <<>>
      BY DEF EQUALS, CR, NL
    <3>4. <<EQUALS>> \o d \in Seq(Nat)
      BY <3>3, ConcatProperties
    <3> QED BY <3>2, <3>3, <3>4, ConcatEqualIffEmpty
  <2>2. CASE key # CR
    <3>1. r = <<key>>
      BY <1>2, <1>4, <2>2 DEF Response
    <3> QED BY <3>1
  <2> QED BY <2>1, <2>2
<1>6. out' = r
  BY <1>4
<1>7. CalcTypeOK'
  BY <1>6 DEF CalcTypeOK
<1>8. OneKeyUnderWay' /\ Position'
  BY <1>1, <1>5, <1>6 DEF OneKeyUnderWay, Position
<1>9. NumbersAreLine'
  <2>1. State = IF Pluses(Counted) = {} THEN 0 ELSE 1
    BY DEF NumbersAreLine
  <2> QED BY <1>1, <2>1 DEF NumbersAreLine
<1>10. Printed'
  <2>1. /\ Sending' = Sending /\ Unsent = <<>> /\ Unsent' = r
    BY <1>6 DEF Sending, Unsent
  <2>2. PICK s \in Seq(Nat) : s = Sending
    BY OutTypes
  <2>3. shown \in Seq(Nat)
    BY DEF CalcTypeOK
  <2>4. shown \o (s \o <<>>) = Expected(Counted)
    BY <1>1, <2>1, <2>2 DEF Printed
  <2>5. s \o <<>> = s
    BY ConcatEmptySeq
  <2>6. Expected(Got) = Expected(Counted) \o Response(Counted, key)
    BY <1>2, <1>3, ExpectedAppend
  <2>7. Expected(Got) = (shown \o s) \o r
    BY <1>4, <2>4, <2>5, <2>6
  <2>8. (shown \o s) \o r = shown \o (s \o r)
    BY <2>3, ConcatAssociative
  <2>9. shown' = shown
    OBVIOUS
  <2> QED BY <1>1, <2>1, <2>2, <2>7, <2>8, <2>9 DEF Printed
<1> QED BY <1>7, <1>8, <1>9, <1>10

LEMMA EchoKeeps ==
  ASSUME CalcInv, UNCHANGED person, Echo
  PROVE  CalcInv'
<1>1. Answering /\ key # CR
  BY DEF Echo, Answering
<1>2. key # NL
  BY <1>1 DEF CalcInv, Position
<1>3. Response(Counted, key) = <<key>>
  BY <1>1, <1>2 DEF Response
<1> QED BY <1>1, <1>3, RespondKeeps DEF Echo, numbers

LEMMA AnswerKeeps ==
  ASSUME CalcInv, UNCHANGED person, Answer
  PROVE  CalcInv'
<1>1. Answering /\ key = CR
  BY DEF Answer, Answering
<1>2. Counted \in Seq(Int)
  <2>1. Counted \in Seq(Keys)
    BY Views DEF CalcInv
  <2> QED BY <2>1, KeysAreNumbers
<1>3. SumOf(Counted) = Wrap(NumberA + NumberB)
  <2>1. First(Counted) \in Int /\ Second(Counted) \in Int
    BY <1>2, NumbersType
  <2>2. NumberA = Wrap(First(Counted)) /\ NumberB = Wrap(Second(Counted))
    BY DEF CalcInv, NumbersAreLine, First, Second
  <2>3. SumOf(Counted) = Fitting(First(Counted) + Second(Counted))
    BY DEF SumOf, First, Second
  <2> PICK a \in Int, b \in Int : a = First(Counted) /\ b = Second(Counted)
    BY <2>1
  <2>4. Fitting(a + b) = Wrap(a + b)
    BY FittingIsWrap
  <2>5. Wrap(a + b) = Wrap(Wrap(a) + Wrap(b))
    BY WrapSum
  <2> QED BY <2>2, <2>3, <2>4, <2>5
<1>4. Response(Counted, key) = <<EQUALS>> \o Decimal[SumOf(Counted)] \o <<CR, NL>>
  BY <1>1, Keycodes DEF Response
<1>5. out' = Response(Counted, key)
  BY <1>3, <1>4 DEF Answer
<1> QED BY <1>1, <1>5, RespondKeeps DEF Answer

(* A character moves from the program to the wire. *)
LEMMA SendKeeps ==
  ASSUME CalcInv, UNCHANGED person, Send
  PROVE  CalcInv'
<1> USE DEF CalcInv
<1> USE DEF person, numbers
<1> PICK h, t : h = Head(out) /\ t = Tail(out)
  OBVIOUS
<1>1. /\ pc = "send" /\ pending = None /\ pending' = h /\ out' = t
      /\ pc' = IF Len(out) = 1 THEN "done" ELSE "send"
      /\ UNCHANGED <<available, received, error, clearing, NumberA, NumberB, State, key>>
      /\ UNCHANGED <<coming, typed, shown>>
  BY DEF Send
<1>2. out \in Seq(Nat) /\ out # <<>>
  BY <1>1 DEF CalcTypeOK, Position
<1>3. h \in Nat /\ t \in Seq(Nat) /\ Len(t) = Len(out) - 1 /\ Len(out) \in Nat
  BY <1>2, HeadTailProperties, LenProperties
<1>4. out = <<h>> \o t
  <2>1. Len(out) \in Nat \ {0}
    BY <1>2, EmptySeq
  <2>2. 1 \in 1 .. Len(out) /\ Len(out) \in 1 .. Len(out)
    BY <2>1
  <2>3. SubSeq(out, 1, Len(out)) = <<out[1]>> \o SubSeq(out, 1 + 1, Len(out))
    BY <1>2, <2>2, SubSeqRecursiveFirst
  <2>4. t = SubSeq(out, 2, Len(out)) /\ SubSeq(out, 1, Len(out)) = out
    BY <1>2, TailIsSubSeq, SubSeqFull
  <2>5. h = out[1]
    BY <1>2, <2>2, <2>4, HeadTailOfSubSeq
  <2>6. 1 + 1 = 2
    OBVIOUS
  <2> QED BY <2>3, <2>4, <2>5, <2>6
<1>5. Len(out) = 1 => t = <<>>
  BY <1>3, EmptySeq
<1>6. Len(out) # 1 => t # <<>>
  <2>1. t = <<>> => Len(t) = 0
    BY EmptySeq
  <2> QED BY <1>3, <2>1
<1>7. /\ Got' = Got /\ UnderWay' = UnderWay /\ Answering /\ Answering'
      /\ Counted' = Counted /\ Settled = Got /\ Settled' = Got
  BY <1>1 DEF Got, UnderWay, Answering, Counted, Settled
<1>8. CalcTypeOK'
  BY <1>1, <1>3 DEF CalcTypeOK
<1>9. OneKeyUnderWay' /\ Position'
  BY <1>1, <1>6, <1>7 DEF OneKeyUnderWay, Position
<1>10. NumbersAreLine'
  <2>1. (pc' \in {"send", "done"}) = (pc \in {"send", "done"})
    BY <1>1
  <2> QED BY <1>1, <1>7, <2>1 DEF NumbersAreLine
<1>11. Printed'
  <2>1. Sending = <<>> /\ Unsent = out
    BY <1>1 DEF Sending, Unsent
  <2>2. Sending' = <<h>>
    <3>1. h # None
      BY <1>3 DEF None
    <3> QED BY <1>1, <3>1 DEF Sending
  <2>3. Unsent' = t
    BY <1>1, <1>5 DEF Unsent
  <2>4. <<>> \o out = out
    BY <1>2, ConcatEmptySeq
  <2>5. shown \o out = Expected(Got)
    BY <1>7, <2>1, <2>4 DEF Printed
  <2>6. shown \o (<<h>> \o t) = Expected(Got)
    BY <1>4, <2>5
  <2> QED BY <1>1, <1>7, <2>2, <2>3, <2>6 DEF Printed
<1> QED BY <1>8, <1>9, <1>10, <1>11

(* The key is answered, and is counted in the numbers. *)
LEMMA DoneKeeps ==
  ASSUME CalcInv, UNCHANGED person, Done
  PROVE  CalcInv'
<1> USE DEF CalcInv
<1> USE DEF person, uart
<1>1. /\ pc = "done" /\ pc' = "error" /\ Answering /\ ~Answering'
      /\ UNCHANGED <<available, received, error, clearing, pending, key, out>>
      /\ UNCHANGED <<coming, typed, shown>>
  BY DEF Done, Answering
<1>2. /\ Got' = Got /\ UnderWay' = UnderWay /\ Counted' = Got
      /\ Settled = Got /\ Settled' = Got
  BY <1>1 DEF Got, UnderWay, Answering, Counted, Settled
<1>3. Counted \in Seq(Keys) /\ Got = Append(Counted, key) /\ key \in Keys /\ key # NL
  BY <1>1, Views
<1>4. Counted \in Seq(Int) /\ key \in Int
  BY <1>3, KeysAreNumbers
<1>5. First(Counted) \in Int /\ Second(Counted) \in Int
  BY <1>4, NumbersType
<1> PICK a \in Int, b \in Int : a = First(Counted) /\ b = Second(Counted)
  BY <1>5
<1>6. /\ NumberA = Wrap(a) /\ NumberB = Wrap(b)
      /\ State = IF key = CR \/ Pluses(Counted) = {} THEN 0 ELSE 1
  BY <1>1 DEF NumbersAreLine, First, Second
<1>7. /\ First(Got) = IF key = CR THEN 0
                      ELSE IF IsDigit(key) /\ Pluses(Counted) = {}
                           THEN 10 * a + key - ASCII0 ELSE a
      /\ Second(Got) = IF key = CR THEN 0
                       ELSE IF IsDigit(key) /\ Pluses(Counted) # {}
                            THEN 10 * b + key - ASCII0 ELSE b
  BY <1>3, <1>4, NumbersAppend
<1>8. /\ key = CR => Pluses(Got) = {}
      /\ key = PLUS => Pluses(Got) # {}
      /\ key \notin {CR, PLUS} => Pluses(Got) = Pluses(Counted)
  <2>1. /\ key = CR => Pluses(Got) = {}
        /\ key = PLUS => Pluses(Got) = Pluses(Counted) \cup {Len(Counted) + 1}
        /\ key \notin {CR, PLUS} => Pluses(Got) = Pluses(Counted)
    BY <1>3, <1>4, PlusesAppend
  <2> QED BY <2>1
<1>9. /\ NumberA' = Wrap(First(Got)) /\ NumberB' = Wrap(Second(Got))
      /\ State' = IF Pluses(Got) = {} THEN 0 ELSE 1
  <2>1. CASE key = CR
    <3>1. NumberA' = 0 /\ NumberB' = 0 /\ State' = State
      BY <2>1, Keycodes DEF Done, DoneAnswer, DonePlus, DoneDigit
    <3> QED BY <1>6, <1>7, <1>8, <2>1, <3>1, WrapZero
  <2>2. CASE key = PLUS
    <3>1. NumberA' = NumberA /\ NumberB' = NumberB /\ State' = 1
      BY <2>2, Keycodes DEF Done, DoneAnswer, DonePlus, DoneDigit
    <3>2. ~IsDigit(key) /\ key # CR
      BY <2>2, Keycodes DEF IsDigit
    <3> QED BY <1>6, <1>7, <1>8, <2>2, <3>1, <3>2
  <2>3. CASE key \notin {CR, PLUS}
    <3>1. IsDigit(key) /\ key # CR
      BY <1>3, <2>3 DEF IsDigit
    <3>2. /\ IF State = 0
             THEN NumberA' = Accumulate(NumberA) /\ NumberB' = NumberB
             ELSE NumberB' = Accumulate(NumberB) /\ NumberA' = NumberA
          /\ State' = State
      BY <2>3 DEF Done, DoneAnswer, DonePlus, DoneDigit
    <3>3. /\ Accumulate(NumberA) = Wrap(10 * a + key - ASCII0)
          /\ Accumulate(NumberB) = Wrap(10 * b + key - ASCII0)
      BY <1>4, <1>6, WrapDigit DEF Accumulate
    <3>4. Pluses(Got) = Pluses(Counted)
      BY <1>8, <2>3
    <3>5. CASE Pluses(Counted) = {}
      <4>1. State = 0
        BY <1>6, <3>5
      <4>2. NumberA' = Accumulate(NumberA) /\ NumberB' = NumberB /\ State' = 0
        BY <3>2, <4>1
      <4>3. First(Got) = 10 * a + key - ASCII0 /\ Second(Got) = b
        BY <1>7, <3>1, <3>5
      <4> QED BY <1>6, <3>3, <3>4, <3>5, <4>2, <4>3
    <3>6. CASE Pluses(Counted) # {}
      <4>1. State = 1
        BY <1>6, <3>1, <3>6
      <4>2. NumberB' = Accumulate(NumberB) /\ NumberA' = NumberA /\ State' = 1
        BY <3>2, <4>1
      <4>3. Second(Got) = 10 * b + key - ASCII0 /\ First(Got) = a
        BY <1>7, <3>1, <3>6
      <4> QED BY <1>6, <3>3, <3>4, <3>6, <4>2, <4>3
    <3> QED BY <3>5, <3>6
  <2> QED BY <2>1, <2>2, <2>3
<1>10. NumbersAreLine'
  BY <1>1, <1>2, <1>9 DEF NumbersAreLine, First, Second
<1>11. CalcTypeOK'
  <2>1. Got \in Seq(Int)
    BY <1>3, <1>4, AppendProperties
  <2>2. First(Got) \in Int /\ Second(Got) \in Int
    BY <2>1, NumbersType
  <2>3. NumberA' \in Int /\ NumberB' \in Int /\ State' \in {0, 1}
    BY <1>9, <2>2, WrapIs
  <2> QED BY <1>1, <2>3 DEF CalcTypeOK
<1>12. OneKeyUnderWay' /\ Position'
  BY <1>1, <1>2 DEF OneKeyUnderWay, Position
<1>13. Printed'
  <2>1. Sending' = Sending /\ Unsent' = Unsent
    BY <1>1 DEF Sending, Unsent
  <2> QED BY <1>1, <1>2, <2>1 DEF Printed
<1> QED BY <1>10, <1>11, <1>12, <1>13

LEMMA CalcNext == CalcInv /\ [Next]_vars => CalcInv'
<1> SUFFICES ASSUME CalcInv, [Next]_vars PROVE CalcInv'
  OBVIOUS
<1>1. CASE \E k \in Keys : Type(k)
  BY <1>1, TypeKeeps
<1>2. CASE \E bad \in Noise : Arrive(bad)
  BY <1>2, ArriveKeeps
<1>3. CASE Cleared
  BY <1>3, ClearedKeeps
<1>4. CASE Transmitted
  BY <1>4, TransmittedKeeps
<1>5. CASE Main
  <2>1. UNCHANGED person
    BY <1>5 DEF Main
  <2>2. CASE PollError \/ ClearError \/ PollAvailable
    BY <2>1, <2>2, PollKeeps
  <2>3. CASE ReadByte
    BY <2>1, <2>3, ReadByteKeeps
  <2>4. CASE Echo
    BY <2>1, <2>4, EchoKeeps
  <2>5. CASE Answer
    BY <2>1, <2>5, AnswerKeeps
  <2>6. CASE Send
    BY <2>1, <2>6, SendKeeps
  <2>7. CASE Done
    BY <2>1, <2>7, DoneKeeps
  <2> QED BY <1>5, <2>2, <2>3, <2>4, <2>5, <2>6, <2>7 DEF Main
<1>6. CASE UNCHANGED vars
  BY <1>6, StutterKeeps
<1> QED BY <1>1, <1>2, <1>3, <1>4, <1>5, <1>6 DEF Next

(* The program has read all that was typed but one key, has in its numbers the
   line so far, and what is shown and on its way out is the answer to it. *)
THEOREM DialogueInvariant == Spec => []CalcInv
<1>1. Init => CalcInv
  BY CalcInit
<1>2. CalcInv /\ [Next]_vars => CalcInv'
  BY CalcNext
<1> QED BY <1>1, <1>2, PTL DEF Spec

-----------------------------------------------------------------------------
(* A sequence is a prefix of what begins with it. *)
LEMMA BeginsWith ==
  ASSUME NEW S, NEW s \in Seq(S), NEW t \in Seq(S)
  PROVE  IsPrefix(s, s \o t)
<1>1. s \o t \in Seq(S) /\ Len(s \o t) = Len(s) + Len(t) /\ Len(s) \in Nat /\ Len(t) \in Nat
  BY ConcatProperties, LenProperties
<1>2. Len(s) <= Len(s \o t)
  BY <1>1
<1>3. SubSeq(s, 1, Len(s)) = SubSeq(s \o t, 1, Len(s))
  <2>1. CASE Len(s) = 0
    <3>1. Len(s) < 1 /\ 1 \in Int /\ Len(s) \in Int
      BY <2>1
    <3> QED BY <3>1, SubSeqEmpty
  <2>2. CASE Len(s) > 0
    <3>1. 1 \in 1 .. Len(s) /\ Len(s) \in 1 .. Len(s)
      BY <1>1, <2>2
    <3> QED BY <3>1, SubSeqOfConcat1
  <2> QED BY <1>1, <2>1, <2>2
<1> QED BY <1>2, <1>3 DEF IsPrefix

(* What the terminal shows is, at any time, the beginning of what is expected
   for what was typed, and all of it once nothing is under way: main's sums are
   right for any keys, in any number, for a long of any width. *)
THEOREM AnswersAreSums == Spec => []AnswerIsSum
<1>1. CalcInv => AnswerIsSum
  <2> SUFFICES ASSUME CalcInv PROVE AnswerIsSum
    OBVIOUS
  <2>1. IsPrefix(shown, Expected(typed))
    <3>1. PICK rest \in Seq(Nat) : Expected(typed) = shown \o rest
      BY ShownExpected
    <3>2. shown \in Seq(Nat)
      BY DEF CalcInv, CalcTypeOK
    <3> QED BY <3>1, <3>2, BeginsWith
  <2>2. AtRest => shown = Expected(typed)
    <3> SUFFICES ASSUME AtRest PROVE shown = Expected(typed)
      OBVIOUS
    <3>1. ~UnderWay /\ pc # "branch" /\ pc # "send" /\ pending = None
      BY DEF AtRest, UnderWay
    <3>2. Settled = typed /\ Sending = <<>> /\ Unsent = <<>>
      BY <3>1 DEF Settled, Got, Sending, Unsent
    <3>3. <<>> \in Seq(Nat) /\ shown \in Seq(Nat)
      BY DEF CalcInv, CalcTypeOK
    <3>4. shown \o (<<>> \o <<>>) = shown
      BY <3>3, ConcatEmptySeq
    <3> QED BY <3>2, <3>4 DEF CalcInv, Printed
  <2> QED BY <2>1, <2>2 DEF AnswerIsSum
<1> QED BY <1>1, DialogueInvariant, PTL

(* The program reads a byte only while no frame is on the wire, and no frame
   arrives over a byte it has not read.  This is about its reads; its writes, the
   bytes it sends and the clearing of an error, may fall in the end of a frame. *)
THEOREM ReaderIsCareful == Spec => CarefulReader
<1>1. CalcInv /\ [Next]_vars =>
        [/\ ReadByte => coming = None
         /\ coming # None /\ coming' = None => ~available]_vars
  <2> SUFFICES ASSUME CalcInv
               PROVE  /\ ReadByte => coming = None
                      /\ coming # None => ~available
    OBVIOUS
  <2>1. coming # None => ~available
    BY DEF CalcInv, OneKeyUnderWay
  <2>2. ReadByte => available
    BY DEF CalcInv, Position, ReadByte
  <2> QED BY <2>1, <2>2
<1> QED BY <1>1, DialogueInvariant, PTL DEF Spec, CarefulReader

=============================================================================
