---------------------------- MODULE AltHeapProofs ----------------------------
(* Proof that AltHeap's invariant holds for every heap, slab and request size,
   any number of functions and callers, and every interleaving of the program
   with an interrupt routine. *)
EXTENDS AltHeap, TLAPS

-----------------------------------------------------------------------------
(* Multiples of w have remainder 0 (the rounding of alt_sbrk). *)
LEMMA MultipleMod ==
  ASSUME NEW w \in Nat \ {0}, NEW k \in Int
  PROVE  (w * k) % w = 0
  BY SMT

(* Division with remainder. *)
LEMMA DivMod ==
  ASSUME NEW w \in Nat \ {0}, NEW a \in Int
  PROVE  /\ a \div w \in Int
         /\ a % w \in 0 .. w - 1
         /\ a = (w * (a \div w)) + (a % w)
  BY SMT

(* The sum of two multiples is a multiple. *)
LEMMA SumMod ==
  ASSUME NEW w \in Nat \ {0}, NEW a \in Int, NEW b \in Int, a % w = 0, b % w = 0
  PROVE  (a + b) % w = 0
<1> DEFINE p == a \div w
           q == b \div w
<1>1. p \in Int /\ q \in Int /\ a = w * p /\ b = w * q
  BY DivMod
<1> HIDE DEF p, q
<1>2. PICK k \in Int : k = p + q
  BY <1>1
<1>3. a + b = w * k
  BY <1>1, <1>2
<1> QED
  BY <1>2, <1>3, MultipleMod

(* Aligned rounds up to a multiple of Word, by less than Word. *)
LEMMA AlignedFacts ==
  ASSUME NEW a \in Int
  PROVE  /\ Aligned(a) \in Int
         /\ a <= Aligned(a) /\ Aligned(a) <= a + Word - 1
         /\ Aligned(a) % Word = 0
         /\ a % Word = 0 => Aligned(a) = a
<1>0. Word \in Nat \ {0}
  BY HeapAssumption
<1> DEFINE r == (-a) % Word
           q == (-a) \div Word
<1>1. q \in Int /\ r \in 0 .. Word - 1 /\ -a = (Word * q) + r
  BY <1>0, DivMod
<1>2. Aligned(a) = a + r
  BY DEF Aligned
<1>3. a + r = Word * (-q)
  BY <1>0, <1>1
<1>4. \A k \in Int : (Word * k) % Word = 0
  BY <1>0, MultipleMod
<1>5. (Word * (-q)) % Word = 0
  <2> HIDE DEF q, r
  <2> DEFINE k == -q
  <2>1. k \in Int
    BY <1>1
  <2> HIDE DEF k
  <2>2. (Word * k) % Word = 0
    BY <1>4, <2>1
  <2> QED
    BY <2>2 DEF k
<1>6. ASSUME a % Word = 0 PROVE r = 0
  <2> DEFINE k == -(a \div Word)
  <2>1. a = Word * (a \div Word) /\ a \div Word \in Int
    BY <1>0, <1>6, DivMod
  <2>2. k \in Int /\ -a = Word * k
    BY <1>0, <2>1
  <2>3. (Word * k) % Word = 0
    <3> HIDE DEF k
    <3> QED BY <1>4, <2>2
  <2> QED
    BY <2>2, <2>3
<1> QED
  <2> HIDE DEF q, r
  <2> QED BY <1>0, <1>1, <1>2, <1>3, <1>5, <1>6

-----------------------------------------------------------------------------
(* What is kept of the memory in every state, and of the result of every call. *)
Owners == {"program", "slab", "histogram"}
BlockSet == [from : Int, to : Int, owner : Owners]

MemType(m) ==
  m \in [end : Int, limit : Int, alarm : BOOLEAN, given : SUBSET BlockSet, result : Int,
         ptr : Int, size : Nat, wild : BOOLEAN, at : Seq(Int)]

(* The break may be above the limit only by the rounding of a refused request. *)
Bounded(m) ==
  /\ HeapStart <= m.end
  /\ m.end <= HeapLimit \/ (m.end % Word = 0 /\ m.end <= HeapLimit + Word - 1)
  /\ \A b \in m.given : HeapStart <= b.from /\ b.from < b.to

Sorted(m) ==
  /\ \A b \in m.given : b.to <= m.end
  /\ \A a, b \in m.given : a = b \/ a.to <= b.from \/ b.to <= a.from

InSlab(m, p) ==
  \E b \in m.given : b.owner = "slab" /\ b.from <= p /\ p + RecordSize <= b.to

Apart(p, q) == p + RecordSize <= q \/ q + RecordSize <= p

(* The records, and the rest of a slab that is memory, which holds none of them. *)
Slabs(m) ==
  /\ \A j \in DOMAIN m.at : InSlab(m, m.at[j])
  /\ \A j \in DOMAIN m.at : \A k \in 1 .. j - 1 : Apart(m.at[j], m.at[k])
  /\ ~m.wild /\ m.size >= RecordSize =>
       /\ \E b \in m.given :
            b.owner = "slab" /\ b.from <= m.ptr /\ m.ptr + m.size <= b.to
       /\ \A j \in DOMAIN m.at :
            m.at[j] + RecordSize <= m.ptr \/ m.ptr + m.size <= m.at[j]

(* The stack limit is the break, and the stack above it or reported; it is once the
   break was off a word boundary that the limit no longer follows. *)
Following(m) == m.limit = m.end /\ (sp < m.end => m.alarm)
Guarded(m) == m.end % Word = 0 /\ Following(m)
Frozen(m) == m.limit % Word # 0

(* Sbrk changes the break, the stack limit, its alarm and the result only. *)
SbrkDoes(m, incr, prev, lowest, s) ==
  /\ MemType(s)
  /\ s.given = m.given /\ s.ptr = m.ptr /\ s.size = m.size /\ s.at = m.at
  /\ s.wild = m.wild
  /\ prev + incr > HeapLimit =>
       /\ s.result = Failed /\ s.end = prev
       /\ s.limit = m.limit /\ s.alarm = m.alarm
  /\ prev + incr <= HeapLimit =>
       /\ s.result = prev /\ s.end = prev + incr
       /\ s.limit = IF m.limit = prev THEN prev + incr ELSE m.limit
       /\ m.limit = prev /\ lowest <= prev + incr => s.alarm

LEMMA SbrkFacts ==
  ASSUME NEW c, NEW m, MemType(m), NEW incr \in Int
  PROVE  SbrkDoes(m, incr, Aligned(m.end), LowestOfStack(c, m), Sbrk(c, m, incr))
<1>1. PICK prev \in Int : prev = Aligned(m.end)
  BY AlignedFacts DEF MemType
<1>2. m.end \in Int /\ HeapLimit \in Int /\ -1 \in Int
  BY HeapAssumption DEF MemType
<1>3. CASE prev + incr > HeapLimit
  <2>1. Sbrk(c, m, incr) = [m EXCEPT !.end = prev, !.result = -1]
    BY <1>1, <1>3 DEF Sbrk, Failed
  <2>2. MemType(Sbrk(c, m, incr))
    BY <1>1, <1>2, <2>1 DEF MemType
  <2>3. /\ Sbrk(c, m, incr).given = m.given /\ Sbrk(c, m, incr).ptr = m.ptr
        /\ Sbrk(c, m, incr).size = m.size /\ Sbrk(c, m, incr).at = m.at
        /\ Sbrk(c, m, incr).result = -1 /\ Sbrk(c, m, incr).end = prev
        /\ Sbrk(c, m, incr).limit = m.limit /\ Sbrk(c, m, incr).alarm = m.alarm
        /\ Sbrk(c, m, incr).wild = m.wild
    BY <2>1 DEF MemType
  <2>4. ~(prev + incr <= HeapLimit)
    BY <1>1, <1>2, <1>3
  <2> QED
    BY <1>1, <2>2, <2>3, <2>4 DEF Failed, SbrkDoes
<1>4. CASE ~(prev + incr > HeapLimit)
  <2>1. PICK l \in Int : l = IF m.limit = prev THEN prev + incr ELSE m.limit
    BY <1>1 DEF MemType
  <2>2. PICK x \in BOOLEAN :
          x = IF m.limit = prev THEN m.alarm \/ LowestOfStack(c, m) <= prev + incr ELSE m.alarm
    BY DEF MemType
  <2> DEFINE t == [m EXCEPT !.result = prev, !.end = prev + incr]
             Set(e, i) == [m EXCEPT !.result = i, !.end = e, !.limit = l, !.alarm = x]
  <2>3. LowestOfStack(c, t) = LowestOfStack(c, m) /\ t.alarm = m.alarm /\ t.limit = m.limit
    BY DEF LowestOfStack, MemType
  <2>4. Sbrk(c, m, incr) = IF m.limit = prev THEN SetStackLimit(c, t, prev + incr) ELSE t
    BY <1>1, <1>4 DEF Sbrk, alt_stack_limit
  <2>5. Sbrk(c, m, incr) = Set(prev + incr, prev)
    <3>1. CASE m.limit = prev
      <4>1. Sbrk(c, m, incr) = [t EXCEPT !.limit = l, !.alarm = x]
        BY <2>1, <2>2, <2>3, <2>4, <3>1 DEF SetStackLimit
      <4> QED BY <4>1 DEF MemType
    <3>2. CASE m.limit # prev
      <4>1. l = m.limit /\ x = m.alarm
        BY <2>1, <2>2, <3>2
      <4> QED BY <2>4, <3>2, <4>1 DEF MemType
    <3> QED BY <3>1, <3>2
  <2>6. \A e, i \in Int : MemType(Set(e, i))
    BY <2>1, <2>2 DEF MemType
  <2>7. MemType(Sbrk(c, m, incr))
    <3>1. prev + incr \in Int
      BY <1>1
    <3> HIDE DEF t, Set
    <3> QED
      BY <1>1, <2>5, <2>6, <3>1
  <2>8. /\ Sbrk(c, m, incr).given = m.given /\ Sbrk(c, m, incr).ptr = m.ptr
        /\ Sbrk(c, m, incr).size = m.size /\ Sbrk(c, m, incr).at = m.at
        /\ Sbrk(c, m, incr).result = prev /\ Sbrk(c, m, incr).end = prev + incr
        /\ Sbrk(c, m, incr).limit = l /\ Sbrk(c, m, incr).alarm = x
        /\ Sbrk(c, m, incr).wild = m.wild
    BY <2>5 DEF MemType
  <2>9. m.limit = prev /\ LowestOfStack(c, m) <= prev + incr => x
    BY <2>2
  <2> HIDE DEF t, Set
  <2> QED
    BY <1>1, <1>4, <2>1, <2>7, <2>8, <2>9 DEF SbrkDoes
<1> QED
  BY <1>3, <1>4

(* Where the limit is the break and the word boundary, sbrk moves both and looks at
   the stack: what it compares is at most the new break if the stack pointer is, on
   the program's stack, and if the break does not go down, on the exception stack. *)
LEMMA SbrkWatches ==
  ASSUME NEW c, NEW m, MemType(m), NEW incr \in Int,
         sp \in Int, c # "handler" \/ incr >= 0
  PROVE  LET s == Sbrk(c, m, incr)
         IN /\ Guarded(m) => Following(s)
            /\ Frozen(m) => Frozen(s)
<1> DEFINE s == Sbrk(c, m, incr)
<1>1. PICK prev \in Int : prev = Aligned(m.end)
  BY AlignedFacts DEF MemType
<1>2. /\ m.end \in Int /\ HeapLimit \in Int
      /\ prev % Word = 0 /\ (m.end % Word = 0 => prev = m.end)
  <2>1. m.end \in Int /\ HeapLimit \in Int
    BY HeapAssumption DEF MemType
  <2> QED BY <1>1, <2>1, AlignedFacts
<1>3. /\ prev + incr > HeapLimit => s.end = prev /\ s.limit = m.limit /\ s.alarm = m.alarm
      /\ prev + incr <= HeapLimit =>
           /\ s.end = prev + incr
           /\ s.limit = IF m.limit = prev THEN prev + incr ELSE m.limit
           /\ m.limit = prev /\ LowestOfStack(c, m) <= prev + incr => s.alarm
  <2>1. SbrkDoes(m, incr, prev, LowestOfStack(c, m), s)
    BY <1>1, SbrkFacts
  <2> HIDE DEF s
  <2> QED BY <2>1 DEF SbrkDoes
<1> HIDE DEF s
<1>4. ASSUME Guarded(m) PROVE Following(s)
  <2>1. m.limit = prev /\ m.end = prev /\ (sp < prev => m.alarm)
    BY <1>2, <1>4 DEF Guarded, Following
  <2>2. CASE prev + incr > HeapLimit
    BY <1>3, <2>1, <2>2 DEF Following
  <2>3. CASE ~(prev + incr > HeapLimit)
    <3>1. prev + incr <= HeapLimit
      BY <1>2, <2>3
    <3>2. ASSUME sp < prev + incr PROVE LowestOfStack(c, m) <= prev + incr
      BY <1>2, <2>1, <3>2 DEF LowestOfStack, OnExceptionStack
    <3> QED
      BY <1>3, <2>1, <3>1, <3>2 DEF Following
  <2> QED
    BY <2>2, <2>3
<1>5. ASSUME Frozen(m) PROVE Frozen(s)
  <2>1. m.limit # prev
    BY <1>2, <1>5 DEF Frozen
  <2>2. s.limit = m.limit
    BY <1>2, <1>3, <2>1
  <2> QED
    BY <1>5, <2>2 DEF Frozen
<1> QED
  BY <1>4, <1>5 DEF s

(* A break within its bounds stays there when it is rounded. *)
LEMMA RoundedInBounds ==
  ASSUME NEW m, MemType(m), Bounded(m)
  PROVE  LET prev == Aligned(m.end)
         IN /\ prev \in Int /\ m.end <= prev /\ prev % Word = 0
            /\ prev <= HeapLimit + Word - 1
            /\ HeapStart <= prev /\ prev # Failed
<1>1. m.end \in Int /\ HeapStart \in Nat /\ HeapLimit \in Nat /\ Word \in Nat \ {0}
  BY HeapAssumption DEF MemType
<1>2. /\ Aligned(m.end) \in Int /\ m.end <= Aligned(m.end)
      /\ Aligned(m.end) <= m.end + Word - 1 /\ Aligned(m.end) % Word = 0
      /\ m.end % Word = 0 => Aligned(m.end) = m.end
  BY <1>1, AlignedFacts
<1> QED
  BY <1>1, <1>2 DEF Bounded, Failed

(* What sbrk grants is a new block at the top, and otherwise nothing changes. *)
GrantDoes(m, size, o, g) ==
  /\ MemType(g) /\ Bounded(g)
  /\ m.end <= g.end
  /\ g.ptr = m.ptr /\ g.size = m.size /\ g.at = m.at /\ g.wild = m.wild
  /\ \/ g.result = Failed /\ g.given = m.given
     \/ /\ g.result # Failed /\ m.end <= g.result /\ HeapStart <= g.result
        /\ g.result \in Int /\ g.end = g.result + size /\ g.end <= HeapLimit
        /\ g.given = m.given \cup {Block(g.result, g.result + size, o)}
  /\ Sorted(m) => Sorted(g)
  /\ Guarded(m) => Following(g)
  /\ Guarded(m) /\ size % Word = 0 => Guarded(g)
  /\ Frozen(m) => Frozen(g)

LEMMA GrantFacts ==
  ASSUME NEW c, NEW m, MemType(m), Bounded(m), NEW size \in Nat \ {0}, NEW o \in Owners,
         sp \in Int
  PROVE  GrantDoes(m, size, o, Grant(c, m, size, o))
<1> DEFINE s == Sbrk(c, m, size)
           g == Grant(c, m, size, o)
<1>1. PICK prev \in Int : prev = Aligned(m.end)
  BY AlignedFacts DEF MemType
<1>2. /\ m.end <= prev /\ prev % Word = 0 /\ prev <= HeapLimit + Word - 1
      /\ HeapStart <= prev /\ prev # Failed
  BY <1>1, RoundedInBounds
<1>3. m.end \in Int /\ HeapStart \in Nat /\ HeapLimit \in Nat /\ Word \in Nat \ {0} /\ size \in Int
  BY HeapAssumption DEF MemType
<1>4. /\ MemType(s)
      /\ s.given = m.given /\ s.ptr = m.ptr /\ s.size = m.size /\ s.at = m.at
      /\ s.wild = m.wild
      /\ prev + size > HeapLimit => s.result = Failed /\ s.end = prev
      /\ prev + size <= HeapLimit => s.result = prev /\ s.end = prev + size
  <2>1. SbrkDoes(m, size, prev, LowestOfStack(c, m), s)
    BY <1>1, <1>3, SbrkFacts
  <2> HIDE DEF s
  <2> QED BY <2>1 DEF SbrkDoes
<1>5. (Guarded(m) => Following(s)) /\ (Frozen(m) => Frozen(s))
  BY <1>3, SbrkWatches
<1> HIDE DEF s
<1>6. CASE prev + size > HeapLimit
  <2>1. g = s /\ s.result = Failed /\ s.end = prev
    BY <1>4, <1>6 DEF Grant, s
  <2>2. Bounded(s)
    BY <1>2, <1>3, <1>4, <2>1 DEF Bounded
  <2>3. Sorted(m) => Sorted(s)
    <3>1. \A d \in m.given : d.to \in Int
      BY DEF MemType, BlockSet
    <3>2. s.given = m.given /\ s.end = prev /\ prev \in Int
      BY <1>1, <1>4, <2>1
    <3> QED BY <1>2, <1>3, <3>1, <3>2 DEF Sorted
  <2>4. Guarded(m) => Guarded(s)
    BY <1>2, <1>5, <2>1 DEF Guarded
  <2> QED
    BY <1>1, <1>2, <1>4, <1>5, <1>6, <2>1, <2>2, <2>3, <2>4 DEF GrantDoes
<1>7. CASE ~(prev + size > HeapLimit)
  <2>1. s.result = prev /\ s.end = prev + size
    BY <1>1, <1>3, <1>4, <1>7
  <2> DEFINE b == Block(prev, prev + size, o)
  <2>2. b \in BlockSet /\ b.from = prev /\ b.to = prev + size
    BY <1>1, <1>3 DEF Block, BlockSet
  <2> HIDE DEF b
  <2>3. g = [s EXCEPT !.given = m.given \cup {b}]
    BY <1>2, <1>4, <2>1 DEF Grant, s, b
  <2>4. m.given \cup {b} \in SUBSET BlockSet
    BY <2>2 DEF MemType
  <2> HIDE DEF g
  <2>5. /\ MemType(g) /\ g.given = m.given \cup {b}
        /\ g.result = prev /\ g.end = prev + size /\ g.limit = s.limit
        /\ g.alarm = s.alarm /\ g.wild = m.wild
        /\ g.ptr = m.ptr /\ g.size = m.size /\ g.at = m.at
    BY <1>4, <2>1, <2>3, <2>4 DEF MemType
  <2>6. prev + size <= HeapLimit /\ m.end <= prev + size
    BY <1>1, <1>2, <1>3, <1>7
  <2>7. Bounded(g)
    BY <1>1, <1>2, <1>3, <2>2, <2>5, <2>6 DEF Bounded
  <2>8. Sorted(m) => Sorted(g)
    <3>1. \A d \in m.given : d.from \in Int /\ d.to \in Int
      BY DEF MemType, BlockSet
    <3> QED
      BY <1>1, <1>2, <1>3, <2>2, <2>5, <2>6, <3>1 DEF Sorted
  <2>9. (Guarded(m) => Following(g)) /\ (Frozen(m) => Frozen(g))
    BY <1>5, <2>1, <2>5 DEF Following, Frozen
  <2>10. ASSUME Guarded(m), size % Word = 0 PROVE Guarded(g)
    <3>1. (prev + size) % Word = 0
      BY <1>1, <1>2, <1>3, <2>10, SumMod
    <3> QED
      BY <2>5, <2>9, <2>10, <3>1 DEF Guarded
  <2> QED
    BY <1>1, <1>2, <1>3, <2>5, <2>6, <2>7, <2>8, <2>9, <2>10 DEF g, b, GrantDoes
<1> QED
  BY <1>6, <1>7

-----------------------------------------------------------------------------
(* One more record, at p, below the rest of the slab, which is n bytes at r. *)
LEMMA OneMoreRecord ==
  ASSUME NEW m, MemType(m), NEW a, MemType(a), NEW p \in Int,
         \A j \in DOMAIN m.at : InSlab(m, m.at[j]) /\ Apart(p, m.at[j]),
         \A j \in DOMAIN m.at : \A k \in 1 .. j - 1 : Apart(m.at[j], m.at[k]),
         m.given \subseteq a.given,
         InSlab(a, p),
         a.at = Append(m.at, p),
         a.ptr = p + RecordSize,
         ~a.wild /\ a.size >= RecordSize =>
           /\ \E b \in a.given :
                b.owner = "slab" /\ b.from <= a.ptr /\ a.ptr + a.size <= b.to
           /\ \A j \in DOMAIN m.at :
                m.at[j] + RecordSize <= a.ptr \/ a.ptr + a.size <= m.at[j]
  PROVE  Slabs(a)
<1> DEFINE n == Len(m.at)
<1>1. n \in Nat /\ DOMAIN m.at = 1 .. n
  BY DEF MemType
<1>2. /\ DOMAIN a.at = 1 .. n + 1
      /\ a.at[n + 1] = p
      /\ \A j \in 1 .. n : a.at[j] = m.at[j]
  BY DEF MemType
<1> HIDE DEF n
<1>3. \A j \in DOMAIN a.at : j \in 1 .. n \/ j = n + 1
  BY <1>1, <1>2
<1>4. \A j \in DOMAIN a.at : InSlab(a, a.at[j])
  BY <1>1, <1>2, <1>3 DEF InSlab
<1>5. ASSUME NEW j \in DOMAIN a.at, NEW k \in 1 .. j - 1
      PROVE  Apart(a.at[j], a.at[k])
  <2>1. CASE j = n + 1
    <3>1. k \in 1 .. n
      BY <1>1, <2>1
    <3> QED
      BY <1>1, <1>2, <2>1, <3>1
  <2>2. CASE j \in 1 .. n
    <3>1. k \in 1 .. n
      BY <1>1, <2>2
    <3> QED
      BY <1>1, <1>2, <2>2, <3>1
  <2> QED
    BY <1>3, <2>1, <2>2
<1>6. ASSUME ~a.wild, a.size >= RecordSize, NEW j \in DOMAIN a.at
      PROVE  a.at[j] + RecordSize <= a.ptr \/ a.ptr + a.size <= a.at[j]
  <2>1. RecordSize \in Int
    BY HeapAssumption
  <2>2. CASE j = n + 1
    BY <1>2, <2>1, <2>2
  <2>3. CASE j \in 1 .. n
    BY <1>1, <1>2, <1>6, <2>3
  <2> QED
    BY <1>3, <2>2, <2>3
<1> QED
  BY <1>4, <1>5, <1>6 DEF Slabs

(* The effect of mcount_allocate, in its two cases: the slab has room, or sbrk is
   asked for a new one. *)
LEMMA McountAllocateCases ==
  ASSUME NEW c, NEW m, MemType(m), Bounded(m), sp \in Int
  PROVE  LET a == McountAllocate(c, m)
             g == Grant(c, m, Slab, "slab")
         IN /\ MemType(a)
            /\ RecordSize <= m.size =>
                 /\ a.end = m.end /\ a.limit = m.limit /\ a.given = m.given
                 /\ a.alarm = m.alarm /\ a.wild = m.wild
                 /\ a.ptr = m.ptr + RecordSize /\ a.size = m.size - RecordSize
                 /\ a.at = IF m.wild THEN m.at ELSE Append(m.at, m.ptr)
            /\ ~(RecordSize <= m.size) =>
                 /\ a.end = g.end /\ a.limit = g.limit /\ a.given = g.given
                 /\ a.alarm = g.alarm /\ a.wild = (g.result = Failed)
                 /\ a.ptr = g.result + RecordSize /\ a.size = Slab - RecordSize
                 /\ a.at = IF g.result = Failed THEN m.at ELSE Append(m.at, g.result)
<1>1. RecordSize \in Nat \ {0} /\ Slab \in Nat \ {0} /\ Slab - RecordSize \in Nat
  BY HeapAssumption
<1>2. m.size \in Nat /\ m.ptr \in Int /\ m.at \in Seq(Int) /\ m.wild \in BOOLEAN
  BY DEF MemType
<1> DEFINE g == Grant(c, m, Slab, "slab")
<1>3. MemType(g) /\ g.at = m.at /\ g.result \in Int
  <2>1. GrantDoes(m, Slab, "slab", g)
    BY <1>1, GrantFacts DEF Owners
  <2> HIDE DEF g
  <2> QED BY <2>1 DEF GrantDoes, MemType
<1> DEFINE Next(s, p, n) ==
             [s EXCEPT !.ptr = p + RecordSize, !.size = n,
                       !.at = IF s.wild THEN s.at ELSE Append(s.at, p)]
<1>4. ASSUME NEW s, MemType(s), NEW p \in Int, NEW n \in Nat
      PROVE  LET a == Next(s, p, n) IN
             /\ MemType(a)
             /\ a.end = s.end /\ a.limit = s.limit /\ a.given = s.given
             /\ a.alarm = s.alarm /\ a.wild = s.wild
             /\ a.ptr = p + RecordSize /\ a.size = n
             /\ a.at = IF s.wild THEN s.at ELSE Append(s.at, p)
  <2>0. s.at \in Seq(Int) /\ p + RecordSize \in Int
    BY <1>1, <1>4 DEF MemType
  <2>1. PICK q \in Int, x \in Seq(Int) :
          q = p + RecordSize /\ x = IF s.wild THEN s.at ELSE Append(s.at, p)
    <3>1. Append(s.at, p) \in Seq(Int)
      BY <2>0
    <3> QED BY <2>0, <3>1
  <2>2. Next(s, p, n) = [s EXCEPT !.ptr = q, !.size = n, !.at = x]
    BY <2>1
  <2> HIDE DEF Next
  <2> QED
    BY <1>4, <2>1, <2>2 DEF MemType
<1>5. CASE RecordSize <= m.size
  <2>1. m.size - RecordSize \in Nat /\ ~(RecordSize > m.size)
    BY <1>1, <1>2, <1>5
  <2>2. McountAllocate(c, m) = Next(m, m.ptr, m.size - RecordSize)
    BY <2>1 DEF McountAllocate
  <2> HIDE DEF Next, g
  <2> DEFINE n == m.size - RecordSize
             a == McountAllocate(c, m)
  <2>3. n \in Nat /\ a = Next(m, m.ptr, n)
    BY <2>1, <2>2
  <2> HIDE DEF n, a
  <2>4. /\ MemType(a)
        /\ a.end = m.end /\ a.limit = m.limit /\ a.given = m.given
        /\ a.alarm = m.alarm /\ a.wild = m.wild
        /\ a.ptr = m.ptr + RecordSize /\ a.size = n
        /\ a.at = IF m.wild THEN m.at ELSE Append(m.at, m.ptr)
    BY <1>2, <1>4, <2>3
  <2> QED
    BY <1>5, <2>4 DEF n, a
<1>6. CASE ~(RecordSize <= m.size)
  <2>1. RecordSize > m.size
    BY <1>1, <1>2, <1>6
  <2> DEFINE s == [g EXCEPT !.size = Slab, !.wild = g.result = Failed]
  <2>2. McountAllocate(c, m) =
          [s EXCEPT !.ptr = g.result + RecordSize, !.size = s.size - RecordSize,
                    !.at = IF s.wild THEN s.at ELSE Append(s.at, g.result)]
    BY <2>1 DEF McountAllocate
  <2> HIDE DEF g
  <2>3. /\ MemType(s) /\ s.size = Slab /\ s.wild = (g.result = Failed) /\ s.at = g.at
        /\ s.end = g.end /\ s.limit = g.limit /\ s.given = g.given /\ s.alarm = g.alarm
    BY <1>1, <1>3 DEF MemType
  <2> HIDE DEF s
  <2>4. McountAllocate(c, m) = Next(s, g.result, Slab - RecordSize)
    BY <2>2, <2>3
  <2> HIDE DEF Next
  <2> DEFINE a == McountAllocate(c, m)
  <2>5. a = Next(s, g.result, Slab - RecordSize)
    BY <2>4
  <2> HIDE DEF a
  <2>6. /\ MemType(a)
        /\ a.end = s.end /\ a.limit = s.limit /\ a.given = s.given
        /\ a.alarm = s.alarm /\ a.wild = s.wild
        /\ a.ptr = g.result + RecordSize /\ a.size = Slab - RecordSize
        /\ a.at = IF s.wild THEN s.at ELSE Append(s.at, g.result)
    BY <1>1, <1>3, <1>4, <2>3, <2>5
  <2> QED
    BY <1>3, <1>6, <2>3, <2>6 DEF g, a
<1> QED
  BY <1>5, <1>6

(* mcount_allocate keeps what is known of the memory; a refusal adds no record to
   those in memory. *)
LEMMA McountAllocateFacts ==
  ASSUME NEW c, NEW m, MemType(m), Bounded(m), sp \in Int
  PROVE  LET a == McountAllocate(c, m)
         IN /\ MemType(a) /\ Bounded(a)
            /\ m.end <= a.end /\ m.given \subseteq a.given
            /\ Sorted(m) => Sorted(a)
            /\ Guarded(m) => Guarded(a)
            /\ Frozen(m) => Frozen(a)
            /\ Sorted(m) /\ Slabs(m) => Slabs(a)
<1> DEFINE a == McountAllocate(c, m)
           g == Grant(c, m, Slab, "slab")
<1>1. /\ RecordSize \in Nat \ {0} /\ Slab \in Nat \ {0} /\ Slab % Word = 0
      /\ HeapLimit \in Nat /\ HeapStart \in Nat /\ Slab >= RecordSize
  BY HeapAssumption
<1>2. m.size \in Nat /\ m.ptr \in Int /\ m.at \in Seq(Int) /\ m.end \in Int
  BY DEF MemType
<1>3. \A b \in m.given : b.from \in Int /\ b.to \in Int
  BY DEF MemType, BlockSet
<1>4. MemType(a) /\ a.end \in Int
  BY McountAllocateCases DEF MemType
<1>5. CASE RecordSize <= m.size
  <2>1. /\ a.end = m.end /\ a.limit = m.limit /\ a.given = m.given
        /\ a.alarm = m.alarm /\ a.wild = m.wild
        /\ a.ptr = m.ptr + RecordSize /\ a.size = m.size - RecordSize
        /\ a.at = IF m.wild THEN m.at ELSE Append(m.at, m.ptr)
    BY <1>5, McountAllocateCases
  <2> HIDE DEF a
  <2>2. /\ Bounded(a) /\ m.end <= a.end /\ m.given \subseteq a.given
        /\ Sorted(m) => Sorted(a)
        /\ Guarded(m) => Guarded(a)
        /\ Frozen(m) => Frozen(a)
    BY <1>2, <2>1 DEF Bounded, Sorted, Guarded, Following, Frozen
  <2>3. ASSUME Slabs(m), m.wild PROVE Slabs(a)
    BY <2>1, <2>3 DEF Slabs, InSlab
  <2>4. ASSUME Slabs(m), ~m.wild PROVE Slabs(a)
    <3>1. PICK b \in m.given : b.owner = "slab" /\ b.from <= m.ptr /\ m.ptr + m.size <= b.to
      BY <1>1, <1>2, <1>5, <2>4 DEF Slabs
    <3>2. InSlab(a, m.ptr) /\ b.from <= a.ptr /\ a.ptr + a.size <= b.to
      BY <1>1, <1>2, <1>3, <1>5, <2>1, <3>1 DEF InSlab
    <3>3. \A j \in DOMAIN m.at : /\ InSlab(m, m.at[j])
                                 /\ \A k \in 1 .. j - 1 : Apart(m.at[j], m.at[k])
                                 /\ \/ m.at[j] + RecordSize <= m.ptr
                                    \/ m.ptr + m.size <= m.at[j]
      BY <1>1, <1>2, <1>5, <2>4 DEF Slabs
    <3>4. \A j \in DOMAIN m.at : m.at[j] \in Int
      BY <1>2
    <3>5. ASSUME NEW j \in DOMAIN m.at
          PROVE  /\ Apart(m.ptr, m.at[j])
                 /\ \/ m.at[j] + RecordSize <= a.ptr
                    \/ a.ptr + a.size <= m.at[j]
      <4>1. PICK q \in Int : q = m.at[j]
        BY <3>4
      <4>2. q + RecordSize <= m.ptr \/ m.ptr + m.size <= q
        BY <3>3, <4>1
      <4>3. \/ q + RecordSize <= m.ptr
            \/ m.ptr + RecordSize <= q /\ m.ptr + RecordSize + (m.size - RecordSize) <= q
        BY <1>1, <1>2, <1>5, <4>1, <4>2
      <4>4. q + RecordSize <= m.ptr => q + RecordSize <= m.ptr + RecordSize
        BY <1>1, <1>2, <4>1
      <4> QED
        BY <2>1, <4>1, <4>3, <4>4 DEF Apart
    <3> QED
      BY <1>2, <1>4, <2>1, <2>4, <3>1, <3>2, <3>3, <3>5, OneMoreRecord
  <2> QED
    BY <1>4, <2>1, <2>2, <2>3, <2>4 DEF a
<1>6. CASE ~(RecordSize <= m.size)
  <2>1. /\ a.end = g.end /\ a.limit = g.limit /\ a.given = g.given
        /\ a.alarm = g.alarm /\ a.wild = (g.result = Failed)
        /\ a.ptr = g.result + RecordSize /\ a.size = Slab - RecordSize
        /\ a.at = IF g.result = Failed THEN m.at ELSE Append(m.at, g.result)
    BY <1>6, McountAllocateCases
  <2>2. /\ Bounded(g) /\ m.end <= g.end
        /\ \/ g.result = Failed /\ g.given = m.given
           \/ /\ g.result # Failed /\ m.end <= g.result /\ HeapStart <= g.result
              /\ g.result \in Int /\ g.end = g.result + Slab /\ g.end <= HeapLimit
              /\ g.given = m.given \cup {Block(g.result, g.result + Slab, "slab")}
        /\ Sorted(m) => Sorted(g)
        /\ Guarded(m) => Guarded(g)
        /\ Frozen(m) => Frozen(g)
    <3>1. GrantDoes(m, Slab, "slab", g)
      BY <1>1, GrantFacts DEF Owners
    <3> HIDE DEF g
    <3> QED BY <1>1, <3>1 DEF GrantDoes
  <2> HIDE DEF a, g
  <2>3. /\ Bounded(a) /\ m.end <= a.end /\ m.given \subseteq a.given
        /\ Sorted(m) => Sorted(a)
        /\ Guarded(m) => Guarded(a)
        /\ Frozen(m) => Frozen(a)
    BY <2>1, <2>2 DEF Bounded, Sorted, Guarded, Following, Frozen
  <2>4. ASSUME Slabs(m), g.result = Failed PROVE Slabs(a)
    BY <2>1, <2>2, <2>4 DEF Slabs, InSlab
  <2>5. ASSUME Sorted(m), Slabs(m), g.result # Failed PROVE Slabs(a)
    <3> DEFINE b == Block(g.result, g.result + Slab, "slab")
    <3>1. /\ b \in a.given /\ b.owner = "slab" /\ b.from = g.result
          /\ b.to = g.result + Slab /\ g.result \in Int /\ m.end <= g.result
      BY <2>1, <2>2, <2>5 DEF Block
    <3> HIDE DEF b
    <3>2. /\ InSlab(a, g.result) /\ b.from <= a.ptr /\ a.ptr + a.size <= b.to
      BY <1>1, <2>1, <3>1 DEF InSlab
    <3>3. \A j \in DOMAIN m.at : /\ InSlab(m, m.at[j])
                                 /\ \A k \in 1 .. j - 1 : Apart(m.at[j], m.at[k])
      BY <2>5 DEF Slabs
    <3>4. \A j \in DOMAIN m.at : m.at[j] \in Int
      BY <1>2
    <3>5. ASSUME NEW j \in DOMAIN m.at
          PROVE  /\ Apart(g.result, m.at[j])
                 /\ m.at[j] + RecordSize <= a.ptr
      <4>1. PICK q \in Int : q = m.at[j]
        BY <3>4
      <4>2. PICK d \in m.given : q + RecordSize <= d.to
        BY <3>3, <4>1 DEF InSlab
      <4>3. d.to <= m.end
        BY <2>5 DEF Sorted
      <4>4. d.to \in Int /\ m.end \in Int /\ g.result \in Int /\ RecordSize \in Nat
        BY <1>1, <1>2, <1>3, <3>1
      <4>5. \A x, y, z \in Int : /\ q + RecordSize <= x /\ x <= y /\ y <= z
                                => q + RecordSize <= z /\ q + RecordSize <= z + RecordSize
        BY <4>1, <4>4
      <4>6. q + RecordSize <= g.result /\ q + RecordSize <= g.result + RecordSize
        BY <3>1, <4>2, <4>3, <4>4, <4>5
      <4> QED
        BY <2>1, <4>1, <4>6 DEF Apart
    <3> QED
      BY <1>4, <2>1, <2>3, <2>5, <3>1, <3>2, <3>3, <3>5, OneMoreRecord
  <2> QED
    BY <1>4, <2>3, <2>4, <2>5 DEF a
<1> QED
  BY <1>5, <1>6

-----------------------------------------------------------------------------
(* The inductive invariant.  What is given and the break are kept apart only
   while no request slipped between a look and a trim; but even then the break
   cannot pass below a block that is being trimmed, since the routines that
   come in between only ask for memory. *)
MemoryOK ==
  /\ MemType(Memory) /\ Bounded(Memory)
  /\ ~slipped => Sorted(Memory)
  /\ ~slipped => Slabs(Memory)
  /\ IF unaligned THEN Frozen(Memory) ELSE Guarded(Memory)
  /\ sp \in Int /\ unaligned \in BOOLEAN

CallsOK ==
  /\ place = [c \in Contexts |-> place[c]]
  /\ found = [c \in Contexts |-> found[c]]

TrimOK ==
  place["program"] = "trim" =>
    \E b \in BlockSet :
      /\ found["program"].block = {b} /\ b.owner = "program"
      /\ found["program"].n \in 1 .. b.to - b.from
      /\ HeapStart <= b.from /\ b.to <= heap_end
      /\ ~slipped => b \in blocks /\ b.to = heap_end

(* Whoever is about to start sampling is alone in it, and the flag is down. *)
SamplersOK ==
  /\ samplers \in Nat
  /\ ~overtaken =>
       /\ samplers <= 1
       /\ \A c \in Contexts : place[c] = "start" =>
            /\ samplers = 0 /\ ~needInit
            /\ \A d \in Contexts : place[d] = "start" => d = c

HIInv == MemoryOK /\ CallsOK /\ TrimOK /\ SamplersOK

(* The memory in the next state is what the call returned, but for its result. *)
LEMMA MemoryNext ==
  ASSUME NEW m, MemType(m), NEW c, Becomes(c, m)
  PROVE  /\ MemType(Memory')
         /\ Memory'.end = m.end /\ Memory'.limit = m.limit /\ Memory'.given = m.given
         /\ Memory'.ptr = m.ptr /\ Memory'.size = m.size /\ Memory'.at = m.at
         /\ Memory'.alarm = m.alarm /\ Memory'.wild = m.wild
<1>1. Memory' = [end |-> m.end, limit |-> m.limit, alarm |-> m.alarm,
                 given |-> m.given, result |-> 0,
                 ptr |-> m.ptr, size |-> m.size, wild |-> m.wild, at |-> m.at]
  BY DEF Memory, Becomes
<1> QED
  BY <1>1 DEF MemType

(* A call that keeps the memory's facts keeps this part of the invariant. *)
LEMMA MemoryKept ==
  ASSUME MemoryOK, NEW c, NEW m, MemType(m), Bounded(m),
         ~slipped => Sorted(m),
         ~slipped => Slabs(m),
         ~unaligned => Following(m),
         unaligned => Frozen(m),
         Becomes(c, m)
  PROVE  MemoryOK'
<1>1. /\ MemType(Memory')
      /\ Memory'.end = m.end /\ Memory'.limit = m.limit /\ Memory'.given = m.given
      /\ Memory'.ptr = m.ptr /\ Memory'.size = m.size /\ Memory'.at = m.at
      /\ Memory'.alarm = m.alarm /\ Memory'.wild = m.wild
  BY MemoryNext
<1>2. /\ sp' = sp /\ sp \in Int /\ unaligned \in BOOLEAN
      /\ unaligned' = (unaligned \/ m.end % Word # 0)
      /\ ~slipped' => ~slipped
  BY DEF Becomes, MemoryOK
<1>3. Bounded(Memory)'
  BY <1>1 DEF Bounded
<1>4. Sorted(m) => Sorted(Memory)'
  BY <1>1 DEF Sorted
<1>5. Slabs(m) => Slabs(Memory)'
  BY <1>1 DEF Slabs, InSlab
<1>6. ~unaligned' => Guarded(Memory)'
  BY <1>1, <1>2 DEF Guarded, Following
<1>7. unaligned' => Frozen(Memory)'
  <2>1. CASE unaligned
    BY <1>1, <2>1 DEF Frozen
  <2>2. CASE ~unaligned /\ m.end % Word # 0
    BY <1>1, <2>2 DEF Frozen, Following
  <2> QED
    BY <1>2, <2>1, <2>2
<1>8. unaligned' \in BOOLEAN
  BY <1>2
<1> QED
  BY <1>1, <1>2, <1>3, <1>4, <1>5, <1>6, <1>7, <1>8 DEF MemoryOK, MemType

(* A call from any context but the trimming one, which only asks for memory,
   leaves what the allocator found true, or is recorded as having slipped. *)
LEMMA TrimKept ==
  ASSUME MemoryOK, CallsOK, TrimOK, NEW c \in Contexts, NEW m, MemType(m),
         heap_end <= m.end, blocks \subseteq m.given,
         Becomes(c, m),
         c = "program" => place["program"] # "trim",
         place'["program"] = "trim" => place["program"] = "trim",
         place["program"] = "trim" => found'["program"] = found["program"]
  PROVE  TrimOK'
<1> SUFFICES ASSUME place'["program"] = "trim"
             PROVE  \E b \in BlockSet :
                      /\ found'["program"].block = {b} /\ b.owner = "program"
                      /\ found'["program"].n \in 1 .. b.to - b.from
                      /\ HeapStart <= b.from /\ b.to <= heap_end'
                      /\ ~slipped' => b \in blocks' /\ b.to = heap_end'
  BY DEF TrimOK
<1>1. place["program"] = "trim" /\ c = "handler"
  BY DEF Contexts
<1>2. PICK b \in BlockSet :
        /\ found["program"].block = {b} /\ b.owner = "program"
        /\ found["program"].n \in 1 .. b.to - b.from
        /\ HeapStart <= b.from /\ b.to <= heap_end
        /\ ~slipped => b \in blocks /\ b.to = heap_end
  BY <1>1 DEF TrimOK
<1>3. /\ heap_end' = m.end /\ blocks' = m.given
      /\ ~slipped' => ~slipped /\ m.end = heap_end
  BY <1>1 DEF Becomes
<1>4. b.to <= heap_end'
  <2>1. b.to \in Int /\ heap_end \in Int /\ m.end \in Int
    BY DEF BlockSet, MemoryOK, MemType, Memory
  <2> QED
    BY <1>2, <1>3, <2>1
<1>5. ~slipped' => b \in blocks' /\ b.to = heap_end'
  BY <1>2, <1>3
<1> QED
  BY <1>1, <1>2, <1>4, <1>5

(* Steps that do not touch the memory. *)
LEMMA MemoryStays ==
  ASSUME MemoryOK, UNCHANGED <<heap, slab, unaligned, slipped>>
  PROVE  MemoryOK'
<1>1. Memory' = Memory
  BY DEF Memory, heap, slab
<1> DEFINE M == Memory
<1>2. M' = M
  BY <1>1
<1> QED
  BY <1>1 DEF MemoryOK, Bounded, Sorted, Slabs, InSlab, Guarded, Following, Frozen,
              MemType, heap

LEMMA TrimStays ==
  ASSUME TrimOK, UNCHANGED <<heap, slipped>>,
         place'["program"] = "trim" => place["program"] = "trim",
         place["program"] = "trim" => found'["program"] = found["program"]
  PROVE  TrimOK'
  BY DEF TrimOK, heap

(* Steps that start no sampling. *)
LEMMA SamplersStay ==
  ASSUME SamplersOK, UNCHANGED <<needInit, overtaken, samplers>>,
         \A d \in Contexts : place'[d] = "start" => place[d] = "start"
  PROVE  SamplersOK'
  BY DEF SamplersOK

(* Going from one place to another. *)
LEMMA GotoFacts ==
  ASSUME CallsOK, NEW c \in Contexts, NEW p, Goto(c, p)
  PROVE  /\ place' = [d \in Contexts |-> place'[d]]
         /\ place'[c] = p
         /\ \A d \in Contexts : d # c => place'[d] = place[d]
  BY DEF CallsOK, Goto

-----------------------------------------------------------------------------
(* The invariant, action by action. *)
LEMMA AllocateKeeps ==
  ASSUME HIInv, NEW size \in Increments, Allocate(size)
  PROVE  HIInv'
<1>1. size \in Nat \ {0} /\ "program" \in Owners /\ "program" \in Contexts
  BY HeapAssumption DEF Owners, Contexts
<1> DEFINE g == Grant("program", Memory, size, "program")
<1>2. MemType(Memory) /\ Bounded(Memory) /\ Becomes("program", g) /\ Memory.end = heap_end
      /\ Memory.given = blocks /\ sp \in Int
  BY DEF HIInv, MemoryOK, Allocate, Memory
<1>3. /\ MemType(g) /\ Bounded(g)
      /\ Memory.end <= g.end /\ g.ptr = Memory.ptr /\ g.size = Memory.size
      /\ g.at = Memory.at /\ g.wild = Memory.wild
      /\ \/ g.result = Failed /\ g.given = Memory.given
         \/ g.given = Memory.given \cup {Block(g.result, g.result + size, "program")}
      /\ Sorted(Memory) => Sorted(g)
      /\ Guarded(Memory) => Following(g)
      /\ Frozen(Memory) => Frozen(g)
  <2>1. GrantDoes(Memory, size, "program", g)
    BY <1>1, <1>2, GrantFacts
  <2> HIDE DEF g
  <2> QED BY <2>1 DEF GrantDoes
<1>4. /\ MemoryOK /\ CallsOK /\ TrimOK /\ SamplersOK
      /\ place["program"] = "idle" /\ place' = place /\ found' = found
      /\ UNCHANGED <<needInit, overtaken, samplers>>
  BY DEF HIInv, Allocate, callVars
<1> HIDE DEF g
<1>5. Slabs(Memory) => Slabs(g)
  <2>1. Memory.given \subseteq g.given
    BY <1>3
  <2> QED
    BY <1>3, <2>1 DEF Slabs, InSlab
<1>6. MemoryOK'
  BY <1>2, <1>3, <1>4, <1>5, MemoryKept DEF MemoryOK
<1>7. TrimOK'
  BY <1>1, <1>2, <1>3, <1>4, TrimKept
<1>8. CallsOK' /\ SamplersOK'
  BY <1>4, SamplersStay DEF CallsOK
<1> QED
  BY <1>6, <1>7, <1>8 DEF HIInv

LEMMA TrimLookKeeps ==
  ASSUME HIInv, NEW b \in blocks, NEW n \in 1 .. b.to - b.from, TrimLook(b, n)
  PROVE  HIInv'
<1> DEFINE s == Sbrk("program", Memory, 0)
           prev == Aligned(heap_end)
<1>1. /\ MemType(Memory) /\ Bounded(Memory) /\ Becomes("program", s) /\ sp \in Int
      /\ Memory.end = heap_end /\ Memory.given = blocks /\ Memory.limit = stackLimit
  BY DEF HIInv, MemoryOK, TrimLook, Memory
<1>2. /\ MemoryOK /\ CallsOK /\ TrimOK /\ SamplersOK
      /\ "program" \in Contexts /\ Goto("program", "trim")
      /\ found' = [found EXCEPT !["program"] = [Nothing EXCEPT !.block = {b}, !.n = n]]
      /\ UNCHANGED <<needInit, overtaken, samplers>>
      /\ b.owner = "program" /\ b.to = prev
  BY DEF HIInv, TrimLook, Contexts
<1>3. /\ prev \in Int /\ heap_end <= prev /\ prev % Word = 0
      /\ prev <= HeapLimit + Word - 1 /\ HeapStart <= prev
  BY <1>1, RoundedInBounds
<1>4. /\ MemType(s) /\ s.given = Memory.given /\ s.ptr = Memory.ptr
      /\ s.size = Memory.size /\ s.at = Memory.at
      /\ s.end = prev /\ s.wild = Memory.wild
  <2>1. HeapLimit \in Int /\ prev + 0 = prev /\ 0 \in Int
    BY <1>3, HeapAssumption
  <2>2. /\ MemType(s) /\ s.given = Memory.given /\ s.ptr = Memory.ptr
        /\ s.size = Memory.size /\ s.at = Memory.at /\ s.wild = Memory.wild
        /\ prev + 0 > HeapLimit => s.end = prev
        /\ prev + 0 <= HeapLimit => s.end = prev + 0
    <3>1. SbrkDoes(Memory, 0, prev, LowestOfStack("program", Memory), s)
      BY <1>1, <2>1, SbrkFacts
    <3> HIDE DEF s, prev
    <3> QED BY <3>1 DEF SbrkDoes
  <2> HIDE DEF s, prev
  <2> QED
    BY <1>3, <2>1, <2>2
<1>9. (Guarded(Memory) => Following(s)) /\ (Frozen(Memory) => Frozen(s))
  BY <1>1, SbrkWatches
<1> HIDE DEF s, prev
<1>5. /\ heap_end \in Int /\ b \in BlockSet /\ b.to \in Int /\ HeapStart <= b.from
      /\ \A c \in blocks : c.to \in Int /\ c.from \in Int
  BY <1>1 DEF MemType, BlockSet, Bounded
<1>6. Bounded(s)
  BY <1>1, <1>3, <1>4 DEF Bounded
<1>7. Sorted(Memory) => Sorted(s)
  BY <1>1, <1>3, <1>4, <1>5 DEF Sorted
<1>8. Slabs(Memory) => Slabs(s)
  BY <1>4 DEF Slabs, InSlab
<1>10. MemoryOK'
  BY <1>1, <1>2, <1>4, <1>6, <1>7, <1>8, <1>9, MemoryKept DEF MemoryOK
<1>11. /\ place' = [d \in Contexts |-> place'[d]] /\ place'["program"] = "trim"
       /\ \A d \in Contexts : d # "program" => place'[d] = place[d]
  BY <1>2, GotoFacts
<1>12. /\ found' = [d \in Contexts |-> found'[d]]
       /\ found'["program"].block = {b} /\ found'["program"].n = n
  BY <1>2 DEF CallsOK, Nothing
<1>13. heap_end' = prev /\ blocks' = blocks
  BY <1>1, <1>4 DEF Becomes
<1>14. TrimOK'
  <2>1. b.to <= heap_end' /\ b.to = heap_end'
    BY <1>2, <1>3, <1>13
  <2>2. /\ found'["program"].n \in 1 .. b.to - b.from
        /\ HeapStart <= b.from /\ b \in blocks'
    BY <1>5, <1>12, <1>13
  <2> QED
    BY <1>2, <1>5, <1>12, <2>1, <2>2 DEF TrimOK
<1>15. SamplersOK'
  BY <1>2, <1>11, SamplersStay
<1> QED
  BY <1>10, <1>11, <1>12, <1>14, <1>15 DEF HIInv, CallsOK

LEMMA TrimKeeps ==
  ASSUME HIInv, Trim
  PROVE  HIInv'
<1>1. MemoryOK /\ CallsOK /\ TrimOK /\ SamplersOK /\ place["program"] = "trim"
  BY DEF HIInv, Trim
<1>2. PICK b \in BlockSet :
        /\ found["program"].block = {b} /\ b.owner = "program"
        /\ found["program"].n \in 1 .. b.to - b.from
        /\ HeapStart <= b.from /\ b.to <= heap_end
        /\ ~slipped => b \in blocks /\ b.to = heap_end
  BY <1>1 DEF TrimOK
<1>3. PICK n \in Nat \ {0} : n = found["program"].n /\ n <= b.to - b.from
  <2>1. b.to - b.from \in Int
    BY DEF BlockSet
  <2> QED
    BY <1>2, <2>1
<1> DEFINE s == Sbrk("program", Memory, -n)
           cut == Rest(b, n)
           m == [s EXCEPT !.given = (@ \ {b}) \cup cut]
           prev == Aligned(heap_end)
<1>4. UNION {Rest(c, n) : c \in {b}} = cut
  OBVIOUS
<1>5. Becomes("program", m)
  BY <1>2, <1>3, <1>4 DEF Trim
<1>6. /\ MemType(Memory) /\ Bounded(Memory) /\ sp \in Int
      /\ Memory.end = heap_end /\ Memory.given = blocks /\ Memory.limit = stackLimit
  BY <1>1 DEF MemoryOK, Memory
<1>7. /\ prev \in Int /\ heap_end <= prev /\ prev % Word = 0
      /\ prev <= HeapLimit + Word - 1 /\ HeapStart <= prev
  BY <1>6, RoundedInBounds
<1>8. /\ heap_end \in Int /\ b.from \in Int /\ b.to \in Int
      /\ HeapLimit \in Nat /\ HeapStart \in Nat /\ Word \in Nat \ {0}
      /\ -n \in Int /\ prev + (-n) = prev - n /\ prev - n \in Int
  BY <1>6, <1>7, HeapAssumption DEF MemType, BlockSet
<1>9. /\ MemType(s) /\ s.given = blocks /\ s.ptr = Memory.ptr
      /\ s.size = Memory.size /\ s.at = Memory.at /\ s.wild = Memory.wild
      /\ prev + (-n) > HeapLimit => s.end = prev
      /\ prev + (-n) <= HeapLimit => s.end = prev + (-n)
  <2>1. SbrkDoes(Memory, -n, prev, LowestOfStack("program", Memory), s)
    BY <1>6, <1>8, SbrkFacts
  <2> HIDE DEF s, prev
  <2> QED BY <1>6, <2>1 DEF SbrkDoes
<1>16. (Guarded(Memory) => Following(s)) /\ (Frozen(Memory) => Frozen(s))
  BY <1>6, <1>8, SbrkWatches
<1>10. /\ s.end \in {prev, prev - n}
       /\ s.end = prev \/ s.end <= HeapLimit
  <2> HIDE DEF s, prev
  <2>1. CASE prev + (-n) > HeapLimit
    BY <1>9, <2>1
  <2>2. CASE ~(prev + (-n) > HeapLimit)
    <3>1. prev + (-n) <= HeapLimit
      BY <1>7, <1>8, <2>2
    <3> QED
      BY <1>8, <1>9, <3>1
  <2> QED
    BY <2>1, <2>2
<1>11. /\ \A c \in cut : /\ c \in BlockSet /\ c.owner = "program"
                         /\ c.from = b.from /\ c.to = b.to - n /\ b.from < c.to
  <2>1. CASE n = b.to - b.from
    BY <2>1 DEF Rest
  <2>2. CASE n # b.to - b.from
    <3>1. cut = {[b EXCEPT !.to = b.to - n]}
      BY <2>2 DEF Rest
    <3>2. /\ [b EXCEPT !.to = b.to - n] \in BlockSet
          /\ [b EXCEPT !.to = b.to - n].owner = "program"
          /\ [b EXCEPT !.to = b.to - n].from = b.from
          /\ [b EXCEPT !.to = b.to - n].to = b.to - n
      BY <1>2, <1>8 DEF BlockSet
    <3>3. b.from < b.to - n
      BY <1>3, <1>8, <2>2
    <3> QED
      BY <3>1, <3>2, <3>3
  <2> QED
    BY <2>1, <2>2
<1> HIDE DEF s, cut, prev
<1>12. /\ MemType(m) /\ m.given = (blocks \ {b}) \cup cut
       /\ m.end = s.end /\ m.limit = s.limit /\ m.result = s.result
       /\ m.ptr = Memory.ptr /\ m.size = Memory.size /\ m.at = Memory.at
       /\ m.alarm = s.alarm /\ m.wild = Memory.wild
  <2>1. (blocks \ {b}) \cup cut \in SUBSET BlockSet
    BY <1>6, <1>11 DEF MemType
  <2> QED
    BY <1>9, <2>1 DEF MemType
<1> HIDE DEF m
<1>13. Bounded(m)
  <2>1. HeapStart <= prev - n
    BY <1>2, <1>3, <1>7, <1>8
  <2>2. HeapStart <= m.end
    BY <1>7, <1>10, <1>12, <2>1
  <2>3. m.end <= HeapLimit \/ (m.end % Word = 0 /\ m.end <= HeapLimit + Word - 1)
    BY <1>7, <1>10, <1>12
  <2>4. \A c \in m.given : HeapStart <= c.from /\ c.from < c.to
    BY <1>2, <1>6, <1>11, <1>12 DEF Bounded
  <2> QED
    BY <2>2, <2>3, <2>4 DEF Bounded
<1>14. ASSUME ~slipped PROVE Sorted(m)
  <2>1. Sorted(Memory) /\ b \in blocks /\ b.to = heap_end
    BY <1>1, <1>2, <1>14 DEF MemoryOK
  <2>2. \A c \in blocks : c.from \in Int /\ c.to \in Int /\ c.from < c.to
    BY <1>6 DEF MemType, BlockSet, Bounded
  <2>3. \A c \in blocks \ {b} : c.to <= b.from
    BY <1>3, <1>6, <1>8, <2>1, <2>2 DEF Sorted
  <2>4. b.from <= b.to - n /\ b.to - n <= s.end /\ b.to - n \in Int
    BY <1>3, <1>7, <1>8, <1>10, <2>1
  <2>5. \A c \in m.given : c.to <= m.end
    <3>1. b.from <= s.end /\ s.end \in Int
      BY <1>7, <1>8, <1>10, <2>4
    <3>2. \A c \in blocks \ {b} : c.to <= s.end
      BY <1>8, <2>2, <2>3, <3>1
    <3>3. \A c \in cut : c.to <= s.end
      BY <1>11, <2>4
    <3> QED
      BY <1>12, <3>2, <3>3
  <2>6. \A c, d \in m.given : c = d \/ c.to <= d.from \/ d.to <= c.from
    <3>1. \A c, d \in cut : c = d
      BY DEF cut, Rest
    <3>2. \A c, d \in blocks \ {b} : c = d \/ c.to <= d.from \/ d.to <= c.from
      BY <1>6, <2>1 DEF Sorted
    <3>3. \A c \in cut, d \in blocks \ {b} : d.to <= c.from
      BY <1>11, <2>3
    <3> QED
      BY <1>12, <3>1, <3>2, <3>3
  <2> QED
    BY <2>5, <2>6 DEF Sorted
<1>15. Slabs(Memory) => Slabs(m)
  <2>1. \A c \in blocks : c.owner = "slab" => c \in m.given
    BY <1>2, <1>12
  <2> QED
    BY <1>6, <1>12, <2>1 DEF Slabs, InSlab
<1>21. (Guarded(Memory) => Following(m)) /\ (Frozen(Memory) => Frozen(m))
  BY <1>12, <1>16 DEF Following, Frozen
<1>17. MemoryOK'
  BY <1>1, <1>5, <1>13, <1>12, <1>14, <1>15, <1>21, MemoryKept DEF MemoryOK, Guarded
<1>18. /\ place' = [d \in Contexts |-> place'[d]] /\ place'["program"] = "idle"
       /\ \A d \in Contexts : d # "program" => place'[d] = place[d]
  BY <1>1, GotoFacts DEF Trim, Contexts
<1>19. TrimOK' /\ CallsOK'
  BY <1>1, <1>18 DEF TrimOK, CallsOK, Trim
<1>20. SamplersOK'
  BY <1>1, <1>18, SamplersStay DEF Trim
<1> QED
  BY <1>17, <1>19, <1>20 DEF HIInv

LEMMA McountKeeps ==
  ASSUME HIInv, NEW c \in Contexts, NEW arc, Mcount(c, arc)
  PROVE  HIInv'
<1>1. /\ MemoryOK /\ CallsOK /\ TrimOK /\ SamplersOK
      /\ Goto(c, "new") /\ place[c] = "idle"
      /\ UNCHANGED <<heap, slab, unaligned, slipped>>
      /\ UNCHANGED <<needInit, overtaken, samplers>>
      /\ \E f : found' = [found EXCEPT ![c] = f]
  BY DEF HIInv, Mcount
<1>2. /\ place' = [d \in Contexts |-> place'[d]] /\ place'[c] = "new"
      /\ \A d \in Contexts : d # c => place'[d] = place[d]
  BY <1>1, GotoFacts
<1>3. /\ found' = [d \in Contexts |-> found'[d]]
      /\ \A d \in Contexts : d # c => found'[d] = found[d]
  BY <1>1 DEF CallsOK
<1>4. "program" \in Contexts
  BY DEF Contexts
<1>5. TrimOK'
  <2>1. place'["program"] = "trim" => place["program"] = "trim" /\ c # "program"
    BY <1>1, <1>2, <1>4
  <2>2. place["program"] = "trim" => found'["program"] = found["program"]
    BY <1>1, <1>3, <1>4
  <2> QED
    BY <1>1, <2>1, <2>2, TrimStays
<1>6. SamplersOK'
  BY <1>1, <1>2, SamplersStay
<1> QED
  BY <1>1, <1>2, <1>3, <1>5, <1>6, MemoryStays DEF HIInv, CallsOK

LEMMA NeedInitKeeps ==
  ASSUME HIInv, NEW c \in Contexts, NeedInit(c)
  PROVE  HIInv'
<1>1. /\ MemoryOK /\ CallsOK /\ TrimOK /\ SamplersOK
      /\ Goto(c, IF needInit THEN "clear" ELSE "record") /\ place[c] = "new"
      /\ UNCHANGED <<heap, slab, unaligned, slipped>>
      /\ UNCHANGED <<needInit, overtaken, samplers>>
      /\ found' = found /\ "program" \in Contexts
  BY DEF HIInv, NeedInit, Contexts
<1>2. /\ place' = [d \in Contexts |-> place'[d]] /\ place'[c] \in {"clear", "record"}
      /\ \A d \in Contexts : d # c => place'[d] = place[d]
  BY <1>1, GotoFacts
<1>3. TrimOK'
  BY <1>1, <1>2, TrimStays
<1>4. SamplersOK'
  BY <1>1, <1>2, SamplersStay
<1> QED
  BY <1>1, <1>2, <1>3, <1>4, MemoryStays DEF HIInv, CallsOK

LEMMA ClearInitKeeps ==
  ASSUME HIInv, NEW c \in Contexts, ClearInit(c)
  PROVE  HIInv'
<1>1. /\ MemoryOK /\ CallsOK /\ TrimOK /\ SamplersOK
      /\ Goto(c, "start") /\ place[c] = "clear"
      /\ UNCHANGED <<heap, slab, unaligned, slipped>>
      /\ samplers' = samplers /\ needInit' = FALSE
      /\ ~overtaken' => ~overtaken /\ needInit /\ ~(samplers > 0)
      /\ found' = found /\ "program" \in Contexts
  BY DEF HIInv, ClearInit, Contexts
<1>2. /\ place' = [d \in Contexts |-> place'[d]] /\ place'[c] = "start"
      /\ \A d \in Contexts : d # c => place'[d] = place[d]
  BY <1>1, GotoFacts
<1>3. TrimOK'
  BY <1>1, <1>2, TrimStays
<1>4. SamplersOK'
  <2>1. samplers \in Nat
    BY <1>1 DEF SamplersOK
  <2>2. ASSUME ~overtaken' PROVE samplers = 0 /\ \A d \in Contexts : place[d] # "start"
    BY <1>1, <2>1, <2>2 DEF SamplersOK
  <2>3. ASSUME ~overtaken' PROVE samplers = 0 /\ \A d \in Contexts : place'[d] = "start" => d = c
    BY <1>2, <2>2, <2>3
  <2>4. samplers' = samplers /\ ~needInit'
    BY <1>1
  <2> QED
    BY <2>1, <2>3, <2>4 DEF SamplersOK
<1> QED
  BY <1>1, <1>2, <1>3, <1>4, MemoryStays DEF HIInv, CallsOK

LEMMA ClockKeeps ==
  ASSUME HIInv, ClockStarts
  PROVE  HIInv'
<1>1. /\ MemoryOK /\ CallsOK /\ TrimOK /\ SamplersOK
      /\ UNCHANGED <<heap, slab, unaligned, slipped>>
      /\ UNCHANGED <<needInit, overtaken, samplers>>
      /\ found' = found /\ place' = place
  BY DEF HIInv, ClockStarts, callVars
<1> QED
  BY <1>1, MemoryStays, TrimStays, SamplersStay DEF HIInv, CallsOK

LEMMA PcsampleInitKeeps ==
  ASSUME HIInv, NEW c \in Contexts, PcsampleInit(c)
  PROVE  HIInv'
<1>1. /\ MemoryOK /\ CallsOK /\ TrimOK /\ SamplersOK
      /\ Goto(c, "record") /\ place[c] = "start"
      /\ overtaken' = overtaken /\ found' = found /\ "program" \in Contexts
  BY DEF HIInv, PcsampleInit, Contexts
<1>2. /\ place' = [d \in Contexts |-> place'[d]] /\ place'[c] = "record"
      /\ \A d \in Contexts : d # c => place'[d] = place[d]
  BY <1>1, GotoFacts
<1>3. CallsOK'
  BY <1>1, <1>2 DEF CallsOK
<1>4. CASE clock
  <2> DEFINE g == Grant(c, Memory, Histogram, "histogram")
  <2>1. /\ MemType(Memory) /\ Bounded(Memory) /\ Becomes(c, g)
        /\ Memory.end = heap_end /\ Memory.given = blocks
        /\ Histogram \in Nat \ {0} /\ "histogram" \in Owners /\ sp \in Int
    BY <1>1, <1>4, HeapAssumption DEF MemoryOK, Memory, PcsampleInit, Owners
  <2>2. /\ MemType(g) /\ Bounded(g)
        /\ Memory.end <= g.end /\ g.ptr = Memory.ptr /\ g.size = Memory.size
        /\ g.at = Memory.at /\ g.wild = Memory.wild
        /\ \/ g.result = Failed /\ g.given = Memory.given
           \/ g.given = Memory.given \cup {Block(g.result, g.result + Histogram, "histogram")}
        /\ Sorted(Memory) => Sorted(g)
        /\ Guarded(Memory) => Following(g)
        /\ Frozen(Memory) => Frozen(g)
    <3>1. PICK m : m = Memory
      OBVIOUS
    <3>2. PICK h \in Nat \ {0} : h = Histogram
      BY <2>1
    <3> HIDE DEF g
    <3>3. g = Grant(c, m, h, "histogram")
      BY <3>1, <3>2 DEF g
    <3>4. MemType(m) /\ Bounded(m) /\ "histogram" \in Owners
      BY <2>1, <3>1
    <3>5. PICK o \in Owners : o = "histogram"
      BY <3>4
    <3>6. /\ MemType(g) /\ Bounded(g)
          /\ m.end <= g.end /\ g.ptr = m.ptr /\ g.size = m.size
          /\ g.at = m.at /\ g.wild = m.wild
          /\ \/ g.result = Failed /\ g.given = m.given
             \/ g.given = m.given \cup {Block(g.result, g.result + h, o)}
          /\ Sorted(m) => Sorted(g)
          /\ Guarded(m) => Following(g)
          /\ Frozen(m) => Frozen(g)
      <4>1. GrantDoes(m, h, o, g)
        BY <2>1, <3>3, <3>4, <3>5, GrantFacts
      <4> QED BY <4>1 DEF GrantDoes
    <3> QED
      BY <3>1, <3>2, <3>5, <3>6
  <2> HIDE DEF g
  <2>3. Memory.given \subseteq g.given
    BY <2>2
  <2>4. Slabs(Memory) => Slabs(g)
    BY <2>2, <2>3 DEF Slabs, InSlab
  <2>5. MemoryOK'
    BY <1>1, <2>1, <2>2, <2>4, MemoryKept DEF MemoryOK
  <2>6. TrimOK'
    BY <1>1, <1>2, <2>1, <2>2, <2>3, TrimKept
  <2>7. samplers' = samplers + 1
    BY <1>4 DEF PcsampleInit
  <2>8. SamplersOK'
    <3>1. samplers \in Nat /\ samplers' \in Nat
      BY <1>1, <2>7 DEF SamplersOK
    <3>2. ASSUME ~overtaken' PROVE samplers' <= 1 /\ \A d \in Contexts : place'[d] # "start"
      BY <1>1, <1>2, <2>7, <3>1, <3>2 DEF SamplersOK
    <3> QED
      BY <3>1, <3>2 DEF SamplersOK
  <2> QED
    BY <1>3, <2>5, <2>6, <2>8 DEF HIInv
<1>5. CASE ~clock
  <2>1. UNCHANGED <<heap, slab, unaligned, slipped, samplers>>
    BY <1>5 DEF PcsampleInit
  <2>2. TrimOK'
    BY <1>1, <1>2, <2>1, TrimStays
  <2>3. SamplersOK'
    <3>1. samplers' = samplers
      BY <2>1
    <3>2. ASSUME ~overtaken' PROVE samplers' <= 1 /\ \A d \in Contexts : place'[d] # "start"
      BY <1>1, <1>2, <3>1, <3>2 DEF SamplersOK
    <3> QED
      BY <1>1, <3>1, <3>2 DEF SamplersOK
  <2> QED
    BY <1>1, <1>3, <2>1, <2>2, <2>3, MemoryStays DEF HIInv
<1> QED
  BY <1>4, <1>5

LEMMA McountRecordKeeps ==
  ASSUME HIInv, NEW c \in Contexts, McountRecord(c)
  PROVE  HIInv'
<1>1. /\ MemoryOK /\ CallsOK /\ TrimOK /\ SamplersOK
      /\ Goto(c, "idle") /\ place[c] = "record"
      /\ UNCHANGED <<needInit, overtaken, samplers>>
      /\ \E f : found' = [found EXCEPT ![c] = f]
      /\ "program" \in Contexts
  BY DEF HIInv, McountRecord, Contexts
<1>2. /\ place' = [d \in Contexts |-> place'[d]] /\ place'[c] = "idle"
      /\ \A d \in Contexts : d # c => place'[d] = place[d]
  BY <1>1, GotoFacts
<1>3. /\ found' = [d \in Contexts |-> found'[d]]
      /\ \A d \in Contexts : d # c => found'[d] = found[d]
  BY <1>1 DEF CallsOK
<1>4. CallsOK' /\ SamplersOK'
  BY <1>1, <1>2, <1>3, SamplersStay DEF CallsOK
<1>5. PICK once : once = McountAllocate(c, Memory)
  OBVIOUS
<1>6. PICK twice : twice = McountAllocate(c, once)
  OBVIOUS
<1>7. PICK m \in {once, twice} : Becomes(c, m)
  BY <1>5, <1>6 DEF McountRecord
<1>8. /\ MemType(Memory) /\ Bounded(Memory) /\ sp \in Int
      /\ Memory.end = heap_end /\ Memory.given = blocks
      /\ ~slipped => Sorted(Memory)
      /\ ~slipped => Slabs(Memory)
      /\ ~unaligned => Guarded(Memory)
      /\ unaligned => Frozen(Memory)
  BY <1>1 DEF MemoryOK, Memory
<1>9. /\ MemType(once) /\ Bounded(once)
      /\ Memory.end <= once.end /\ Memory.given \subseteq once.given
      /\ Sorted(Memory) => Sorted(once)
      /\ Guarded(Memory) => Guarded(once)
      /\ Frozen(Memory) => Frozen(once)
      /\ Sorted(Memory) /\ Slabs(Memory) => Slabs(once)
  BY <1>5, <1>8, McountAllocateFacts
<1>10. /\ MemType(twice) /\ Bounded(twice)
       /\ once.end <= twice.end /\ once.given \subseteq twice.given
       /\ Sorted(once) => Sorted(twice)
       /\ Guarded(once) => Guarded(twice)
       /\ Frozen(once) => Frozen(twice)
       /\ Sorted(once) /\ Slabs(once) => Slabs(twice)
  BY <1>6, <1>8, <1>9, McountAllocateFacts
<1>11. once.end \in Int /\ twice.end \in Int /\ heap_end \in Int
  BY <1>8, <1>9, <1>10 DEF MemType
<1>12. /\ MemType(m) /\ Bounded(m) /\ heap_end <= m.end /\ blocks \subseteq m.given
       /\ ~slipped => Sorted(m)
       /\ ~slipped => Slabs(m)
       /\ ~unaligned => Following(m)
       /\ unaligned => Frozen(m)
  BY <1>7, <1>8, <1>9, <1>10, <1>11 DEF Guarded
<1>13. MemoryOK'
  BY <1>1, <1>7, <1>12, MemoryKept
<1>14. TrimOK'
  <2>1. place'["program"] = "trim" => place["program"] = "trim"
    BY <1>1, <1>2
  <2>2. place["program"] = "trim" => c # "program"
    BY <1>1
  <2>3. place["program"] = "trim" => found'["program"] = found["program"]
    BY <1>1, <1>3, <2>2
  <2> QED
    BY <1>1, <1>7, <1>12, <2>1, <2>2, <2>3, TrimKept
<1> QED
  BY <1>4, <1>13, <1>14 DEF HIInv

LEMMA StackKeeps ==
  ASSUME HIInv, NEW p \in StackPointers, StackMoves(p)
  PROVE  HIInv'
<1>1. /\ MemoryOK /\ CallsOK /\ TrimOK /\ SamplersOK
      /\ UNCHANGED <<heap_end, stackLimit, blocks, slab, unaligned, slipped>>
      /\ UNCHANGED <<needInit, overtaken, samplers>>
      /\ found' = found /\ place' = place
      /\ sp' = p /\ reported' = (reported \/ p < stackLimit) /\ p \in Int
  BY HeapAssumption DEF HIInv, StackMoves, callVars
<1>2. /\ MemType(Memory) /\ Bounded(Memory)
      /\ ~slipped => Sorted(Memory) /\ Slabs(Memory)
      /\ IF unaligned THEN Frozen(Memory) ELSE Guarded(Memory)
      /\ unaligned \in BOOLEAN
  BY <1>1 DEF MemoryOK
<1>3. PICK x \in BOOLEAN : x = (reported \/ p < stackLimit)
  OBVIOUS
<1>4. Memory' = [Memory EXCEPT !.alarm = x]
  BY <1>1, <1>3 DEF Memory, slab
<1> DEFINE m == [Memory EXCEPT !.alarm = x]
<1>5. /\ MemType(m) /\ m.end = Memory.end /\ m.limit = Memory.limit /\ m.alarm = x
      /\ m.given = Memory.given /\ m.ptr = Memory.ptr /\ m.size = Memory.size
      /\ m.wild = Memory.wild /\ m.at = Memory.at
  BY <1>2 DEF MemType
<1> HIDE DEF m
<1>6. MemType(Memory)' /\ Bounded(Memory)'
  BY <1>2, <1>4, <1>5 DEF Bounded, MemType, m
<1>7. ~slipped' => Sorted(Memory)' /\ Slabs(Memory)'
  BY <1>1, <1>2, <1>4, <1>5 DEF Sorted, Slabs, InSlab, m
<1>8. IF unaligned' THEN Frozen(Memory)' ELSE Guarded(Memory)'
  <2>1. stackLimit = Memory.limit
    BY DEF Memory
  <2>2. unaligned => Frozen(Memory)'
    BY <1>2, <1>4, <1>5 DEF Frozen, m
  <2>3. ~unaligned => Guarded(Memory)'
    BY <1>1, <1>2, <1>3, <1>4, <1>5, <2>1 DEF Guarded, Following, m
  <2> QED
    BY <1>1, <2>2, <2>3
<1>9. MemoryOK'
  BY <1>1, <1>2, <1>6, <1>7, <1>8 DEF MemoryOK
<1>10. TrimOK' /\ CallsOK' /\ SamplersOK'
  BY <1>1, SamplersStay DEF TrimOK, CallsOK
<1> QED
  BY <1>9, <1>10 DEF HIInv

-----------------------------------------------------------------------------
LEMMA InitHIInv ==
  ASSUME HeapInit
  PROVE  HIInv
<1>1. /\ heap_end = HeapStart /\ HeapStart \in Nat /\ HeapStart % Word = 0
      /\ HeapLimit \in Nat /\ HeapLimit >= HeapStart /\ RecordSize \in Nat \ {0}
  BY HeapAssumption DEF HeapInit
<1>2. Memory = [end |-> HeapStart, limit |-> HeapStart, alarm |-> FALSE,
                given |-> {}, result |-> 0,
                ptr |-> 0, size |-> 0, wild |-> FALSE, at |-> <<>>]
  BY DEF HeapInit, Memory
<1>3. MemType(Memory)
  BY <1>1, <1>2 DEF MemType
<1>4. Bounded(Memory) /\ Sorted(Memory) /\ Guarded(Memory)
  BY <1>1, <1>2 DEF Bounded, Sorted, Guarded, Following, HeapInit
<1>5. Slabs(Memory)
  BY <1>1, <1>2 DEF Slabs
<1>6. MemoryOK
  <2>1. sp \in Int /\ unaligned = FALSE
    BY <1>1 DEF HeapInit
  <2> QED BY <1>3, <1>4, <1>5, <2>1 DEF MemoryOK
<1>7. /\ place = [c \in Contexts |-> "idle"] /\ found = [c \in Contexts |-> Nothing]
      /\ samplers = 0 /\ "program" \in Contexts
  BY DEF HeapInit, Contexts
<1>8. CallsOK /\ TrimOK /\ SamplersOK
  BY <1>7 DEF CallsOK, TrimOK, SamplersOK
<1> QED
  BY <1>6, <1>8 DEF HIInv

LEMMA NextHIInv ==
  ASSUME HIInv, [HeapNext]_heapVars
  PROVE  HIInv'
<1>1. CASE \E size \in Increments : Allocate(size)
  BY <1>1, AllocateKeeps
<1>2. CASE \E b \in blocks : \E n \in 1 .. b.to - b.from : TrimLook(b, n)
  BY <1>2, TrimLookKeeps
<1>3. CASE Trim
  BY <1>3, TrimKeeps
<1>4. ASSUME NEW c \in Contexts, Record(c)
      PROVE  HIInv'
  BY <1>4, NeedInitKeeps, ClearInitKeeps, PcsampleInitKeeps, McountRecordKeeps DEF Record
<1>5. ASSUME NEW c \in Contexts, NEW arc \in Arcs, Mcount(c, arc)
      PROVE  HIInv'
  BY <1>5, McountKeeps
<1>6. CASE ClockStarts
  BY <1>6, ClockKeeps
<1>8. CASE \E p \in StackPointers : StackMoves(p)
  BY <1>8, StackKeeps
<1>7. CASE UNCHANGED heapVars
  <2>1. /\ UNCHANGED <<heap, slab, unaligned, slipped>>
        /\ UNCHANGED <<needInit, overtaken, samplers>>
        /\ found' = found /\ place' = place
    BY <1>7 DEF heapVars, callVars
  <2> QED
    BY <2>1, MemoryStays, TrimStays, SamplersStay DEF HIInv, CallsOK
<1> QED
  BY <1>1, <1>2, <1>3, <1>4, <1>5, <1>6, <1>7, <1>8 DEF HeapNext

LEMMA HIInvImpliesHeapInv ==
  ASSUME HIInv
  PROVE  HeapInv
<1>1. /\ MemType(Memory) /\ Bounded(Memory)
      /\ Memory.end = heap_end /\ Memory.limit = stackLimit /\ Memory.given = blocks
      /\ Memory.at = records /\ Memory.alarm = reported
      /\ ~slipped => Sorted(Memory)
      /\ ~slipped => Slabs(Memory)
      /\ IF unaligned THEN Frozen(Memory) ELSE Guarded(Memory)
      /\ SamplersOK
  BY DEF HIInv, MemoryOK, Memory
<1>2. /\ heap_end \in Int /\ \A b \in blocks : b.from \in Int /\ b.to \in Int
      /\ HeapStart \in Nat /\ HeapLimit \in Nat /\ Word \in Nat \ {0}
  BY <1>1, HeapAssumption DEF MemType, BlockSet
<1>3. InBounds
  BY <1>1, <1>2 DEF InBounds, Bounded
<1>4. BelowBreak /\ BlocksApart
  BY <1>1, <1>2 DEF BelowBreak, BlocksApart, Bounded, Sorted
<1>5. StackGuarded /\ StackWatched
  BY <1>1 DEF StackGuarded, StackWatched, Guarded, Following, Frozen
<1>6. RecordsApart
  BY <1>1 DEF RecordsApart, Slabs, InSlab, Apart
<1>7. SampledOnce
  BY <1>1 DEF SampledOnce, SamplersOK
<1> QED
  BY <1>3, <1>4, <1>5, <1>6, <1>7 DEF HeapInv

(* alt_sbrk.c, alt_gmon.c: the break stays in its bounds.  What sbrk gave lies below
   it, each block apart from the others, and the profiler's records that are in memory
   lie apart in slabs, until an interrupt's request comes between an allocator's look
   and its trim.  The stack limit is the break, and stack and heap do not meet
   unreported, until a request leaves the break off a word boundary; from then on the
   limit stays where it was.  Sampling is started once, unless a look at the flag and
   its clear are overtaken. *)
THEOREM HeapCorrect == HeapSpec => []HeapInv
<1>1. HeapInit => HIInv
  BY InitHIInv
<1>2. HIInv /\ [HeapNext]_heapVars => HIInv'
  BY NextHIInv
<1>3. HIInv => HeapInv
  BY HIInvImpliesHeapInv
<1> QED
  BY <1>1, <1>2, <1>3, PTL DEF HeapSpec
=============================================================================
