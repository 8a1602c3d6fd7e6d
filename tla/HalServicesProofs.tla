-------------------------- MODULE HalServicesProofs -------------------------
(***************************************************************************)
(* Proofs about four of the services of HalServices, for every value of    *)
(* their constants: the caches (AltCache), the time of day (AltTime), the  *)
(* alarms (AltAlarm), and the log with alt_printf (AltConsole).            *)
(***************************************************************************)
EXTENDS AltTime, AltCache, AltConsole, DataLemmas

-----------------------------------------------------------------------------
(* AltCache.  What a loop over lines, now at address at, still comes to: the
   lines from there to the end, the last one too if the loop did not start with
   a line. *)
ToVisit(o, at) == {l \in Nat : Line(at) <= l /\ l * LineSize < o.end}

(* flushda looks for the line and flushd for its place in the data cache, flushi
   for its place in the instruction cache. *)
DataLeft ==
  IF ops = <<>> THEN {}
  ELSE CASE Now.what = "flush" -> ToVisit(Now, i)
         [] Now.what = "flushAll" -> {m \in Nat : m % DLines \in ToVisit(Now, i)}
         [] OTHER -> {}

SamePlace(lines) == {m \in Nat : \E l \in lines : m % ILines = l % ILines}
CodeLeft ==
  IF ops = <<>> THEN {}
  ELSE IF Now.what = "iflush" THEN SamePlace(ToVisit(Now, i))
  ELSE IF Len(ops) = 2 THEN SamePlace(ToVisit(ops[2], ops[2].start))
  ELSE {}

Loops == [what : {"flush", "discard", "flushAll", "iflush"}, start : Nat, end : Nat]

CacheTypeOK ==
  /\ dlines \subseteq Nat /\ ilines \subseteq Nat /\ taken \subseteq Nat /\ fresh \subseteq Nat
  /\ dirty \subseteq BytesOf(dlines) /\ due \subseteq dirty
  /\ iold \subseteq ilines

(* A call is one loop, or two of which the second is over the instruction cache. *)
PlanOK ==
  /\ \/ ops = <<>>
     \/ \E o \in Loops : ops = <<o>>
     \/ \E o, p \in Loops :
          ops = <<o, p>> /\ o.what \in {"flush", "flushAll"} /\ p.what = "iflush"
  /\ ops # <<>> => /\ i \in Nat /\ Now.start <= i
                   /\ i % LineSize = Now.start % LineSize
                   /\ Now.what = "discard" => i < Now.end + LineSize

(* What is still to be done is in the lines still to be visited. *)
WorkLeft ==
  /\ due \subseteq BytesOf(DataLeft)
  /\ dlines \cap taken \subseteq DataLeft
  /\ fresh \cap iold \subseteq CodeLeft
  /\ \A l \in fresh : dirty \cap BytesOf({l}) # {} => l \in DataLeft /\ l \in CodeLeft

(* Before alt_load nothing runs but the loading. *)
BeforeLoad ==
  ~booted => /\ ops = <<>> /\ taken = {} /\ due = {} /\ fresh = {}
             /\ ilines = {} /\ iold = {}

CInv == CacheTypeOK /\ PlanOK /\ WorkLeft /\ BeforeLoad /\ DiscardConfined
-----------------------------------------------------------------------------
(* Lines and addresses. *)
LEMMA CacheConstants ==
  /\ LineSize \in Nat \ {0} /\ DLines \in Nat \ {0} /\ ILines \in Nat \ {0}
  /\ MemLines \in Nat \ {0}
BY CacheAssumption

LEMMA LineFacts ==
  ASSUME NEW a \in Nat
  PROVE  /\ Line(a) \in Nat
         /\ LineSize * Line(a) \in Nat
         /\ LineSize * Line(a) <= a /\ a < LineSize * Line(a) + LineSize
         /\ a % LineSize = 0 => a = LineSize * Line(a)
         /\ a + LineSize \in Nat
         /\ Line(a + LineSize) = Line(a) + 1
         /\ (a + LineSize) % LineSize = a % LineSize
<1> USE CacheConstants
<1>1. Line(a) \in Nat
  BY NatDiv DEF Line
<1>2. PICK q \in Nat : q = Line(a)
  BY <1>1
<1>3. PICK r \in 0 .. LineSize - 1 : r = a % LineSize
  BY DivMod
<1>4. a = LineSize * q + r
  BY <1>2, <1>3, DivMod DEF Line
<1>5. PICK x \in Nat : x = LineSize * q
  BY <1>2
<1>6. a = x + r
  BY <1>4, <1>5
<1>7. x <= a /\ a < x + LineSize /\ (r = 0 => a = x)
  BY <1>6
<1>8. /\ (a + LineSize * 1) \div LineSize = a \div LineSize + 1
      /\ (a + LineSize * 1) % LineSize = a % LineSize
  <2>1. 1 \in Int /\ a \in Int
    OBVIOUS
  <2> QED BY <2>1, AddMultiple
<1>9. a + LineSize * 1 = a + LineSize
  OBVIOUS
<1>10. Line(a + LineSize) = Line(a) + 1 /\ (a + LineSize) % LineSize = a % LineSize
  BY <1>8, <1>9 DEF Line
<1> QED BY <1>2, <1>3, <1>5, <1>7, <1>10

LEMMA LineOrder ==
  ASSUME NEW a \in Nat, NEW b \in Nat, a <= b
  PROVE  Line(a) <= Line(b)
BY QuotientOrder, CacheConstants DEF Line

LEMMA LineStart ==
  ASSUME NEW l \in Nat
  PROVE  /\ l * LineSize \in Nat /\ Line(l * LineSize) = l
         /\ (l * LineSize) % LineSize = 0
<1>1. /\ (LineSize * l + 0) \div LineSize = l
      /\ (LineSize * l + 0) % LineSize = 0
  BY CacheConstants, OnlyQuotient
<1>2. l * LineSize = LineSize * l + 0 /\ l * LineSize \in Nat
  BY CacheConstants
<1> QED BY <1>1, <1>2 DEF Line

(* An address that a loop starts at has its line among those to be visited, and
   so has every one up to the end. *)
LEMMA VisitsAll ==
  ASSUME NEW o \in Loops, NEW a \in Nat, o.start <= a, a < o.end
  PROVE  Line(a) \in ToVisit(o, o.start)
<1>1. o.start \in Nat /\ o.end \in Nat
  BY DEF Loops
<1>2. Line(a) \in Nat /\ LineSize * Line(a) <= a /\ LineSize * Line(a) \in Nat
  BY LineFacts
<1>3. Line(o.start) <= Line(a)
  BY <1>1, LineOrder
<1>4. Line(a) * LineSize = LineSize * Line(a)
  BY <1>2, CacheConstants
<1>5. Line(a) * LineSize < o.end
  BY <1>1, <1>2, <1>4
<1> QED BY <1>2, <1>3, <1>5 DEF ToVisit

(* A step of a loop visits a line. *)
LEMMA VisitsOne ==
  ASSUME NEW o, NEW at \in Nat
  PROVE  \A l \in ToVisit(o, at) : l = Line(at) \/ l \in ToVisit(o, at + LineSize)
<1> SUFFICES ASSUME NEW l \in ToVisit(o, at), l # Line(at)
             PROVE  l \in ToVisit(o, at + LineSize)
  OBVIOUS
<1>1. l \in Nat /\ Line(at) <= l /\ l * LineSize < o.end
  BY DEF ToVisit
<1>2. Line(at) \in Nat /\ Line(at + LineSize) = Line(at) + 1
  BY LineFacts
<1>3. Line(at + LineSize) <= l
  BY <1>1, <1>2
<1> QED BY <1>1, <1>3 DEF ToVisit

(* At the end of a loop the line there is the last one, and there is none if the
   loop started with a line. *)
LEMMA VisitsLast ==
  ASSUME NEW o \in Loops, NEW at \in Nat, at >= o.end
  PROVE  /\ \A l \in ToVisit(o, at) : l = Line(at)
         /\ at % LineSize = 0 => ToVisit(o, at) = {}
<1>1. /\ Line(at) \in Nat /\ LineSize * Line(at) \in Nat
      /\ at < LineSize * Line(at) + LineSize
      /\ at % LineSize = 0 => at = LineSize * Line(at)
  BY LineFacts
<1>2. ASSUME NEW l \in ToVisit(o, at)
      PROVE  l = Line(at) /\ at % LineSize # 0
  <2>1. /\ l \in Nat /\ Line(at) <= l /\ l * LineSize < o.end
        /\ l * LineSize = LineSize * l /\ o.end \in Nat
    BY CacheConstants DEF ToVisit, Loops
  <2>2. PICK x \in Nat : x = LineSize * l
    BY <2>1, CacheConstants
  <2>3. x < at
    BY <2>1, <2>2
  <2>4. ~ (Line(at) < l)
    <3> SUFFICES ASSUME Line(at) < l PROVE FALSE
      OBVIOUS
    <3>1. LineSize * Line(at) + LineSize <= x
      BY <1>1, <2>1, <2>2, ProductOrder, CacheConstants
    <3>2. PICK y \in Nat : y = LineSize * Line(at)
      BY <1>1
    <3>3. y + LineSize <= x /\ at < y + LineSize
      BY <1>1, <3>1, <3>2
    <3> QED BY <2>3, <3>3, CacheConstants
  <2>5. l = Line(at)
    BY <1>1, <2>1, <2>4
  <2>6. at # LineSize * Line(at)
    BY <2>2, <2>3, <2>5
  <2> QED BY <1>1, <2>5, <2>6
<1> QED BY <1>2

(* As many lines as the instruction cache has come to every place in it. *)
LEMMA VisitsEveryPlace ==
  ASSUME NEW o \in Loops, o.end = o.start + ILines * LineSize, NEW m \in Nat
  PROVE  m \in SamePlace(ToVisit(o, o.start))
<1> USE CacheConstants
<1>1. o.start \in Nat
  BY DEF Loops
<1>2. PICK s \in Nat : s = Line(o.start)
  BY <1>1, LineFacts
<1>3. PICK k \in 0 .. ILines - 1 : k = (m - s) % ILines
  BY <1>2, DivMod
<1>4. PICK q \in Int : q = (m - s) \div ILines
  BY <1>2, DivMod
<1>5. m - s = (ILines * q) + k
  <2>1. m - s \in Int
    BY <1>2
  <2> QED BY <1>3, <1>4, <2>1, DivMod
<1>6. m % ILines = (s + k) % ILines
  <2>1. s + k \in Int
    BY <1>2, <1>3
  <2>2. (s + k + ILines * q) % ILines = (s + k) % ILines
    BY <1>4, <2>1, AddMultiple
  <2>3. PICK y \in Int : y = ILines * q
    BY <1>4
  <2>4. m = s + k + y
    <3>1. m - s = y + k
      BY <1>5, <2>3
    <3> QED BY <3>1
  <2> QED BY <2>2, <2>3, <2>4
<1>7. (s + k) * LineSize < o.end
  <2>1. PICK x \in Nat : x = LineSize * s
    BY <1>2
  <2>2. x <= o.start
    BY <1>1, <1>2, <2>1, LineFacts
  <2>3. LineSize * k < LineSize * ILines
    BY <1>3, ProductOrder
  <2>4. PICK y \in Nat : y = LineSize * k
    BY <1>3
  <2>5. PICK z \in Nat : z = LineSize * ILines
    OBVIOUS
  <2>6. (s + k) * LineSize = x + y
    BY <1>2, <1>3, <2>1, <2>4
  <2>7. ILines * LineSize = z
    BY <2>5
  <2>8. x + y < o.start + z
    BY <1>1, <2>2, <2>3, <2>4, <2>5
  <2> QED BY <2>6, <2>7, <2>8
<1>8. s + k \in Nat /\ Line(o.start) <= s + k
  BY <1>2, <1>3
<1>9. s + k \in ToVisit(o, o.start)
  BY <1>7, <1>8 DEF ToVisit
<1> QED BY <1>6, <1>9 DEF SamePlace

-----------------------------------------------------------------------------
(* Bytes and their lines. *)
LEMMA ByteFacts ==
  ASSUME NEW lines
  PROVE  /\ BytesOf(lines) \subseteq Nat
         /\ \A a \in BytesOf(lines) : Line(a) \in lines
         /\ \A a \in Addresses : Line(a) \in lines => a \in BytesOf(lines)
<1>1. Addresses \subseteq Nat
  BY CacheConstants DEF Addresses
<1> QED BY <1>1 DEF BytesOf

(* Between calls no work is left. *)
LEMMA NothingLeft ==
  ASSUME WorkLeft, ops = <<>>
  PROVE  /\ due = {} /\ dlines \cap taken = {} /\ fresh \cap iold = {}
         /\ \A l \in fresh : dirty \cap BytesOf({l}) = {}
<1>1. DataLeft = {} /\ CodeLeft = {}
  BY DEF DataLeft, CodeLeft
<1>2. BytesOf({}) = {}
  BY DEF BytesOf
<1> QED BY <1>1, <1>2 DEF WorkLeft

(* Taking a line in, with bytes of it stored: what is stored is neither fresh any
   more nor taken. *)
LEMMA TakenIn ==
  ASSUME CacheTypeOK, NEW l \in Nat, l \notin taken, NEW stored \in SUBSET BytesOf({l}),
         TakeIn(l, stored), ilines' = ilines
  PROVE  /\ dlines' \subseteq Nat /\ dirty' \subseteq BytesOf(dlines')
         /\ dirty \ BytesOf(Displaced(l)) \subseteq dirty' /\ stored \subseteq dirty'
         /\ iold' \subseteq ilines' /\ fresh' \subseteq fresh
         /\ dlines' \cap taken \subseteq dlines \cap taken
         /\ fresh' \cap iold' \subseteq fresh \cap iold
         /\ \A m \in fresh' : dirty' \cap BytesOf({m}) \subseteq dirty \cap BytesOf({m})
<1>1. /\ dlines' = (dlines \ Displaced(l)) \cup {l}
      /\ dirty' = (dirty \ BytesOf(Displaced(l))) \cup stored
      /\ iold' = iold \cup (LinesOf(stored) \cap ilines)
      /\ fresh' = fresh \ LinesOf(stored)
  BY DEF TakeIn
<1>2. dirty' \subseteq BytesOf(dlines')
  <2> SUFFICES ASSUME NEW b \in dirty' PROVE b \in BytesOf(dlines')
    OBVIOUS
  <2>1. CASE b \in stored
    BY <1>1, <2>1 DEF BytesOf
  <2>2. CASE b \in dirty \ BytesOf(Displaced(l))
    BY <1>1, <2>2 DEF BytesOf, CacheTypeOK
  <2> QED BY <1>1, <2>1, <2>2
<1>3. ASSUME NEW m \in fresh', NEW b \in dirty' \cap BytesOf({m})
      PROVE  b \in dirty
  <2>1. Line(b) = m
    BY <1>3 DEF BytesOf
  <2>2. b \notin stored
    BY <1>1, <2>1 DEF LinesOf
  <2> QED BY <1>1, <1>3, <2>2
<1> QED BY <1>1, <1>2, <1>3 DEF CacheTypeOK

(* A load or a store. *)
LEMMA AccessKeeps ==
  ASSUME CInv, NEW a \in Addresses, NEW isStore \in BOOLEAN, Access(a, isStore)
  PROVE  CInv'
<1> DEFINE stored == IF isStore THEN {a} ELSE {}
<1>1. /\ booted /\ Line(a) \notin taken /\ TakeIn(Line(a), stored)
      /\ due' = due \ BytesOf(Displaced(Line(a)))
      /\ UNCHANGED <<ilines, taken, booted, ops, i, collateral>>
  BY DEF Access
<1>2. a \in Nat /\ Line(a) \in Nat
  BY CacheConstants, LineFacts DEF Addresses
<1>3. stored \in SUBSET BytesOf({Line(a)})
  BY DEF BytesOf
<1>4. CacheTypeOK /\ WorkLeft
  BY DEF CInv
<1> HIDE DEF stored
<1>5. /\ dlines' \subseteq Nat /\ dirty' \subseteq BytesOf(dlines')
      /\ dirty \ BytesOf(Displaced(Line(a))) \subseteq dirty'
      /\ iold' \subseteq ilines' /\ fresh' \subseteq fresh
      /\ dlines' \cap taken \subseteq dlines \cap taken
      /\ fresh' \cap iold' \subseteq fresh \cap iold
      /\ \A m \in fresh' : dirty' \cap BytesOf({m}) \subseteq dirty \cap BytesOf({m})
  BY <1>1, <1>2, <1>3, <1>4, TakenIn
<1>6. CacheTypeOK'
  BY <1>1, <1>4, <1>5 DEF CacheTypeOK
<1>7. DataLeft' = DataLeft /\ CodeLeft' = CodeLeft
  BY <1>1 DEF DataLeft, CodeLeft, Now, ToVisit
<1>8. WorkLeft'
  <2>1. due' \subseteq due
    BY <1>1
  <2>2. \A m \in fresh' : dirty' \cap BytesOf({m}) # {} => m \in DataLeft /\ m \in CodeLeft
    BY <1>4, <1>5 DEF WorkLeft
  <2> QED BY <1>1, <1>4, <1>5, <1>7, <2>1, <2>2 DEF WorkLeft
<1>9. PlanOK'
  BY <1>1 DEF CInv, PlanOK, Now
<1> QED BY <1>1, <1>6, <1>8, <1>9 DEF CInv, BeforeLoad, DiscardConfined

(* An instruction is fetched: if its line is not yet in memory it is fetched old,
   and then the call at work still comes to it in both caches. *)
LEMMA FetchKeeps ==
  ASSUME CInv, NEW l \in Nat, Fetch(l)
  PROVE  CInv'
<1> DEFINE cast == {m \in ilines : m % ILines = l % ILines}
           old == IF dirty \cap BytesOf({l}) = {} THEN {} ELSE {l}
<1>1. /\ booted
      /\ ilines' = (ilines \ cast) \cup {l} /\ iold' = (iold \ cast) \cup old
      /\ UNCHANGED <<dlines, dirty, taken, booted, ops, i, due, fresh, collateral>>
  BY DEF Fetch
<1>2. old \subseteq {l} /\ (l \in old => dirty \cap BytesOf({l}) # {})
  OBVIOUS
<1> HIDE DEF cast, old
<1>3. CacheTypeOK /\ WorkLeft
  BY DEF CInv
<1>4. CacheTypeOK'
  BY <1>1, <1>2, <1>3 DEF CacheTypeOK
<1>5. DataLeft' = DataLeft /\ CodeLeft' = CodeLeft
  BY <1>1 DEF DataLeft, CodeLeft, Now, ToVisit
<1>6. fresh \cap iold' \subseteq CodeLeft
  <2> SUFFICES ASSUME NEW m \in fresh, m \in iold' PROVE m \in CodeLeft
    OBVIOUS
  <2>1. CASE m \in iold
    BY <1>3, <2>1 DEF WorkLeft
  <2>2. CASE m \in old
    BY <1>2, <1>3, <2>2 DEF WorkLeft
  <2> QED BY <1>1, <2>1, <2>2
<1>7. WorkLeft'
  BY <1>1, <1>3, <1>5, <1>6 DEF WorkLeft
<1>8. PlanOK'
  BY <1>1 DEF CInv, PlanOK, Now
<1> QED BY <1>1, <1>4, <1>7, <1>8 DEF CInv, BeforeLoad, DiscardConfined

-----------------------------------------------------------------------------
(* A call of one loop begins, and of two. *)
LEMMA OneLoop ==
  ASSUME NEW o \in Loops, ops' = <<o>>, i' = o.start,
         o.what = "discard" => o.start <= o.end
  PROVE  /\ PlanOK'
         /\ o.what = "flush" => DataLeft' = ToVisit(o, o.start)
<1>1. Now' = o /\ ops' # <<>>
  BY DEF Now
<1>2. o.start \in Nat /\ (o.what = "discard" => o.start < o.end + LineSize)
  BY CacheConstants DEF Loops
<1>3. PlanOK'
  BY <1>1, <1>2 DEF PlanOK
<1> QED BY <1>1, <1>3 DEF DataLeft, ToVisit

LEMMA TwoLoops ==
  ASSUME NEW o \in Loops, NEW p \in Loops, ops' = <<o, p>>, i' = o.start,
         o.what \in {"flush", "flushAll"}, p.what = "iflush"
  PROVE  /\ PlanOK'
         /\ DataLeft' = IF o.what = "flush" THEN ToVisit(o, o.start)
                        ELSE {m \in Nat : m % DLines \in ToVisit(o, o.start)}
         /\ CodeLeft' = SamePlace(ToVisit(p, p.start))
<1>1. Now' = o /\ ops' # <<>> /\ Len(ops') = 2 /\ ops'[2] = p
  BY DEF Now
<1>2. o.start \in Nat
  BY DEF Loops
<1>3. PlanOK'
  BY <1>1, <1>2 DEF PlanOK
<1>4. /\ DataLeft' = CASE o.what = "flush" -> ToVisit(o, o.start)
                       [] o.what = "flushAll" -> {m \in Nat : m % DLines \in ToVisit(o, o.start)}
                       [] OTHER -> {}
      /\ CodeLeft' = IF o.what = "iflush" THEN SamePlace(ToVisit(o, o.start))
                     ELSE SamePlace(ToVisit(p, p.start))
  BY <1>1 DEF DataLeft, CodeLeft, ToVisit, SamePlace
<1> QED BY <1>3, <1>4

(* What Begin leaves of the caches, and what it asks for. *)
LEMMA BegunOne ==
  ASSUME CInv, Idle, NEW o \in Loops, NEW written, Begin(<<o>>, written, {}),
         UNCHANGED <<caches, booted, collateral>>, taken' \subseteq Nat,
         o.what = "discard" => o.start <= o.end,
         dirty \cap written # {} => o.what = "flush",
         \A a \in dirty \cap written : o.start <= a /\ a < o.end,
         dlines \cap taken' # {} => o.what = "flush",
         dlines \cap taken' \subseteq ToVisit(o, o.start)
  PROVE  CInv'
<1>1. /\ ops' = <<o>> /\ i' = o.start /\ due' = dirty \cap written /\ fresh' = {}
  BY DEF Begin, LinesOf
<1>2. UNCHANGED <<dlines, dirty, ilines, iold, booted, collateral>> /\ booted
  BY DEF caches, Idle
<1>3. CacheTypeOK'
  BY <1>1, <1>2 DEF CInv, CacheTypeOK
<1>4. PlanOK' /\ (o.what = "flush" => DataLeft' = ToVisit(o, o.start))
  BY <1>1, OneLoop
<1>5. due' \subseteq BytesOf(DataLeft')
  <2> SUFFICES ASSUME NEW a \in due' PROVE a \in BytesOf(DataLeft')
    OBVIOUS
  <2>1. /\ a \in dirty \cap written /\ o.start <= a /\ a < o.end /\ o.what = "flush"
    BY <1>1
  <2>2. a \in Addresses /\ a \in Nat
    BY <2>1, ByteFacts DEF CInv, CacheTypeOK, BytesOf
  <2>3. Line(a) \in DataLeft'
    BY <1>4, <2>1, <2>2, VisitsAll
  <2> QED BY <2>2, <2>3, ByteFacts
<1>6. WorkLeft'
  BY <1>1, <1>2, <1>4, <1>5 DEF WorkLeft
<1> QED BY <1>2, <1>3, <1>4, <1>6 DEF CInv, BeforeLoad, DiscardConfined

LEMMA BegunTwo ==
  ASSUME CInv, ops = <<>>, NEW o \in Loops, NEW p \in Loops, NEW bytes,
         Begin(<<o, p>>, bytes, bytes), o.what \in {"flush", "flushAll"}, p.what = "iflush",
         UNCHANGED <<caches, taken, collateral>>, booted', bytes \subseteq Nat,
         \A a \in bytes : o.what = "flush" => Line(a) \in ToVisit(o, o.start),
         \A m \in Nat : o.what = "flushAll" => m % DLines \in ToVisit(o, o.start),
         \A a \in bytes : Line(a) \in SamePlace(ToVisit(p, p.start))
  PROVE  CInv'
<1>1. /\ ops' = <<o, p>> /\ i' = o.start /\ due' = dirty \cap bytes
      /\ fresh' = LinesOf(bytes)
  BY DEF Begin
<1>2. UNCHANGED <<dlines, dirty, ilines, iold, taken, collateral>>
  BY DEF caches
<1>3. fresh' \subseteq Nat
  BY <1>1, LineFacts DEF LinesOf
<1>4. CacheTypeOK'
  BY <1>1, <1>2, <1>3 DEF CInv, CacheTypeOK
<1>5. /\ PlanOK'
      /\ DataLeft' = IF o.what = "flush" THEN ToVisit(o, o.start)
                     ELSE {m \in Nat : m % DLines \in ToVisit(o, o.start)}
      /\ CodeLeft' = SamePlace(ToVisit(p, p.start))
  BY <1>1, TwoLoops
<1>6. ASSUME NEW a \in bytes PROVE Line(a) \in DataLeft' /\ Line(a) \in CodeLeft'
  <2>1. Line(a) \in Nat
    BY LineFacts
  <2> QED BY <1>5, <2>1
<1>7. due' \subseteq BytesOf(DataLeft')
  <2> SUFFICES ASSUME NEW a \in due' PROVE a \in BytesOf(DataLeft')
    OBVIOUS
  <2>1. a \in Addresses /\ a \in bytes
    BY <1>1 DEF CInv, CacheTypeOK, BytesOf
  <2> QED BY <1>6, <2>1, ByteFacts
<1>8. \A l \in fresh' : l \in DataLeft' /\ l \in CodeLeft'
  BY <1>1, <1>6 DEF LinesOf
<1>9. WorkLeft'
  <2>1. dlines \cap taken = {}
    BY NothingLeft DEF CInv
  <2> QED BY <1>2, <1>7, <1>8, <2>1 DEF WorkLeft
<1> QED BY <1>2, <1>4, <1>5, <1>9 DEF CInv, BeforeLoad, DiscardConfined

(* The regions given to the calls. *)
LEMMA RegionFacts ==
  ASSUME NEW r \in Regions
  PROVE  /\ r[1] \in Nat /\ r[2] \in Nat /\ r[1] + r[2] \in Nat
         /\ Bytes(r[1], r[2]) \subseteq Nat
         /\ \A a \in Bytes(r[1], r[2]) : r[1] <= a /\ a < r[1] + r[2]
<1>1. r[1] \in Nat /\ r[2] \in Nat
  BY CacheAssumption
<1> QED BY <1>1 DEF Bytes

LEMMA FlushKeeps ==
  ASSUME CInv, NEW r \in Regions, Flush(r) \/ Discard(r)
  PROVE  CInv'
<1>1. /\ r[1] \in Nat /\ r[2] \in Nat /\ r[1] + r[2] \in Nat
      /\ \A a \in Bytes(r[1], r[2]) : r[1] <= a /\ a < r[1] + r[2]
  BY RegionFacts
<1>2. Idle /\ UNCHANGED <<caches, taken, booted, collateral>>
  BY DEF Flush, Discard
<1>3. taken' \subseteq Nat /\ dlines \cap taken' = {}
  BY <1>2, NothingLeft DEF CInv, CacheTypeOK, Idle
<1>4. CASE Flush(r)
  <2> DEFINE o == alt_dcache_flush(r[1], r[2])
  <2>1. /\ o \in Loops /\ o.what = "flush" /\ o.start = r[1] /\ o.end = r[1] + r[2]
    BY <1>1 DEF alt_dcache_flush, Op, Loops
  <2>2. Begin(<<o>>, Bytes(r[1], r[2]), {})
    BY <1>4 DEF Flush
  <2> HIDE DEF o
  <2> QED BY <1>1, <1>2, <1>3, <2>1, <2>2, BegunOne
<1>5. CASE Discard(r)
  <2> DEFINE o == alt_dcache_flush_no_writeback(r[1], r[2])
  <2>1. /\ o \in Loops /\ o.what = "discard" /\ o.start <= o.end
    BY <1>1 DEF alt_dcache_flush_no_writeback, Op, Loops
  <2>2. Begin(<<o>>, {}, {})
    BY <1>5 DEF Discard
  <2> HIDE DEF o
  <2> QED BY <1>2, <1>3, <2>1, <2>2, BegunOne
<1> QED BY <1>4, <1>5

(* The code loops of a call: they come to every place in the instruction cache
   where a byte of the region may be, or, if the region is larger than the cache,
   to all of them. *)
LEMMA CodeLoop ==
  ASSUME NEW start \in Nat, NEW len \in Nat
  PROVE  /\ alt_icache_flush(start, len) \in Loops
         /\ alt_icache_flush(start, len).what = "iflush"
         /\ \A a \in Nat : start <= a /\ a < start + len =>
              Line(a) \in SamePlace(ToVisit(alt_icache_flush(start, len), start))
         /\ alt_icache_flush(start, len).start = start
<1> DEFINE p == alt_icache_flush(start, len)
<1>1. PICK full \in Nat : full = ILines * LineSize
  BY CacheConstants
<1>2. /\ p.what = "iflush" /\ p.start = start
      /\ p.end = start + (IF len > full THEN full ELSE len)
      /\ p = [what |-> p.what, start |-> p.start, end |-> p.end]
  BY <1>1 DEF alt_icache_flush, Op
<1>3. p.end \in Nat
  BY <1>1, <1>2
<1>4. p \in Loops
  BY <1>2, <1>3 DEF Loops
<1> HIDE DEF p
<1>5. ASSUME NEW a \in Nat, start <= a, a < start + len
      PROVE  Line(a) \in SamePlace(ToVisit(p, start))
  <2>1. Line(a) \in Nat
    BY LineFacts
  <2>2. CASE len > full
    <3>1. p.end = p.start + ILines * LineSize
      BY <1>1, <1>2, <2>2
    <3> QED BY <1>2, <1>4, <2>1, <3>1, VisitsEveryPlace
  <2>3. CASE ~ (len > full)
    <3>1. Line(a) \in ToVisit(p, start)
      BY <1>2, <1>4, <1>5, <2>3, VisitsAll
    <3> QED BY <2>1, <3>1 DEF SamePlace
  <2> QED BY <2>2, <2>3
<1> QED BY <1>2, <1>4, <1>5 DEF p

LEMMA PublishKeeps ==
  ASSUME CInv, NEW r \in Regions, Publish(r)
  PROVE  CInv'
<1> DEFINE o == alt_dcache_flush(r[1], r[2])
           p == alt_icache_flush(r[1], r[2])
           bytes == Bytes(r[1], r[2])
<1>1. /\ r[1] \in Nat /\ r[2] \in Nat /\ r[1] + r[2] \in Nat
      /\ bytes \subseteq Nat
      /\ \A a \in bytes : r[1] <= a /\ a < r[1] + r[2]
  BY RegionFacts
<1>2. /\ Idle /\ Begin(<<o, p>>, bytes, bytes)
      /\ UNCHANGED <<caches, taken, booted, collateral>>
  BY DEF Publish
<1>3. /\ o \in Loops /\ o.what = "flush" /\ o.start = r[1] /\ o.end = r[1] + r[2]
  BY <1>1 DEF alt_dcache_flush, Op, Loops
<1>4. /\ p \in Loops /\ p.what = "iflush" /\ p.start = r[1]
      /\ \A a \in Nat : r[1] <= a /\ a < r[1] + r[2] => Line(a) \in SamePlace(ToVisit(p, r[1]))
  BY <1>1, CodeLoop
<1> HIDE DEF o, p, bytes
<1>5. ops = <<>> /\ booted'
  BY <1>2 DEF Idle
<1>6. \A a \in bytes : Line(a) \in ToVisit(o, o.start)
  BY <1>1, <1>3, VisitsAll
<1>7. \A a \in bytes : Line(a) \in SamePlace(ToVisit(p, p.start))
  BY <1>1, <1>4
<1> QED BY <1>1, <1>2, <1>3, <1>4, <1>5, <1>6, <1>7, BegunTwo

(* alt_load. *)
LEMMA LoadSectionKeeps ==
  ASSUME CInv, NEW l \in Sections, LoadSection(l)
  PROVE  CInv'
<1>1. /\ ~booted /\ ops = <<>> /\ TakeIn(l, BytesOf({l}))
      /\ UNCHANGED <<ilines, taken, booted, ops, i, due, collateral>>
  BY DEF LoadSection
<1>2. l \in Nat
  BY CacheAssumption, CacheConstants
<1>3. taken = {} /\ due = {} /\ fresh = {} /\ iold = {} /\ ilines = {}
  BY <1>1 DEF CInv, BeforeLoad
<1>4. /\ dlines' \subseteq Nat /\ dirty' \subseteq BytesOf(dlines')
      /\ iold' \subseteq ilines' /\ fresh' \subseteq fresh
  BY <1>1, <1>2, <1>3, TakenIn DEF CInv
<1>5. iold' = {} /\ fresh' = {}
  BY <1>1, <1>3, <1>4 DEF TakeIn
<1>6. CacheTypeOK'
  BY <1>1, <1>3, <1>4, <1>5 DEF CacheTypeOK
<1>7. PlanOK' /\ WorkLeft'
  BY <1>1, <1>3, <1>5 DEF PlanOK, WorkLeft
<1> QED BY <1>1, <1>3, <1>5, <1>6, <1>7 DEF CInv, BeforeLoad, DiscardConfined

LEMMA LoadKeeps ==
  ASSUME CInv, Load
  PROVE  CInv'
<1> DEFINE o == alt_dcache_flush_all
           p == alt_icache_flush_all
           bytes == BytesOf(Sections)
<1>1. /\ ~booted /\ booted' /\ Begin(<<o, p>>, bytes, bytes)
      /\ UNCHANGED <<caches, taken, collateral>>
  BY DEF Load
<1>2. ops = <<>>
  BY <1>1 DEF CInv, BeforeLoad
<1>3. /\ o \in Loops /\ o.what = "flushAll" /\ o.start = 0 /\ o.end = DLines * LineSize
  <2>1. DLines * LineSize \in Nat
    BY CacheConstants
  <2> QED BY <2>1 DEF alt_dcache_flush_all, Op, Loops
<1>4. PICK full \in Nat : full = ILines * LineSize
  BY CacheConstants
<1>5. /\ p \in Loops /\ p.what = "iflush" /\ p.start = 0 /\ p.end = full
  BY <1>4 DEF alt_icache_flush_all, alt_icache_flush, Op, Loops
<1> HIDE DEF o, p, bytes
<1>6. \A m \in Nat : m % DLines \in ToVisit(o, o.start)
  <2> SUFFICES ASSUME NEW m \in Nat PROVE m % DLines \in ToVisit(o, o.start)
    OBVIOUS
  <2>1. PICK k \in 0 .. DLines - 1 : k = m % DLines
    BY DivMod, CacheConstants
  <2>2. Line(0) = 0
    BY CacheConstants, OnlyQuotient, LineStart DEF Line
  <2>3. LineSize * k < LineSize * DLines
    BY <2>1, ProductOrder, CacheConstants
  <2>4. k * LineSize < DLines * LineSize
    BY <2>3, CacheConstants
  <2>5. k \in ToVisit(o, 0)
    BY <1>3, <2>2, <2>4, CacheConstants DEF ToVisit
  <2> QED BY <1>3, <2>1, <2>5
<1>7. \A a \in bytes : Line(a) \in SamePlace(ToVisit(p, p.start))
  <2> SUFFICES ASSUME NEW a \in bytes PROVE Line(a) \in SamePlace(ToVisit(p, p.start))
    OBVIOUS
  <2>1. Line(a) \in Nat
    BY ByteFacts, LineFacts DEF bytes
  <2>2. p.end = p.start + ILines * LineSize
    BY <1>4, <1>5
  <2> QED BY <1>5, <2>1, <2>2, VisitsEveryPlace
<1>8. bytes \subseteq Nat
  BY ByteFacts DEF bytes
<1> QED BY <1>1, <1>2, <1>3, <1>5, <1>6, <1>7, <1>8, BegunTwo

(* alt_ecc_fatal_exception_register: the word stored is the one that is flushed. *)
LEMMA RegisterKeeps ==
  ASSUME CInv, NEW a \in Addresses, RegisterEccHandler(a)
  PROVE  CInv'
<1> DEFINE o == alt_dcache_flush(a, 1)
<1>1. /\ Idle /\ Line(a) \notin taken /\ TakeIn(Line(a), {a})
      /\ ops' = <<o>> /\ i' = a /\ due' = {a}
      /\ UNCHANGED <<ilines, taken, booted, collateral>>
  BY DEF RegisterEccHandler
<1>2. a \in Nat /\ Line(a) \in Nat
  BY CacheConstants, LineFacts DEF Addresses
<1>3. o \in Loops /\ o.what = "flush" /\ o.start = a /\ o.end = a + 1
  BY <1>2 DEF alt_dcache_flush, Op, Loops
<1> HIDE DEF o
<1>4. {a} \in SUBSET BytesOf({Line(a)})
  BY DEF BytesOf
<1>5. CacheTypeOK /\ WorkLeft /\ ops = <<>> /\ booted
  BY <1>1 DEF CInv, Idle
<1>6. /\ dlines' \subseteq Nat /\ dirty' \subseteq BytesOf(dlines') /\ {a} \subseteq dirty'
      /\ iold' \subseteq ilines' /\ fresh' \subseteq fresh
      /\ dlines' \cap taken \subseteq dlines \cap taken
      /\ fresh' \cap iold' \subseteq fresh \cap iold
      /\ \A m \in fresh' : dirty' \cap BytesOf({m}) \subseteq dirty \cap BytesOf({m})
  BY <1>1, <1>2, <1>4, <1>5, TakenIn
<1>7. /\ dlines \cap taken = {} /\ fresh \cap iold = {}
      /\ \A l \in fresh : dirty \cap BytesOf({l}) = {}
  BY <1>5, NothingLeft
<1>8. CacheTypeOK'
  BY <1>1, <1>5, <1>6 DEF CacheTypeOK
<1>9. PlanOK' /\ DataLeft' = ToVisit(o, o.start)
  BY <1>1, <1>3, OneLoop
<1>10. due' \subseteq BytesOf(DataLeft')
  <2>1. Line(a) \in ToVisit(o, o.start)
    BY <1>2, <1>3, VisitsAll
  <2> QED BY <1>1, <1>9, <2>1, ByteFacts
<1>11. WorkLeft'
  BY <1>1, <1>6, <1>7, <1>10 DEF WorkLeft
<1> QED BY <1>1, <1>5, <1>8, <1>9, <1>11 DEF CInv, BeforeLoad, DiscardConfined

(* Uncached memory. *)
LEMMA UncachedKeeps ==
  ASSUME CInv, NEW l \in Nat, NEW size \in Nat \ {0}, UncachedMalloc(l, size)
  PROVE  CInv'
<1>1. PICK n \in Nat : n = (size + LineSize - 1) \div LineSize
  BY CacheConstants, NatDiv
<1> DEFINE block == l .. l + n - 1
           o == alt_dcache_flush(l * LineSize, n * LineSize)
<1>2. /\ Idle /\ taken' = taken \cup block /\ Begin(<<o>>, {}, {})
      /\ UNCHANGED <<caches, booted, collateral>>
  BY <1>1 DEF UncachedMalloc
<1>3. PICK from \in Nat, len \in Nat : from = l * LineSize /\ len = n * LineSize
  BY CacheConstants
<1>4. o \in Loops /\ o.what = "flush" /\ o.start = from /\ o.end = from + len
  BY <1>3 DEF alt_dcache_flush, Op, Loops
<1>5. block \subseteq Nat
  OBVIOUS
<1>6. dlines \cap taken = {} /\ taken \subseteq Nat
  BY <1>2, NothingLeft DEF CInv, CacheTypeOK, Idle
<1>7. block \subseteq ToVisit(o, o.start)
  <2> SUFFICES ASSUME NEW m \in block PROVE m \in ToVisit(o, o.start)
    OBVIOUS
  <2>1. m \in Nat /\ l <= m /\ m < l + n
    OBVIOUS
  <2>2. Line(o.start) = l
    BY <1>3, <1>4, LineStart
  <2>3. LineSize * m < LineSize * (l + n)
    BY <2>1, ProductOrder, CacheConstants
  <2>4. LineSize * (l + n) = from + len /\ m * LineSize = LineSize * m
    BY <1>3, <2>1, CacheConstants
  <2> QED BY <1>4, <2>1, <2>2, <2>3, <2>4 DEF ToVisit
<1> HIDE DEF o, block
<1>8. dlines \cap taken' \subseteq ToVisit(o, o.start) /\ taken' \subseteq Nat
  BY <1>2, <1>5, <1>6, <1>7
<1> QED BY <1>2, <1>4, <1>8, BegunOne

LEMMA GivenBackKeeps ==
  ASSUME CInv, UncachedFree \/ \E l \in Nat : RemapCached(l)
  PROVE  CInv'
<1>1. /\ booted /\ taken' \subseteq taken
      /\ UNCHANGED <<caches, booted, ops, i, due, fresh, collateral>>
  BY DEF UncachedFree, RemapCached, Idle
<1>2. UNCHANGED <<dlines, dirty, ilines, iold>>
  BY <1>1 DEF caches
<1>3. DataLeft' = DataLeft /\ CodeLeft' = CodeLeft
  BY <1>1 DEF DataLeft, CodeLeft, Now, ToVisit
<1>4. CacheTypeOK'
  BY <1>1, <1>2 DEF CInv, CacheTypeOK
<1>5. WorkLeft'
  BY <1>1, <1>2, <1>3 DEF CInv, WorkLeft
<1>6. PlanOK'
  BY <1>1 DEF CInv, PlanOK, Now
<1> QED BY <1>1, <1>2, <1>4, <1>5, <1>6 DEF CInv, BeforeLoad, DiscardConfined

-----------------------------------------------------------------------------
(* The loops. *)
LEMMA LoopFacts ==
  ASSUME CInv, ops # <<>>
  PROVE  /\ Now \in Loops /\ booted /\ i \in Nat /\ Now.start <= i
         /\ Now.what = "discard" => i < Now.end + LineSize
         /\ AlignedOp(Now) <=> i % LineSize = 0
         /\ \/ ops = <<Now>> /\ Tail(ops) = <<>> /\ Len(ops) = 1
            \/ /\ ops = <<Now, ops[2]>> /\ Tail(ops) = <<ops[2]>> /\ Len(ops) = 2
               /\ ops[2] \in Loops /\ ops[2].what = "iflush"
               /\ Now.what \in {"flush", "flushAll"}
<1>1. PlanOK /\ booted
  BY DEF CInv, BeforeLoad
<1>2. /\ i \in Nat /\ Now.start <= i /\ i % LineSize = Now.start % LineSize
      /\ Now.what = "discard" => i < Now.end + LineSize
  BY <1>1 DEF PlanOK
<1>3. CASE \E o \in Loops : ops = <<o>>
  BY <1>1, <1>2, <1>3 DEF Now, AlignedOp
<1>4. CASE \E o, p \in Loops :
             ops = <<o, p>> /\ o.what \in {"flush", "flushAll"} /\ p.what = "iflush"
  BY <1>1, <1>2, <1>4 DEF Now, AlignedOp
<1> QED BY <1>1, <1>3, <1>4 DEF PlanOK

(* What a loop has not left it has dealt with: what a step takes out of the data
   cache is in memory. *)
LEMMA DataPass ==
  ASSUME CInv, NEW cast, dlines' = dlines \ cast, dirty' = dirty \ BytesOf(cast),
         due' = due \ BytesOf(cast), UNCHANGED <<ilines, iold, taken, fresh>>,
         CodeLeft' = CodeLeft,
         \A m \in DataLeft \cap dlines : m \in cast \/ m \in DataLeft'
  PROVE  CacheTypeOK' /\ WorkLeft'
<1>1. CacheTypeOK /\ WorkLeft
  BY DEF CInv
<1>2. \A b \in dirty : Line(b) \in dlines /\ b \in Addresses
  BY <1>1 DEF CacheTypeOK, BytesOf
<1>3. \A b \in dirty' : Line(b) \in dlines /\ Line(b) \notin cast /\ b \in Addresses
  BY <1>2, ByteFacts
<1>4. CacheTypeOK'
  BY <1>1, <1>3, ByteFacts DEF CacheTypeOK
<1>5. due' \subseteq BytesOf(DataLeft')
  <2> SUFFICES ASSUME NEW b \in due' PROVE b \in BytesOf(DataLeft')
    OBVIOUS
  <2>1. b \in dirty' /\ b \in BytesOf(DataLeft)
    BY <1>1 DEF CacheTypeOK, WorkLeft
  <2>2. Line(b) \in DataLeft
    BY <2>1, ByteFacts
  <2> QED BY <1>3, <2>1, <2>2, ByteFacts
<1>6. dlines' \cap taken \subseteq DataLeft'
  BY <1>1 DEF WorkLeft
<1>7. ASSUME NEW l \in fresh, NEW b \in dirty' \cap BytesOf({l})
      PROVE  l \in DataLeft' /\ l \in CodeLeft
  <2>1. Line(b) = l /\ b \in dirty
    BY ByteFacts, <1>7
  <2>2. l \in DataLeft /\ l \in CodeLeft
    BY <1>1, <1>7, <2>1 DEF WorkLeft
  <2> QED BY <1>3, <1>7, <2>1, <2>2
<1> QED BY <1>1, <1>4, <1>5, <1>6, <1>7 DEF WorkLeft

(* And what a step takes out of the instruction cache is not fetched from it. *)
LEMMA CodePass ==
  ASSUME CInv, NEW cast, ilines' = ilines \ cast, iold' = iold \ cast,
         UNCHANGED <<dlines, dirty, due, taken, fresh>>,
         DataLeft = {}, DataLeft' = {},
         \A m \in CodeLeft \cap ilines : m \in cast \/ m \in CodeLeft'
  PROVE  CacheTypeOK' /\ WorkLeft'
<1>1. CacheTypeOK /\ WorkLeft
  BY DEF CInv
<1>2. CacheTypeOK'
  BY <1>1 DEF CacheTypeOK
<1>3. fresh \cap iold' \subseteq CodeLeft'
  BY <1>1 DEF CacheTypeOK, WorkLeft
<1> QED BY <1>1, <1>2, <1>3 DEF WorkLeft

LEMMA InstructionFacts ==
  ASSUME CInv, ops # <<>>, Instruction
  PROVE  /\ Now.what = "iflush" =>
              /\ ilines' = ilines \ Found /\ iold' = iold \ Found
              /\ UNCHANGED <<dlines, dirty, due, collateral>>
         /\ Now.what # "iflush" =>
              /\ dlines' = dlines \ Found /\ dirty' = dirty \ BytesOf(Found)
              /\ due' = due \ BytesOf(Found)
              /\ UNCHANGED <<ilines, iold>>
              /\ i < Now.end \/ ~AlignedOp(Now) => DiscardConfined'
<1>1. CASE Now.what = "iflush"
  BY <1>1 DEF Instruction
<1>2. CASE Now.what # "iflush"
  <2>1. /\ dlines' = dlines \ Found /\ dirty' = dirty \ BytesOf(Found)
        /\ due' = due \ BytesOf(Found)
        /\ UNCHANGED <<ilines, iold>>
        /\ collateral' =
             (collateral \/ (/\ Now.what = "discard"
                             /\ ~(LinesOf(dirty \cap BytesOf(Found)) \subseteq Touched(Now))))
    BY <1>2 DEF Instruction
  <2>2. ~collateral
    BY DEF CInv, DiscardConfined
  <2>3. ASSUME i < Now.end \/ ~AlignedOp(Now), Now.what = "discard"
        PROVE  LinesOf(dirty \cap BytesOf(Found)) \subseteq Touched(Now)
    <3> DEFINE more == IF AlignedOp(Now) THEN 0 ELSE LineSize
    <3>1. /\ i \in Nat /\ Now.start <= i /\ Now.start \in Nat /\ Now.end \in Nat
          /\ i < Now.end + LineSize
      BY <2>3, LoopFacts DEF Loops
    <3>2. i \in Now.start .. Now.end - 1 + more
      BY <2>3, <3>1, CacheConstants
    <3> HIDE DEF more
    <3>3. Found \subseteq {Line(i)}
      BY <2>3 DEF Found
    <3>4. LinesOf(dirty \cap BytesOf(Found)) \subseteq {Line(i)}
      BY <3>3, ByteFacts DEF LinesOf
    <3>5. Line(i) \in LinesOf(Now.start .. Now.end - 1 + more)
      BY <3>2 DEF LinesOf
    <3> QED BY <3>4, <3>5 DEF Touched, more
  <2> QED BY <1>2, <2>1, <2>2, <2>3 DEF DiscardConfined
<1> QED BY <1>1, <1>2

(* The line or the place that an instruction finds. *)
LEMMA FoundThere ==
  ASSUME CInv, ops # <<>>, NEW m \in Nat, NEW l \in Nat, l = Line(i)
  PROVE  /\ Now.what = "flush" /\ m \in dlines /\ m = l => m \in Found
         /\ Now.what = "flushAll" /\ m \in dlines /\ m % DLines = l => m \in Found
         /\ Now.what = "iflush" /\ m \in ilines /\ m % ILines = l % ILines => m \in Found
BY DEF Found

LEMMA LoopStepKeeps ==
  ASSUME CInv, LoopStep
  PROVE  CInv'
<1>1. /\ ops # <<>> /\ i < Now.end /\ Instruction /\ i' = i + LineSize
      /\ UNCHANGED <<taken, booted, ops, fresh>>
  BY DEF LoopStep
<1>2. Now \in Loops /\ booted /\ i \in Nat /\ Now.start <= i
  BY <1>1, LoopFacts
<1>3. Now' = Now /\ ops' = ops
  BY <1>1 DEF Now
<1>4. PlanOK'
  <2>1. /\ i + LineSize \in Nat /\ (i + LineSize) % LineSize = i % LineSize
    BY <1>2, LineFacts
  <2>2. Now.start <= i + LineSize
    BY <1>2, CacheConstants DEF Loops
  <2>3. i + LineSize < Now.end + LineSize
    BY <1>1, <1>2, CacheConstants DEF Loops
  <2> QED BY <1>1, <1>3, <2>1, <2>2, <2>3 DEF CInv, PlanOK
<1>5. \A l \in ToVisit(Now, i) : l = Line(i) \/ l \in ToVisit(Now, i + LineSize)
  BY <1>2, VisitsOne
<1>6. Line(i) \in Nat
  BY <1>2, LineFacts
<1>7. ToVisit(Now, i)' = ToVisit(Now, i + LineSize)
  BY <1>1, <1>3 DEF ToVisit
<1>8. CASE Now.what = "iflush"
  <2>1. /\ ilines' = ilines \ Found /\ iold' = iold \ Found
        /\ UNCHANGED <<dlines, dirty, due, collateral>>
    BY <1>1, <1>8, InstructionFacts
  <2>2. DataLeft = {} /\ DataLeft' = {}
    BY <1>1, <1>3, <1>8 DEF DataLeft
  <2>3. CodeLeft = SamePlace(ToVisit(Now, i)) /\ CodeLeft' = SamePlace(ToVisit(Now, i + LineSize))
    BY <1>1, <1>3, <1>8 DEF CodeLeft, SamePlace, ToVisit
  <2>4. ASSUME NEW m \in CodeLeft \cap ilines PROVE m \in Found \/ m \in CodeLeft'
    <3>1. PICK l \in ToVisit(Now, i) : m % ILines = l % ILines
      BY <2>3, <2>4 DEF SamePlace
    <3>2. m \in Nat
      BY <2>3, <2>4 DEF SamePlace
    <3>3. CASE l = Line(i)
      BY <1>1, <1>6, <1>8, <2>4, <3>1, <3>2, <3>3, FoundThere
    <3>4. CASE l \in ToVisit(Now, i + LineSize)
      BY <2>3, <3>1, <3>2, <3>4 DEF SamePlace
    <3> QED BY <1>5, <3>3, <3>4
  <2>5. CacheTypeOK' /\ WorkLeft'
    BY <1>1, <2>1, <2>2, <2>4, CodePass
  <2> QED BY <1>1, <1>2, <1>4, <2>1, <2>5 DEF CInv, BeforeLoad, DiscardConfined
<1>9. CASE Now.what # "iflush"
  <2>1. /\ dlines' = dlines \ Found /\ dirty' = dirty \ BytesOf(Found)
        /\ due' = due \ BytesOf(Found)
        /\ UNCHANGED <<ilines, iold>> /\ DiscardConfined'
    BY <1>1, <1>9, InstructionFacts
  <2>2. CodeLeft' = CodeLeft
    BY <1>1, <1>3, <1>9 DEF CodeLeft
  <2>3. ASSUME NEW m \in DataLeft \cap dlines PROVE m \in Found \/ m \in DataLeft'
    <3>1. CASE Now.what = "flush"
      <4>1. DataLeft = ToVisit(Now, i) /\ DataLeft' = ToVisit(Now, i + LineSize)
        BY <1>1, <1>3, <1>7, <3>1 DEF DataLeft
      <4> QED BY <1>1, <1>5, <1>6, <2>3, <3>1, <4>1, FoundThere
    <3>2. CASE Now.what = "flushAll"
      <4>1. /\ DataLeft = {n \in Nat : n % DLines \in ToVisit(Now, i)}
            /\ DataLeft' = {n \in Nat : n % DLines \in ToVisit(Now, i + LineSize)}
        BY <1>1, <1>3, <1>7, <3>2 DEF DataLeft
      <4> QED BY <1>1, <1>5, <1>6, <2>3, <3>2, <4>1, FoundThere
    <3>3. CASE Now.what = "discard"
      BY <1>1, <2>3, <3>3 DEF DataLeft
    <3> QED BY <1>2, <1>9, <3>1, <3>2, <3>3 DEF Loops
  <2>4. CacheTypeOK' /\ WorkLeft'
    BY <1>1, <2>1, <2>2, <2>3, DataPass
  <2> QED BY <1>1, <1>2, <1>4, <2>1, <2>4 DEF CInv, BeforeLoad
<1> QED BY <1>8, <1>9

LEMMA LoopEndKeeps ==
  ASSUME CInv, LoopEnd
  PROVE  CInv'
<1>1. /\ ops # <<>> /\ i >= Now.end
      /\ IF AlignedOp(Now)
         THEN UNCHANGED <<dlines, dirty, ilines, iold, due, collateral>>
         ELSE Instruction
      /\ ops' = Tail(ops)
      /\ i' = IF Tail(ops) = <<>> THEN 0 ELSE Tail(ops)[1].start
      /\ UNCHANGED <<taken, booted, fresh>>
  BY DEF LoopEnd, NextOp
<1>2. /\ Now \in Loops /\ booted /\ i \in Nat
      /\ AlignedOp(Now) <=> i % LineSize = 0
      /\ \/ ops = <<Now>> /\ Tail(ops) = <<>> /\ Len(ops) = 1
         \/ /\ ops = <<Now, ops[2]>> /\ Tail(ops) = <<ops[2]>> /\ Len(ops) = 2
            /\ ops[2] \in Loops /\ ops[2].what = "iflush"
            /\ Now.what \in {"flush", "flushAll"}
  BY <1>1, LoopFacts
<1>3. /\ PlanOK' /\ DataLeft' = {}
      /\ Now.what # "iflush" => CodeLeft' = CodeLeft
  <2>1. CASE ops = <<Now>> /\ Tail(ops) = <<>> /\ Len(ops) = 1
    BY <1>1, <2>1 DEF PlanOK, DataLeft, CodeLeft
  <2>2. CASE /\ ops = <<Now, ops[2]>> /\ Tail(ops) = <<ops[2]>> /\ Len(ops) = 2
             /\ ops[2] \in Loops /\ ops[2].what = "iflush"
             /\ Now.what \in {"flush", "flushAll"}
    <3> DEFINE p == ops[2]
    <3>1. p \in Loops /\ ops' = <<p>> /\ i' = p.start /\ p.what = "iflush"
      BY <1>1, <2>2
    <3>2. CodeLeft = SamePlace(ToVisit(p, p.start))
      BY <1>1, <2>2 DEF CodeLeft
    <3> HIDE DEF p
    <3>3. Now' = p /\ ops' # <<>>
      BY <3>1 DEF Now
    <3>4. DataLeft' = {}
      BY <3>1, <3>3 DEF DataLeft
    <3>5. CodeLeft' = SamePlace(ToVisit(p, p.start))
      BY <3>1, <3>3 DEF CodeLeft, SamePlace, ToVisit
    <3> QED BY <3>1, <3>2, <3>4, <3>5, OneLoop
  <2> QED BY <1>2, <2>1, <2>2
<1>4. /\ \A l \in ToVisit(Now, i) : l = Line(i)
      /\ AlignedOp(Now) => ToVisit(Now, i) = {}
  BY <1>1, <1>2, VisitsLast
<1>5. Line(i) \in Nat
  BY <1>2, LineFacts
<1>6. CASE Now.what = "iflush"
  <2>1. DataLeft = {} /\ CodeLeft = SamePlace(ToVisit(Now, i))
    BY <1>1, <1>6 DEF DataLeft, CodeLeft
  <2> DEFINE cast == IF AlignedOp(Now) THEN {} ELSE Found
  <2>2. /\ ilines' = ilines \ cast /\ iold' = iold \ cast
        /\ UNCHANGED <<dlines, dirty, due, collateral>>
    BY <1>1, <1>6, InstructionFacts
  <2>3. ASSUME NEW m \in CodeLeft \cap ilines PROVE m \in cast
    <3>1. PICK l \in ToVisit(Now, i) : m % ILines = l % ILines
      BY <2>1, <2>3 DEF SamePlace
    <3>2. m \in Nat
      BY <2>1, <2>3 DEF SamePlace
    <3>3. l = Line(i) /\ ~AlignedOp(Now)
      BY <1>4
    <3> QED BY <1>1, <1>5, <1>6, <2>3, <3>1, <3>2, <3>3, FoundThere
  <2> HIDE DEF cast
  <2>4. CacheTypeOK' /\ WorkLeft'
    BY <1>1, <1>3, <2>1, <2>2, <2>3, CodePass
  <2> QED BY <1>1, <1>2, <1>3, <2>2, <2>4 DEF CInv, BeforeLoad, DiscardConfined
<1>7. CASE Now.what # "iflush"
  <2> DEFINE cast == IF AlignedOp(Now) THEN {} ELSE Found
  <2>1. /\ dlines' = dlines \ cast /\ dirty' = dirty \ BytesOf(cast)
        /\ due' = due \ BytesOf(cast)
        /\ UNCHANGED <<ilines, iold>> /\ DiscardConfined'
    <3>1. CASE AlignedOp(Now)
      <4>1. BytesOf({}) = {}
        BY DEF BytesOf
      <4> QED BY <1>1, <3>1, <4>1 DEF CInv, DiscardConfined
    <3>2. CASE ~AlignedOp(Now)
      BY <1>1, <1>7, <3>2, InstructionFacts
    <3> QED BY <3>1, <3>2
  <2>2. ASSUME NEW m \in DataLeft \cap dlines PROVE m \in cast
    <3>1. CASE Now.what = "flush"
      <4>1. m \in ToVisit(Now, i)
        BY <1>1, <2>2, <3>1 DEF DataLeft
      <4>2. m = Line(i) /\ ~AlignedOp(Now)
        BY <1>4, <4>1
      <4> QED BY <1>1, <1>5, <2>2, <3>1, <4>2, FoundThere
    <3>2. CASE Now.what = "flushAll"
      <4>1. m \in Nat /\ m % DLines \in ToVisit(Now, i)
        BY <1>1, <2>2, <3>2 DEF DataLeft
      <4>2. m % DLines = Line(i) /\ ~AlignedOp(Now)
        BY <1>4, <4>1
      <4> QED BY <1>1, <1>5, <2>2, <3>2, <4>1, <4>2, FoundThere
    <3>3. CASE Now.what = "discard"
      BY <1>1, <2>2, <3>3 DEF DataLeft
    <3> QED BY <1>2, <1>7, <3>1, <3>2, <3>3 DEF Loops
  <2> HIDE DEF cast
  <2>3. CacheTypeOK' /\ WorkLeft'
    BY <1>1, <1>3, <1>7, <2>1, <2>2, DataPass
  <2> QED BY <1>1, <1>2, <1>3, <2>1, <2>3 DEF CInv, BeforeLoad
<1> QED BY <1>6, <1>7

-----------------------------------------------------------------------------
LEMMA CacheStart == CacheInit => CInv
<1> SUFFICES ASSUME CacheInit PROVE CInv
  OBVIOUS
<1>1. /\ dlines = {} /\ dirty = {} /\ ilines = {} /\ iold = {}
      /\ taken = {} /\ booted = FALSE
      /\ ops = <<>> /\ due = {} /\ fresh = {} /\ collateral = FALSE
  BY DEF CacheInit
<1> QED BY <1>1 DEF CInv, CacheTypeOK, PlanOK, WorkLeft, BeforeLoad, DiscardConfined

LEMMA CacheStep == CInv /\ [CacheNext]_cacheVars => CInv'
<1> SUFFICES ASSUME CInv, [CacheNext]_cacheVars PROVE CInv'
  OBVIOUS
<1>1. ASSUME NEW a \in Addresses, Access(a, TRUE) \/ Access(a, FALSE) PROVE CInv'
  BY <1>1, AccessKeeps
<1>2. ASSUME NEW a \in Addresses, Fetch(Line(a)) PROVE CInv'
  <2>1. Line(a) \in Nat
    BY CacheConstants, LineFacts DEF Addresses
  <2> QED BY <1>2, <2>1, FetchKeeps
<1>3. ASSUME NEW r \in Regions, Flush(r) \/ Discard(r) \/ Publish(r) PROVE CInv'
  BY <1>3, FlushKeeps, PublishKeeps
<1>4. ASSUME NEW l \in Sections, LoadSection(l) PROVE CInv'
  BY <1>4, LoadSectionKeeps
<1>5. CASE Load
  BY <1>5, LoadKeeps
<1>6. ASSUME NEW a \in Addresses, RegisterEccHandler(a) PROVE CInv'
  BY <1>6, RegisterKeeps
<1>7. ASSUME NEW l \in 0 .. MemLines - 1, NEW size \in 1 .. LineSize + 1,
             UncachedMalloc(l, size)
      PROVE  CInv'
  <2>1. l \in Nat /\ size \in Nat \ {0}
    BY CacheConstants
  <2> QED BY <1>7, <2>1, UncachedKeeps
<1>8. ASSUME NEW l \in 0 .. MemLines - 1, RemapCached(l) PROVE CInv'
  <2>1. l \in Nat
    BY CacheConstants
  <2> QED BY <1>8, <2>1, GivenBackKeeps
<1>9. CASE UncachedFree
  BY <1>9, GivenBackKeeps
<1>10. CASE LoopStep
  BY <1>10, LoopStepKeeps
<1>11. CASE LoopEnd
  BY <1>11, LoopEndKeeps
<1>12. CASE UNCHANGED cacheVars
  <2>1. UNCHANGED <<dlines, dirty, ilines, iold, taken, booted, ops, i, due, fresh, collateral>>
    BY <1>12 DEF cacheVars
  <2>2. DataLeft' = DataLeft /\ CodeLeft' = CodeLeft /\ Now' = Now
    BY <2>1 DEF DataLeft, CodeLeft, Now, ToVisit
  <2> QED BY <2>1, <2>2 DEF CInv, CacheTypeOK, PlanOK, WorkLeft, BeforeLoad, DiscardConfined
<1>13. CASE Processor
  BY <1>1, <1>2, <1>13 DEF Processor
<1>14. CASE CacheCalls
  BY <1>3, <1>4, <1>5, <1>6, <1>7, <1>8, <1>9, <1>14 DEF CacheCalls
<1> QED BY <1>10, <1>11, <1>12, <1>13, <1>14 DEF CacheNext

(* What a flush was asked to write back is in memory when it returns, published
   code is fetched as stored, no part of an uncached block stays in the data cache,
   and discarding a region loses nothing outside its lines, or, when it does not
   start with a line, outside these and the line after them: for lines and caches
   of any size, whatever is loaded, stored and fetched during the calls. *)
THEOREM CachesCorrect == CacheSpec => []CacheInv
<1>1. CInv => CacheInv
  <2> SUFFICES ASSUME CInv PROVE CacheInv
    OBVIOUS
  <2>1. WorkLeft /\ DiscardConfined
    BY DEF CInv
  <2> QED BY <2>1, NothingLeft DEF CacheInv, WrittenBack, FetchedAsStored, UncachedApart
<1> QED BY <1>1, CacheStart, CacheStep, PTL DEF CacheSpec

-----------------------------------------------------------------------------
(* AltTime.  Until the first system clock is found nothing is counted. *)
Walls ==
  [set : [sec : Nat, usec : 0 .. US - 1], elapsed : 0 .. WordMod, rolled : BOOLEAN,
   exact : BOOLEAN]

TimeTypeOK ==
  /\ _alt_nticks \in Words /\ _alt_tick_rate \in {0} \cup TickRates
  /\ alt_resettime \in [sec : Int, usec : Int]
  /\ wall \in Walls

NotCounting ==
  _alt_tick_rate = 0 =>
    /\ _alt_nticks = 0 /\ wall.elapsed = 0
    /\ alt_resettime = [sec |-> 0, usec |-> 0] /\ wall.set = [sec |-> 0, usec |-> 0]

(* The reset time is the time of the last setting less the ticks counted before it,
   and less than a second out of its range.  What it is off is settled when it is set. *)
ResetOff ==
  (Microseconds(alt_resettime) + _alt_nticks * Step)
    - (Microseconds(wall.set) + wall.elapsed * Step)

ResetKept ==
  ~wall.rolled =>
    /\ wall.elapsed <= _alt_nticks
    /\ alt_resettime.usec \in 1 - US .. US - 1
    /\ _alt_tick_rate # 0 /\ US % _alt_tick_rate = 0 =>
         ResetOff \in 1 - US .. US - 1 /\ (wall.exact => ResetOff = 0)

TInv == TimeTypeOK /\ NotCounting /\ ResetKept

(* In a second divided by its rate the ticks counted are so many whole seconds
   and the rest. *)
LEMMA TicksInSeconds ==
  ASSUME NEW rate \in 1 .. US, US % rate = 0, NEW n \in Nat
  PROVE  /\ US \div rate \in Nat
         /\ n \div rate \in Nat
         /\ n * (US \div rate) \in Nat
         /\ (n * (US \div rate)) % US \in 0 .. US - 1
         /\ n * (US \div rate) =
              (US * (n \div rate)) + ((n * (US \div rate)) % US)
<1> DEFINE s == US \div rate
           q == n \div rate
           x == n * s
<1>0. US \in Nat \ {0} /\ rate \in Nat \ {0} /\ US \in Nat
  BY TimeAssumption
<1>1. /\ s \in Nat /\ q \in Nat
      /\ US = (rate * s) + (US % rate)
      /\ n % rate \in 0 .. rate - 1 /\ n = (rate * q) + (n % rate)
  <2>1. s \in Nat /\ q \in Nat
    BY <1>0, NatDiv
  <2>2. US = (rate * s) + (US % rate)
    BY <1>0, DivMod
  <2>3. n % rate \in 0 .. rate - 1 /\ n = (rate * q) + (n % rate)
    BY <1>0, DivMod
  <2> QED BY <2>1, <2>2, <2>3
<1>2. PICK m \in 0 .. rate - 1 : m = n % rate /\ n = (rate * q) + m
  BY <1>1
<1> HIDE DEF s, q
<1>3. US = rate * s
  BY <1>1, <1>0
<1>4. x = US * q + m * s
  <2>1. n = rate * q + m
    BY <1>2
  <2>2. x = (rate * q + m) * s
    BY <2>1
  <2>3. (rate * q + m) * s = (rate * s) * q + m * s
    BY <1>0, <1>1
  <2> QED BY <2>2, <2>3, <1>3
<1> HIDE DEF x
<1>5. m * s \in 0 .. US - 1
  <2>1. m \in Int /\ m < rate /\ s \in Nat /\ m >= 0
    BY <1>0, <1>1
  <2>2. s # 0
    BY <1>3, <1>0
  <2>3. s \in Nat \ {0} /\ rate \in Int
    BY <2>1, <2>2, <1>0
  <2>4. s * m < s * rate
    BY <2>1, <2>3, ProductOrder
  <2>5. s * rate = rate * s /\ s * m = m * s /\ m * s >= 0 /\ m * s \in Int
    BY <2>1, <2>3
  <2> QED BY <2>4, <2>5, <1>3, <1>0
<1>6. x \in Nat
  BY <1>1 DEF x
<1>7. (US * q + m * s) % US = m * s
  <2>1. PICK z \in 0 .. US - 1 : z = m * s
    BY <1>5
  <2>2. q \in Int
    BY <1>1
  <2>3. (US * q + z) % US = z
    BY ONLY <1>0, <2>1, <2>2, OnlyQuotient
  <2> QED BY <2>1, <2>3
<1>8. x % US = m * s
  BY <1>4, <1>7
<1>9. x % US \in 0 .. US - 1 /\ x = (US * q) + (x % US)
  BY <1>4, <1>5, <1>8
<1>10. /\ s \in Nat /\ q \in Nat /\ x \in Nat
       /\ x % US \in 0 .. US - 1 /\ x = (US * q) + (x % US)
  BY <1>1, <1>6, <1>9
<1> QED BY ONLY <1>10, Zenon DEF s, q, x

(* A time is a whole number of seconds and the rest: borrowing and carrying keep
   its microseconds, unless it is before the epoch and made the epoch. *)
LEMMA BorrowedOnce ==
  ASSUME NEW t \in [sec : Int, usec : Int], t.usec \in 1 - US .. 2 * US - 2
  PROVE  /\ Borrowed(t) \in [sec : Int, usec : 0 .. 2 * US - 2]
         /\ \/ Microseconds(Borrowed(t)) = Microseconds(t)
            \/ Microseconds(Borrowed(t)) = 0 /\ Microseconds(t) < 0
<1>0. US \in Nat \ {0} /\ t.sec \in Int /\ t.usec \in Int
  BY TimeAssumption
<1>1. CASE t.usec >= 0
  <2>1. Borrowed(t) = t
    BY <1>1 DEF Borrowed
  <2>2. t.usec \in 0 .. 2 * US - 2
    BY <1>0, <1>1
  <2>3. t = [sec |-> t.sec, usec |-> t.usec]
    OBVIOUS
  <2>4. t \in [sec : Int, usec : 0 .. 2 * US - 2]
    BY <2>2, <2>3, <1>0
  <2> QED BY <2>1, <2>4
<1>2. CASE t.usec < 0
  <2>1. PICK r \in 0 .. US - 1 : r = t.usec + US
    BY <1>0, <1>2
  <2>2. \A k \in Int : (US * k + r) \div US = k
    BY ONLY <1>0, <2>1, OnlyQuotient, Zenon
  <2>3. t.usec = US * (-1) + r
    BY <1>0, <2>1
  <2>4. -(t.usec \div US) = 1
    BY <2>2, <2>3
  <2>5. CASE t.sec >= 1
    <3>1. Borrowed(t) = [sec |-> t.sec - 1, usec |-> t.usec + US]
      <4>1. ~ (t.usec >= 0) /\ ~ (t.sec < 1) /\ t.usec + 1 * US = t.usec + US
        BY <1>0, <1>2, <2>5
      <4> QED BY <2>4, <4>1 DEF Borrowed
    <3>2. (t.sec - 1) * US + (t.usec + US) = t.sec * US + t.usec
      BY <1>0
    <3>3. t.usec + US \in 0 .. 2 * US - 2 /\ t.sec - 1 \in Int
      BY <1>0, <2>1, <1>2
    <3> QED BY <3>1, <3>2, <3>3 DEF Microseconds
  <2>6. CASE t.sec < 1
    <3>1. Borrowed(t) = [sec |-> 0, usec |-> 0]
      BY <1>0, <1>2, <2>4, <2>6 DEF Borrowed
    <3>2. Microseconds(t) < 0
      <4>1. US * t.sec <= US * 0
        BY <1>0, <2>6, ProductOrder
      <4>2. t.sec * US <= 0 /\ t.sec * US \in Int
        BY <1>0, <4>1
      <4> QED BY <1>0, <1>2, <4>2 DEF Microseconds
    <3>3. Microseconds(Borrowed(t)) = 0
      BY <1>0, <3>1 DEF Microseconds
    <3>4. 0 \in 0 .. 2 * US - 2 /\ 0 \in Int
      BY <1>0
    <3> QED BY <3>1, <3>2, <3>3, <3>4
  <2> QED BY <1>0, <2>5, <2>6
<1> QED BY <1>0, <1>1, <1>2

LEMMA CarriedKeeps ==
  ASSUME NEW t \in [sec : Int, usec : Nat]
  PROVE  /\ Carried(t).usec \in 0 .. US - 1
         /\ Microseconds(Carried(t)) = Microseconds(t)
<1>0. US \in Nat \ {0} /\ t.sec \in Int /\ t.usec \in Int
  BY TimeAssumption
<1>1. /\ t.usec \div US \in Int /\ t.usec % US \in 0 .. US - 1
      /\ t.usec = (US * (t.usec \div US)) + (t.usec % US)
  BY <1>0, DivMod
<1>2. PICK q \in Int, r \in 0 .. US - 1 :
        q = t.usec \div US /\ r = t.usec % US /\ t.usec = US * q + r
  BY <1>1
<1>3. Carried(t) = [sec |-> t.sec + q, usec |-> r]
  BY <1>2 DEF Carried
<1>4. (t.sec + q) * US + r = t.sec * US + (US * q + r)
  BY <1>0, <1>2
<1>5. (t.sec + q) * US + r = t.sec * US + t.usec
  BY <1>2, <1>4
<1> QED BY <1>3, <1>5 DEF Microseconds

(* The invariant over the steps. *)
LEMMA TimeConstants ==
  /\ US \in Nat \ {0} /\ WordMod \in Nat /\ WordMod > 1
  /\ 0 \in Words /\ Words = 0 .. WordMod - 1
  /\ \A r \in TickRates : r \in 1 .. US /\ r \in Nat \ {0}
BY TimeAssumption, AlarmAssumption DEF Words

LEMMA TimeStart == TimeInit => TInv
<1> SUFFICES ASSUME TimeInit PROVE TInv
  OBVIOUS
<1>1. /\ _alt_nticks = 0 /\ _alt_tick_rate = 0
      /\ alt_resettime = [sec |-> 0, usec |-> 0]
      /\ wall = [set |-> [sec |-> 0, usec |-> 0], elapsed |-> 0, rolled |-> FALSE,
                  exact |-> TRUE]
  BY DEF TimeInit, Init
<1>2. [sec |-> 0, usec |-> 0] \in [sec : Nat, usec : 0 .. US - 1]
  <2>1. 0 \in Nat /\ 0 \in 0 .. US - 1
    BY TimeConstants
  <2> QED BY <2>1
<1>3. TimeTypeOK
  <2>1. 0 \in 0 .. WordMod /\ 0 \in Int
    BY TimeConstants
  <2>2. alt_resettime \in [sec : Int, usec : Int]
    BY <1>1, <2>1
  <2>3. wall \in Walls
    BY <1>1, <1>2, <2>1 DEF Walls
  <2> QED BY <1>1, <2>2, <2>3, TimeConstants DEF TimeTypeOK
<1>4. NotCounting
  BY <1>1 DEF NotCounting
<1>5. ResetKept
  <2>1. 0 \in 1 - US .. US - 1
    BY TimeConstants
  <2> QED BY <1>1, <2>1 DEF ResetKept
<1> QED BY <1>3, <1>4, <1>5 DEF TInv

LEMMA ClockFoundKeeps ==
  ASSUME TInv, ClockFound
  PROVE  TInv'
<1>1. PICK r \in TickRates : _alt_tick_rate = 0 /\ _alt_tick_rate' = r
  BY DEF ClockFound, SysclkInit
<1>2. /\ _alt_nticks' = _alt_nticks /\ alt_resettime' = alt_resettime /\ wall' = wall
  BY DEF ClockFound, SysclkInit
<1>3. /\ _alt_nticks = 0 /\ wall.elapsed = 0
      /\ alt_resettime = [sec |-> 0, usec |-> 0] /\ wall.set = [sec |-> 0, usec |-> 0]
  BY <1>1 DEF TInv, NotCounting
<1>4. r # 0
  BY TimeConstants
<1>5. TimeTypeOK'
  BY <1>1, <1>2 DEF TInv, TimeTypeOK
<1>6. NotCounting'
  BY <1>1, <1>4 DEF NotCounting
<1>7. ResetKept'
  <2>1. 0 \in 1 - US .. US - 1
    BY TimeConstants
  <2>2. 0 * (US \div r) = 0
    <3>1. US \div r \in Nat
      BY TimeConstants, NatDiv
    <3> QED BY <3>1
  <2>3. Step' = US \div r
    BY <1>1 DEF Step, alt_ticks_per_second
  <2>4. Microseconds(alt_resettime)' = Microseconds(wall.set)'
    BY <1>2, <1>3 DEF Microseconds
  <2>5. _alt_nticks' = 0 /\ wall'.elapsed = 0 /\ alt_resettime'.usec = 0
    BY <1>2, <1>3
  <2>6. Microseconds(wall.set)' \in Int
    <3>1. wall'.set = [sec |-> 0, usec |-> 0]
      BY <1>2, <1>3
    <3> QED BY <3>1, TimeConstants DEF Microseconds
  <2>7. ResetOff' = 0
    <3>1. ResetOff' = (Microseconds(wall.set)' + 0) - (Microseconds(wall.set)' + 0)
      BY <2>2, <2>3, <2>4, <2>5 DEF ResetOff
    <3> QED BY <2>6, <3>1
  <2> QED BY <2>1, <2>5, <2>7 DEF ResetKept
<1> QED BY <1>5, <1>6, <1>7 DEF TInv

(* A tick is added to both sides. *)
LEMMA OneMore ==
  ASSUME NEW a \in Int, NEW b \in Int, NEW n \in Nat, NEW e \in Nat, NEW s \in Nat
  PROVE  (a + (n + 1) * s) - (b + (e + 1) * s) = (a + n * s) - (b + e * s)
<1>1. (n + 1) * s = n * s + s /\ (e + 1) * s = e * s + s
  OBVIOUS
<1>2. PICK x \in Int, y \in Int : x = n * s /\ y = e * s
  OBVIOUS
<1> QED BY <1>1, <1>2

LEMMA MicrosecondsInt ==
  ASSUME NEW t \in [sec : Int, usec : Int]
  PROVE  Microseconds(t) \in Int
BY TimeConstants DEF Microseconds

LEMMA TickKeeps ==
  ASSUME TInv, Tick
  PROVE  TInv'
<1>1. /\ _alt_tick_rate # 0 /\ _alt_tick_rate' = _alt_tick_rate
      /\ _alt_nticks' = (_alt_nticks + 1) % WordMod
      /\ alt_resettime' = alt_resettime
      /\ wall' = [wall EXCEPT !.elapsed = IF @ < WordMod THEN @ + 1 ELSE @,
                              !.rolled = @ \/ _alt_nticks' = 0]
  BY DEF Tick, TickBegin, Add
<1>2. /\ _alt_nticks \in 0 .. WordMod - 1 /\ _alt_tick_rate \in TickRates
      /\ alt_resettime \in [sec : Int, usec : Int]
      /\ wall \in Walls /\ wall.set \in [sec : Nat, usec : 0 .. US - 1]
      /\ wall.elapsed \in 0 .. WordMod
  BY <1>1, TimeConstants DEF TInv, TimeTypeOK, Walls
<1>3. PICK n \in 0 .. WordMod - 1 : n = _alt_nticks
  BY <1>2
<1>4. PICK e \in 0 .. WordMod : e = wall.elapsed
  BY <1>2
<1>5. /\ wall'.set = wall.set
      /\ wall'.elapsed = IF e < WordMod THEN e + 1 ELSE e
      /\ wall'.rolled = (wall.rolled \/ _alt_nticks' = 0)
      /\ wall'.exact = wall.exact
  BY <1>1, <1>2, <1>4 DEF Walls
<1>6. _alt_nticks' \in Words
  <2>1. n + 1 \in Int /\ WordMod \in Nat \ {0}
    BY TimeConstants, <1>3
  <2>2. (n + 1) % WordMod \in 0 .. WordMod - 1
    BY <2>1, DivMod
  <2> QED BY <1>1, <1>3, <2>2, TimeConstants
<1>7. TimeTypeOK'
  <2>1. (IF e < WordMod THEN e + 1 ELSE e) \in 0 .. WordMod
    BY TimeConstants, <1>4
  <2>2. wall' \in Walls
    <3>1. (wall.rolled \/ _alt_nticks' = 0) \in BOOLEAN /\ wall.exact \in BOOLEAN
      BY <1>2 DEF Walls
    <3>2. wall' = [set |-> wall'.set, elapsed |-> wall'.elapsed,
                   rolled |-> wall'.rolled, exact |-> wall'.exact]
      BY <1>1, <1>2 DEF Walls
    <3> QED BY <1>2, <2>1, <3>1, <3>2, <1>5 DEF Walls
  <2> QED BY <1>1, <1>2, <1>6, <2>2 DEF TimeTypeOK
<1>8. NotCounting'
  BY <1>1 DEF NotCounting
<1>9. ResetKept'
  <2> SUFFICES ASSUME ~wall'.rolled
               PROVE  /\ wall'.elapsed <= _alt_nticks'
                      /\ alt_resettime'.usec \in 1 - US .. US - 1
                      /\ _alt_tick_rate' # 0 /\ US % _alt_tick_rate' = 0 =>
                           ResetOff' \in 1 - US .. US - 1 /\ (wall'.exact => ResetOff' = 0)
    BY DEF ResetKept
  <2>1. ~wall.rolled /\ _alt_nticks' # 0
    BY <1>5
  <2>2. n + 1 < WordMod
    <3> SUFFICES ASSUME n + 1 >= WordMod PROVE FALSE
      BY <1>3, TimeConstants
    <3>1. n + 1 = WordMod
      BY <1>3, TimeConstants
    <3>2. WordMod \in Nat \ {0} /\ WordMod = WordMod * 1 + 0 /\ 0 \in 0 .. WordMod - 1
      BY TimeConstants
    <3>3. (WordMod * 1 + 0) % WordMod = 0
      BY <3>2, OnlyQuotient
    <3> QED BY <1>1, <1>3, <2>1, <3>1, <3>2, <3>3
  <2>3. _alt_nticks' = n + 1
    <3>1. WordMod \in Nat \ {0} /\ n + 1 = WordMod * 0 + (n + 1) /\ n + 1 \in 0 .. WordMod - 1
      BY <1>3, <2>2, TimeConstants
    <3>2. (WordMod * 0 + (n + 1)) % WordMod = n + 1
      BY <3>1, OnlyQuotient
    <3> QED BY <1>1, <1>3, <3>1, <3>2
  <2>4. /\ e <= n /\ alt_resettime.usec \in 1 - US .. US - 1
        /\ US % _alt_tick_rate = 0 =>
             ResetOff \in 1 - US .. US - 1 /\ (wall.exact => ResetOff = 0)
    BY <1>1, <1>3, <1>4, <2>1 DEF TInv, ResetKept
  <2>5. wall'.elapsed = e + 1
    BY <1>3, <1>4, <1>5, <2>2, <2>4, TimeConstants
  <2>6. Step' = Step /\ Step \in Nat
    <3>1. US \div _alt_tick_rate \in Nat
      BY <1>2, TimeConstants, NatDiv
    <3> QED BY <1>1, <3>1 DEF Step, alt_ticks_per_second
  <2>7. ResetOff' = ResetOff
    <3>1. Microseconds(alt_resettime) \in Int
      BY <1>2, MicrosecondsInt
    <3>2. Microseconds(wall.set) \in Int
      <4>1. wall.set \in [sec : Int, usec : Int]
        BY <1>2
      <4> QED BY <4>1, MicrosecondsInt
    <3>3. n \in Nat /\ e \in Nat
      BY <1>3, <1>4
    <3>4. (Microseconds(alt_resettime) + (n + 1) * Step) - (Microseconds(wall.set) + (e + 1) * Step)
            = (Microseconds(alt_resettime) + n * Step) - (Microseconds(wall.set) + e * Step)
      BY <2>6, <3>1, <3>2, <3>3, OneMore
    <3>5. Microseconds(alt_resettime)' = Microseconds(alt_resettime)
      BY <1>1 DEF Microseconds
    <3>6. Microseconds(wall.set)' = Microseconds(wall.set)
      BY <1>5 DEF Microseconds
    <3> QED BY <1>3, <1>4, <2>3, <2>5, <2>6, <3>4, <3>5, <3>6 DEF ResetOff
  <2>8. wall'.elapsed <= _alt_nticks'
    BY <2>3, <2>4, <2>5, <1>3, <1>4
  <2> QED BY <1>1, <1>5, <2>4, <2>7, <2>8
<1> QED BY <1>7, <1>8, <1>9 DEF TInv

(* settimeofday takes off the ticks counted so far: the seconds they make, and of the
   rest as much as the word has kept. *)
LEMMA SetTimeKeeps ==
  ASSUME TInv, NEW t \in SetTimes, NEW tz, SetTimeOfDay(t, tz)
  PROVE  TInv'
<1>1. /\ _alt_tick_rate # 0 /\ _alt_tick_rate' = _alt_tick_rate
      /\ _alt_nticks' = _alt_nticks
      /\ alt_resettime' =
           [sec  |-> t.sec - (_alt_nticks \div _alt_tick_rate),
            usec |-> t.usec - (((_alt_nticks * Step) % WordMod) % US)]
      /\ wall' = [set |-> t, elapsed |-> 0, rolled |-> FALSE,
                   exact |-> _alt_nticks * Step < WordMod]
  BY DEF SetTimeOfDay, WallSet, vars, alt_ticks_per_second, alt_nticks
<1>2. /\ _alt_nticks \in 0 .. WordMod - 1 /\ _alt_tick_rate \in TickRates
      /\ _alt_tick_rate \in 1 .. US /\ _alt_tick_rate \in Nat \ {0}
  BY <1>1, TimeConstants DEF TInv, TimeTypeOK
<1>3. PICK n \in 0 .. WordMod - 1 : n = _alt_nticks
  BY <1>2
<1>4. PICK q \in Nat : q = n \div _alt_tick_rate
  BY <1>2, <1>3, NatDiv
<1>5. PICK s \in Nat : s = US \div _alt_tick_rate
  BY <1>2, TimeConstants, NatDiv
<1>6. PICK x \in Nat : x = n * s
  BY <1>3, <1>5
<1>7. PICK r \in 0 .. US - 1 : r = (x % WordMod) % US
  <2>1. WordMod \in Nat \ {0} /\ x \in Int /\ US \in Nat \ {0}
    BY TimeConstants, <1>6
  <2>2. x % WordMod \in 0 .. WordMod - 1
    BY <2>1, DivMod
  <2>3. PICK w \in 0 .. WordMod - 1 : w = x % WordMod
    BY <2>2
  <2>4. w \in Int
    BY <2>3
  <2>5. w % US \in 0 .. US - 1
    BY <2>1, <2>4, DivMod
  <2> QED BY <2>3, <2>5
<1>8. t \in [sec : Nat, usec : 0 .. US - 1] /\ t.sec \in Nat /\ t.usec \in 0 .. US - 1
  BY TimeAssumption
<1>9. Step = s /\ Step' = s
  BY <1>1, <1>5 DEF Step, alt_ticks_per_second
<1>10. /\ alt_resettime' = [sec |-> t.sec - q, usec |-> t.usec - r]
       /\ wall' = [set |-> t, elapsed |-> 0, rolled |-> FALSE, exact |-> x < WordMod]
  BY <1>1, <1>3, <1>4, <1>6, <1>7, <1>9
<1>11. TimeTypeOK'
  <2>1. t.sec - q \in Int /\ t.usec - r \in Int
    BY <1>4, <1>7, <1>8, TimeConstants
  <2>2. alt_resettime' \in [sec : Int, usec : Int]
    BY <1>10, <2>1
  <2>3. 0 \in 0 .. WordMod /\ (x < WordMod) \in BOOLEAN
    BY TimeConstants
  <2>4. wall' \in Walls
    BY <1>8, <1>10, <2>3 DEF Walls
  <2>5. _alt_nticks' \in Words /\ _alt_tick_rate' \in {0} \cup TickRates
    BY <1>1, <1>2, TimeConstants
  <2> QED BY <2>2, <2>4, <2>5 DEF TimeTypeOK
<1>12. NotCounting'
  BY <1>1 DEF NotCounting
<1>13. ResetKept'
  <2>1. wall'.elapsed <= _alt_nticks'
    BY <1>1, <1>3, <1>10
  <2>2. alt_resettime'.usec \in 1 - US .. US - 1
    <3>1. t.usec - r \in 1 - US .. US - 1
      BY <1>7, <1>8, TimeConstants
    <3> QED BY <1>10, <3>1
  <2>3. ASSUME US % _alt_tick_rate = 0
        PROVE  ResetOff' \in 1 - US .. US - 1 /\ (wall'.exact => ResetOff' = 0)
    <3>1. n \in Nat
      BY <1>3
    <3>2. x % US \in 0 .. US - 1 /\ x = (US * q) + (x % US)
      BY <1>2, <1>4, <1>5, <1>6, <2>3, <3>1, TicksInSeconds
    <3>3. PICK r0 \in 0 .. US - 1 : r0 = x % US /\ x = US * q + r0
      BY <3>2
    <3>4. x < WordMod => r = r0
      <4>1. SUFFICES ASSUME x < WordMod PROVE x % WordMod = x
        BY <1>7, <3>3
      <4>2. WordMod \in Nat \ {0} /\ x = WordMod * 0 + x /\ x \in 0 .. WordMod - 1
        BY TimeConstants, <1>6, <4>1
      <4>3. (WordMod * 0 + x) % WordMod = x
        BY <4>2, OnlyQuotient
      <4> QED BY <4>2, <4>3
    <3>5. /\ t.sec \in Int /\ t.usec \in Int /\ q \in Int /\ r \in Int /\ x \in Int
          /\ r0 \in Int
      BY <1>4, <1>6, <1>7, <1>8, <3>3
    <3>6. (((t.sec - q) * US + (t.usec - r)) + x) - (t.sec * US + t.usec) = r0 - r
      <4>1. PICK sc \in Int, u \in Int : sc = t.sec /\ u = t.usec
        BY <3>5
      <4>2. (sc - q) * US = sc * US - US * q
        BY <3>5, TimeConstants
      <4>3. PICK y \in Int, z \in Int : y = US * q /\ z = sc * US
        BY <3>5, TimeConstants
      <4>4. (((sc - q) * US + (u - r)) + x) - (sc * US + u) = r0 - r
        BY ONLY <3>3, <3>5, <4>1, <4>2, <4>3
      <4> QED BY <4>1, <4>4
    <3>7. Microseconds(alt_resettime)' = (t.sec - q) * US + (t.usec - r)
      BY <1>10 DEF Microseconds
    <3>8. Microseconds(wall.set)' = t.sec * US + t.usec
      BY <1>10 DEF Microseconds
    <3>9. _alt_nticks' * Step' = x
      BY <1>1, <1>3, <1>6, <1>9
    <3>10. wall'.elapsed * Step' = 0
      BY <1>9, <1>10, <1>5
    <3>11. t.sec * US + t.usec = (t.sec * US + t.usec) + 0
      BY <3>5, TimeConstants
    <3>12. ResetOff' = r0 - r
      BY <3>6, <3>7, <3>8, <3>9, <3>10, <3>11 DEF ResetOff
    <3>13. wall'.exact = (x < WordMod)
      BY <1>10
    <3>14. r0 - r \in 1 - US .. US - 1 /\ (r = r0 => r0 - r = 0)
      <4>1. r \in 0 .. US - 1 /\ r0 \in 0 .. US - 1 /\ US \in Nat
        BY <1>7, <3>3, TimeConstants
      <4> QED BY ONLY <4>1
    <3> QED BY <3>4, <3>12, <3>13, <3>14
  <2> QED BY <1>1, <2>1, <2>2, <2>3 DEF ResetKept
<1> QED BY <1>11, <1>12, <1>13 DEF TInv

LEMMA TimeStep == TInv /\ [TimeNext]_timeVars => TInv'
<1> SUFFICES ASSUME TInv, [TimeNext]_timeVars PROVE TInv'
  OBVIOUS
<1>1. ASSUME UNCHANGED <<_alt_nticks, _alt_tick_rate, alt_resettime, wall>>
      PROVE  TInv'
  BY <1>1 DEF TInv, TimeTypeOK, NotCounting, ResetKept, ResetOff, Microseconds,
              Step, alt_ticks_per_second
<1>2. CASE ClockFound
  BY <1>2, ClockFoundKeeps
<1>3. CASE Tick
  BY <1>3, TickKeeps
<1>4. CASE TickDone
  BY <1>1, <1>4 DEF TickDone, TickEnd
<1>5. CASE \E t \in SetTimes, tz \in {0, 1} : SetTimeOfDay(t, tz)
  BY <1>5, SetTimeKeeps
<1>6. CASE NoSystemClock
  BY <1>1, <1>6 DEF NoSystemClock, vars
<1>7. CASE UNCHANGED timeVars
  BY <1>1, <1>7 DEF timeVars, vars
<1> QED BY <1>2, <1>3, <1>4, <1>5, <1>6, <1>7 DEF TimeNext

(* gettimeofday gives back the time set and the ticks since, and what the reset time
   is off; if that is before the epoch, the epoch, which is nearer. *)
LEMMA ClockIsKept == TInv => ClockKept
<1> SUFFICES ASSUME TInv, _alt_tick_rate # 0, US % _alt_tick_rate = 0, ~wall.rolled
             PROVE  /\ Drift \in 1 - US .. US - 1
                    /\ wall.exact => Drift = 0
                    /\ TimeOfDay.usec \in 0 .. US - 1
  BY DEF ClockKept, alt_ticks_per_second
<1>1. /\ _alt_nticks \in Nat
      /\ _alt_tick_rate \in 1 .. US /\ _alt_tick_rate \in Nat \ {0}
      /\ alt_resettime \in [sec : Int, usec : Int]
      /\ alt_resettime.usec \in 1 - US .. US - 1
      /\ wall.set \in [sec : Nat, usec : 0 .. US - 1] /\ wall.elapsed \in Nat
      /\ ResetOff \in 1 - US .. US - 1 /\ (wall.exact => ResetOff = 0)
  BY TimeConstants DEF TInv, TimeTypeOK, Walls, ResetKept
<1>2. PICK n \in Nat : n = _alt_nticks
  BY <1>1
<1>3. PICK s \in Nat : s = US \div _alt_tick_rate
  BY <1>1, TimeConstants, NatDiv
<1>4. PICK q \in Nat : q = n \div _alt_tick_rate
  BY <1>1, <1>2, NatDiv
<1>5. PICK x \in Nat : x = n * s
  BY <1>2, <1>3
<1>6. x % US \in 0 .. US - 1 /\ x = (US * q) + (x % US)
  BY <1>1, <1>2, <1>3, <1>4, <1>5, TicksInSeconds
<1>7. PICK r \in 0 .. US - 1 : r = x % US /\ x = US * q + r
  BY <1>6
<1> DEFINE raw == [sec |-> alt_resettime.sec + q, usec |-> alt_resettime.usec + r]
<1>8. Step = s
  BY <1>3 DEF Step, alt_ticks_per_second
<1>9. TimeOfDay = Carried(Borrowed(raw))
  BY <1>2, <1>4, <1>5, <1>7, <1>8 DEF TimeOfDay, alt_nticks, alt_ticks_per_second
<1>10. raw \in [sec : Int, usec : Int] /\ raw.usec \in 1 - US .. 2 * US - 2
  <2>1. alt_resettime.sec \in Int
    BY <1>1
  <2>2. PICK b \in 1 - US .. US - 1 : b = alt_resettime.usec
    BY <1>1
  <2>3. b + r \in 1 - US .. 2 * US - 2 /\ b + r \in Int
    BY <2>2, TimeConstants
  <2>4. alt_resettime.sec + q \in Int
    BY <2>1
  <2> QED BY <2>2, <2>3, <2>4
<1>11. Microseconds(raw) = Microseconds(alt_resettime) + x
  <2>1. PICK a \in Int, b \in Int : a = alt_resettime.sec /\ b = alt_resettime.usec
    BY <1>1
  <2>2. (a + q) * US + (b + r) = (a * US + b) + (US * q + r)
    BY TimeConstants, <1>4, <1>7
  <2> QED BY <2>1, <2>2, <1>7 DEF Microseconds
<1>12. PICK d \in 1 - US .. US - 1 : d = ResetOff /\ (wall.exact => d = 0)
  BY <1>1
<1>13. PICK w \in Nat : w = Microseconds(wall.set) + wall.elapsed * Step
  <2>1. wall.set.sec * US \in Nat /\ wall.set.usec \in Nat
    BY <1>1, TimeConstants
  <2>2. Microseconds(wall.set) \in Nat
    BY <2>1 DEF Microseconds
  <2>3. wall.elapsed * Step \in Nat
    BY <1>1, <1>3, <1>8
  <2> QED BY <2>2, <2>3
<1>14. Microseconds(raw) = w + d
  <2>1. Microseconds(alt_resettime) \in Int
    BY <1>1, MicrosecondsInt
  <2>2. d = (Microseconds(alt_resettime) + x) - w
    BY <1>2, <1>5, <1>8, <1>12, <1>13 DEF ResetOff
  <2> QED BY <1>5, <1>11, <1>13, <2>1, <2>2
<1> HIDE DEF raw
<1>15. /\ Borrowed(raw) \in [sec : Int, usec : 0 .. 2 * US - 2]
       /\ \/ Microseconds(Borrowed(raw)) = w + d
          \/ Microseconds(Borrowed(raw)) = 0 /\ w + d < 0
  BY <1>10, <1>14, BorrowedOnce
<1>16. Borrowed(raw) \in [sec : Int, usec : Nat]
  BY <1>15
<1>17. /\ TimeOfDay.usec \in 0 .. US - 1
       /\ Microseconds(TimeOfDay) = Microseconds(Borrowed(raw))
  BY <1>9, <1>16, CarriedKeeps
<1>18. Drift = Microseconds(Borrowed(raw)) - w
  BY <1>13, <1>17 DEF Drift
<1>19. CASE Microseconds(Borrowed(raw)) = w + d
  <2>1. Drift = d
    BY <1>18, <1>19, <1>12, <1>13
  <2> QED BY <1>12, <1>17, <2>1
<1>20. CASE Microseconds(Borrowed(raw)) = 0 /\ w + d < 0
  <2>1. Drift = -w /\ d # 0 /\ -w \in 1 - US .. US - 1
    BY <1>18, <1>20, <1>12, <1>13, TimeConstants
  <2> QED BY <1>12, <1>17, <2>1
<1> QED BY <1>15, <1>19, <1>20

(* The loops in a microsecond, and the cycles their number leaves out. *)
LEMMA LoopsInMicrosecond ==
  /\ LoopCycles * US \in Nat \ {0} /\ CpuFreq \in Nat
  /\ K \in Nat \ {0} /\ CyclesDropped \in Nat
  /\ CpuFreq = (LoopCycles * US) * K + CyclesDropped
<1>1. LoopCycles \in Nat \ {0} /\ US \in Nat \ {0} /\ CpuFreq \in Nat
  BY TimeAssumption
<1>2. LoopCycles * US \in Nat /\ LoopCycles * US # 0
  BY <1>1
<1>3. PICK d \in Nat \ {0} : d = LoopCycles * US
  BY <1>2
<1>4. CpuFreq >= d
  BY <1>3, TimeAssumption
<1>5. /\ CpuFreq \div d \in Nat /\ CpuFreq % d \in 0 .. d - 1
      /\ CpuFreq = (d * (CpuFreq \div d)) + (CpuFreq % d)
  <2>1. CpuFreq \in Int /\ d \in Nat \ {0}
    BY <1>1, <1>3
  <2>2. CpuFreq \div d \in Nat
    BY <1>1, <2>1, NatDiv
  <2>3. CpuFreq % d \in 0 .. d - 1 /\ CpuFreq = (d * (CpuFreq \div d)) + (CpuFreq % d)
    BY <2>1, DivMod
  <2> QED BY <2>2, <2>3
<1>6. PICK k \in Nat, r \in 0 .. d - 1 :
        k = CpuFreq \div d /\ r = CpuFreq % d /\ CpuFreq = d * k + r
  BY <1>5
<1>7. k # 0
  BY <1>3, <1>4, <1>6
<1> QED BY <1>1, <1>3, <1>6, <1>7 DEF K, CyclesDropped

(* A loop counts at most IntMax, so that a wait of several loops is long enough
   whatever the later ones start from. *)
LEMMA LoopsEnough ==
  ASSUME NEW us \in Sleeps, NEW n \in usleep(us)
  PROVE  n \in Nat /\ n >= us * K
<1>0. us \in Nat /\ K \in Nat \ {0} /\ IntMax \in Nat /\ IntMax >= K
  BY TimeAssumption, LoopsInMicrosecond DEF K
<1>1. PICK m \in Nat : m = IntMax \div K
  BY <1>0, NatDiv
<1>2. K * m <= IntMax /\ m # 0
  <2>1. IntMax % K \in 0 .. K - 1 /\ IntMax = (K * m) + (IntMax % K)
    BY <1>0, <1>1, DivMod
  <2>2. PICK r \in 0 .. K - 1 : IntMax = (K * m) + r
    BY <2>1
  <2>3. K * m \in Nat
    BY <1>0, <1>1
  <2>4. m = 0 => K * m = 0
    BY <1>0
  <2> QED BY <1>0, <2>2, <2>3, <2>4
<1>3. m \in Nat \ {0}
  BY <1>1, <1>2
<1>4. PICK b \in Nat : b = us \div m
  BY <1>0, <1>3, NatDiv
<1>5. us % m \in 0 .. m - 1 /\ us = (m * b) + (us % m)
  BY <1>0, <1>3, <1>4, DivMod
<1>6. PICK r \in 0 .. m - 1 : us = m * b + r
  BY <1>5
<1>7. BigMax = m /\ BigLoops(us) = b
  BY <1>1, <1>4 DEF BigMax, BigLoops
<1>8. us - b * m = r
  <2>1. PICK y \in Nat : y = m * b /\ y = b * m
    BY <1>3, <1>4
  <2> QED BY <1>0, <1>6, <2>1
<1>9. r * K \in Nat
  BY <1>0, <1>6
<1>10. CASE b = 0
  <2>1. n = UntilNotPositive(us * K)
    BY <1>7, <1>10 DEF usleep, BusySleep
  <2>2. us * K \in Nat
    BY <1>0
  <2>3. PICK z \in Nat : z = us * K
    BY <2>2
  <2> QED BY <2>1, <2>3 DEF UntilNotPositive
<1>11. CASE b # 0
  <2>1. PICK again \in {IntMax, UntilZero(0)} : n = IntMax + (b - 1) * again + RestOf(us)
    BY <1>7, <1>11 DEF usleep, BusySleep
  <2>2. again \in Nat /\ again >= IntMax
    BY <1>0, <2>1 DEF UntilZero
  <2>3. RestOf(us) \in Nat /\ RestOf(us) >= r * K
    <3>1. RestOf(us) = UntilZero(r * K)
      BY <1>7, <1>8 DEF RestOf
    <3>2. PICK z \in Nat : z = r * K
      BY <1>9
    <3>3. UntilZero(z) \in Nat /\ UntilZero(z) >= z
      BY <1>0 DEF UntilZero
    <3> QED BY <3>1, <3>2, <3>3
  <2>4. b - 1 \in Nat
    BY <1>4, <1>11
  <2>5. (b - 1) * again >= (b - 1) * IntMax
    <3>1. PICK c \in Nat : c = b - 1
      BY <2>4
    <3>2. c # 0 => c * IntMax <= c * again
      BY <1>0, <2>2, <3>1, ProductOrder
    <3>3. c = 0 => c * IntMax = 0 /\ c * again = 0
      BY <1>0, <2>2
    <3>4. c * IntMax \in Int /\ c * again \in Int
      BY <1>0, <2>2, <3>1
    <3> QED BY <3>1, <3>2, <3>3, <3>4
  <2>6. IntMax + (b - 1) * IntMax = b * IntMax
    BY <1>0, <1>4
  <2>7. b * IntMax >= b * (K * m)
    <3>1. b \in Nat \ {0} /\ IntMax \in Int /\ K * m \in Int
      BY <1>0, <1>3, <1>4, <1>11
    <3> QED BY <3>1, <1>2, ProductOrder
  <2>8. us * K = b * (K * m) + r * K
    <3>1. m * b \in Int /\ r \in Int /\ K \in Int
      BY <1>0, <1>3, <1>4, <1>6
    <3>2. (m * b + r) * K = (m * b) * K + r * K
      BY ONLY <3>1
    <3>3. (m * b) * K = b * (K * m)
      BY ONLY <1>0, m \in Nat, b \in Nat
    <3> QED BY <1>6, <3>2, <3>3
  <2>9. PICK u \in Int, v \in Int, w \in Int, x \in Int, y \in Int, z \in Int :
          /\ u = (b - 1) * again /\ v = (b - 1) * IntMax /\ w = b * IntMax
          /\ x = b * (K * m) /\ y = r * K /\ z = us * K
    <3>1. (b - 1) * again \in Int /\ (b - 1) * IntMax \in Int
      BY <1>0, <2>2, <2>4
    <3>2. b * IntMax \in Int /\ r * K \in Int /\ us * K \in Int
      BY <1>0, <1>4, <1>9
    <3>3. K * m \in Int
      BY <1>0, <1>3
    <3>4. b * (K * m) \in Int
      BY <1>4, <3>3
    <3> QED BY <3>1, <3>2, <3>4, Zenon
  <2>10. PICK g \in Nat : g = RestOf(us)
    BY <2>3
  <2>11. /\ n = IntMax + u + g /\ g >= y /\ u >= v
         /\ IntMax + v = w /\ w >= x /\ z = x + y
    BY <2>1, <2>3, <2>5, <2>6, <2>7, <2>8, <2>9, <2>10
  <2>12. n >= z /\ n \in Int
    BY <2>11, <2>9, <2>10, <1>0
  <2>13. n \in Nat
    <3>1. z \in Nat
      <4>1. us * K \in Nat
        BY <1>0
      <4> QED BY <2>9, <4>1
    <3> QED BY <2>12, <3>1
  <2> QED BY <2>9, <2>12, <2>13
<1> QED BY <1>10, <1>11

LEMMA WaitsEnough == SleepsEnough
<1> SUFFICES ASSUME NEW us \in Sleeps, NEW n \in usleep(us)
             PROVE  n * (LoopCycles * US) >= us * CpuFreq - us * CyclesDropped
  BY DEF SleepsEnough
<1>1. us \in Nat /\ n \in Nat /\ n >= us * K
  BY LoopsEnough, TimeAssumption
<1>2. PICK d \in Nat \ {0}, k \in Nat, r \in Nat :
        d = LoopCycles * US /\ k = K /\ r = CyclesDropped /\ CpuFreq = d * k + r
  BY LoopsInMicrosecond
<1>3. us * k \in Int /\ n \in Int /\ us * k <= n
  BY <1>1, <1>2
<1>4. d * (us * k) <= d * n
  BY <1>2, <1>3, ProductOrder
<1>5. us * (d * k + r) - us * r = d * (us * k)
  BY <1>1, <1>2
<1>6. d * n = n * d
  BY <1>1, <1>2
<1> QED BY <1>2, <1>4, <1>5, <1>6

(* alt_settod.c, alt_gettod.c: until the count of ticks rolls over, at any rate that
   divides a second, the time of day is the time set and the ticks since, off by less
   than a second, and by nothing if the product of the setting had room in its word.
   alt_busy_sleep.c: a busy wait is shorter than asked for by no more than what the
   loops in a microsecond, rounded down, leave out. *)
THEOREM TimeKept == TimeSpec => []TimeInv
<1>1. TimeInit => TInv
  BY TimeStart
<1>2. TInv /\ [TimeNext]_timeVars => TInv'
  BY TimeStep
<1>3. TInv => TimeInv
  BY ClockIsKept, WaitsEnough DEF TimeInv
<1> QED BY <1>1, <1>2, <1>3, PTL DEF TimeSpec

-----------------------------------------------------------------------------
(* AltAlarm.  The list, its alarms and their times as one record, as a callback
   leaves them. *)
Links ==
  [next : [Nodes -> Nodes \cup {None}], prev : [Nodes -> Nodes \cup {None}]]
Tables ==
  [list : Links, time : [Alarms -> Words], rollover : [Alarms -> BOOLEAN],
   left : [Alarms -> Int]]

(* The list is whole, and a node out of it is linked to itself or to nothing. *)
OnRing(l) == Listed(l) \cup {ListHead}

Whole(l) ==
  /\ \A x \in OnRing(l) :
       /\ l.next[x] \in OnRing(l) /\ l.prev[x] \in OnRing(l)
       /\ l.prev[l.next[x]] = x /\ l.next[l.prev[x]] = x
  /\ \A a \in Alarms \ Listed(l) : l.prev[a] = l.next[a]
  /\ \A ring \in SUBSET Listed(l) :
       ring # {} => \E a \in ring : l.next[a] \notin ring

(* The alarms that a tick at y has still to visit: it enters them at y, and
   leaves them for the head. *)
ToCome(l, y, V) ==
  /\ V \subseteq Listed(l)
  /\ IF y \in Alarms THEN y \in V /\ l.prev[y] \notin V ELSE V = {}
  /\ \A a \in V : l.next[a] \in V \cup {ListHead}

(* The ticks from now to t, and what an alarm due in k ticks, at t, is like at the
   tick n: one the tick has visited, or has no need to, and one it has not. *)
Gap(t, n) == IF n <= t THEN t - n ELSE t - n + WordMod

Asked(t, r, k, n) ==
  k \in 1 .. WordMod - 1 /\ k = Gap(t, n) /\ (r <=> t < n)
Waiting(t, r, k, n) ==
  /\ k \in 0 .. WordMod - 2 /\ k = Gap(t, n)
  /\ r <=> t < IF n = 0 THEN WordMod - 1 ELSE n - 1

Timed(m, n, V, X) ==
  \A a \in Alarms :
    /\ a \in Listed(m.list) <=> m.left[a] # Off
    /\ a \in V \ X => Waiting(m.time[a], m.rollover[a], m.left[a], n)
    /\ a \in Listed(m.list) \ (V \cup X) =>
         Asked(m.time[a], m.rollover[a], m.left[a], n)

(* All of it, while a tick at y has the alarms V before it and those of X (the one
   it is calling) are not in order. *)
Kept(m, n, y, V, X) ==
  m \in Tables /\ Whole(m.list) /\ ToCome(m.list, y, V) /\ Timed(m, n, V, X)

AInv ==
  /\ _alt_nticks \in Words
  /\ alarm \in Nodes \cup {None}
  /\ \E V \in SUBSET Alarms : Kept(NoEffect, _alt_nticks, alarm, V, {})

LEMMA AlarmConstants ==
  /\ ListHead \notin Alarms /\ None \notin Alarms /\ None # ListHead
  /\ Nodes = Alarms \cup {ListHead}
  /\ WordMod \in Nat /\ WordMod > 1 /\ Words = 0 .. WordMod - 1
BY AlarmAssumption DEF Nodes, Words

(* alt_llist_insert puts an alarm that is not listed before all others. *)
LEMMA InsertFacts ==
  ASSUME NEW l \in Links, Whole(l), NEW e \in Alarms, e \notin Listed(l)
  PROVE  /\ LlistInsert(l, e) \in Links
         /\ Listed(LlistInsert(l, e)) = Listed(l) \cup {e}
         /\ \A x \in Nodes :
              /\ LlistInsert(l, e).next[x] =
                   IF x = ListHead THEN e ELSE IF x = e THEN l.next[ListHead] ELSE l.next[x]
              /\ LlistInsert(l, e).prev[x] =
                   IF x = l.next[ListHead] THEN e ELSE IF x = e THEN ListHead ELSE l.prev[x]
<1> DEFINE h == l.next[ListHead]
           k == LlistInsert(l, e)
<1>0. /\ ListHead \in Nodes /\ e \in Nodes /\ e # ListHead /\ None \notin Nodes
      /\ l.next \in [Nodes -> Nodes \cup {None}] /\ l.prev \in [Nodes -> Nodes \cup {None}]
  BY AlarmConstants DEF Links
<1>1. h \in OnRing(l) /\ h # e /\ h \in Nodes
  BY AlarmConstants DEF Whole, OnRing, Listed
<1>2. /\ k.next = [l.next EXCEPT ![e] = h, ![ListHead] = e]
      /\ k.prev = [l.prev EXCEPT ![e] = ListHead, ![h] = e]
      /\ k = [next |-> k.next, prev |-> k.prev]
  BY DEF LlistInsert
<1> HIDE DEF h, k
<1>3. \A x \in Nodes :
        /\ k.next[x] = IF x = ListHead THEN e ELSE IF x = e THEN h ELSE l.next[x]
        /\ k.prev[x] = IF x = h THEN e ELSE IF x = e THEN ListHead ELSE l.prev[x]
  BY <1>0, <1>1, <1>2
<1>4. k \in Links
  <2>1. k.next \in [Nodes -> Nodes \cup {None}] /\ k.prev \in [Nodes -> Nodes \cup {None}]
    BY <1>0, <1>1, <1>2
  <2> QED BY <1>2, <2>1 DEF Links
<1>5. Listed(k) = Listed(l) \cup {e}
  BY <1>0, <1>1, <1>3, AlarmConstants DEF Listed
<1> QED BY <1>3, <1>4, <1>5 DEF h, k

LEMMA InsertWhole ==
  ASSUME NEW l \in Links, Whole(l), NEW e \in Alarms, e \notin Listed(l)
  PROVE  Whole(LlistInsert(l, e))
<1> DEFINE h == l.next[ListHead]
           k == LlistInsert(l, e)
<1>1. /\ Listed(k) = Listed(l) \cup {e}
      /\ \A x \in Nodes :
           /\ k.next[x] = IF x = ListHead THEN e ELSE IF x = e THEN h ELSE l.next[x]
           /\ k.prev[x] = IF x = h THEN e ELSE IF x = e THEN ListHead ELSE l.prev[x]
  BY InsertFacts
<1>2. h \in OnRing(l) /\ h # e /\ l.prev[h] = ListHead
  BY AlarmConstants DEF Whole, OnRing, Listed
<1> HIDE DEF h, k
<1>3. OnRing(k) = OnRing(l) \cup {e}
  BY <1>1 DEF OnRing
<1>4. \A x \in OnRing(k) : x \in Nodes
  BY <1>1, AlarmConstants DEF OnRing, Listed
<1>5. \A x \in OnRing(l) : l.next[x] \in OnRing(l) /\ l.prev[x] \in OnRing(l)
                           /\ l.prev[l.next[x]] = x /\ l.next[l.prev[x]] = x
  BY DEF Whole
<1>6. e \notin OnRing(l) /\ ListHead \in OnRing(l)
  BY AlarmConstants DEF OnRing
<1>7. ASSUME NEW x \in OnRing(k)
      PROVE  /\ k.next[x] \in OnRing(k) /\ k.prev[x] \in OnRing(k)
             /\ k.prev[k.next[x]] = x /\ k.next[k.prev[x]] = x
  <2>1. CASE x = e
    BY <1>1, <1>2, <1>3, <1>4, <1>6, <2>1
  <2>2. CASE x = ListHead
    <3>1. k.next[x] = e /\ k.prev[e] = ListHead
      BY <1>1, <1>2, <1>3, <1>4, <1>6, <2>2
    <3>2. CASE h = ListHead
      BY <1>1, <1>2, <1>3, <1>4, <1>6, <2>2, <3>1, <3>2
    <3>3. CASE h # ListHead
      BY <1>1, <1>2, <1>3, <1>4, <1>5, <1>6, <2>2, <3>1, <3>3, h = l.next[ListHead] DEF h
    <3> QED BY <3>2, <3>3
  <2>3. CASE x \in OnRing(l) /\ x # ListHead
    <3>1. k.next[x] = l.next[x] /\ l.next[x] \in OnRing(l) /\ l.next[x] # h
      BY <1>1, <1>2, <1>4, <1>5, <1>6, <2>3 DEF h
    <3>2. k.prev[l.next[x]] = x
      BY <1>1, <1>3, <1>4, <1>5, <1>6, <2>3, <3>1
    <3>3. CASE x = h
      BY <1>1, <1>3, <1>4, <1>5, <1>6, <2>3, <3>1, <3>2, <3>3
    <3>4. CASE x # h
      <4>1. k.prev[x] = l.prev[x] /\ l.prev[x] \in OnRing(l)
        BY <1>1, <1>4, <1>5, <1>6, <2>3, <3>4
      <4>2. l.prev[x] # ListHead
        BY <1>5, <2>3, <3>4 DEF h
      <4>3. k.next[l.prev[x]] = x
        BY <1>1, <1>3, <1>4, <1>5, <1>6, <2>3, <4>1, <4>2
      <4> QED BY <1>3, <3>1, <3>2, <4>1, <4>3
    <3> QED BY <3>3, <3>4
  <2> QED BY <1>3, <2>1, <2>2, <2>3
<1>8. ASSUME NEW a \in Alarms \ Listed(k)
      PROVE  k.prev[a] = k.next[a]
  <2>1. a \in Nodes /\ a # ListHead /\ a # e /\ a # h /\ a \notin Listed(l)
    BY <1>1, <1>2, AlarmConstants DEF OnRing
  <2>2. l.prev[a] = l.next[a]
    BY <2>1 DEF Whole
  <2> QED BY <1>1, <2>1, <2>2
<1>9. ASSUME NEW ring \in SUBSET Listed(k), ring # {}
      PROVE  \E a \in ring : k.next[a] \notin ring
  <2>1. CASE ring \ {e} = {}
    <3>1. ring = {e}
      BY <1>9, <2>1
    <3>2. e \in Nodes /\ e # ListHead
      BY AlarmConstants
    <3>3. k.next[e] = h
      BY <1>1, <3>2
    <3> QED BY <1>2, <3>1, <3>3
  <2>2. CASE ring \ {e} # {}
    <3>1. ring \ {e} \in SUBSET Listed(l)
      BY <1>1
    <3>2. PICK a \in ring \ {e} : l.next[a] \notin ring \ {e}
      BY <2>2, <3>1 DEF Whole
    <3>3. a \in OnRing(l) /\ a \in Nodes /\ a # ListHead
      BY <3>1, AlarmConstants DEF OnRing, Listed
    <3>4. k.next[a] = l.next[a] /\ l.next[a] # e
      BY <1>1, <1>5, <1>6, <3>2, <3>3
    <3> QED BY <3>2, <3>4
  <2> QED BY <2>1, <2>2
<1> QED BY <1>7, <1>8, <1>9 DEF Whole, k

(* alt_llist_remove takes an alarm out from between its neighbours, and leaves one
   that is out already as it is. *)
LEMMA RemoveOut ==
  ASSUME NEW l \in Links, Whole(l), NEW e \in Alarms, e \notin Listed(l),
         l.next[e] # None
  PROVE  LlistRemove(l, e) = l
<1>1. l.next[e] = e /\ l.prev[e] = e
  BY DEF Listed, Whole
<1>2. /\ l = [next |-> l.next, prev |-> l.prev]
      /\ l.next \in [Nodes -> Nodes \cup {None}] /\ l.prev \in [Nodes -> Nodes \cup {None}]
      /\ e \in Nodes
  BY AlarmConstants DEF Links
<1>3. /\ [l.next EXCEPT ![l.prev[e]] = l.next[e], ![e] = e] = l.next
      /\ [l.prev EXCEPT ![l.next[e]] = l.prev[e], ![e] = e] = l.prev
  BY <1>1, <1>2
<1> QED BY <1>2, <1>3 DEF LlistRemove

LEMMA RemoveFacts ==
  ASSUME NEW l \in Links, Whole(l), NEW e \in Listed(l)
  PROVE  /\ LlistRemove(l, e) \in Links
         /\ Listed(LlistRemove(l, e)) = Listed(l) \ {e}
         /\ \A x \in Nodes :
              /\ LlistRemove(l, e).next[x] =
                   IF x = e THEN e ELSE IF x = l.prev[e] THEN l.next[e] ELSE l.next[x]
              /\ LlistRemove(l, e).prev[x] =
                   IF x = e THEN e ELSE IF x = l.next[e] THEN l.prev[e] ELSE l.prev[x]
<1> DEFINE p == l.prev[e]
           q == l.next[e]
           k == LlistRemove(l, e)
<1>0. /\ e \in Nodes /\ None \notin Nodes /\ e \in Alarms
      /\ l.next \in [Nodes -> Nodes \cup {None}] /\ l.prev \in [Nodes -> Nodes \cup {None}]
  BY AlarmConstants DEF Links, Listed
<1>1. /\ p \in OnRing(l) /\ q \in OnRing(l) /\ l.next[p] = e /\ l.prev[q] = e /\ q # e
      /\ p \in Nodes /\ q \in Nodes /\ p # e
  <2>1. e \in OnRing(l) /\ q # e
    BY DEF OnRing, Listed
  <2>2. p \in OnRing(l) /\ q \in OnRing(l) /\ l.next[p] = e /\ l.prev[q] = e
    BY <2>1 DEF Whole
  <2>3. p # e
    BY <2>1, <2>2
  <2>4. p \in Nodes /\ q \in Nodes
    BY <2>2, AlarmConstants DEF OnRing, Listed
  <2> QED BY <2>1, <2>2, <2>3, <2>4
<1>2. /\ k.next = [l.next EXCEPT ![p] = q, ![e] = e]
      /\ k.prev = [l.prev EXCEPT ![q] = p, ![e] = e]
      /\ k = [next |-> k.next, prev |-> k.prev]
  BY DEF LlistRemove
<1> HIDE DEF p, q, k
<1>3. \A x \in Nodes :
        /\ k.next[x] = IF x = e THEN e ELSE IF x = p THEN q ELSE l.next[x]
        /\ k.prev[x] = IF x = e THEN e ELSE IF x = q THEN p ELSE l.prev[x]
  BY <1>0, <1>1, <1>2
<1>4. k \in Links
  <2>1. k.next \in [Nodes -> Nodes \cup {None}] /\ k.prev \in [Nodes -> Nodes \cup {None}]
    BY <1>0, <1>1, <1>2
  <2> QED BY <1>2, <2>1 DEF Links
<1>5. Listed(k) = Listed(l) \ {e}
  <2>1. p \in Alarms => q # p
    <3> SUFFICES ASSUME p \in Alarms, q = p PROVE FALSE
      OBVIOUS
    <3>1. {e, p} \in SUBSET Listed(l)
      BY <1>1, AlarmConstants DEF OnRing
    <3>2. PICK a \in {e, p} : l.next[a] \notin {e, p}
      BY <3>1 DEF Whole
    <3> QED BY <1>1, <3>2 DEF q
  <2>2. ASSUME NEW a \in Alarms
        PROVE  a \in Listed(k) <=> a \in Listed(l) /\ a # e
    <3>1. a \in Nodes
      BY AlarmConstants
    <3>2. CASE a = e
      BY <1>3, <3>1, <3>2 DEF Listed
    <3>3. CASE a # e /\ a = p
      <4>1. p \in Listed(l)
        BY <1>1, <3>3, AlarmConstants DEF OnRing
      <4>2. k.next[a] = q
        BY <1>3, <3>1, <3>3
      <4> QED BY <1>0, <1>1, <2>1, <3>3, <4>1, <4>2 DEF Listed
    <3>4. CASE a # e /\ a # p
      BY <1>3, <3>1, <3>4 DEF Listed
    <3> QED BY <3>2, <3>3, <3>4
  <2>3. Listed(k) \subseteq Alarms /\ Listed(l) \subseteq Alarms
    BY DEF Listed
  <2> QED BY <2>2, <2>3
<1> QED BY <1>3, <1>4, <1>5 DEF p, q, k

LEMMA RemoveWhole ==
  ASSUME NEW l \in Links, Whole(l), NEW e \in Listed(l)
  PROVE  Whole(LlistRemove(l, e))
<1> DEFINE p == l.prev[e]
           q == l.next[e]
           k == LlistRemove(l, e)
<1>1. /\ Listed(k) = Listed(l) \ {e}
      /\ \A x \in Nodes :
           /\ k.next[x] = IF x = e THEN e ELSE IF x = p THEN q ELSE l.next[x]
           /\ k.prev[x] = IF x = e THEN e ELSE IF x = q THEN p ELSE l.prev[x]
  BY RemoveFacts
<1>2. /\ e \in OnRing(l) /\ e \in Alarms /\ e # ListHead
      /\ p \in OnRing(l) /\ q \in OnRing(l) /\ l.next[p] = e /\ l.prev[q] = e /\ q # e /\ p # e
      /\ l.next[e] = q /\ l.prev[e] = p
  <2>1. e \in OnRing(l) /\ q # e /\ e \in Alarms
    BY DEF OnRing, Listed
  <2>2. p \in OnRing(l) /\ q \in OnRing(l) /\ l.next[p] = e /\ l.prev[q] = e
    BY <2>1 DEF Whole
  <2> QED BY <2>1, <2>2, AlarmConstants
<1> HIDE DEF p, q, k
<1>3. OnRing(k) = OnRing(l) \ {e} /\ \A x \in OnRing(l) : x \in Nodes
  BY <1>1, <1>2, AlarmConstants DEF OnRing, Listed
<1>5. \A x \in OnRing(l) : l.next[x] \in OnRing(l) /\ l.prev[x] \in OnRing(l)
                           /\ l.prev[l.next[x]] = x /\ l.next[l.prev[x]] = x
  BY DEF Whole
<1>7. ASSUME NEW x \in OnRing(k)
      PROVE  /\ k.next[x] \in OnRing(k) /\ k.prev[x] \in OnRing(k)
             /\ k.prev[k.next[x]] = x /\ k.next[k.prev[x]] = x
  <2>0. x \in OnRing(l) /\ x # e
    BY <1>3
  <2>1. k.next[x] \in OnRing(k) /\ k.prev[k.next[x]] = x
    <3>1. CASE x = p
      BY <1>1, <1>2, <1>3, <2>0, <3>1
    <3>2. CASE x # p
      <4>1. k.next[x] = l.next[x] /\ l.next[x] \in OnRing(l) /\ l.next[x] # e /\ l.next[x] # q
        BY <1>1, <1>2, <1>3, <1>5, <2>0, <3>2
      <4> QED BY <1>1, <1>3, <1>5, <2>0, <4>1
    <3> QED BY <3>1, <3>2
  <2>2. k.prev[x] \in OnRing(k) /\ k.next[k.prev[x]] = x
    <3>1. CASE x = q
      BY <1>1, <1>2, <1>3, <2>0, <3>1
    <3>2. CASE x # q
      <4>1. k.prev[x] = l.prev[x] /\ l.prev[x] \in OnRing(l) /\ l.prev[x] # e /\ l.prev[x] # p
        BY <1>1, <1>2, <1>3, <1>5, <2>0, <3>2
      <4> QED BY <1>1, <1>3, <1>5, <2>0, <4>1
    <3> QED BY <3>1, <3>2
  <2> QED BY <2>1, <2>2
<1>8. ASSUME NEW a \in Alarms \ Listed(k)
      PROVE  k.prev[a] = k.next[a]
  <2>1. a \in Nodes /\ a # ListHead
    BY AlarmConstants
  <2>2. CASE a = e
    BY <1>1, <2>1, <2>2
  <2>3. CASE a # e
    <3>1. a \notin Listed(l) /\ a # p /\ a # q
      BY <1>1, <1>2, <2>1, <2>3 DEF OnRing
    <3>2. l.prev[a] = l.next[a]
      BY <3>1 DEF Whole
    <3> QED BY <1>1, <2>1, <2>3, <3>1, <3>2
  <2> QED BY <2>2, <2>3
<1>9. ASSUME NEW ring \in SUBSET Listed(k), ring # {}
      PROVE  \E a \in ring : k.next[a] \notin ring
  <2>0. ring \subseteq Listed(l) /\ e \notin ring /\ \A a \in ring : a \in Nodes
    BY <1>1, AlarmConstants DEF Listed
  <2>1. CASE p \in ring
    <3>1. ring \cup {e} \in SUBSET Listed(l)
      BY <2>0
    <3>2. ring \cup {e} # {}
      OBVIOUS
    <3>3. PICK a \in ring \cup {e} : l.next[a] \notin ring \cup {e}
      BY <3>1, <3>2 DEF Whole
    <3>4. CASE a = e
      <4>1. k.next[p] = q /\ q \notin ring
        BY <1>1, <1>2, <2>0, <2>1, <3>3, <3>4
      <4> QED BY <2>1, <4>1
    <3>5. CASE a # e
      <4>1. a \in ring /\ a # p /\ k.next[a] = l.next[a]
        BY <1>1, <1>2, <2>0, <3>3, <3>5
      <4> QED BY <3>3, <4>1
    <3> QED BY <3>4, <3>5
  <2>2. CASE p \notin ring
    <3>1. PICK a \in ring : l.next[a] \notin ring
      BY <2>0, <1>9 DEF Whole
    <3>2. k.next[a] = l.next[a]
      BY <1>1, <2>0, <2>2
    <3> QED BY <3>1, <3>2
  <2> QED BY <2>1, <2>2
<1> QED BY <1>7, <1>8, <1>9 DEF Whole, k

(* What is still to be visited, when alarms are put in front and taken out, and
   when the tick goes on to the next. *)
LEMMA ComeInsert ==
  ASSUME NEW l \in Links, Whole(l), NEW e \in Alarms, e \notin Listed(l),
         NEW y, NEW V, ToCome(l, y, V)
  PROVE  ToCome(LlistInsert(l, e), y, V)
<1> DEFINE k == LlistInsert(l, e)
<1>1. /\ Listed(k) = Listed(l) \cup {e}
      /\ \A x \in Nodes :
           /\ k.next[x] = IF x = ListHead THEN e
                          ELSE IF x = e THEN l.next[ListHead] ELSE l.next[x]
           /\ k.prev[x] = IF x = l.next[ListHead] THEN e
                          ELSE IF x = e THEN ListHead ELSE l.prev[x]
  BY InsertFacts
<1> HIDE DEF k
<1>2. V \subseteq Listed(l) /\ e \notin V /\ \A a \in V : a \in Nodes /\ a # ListHead /\ a # e
  BY AlarmConstants DEF ToCome, Listed
<1>3. \A a \in V : k.next[a] \in V \cup {ListHead}
  BY <1>1, <1>2 DEF ToCome
<1>4. ASSUME y \in Alarms PROVE y \in V /\ k.prev[y] \notin V
  <2>1. y \in V /\ l.prev[y] \notin V
    BY <1>4 DEF ToCome
  <2> QED BY <1>1, <1>2, <2>1
<1>5. V \subseteq Listed(k)
  BY <1>1, <1>2
<1> QED BY <1>3, <1>4, <1>5 DEF ToCome, k

LEMMA ComeRemove ==
  ASSUME NEW l \in Links, Whole(l), NEW e \in Listed(l),
         NEW y, y # e, NEW V, ToCome(l, y, V)
  PROVE  ToCome(LlistRemove(l, e), y, V \ {e})
<1> DEFINE p == l.prev[e]
           q == l.next[e]
           k == LlistRemove(l, e)
<1>1. /\ Listed(k) = Listed(l) \ {e}
      /\ \A x \in Nodes :
           /\ k.next[x] = IF x = e THEN e ELSE IF x = p THEN q ELSE l.next[x]
           /\ k.prev[x] = IF x = e THEN e ELSE IF x = q THEN p ELSE l.prev[x]
  BY RemoveFacts
<1>2. \A x \in OnRing(l) : l.prev[l.next[x]] = x /\ l.next[l.prev[x]] = x
  BY DEF Whole
<1>3. e \in OnRing(l) /\ l.next[p] = e /\ l.prev[q] = e /\ q # e
  BY <1>2 DEF OnRing, Listed
<1>4. /\ V \subseteq Listed(l)
      /\ \A a \in V : a \in Nodes /\ a \in OnRing(l) /\ l.next[a] \in V \cup {ListHead}
  BY AlarmConstants DEF ToCome, OnRing, Listed
<1>5. e # ListHead
  BY AlarmConstants DEF Listed
<1>6. l.next[e] = q
  OBVIOUS
<1> HIDE DEF p, q, k
<1>7. ASSUME NEW a \in V \ {e}
      PROVE  k.next[a] \in (V \ {e}) \cup {ListHead}
  <2>1. CASE a = p
    <3>1. e \in V
      BY <1>3, <1>4, <1>5, <2>1
    <3>2. q \in V \cup {ListHead}
      BY <1>4, <1>6, <3>1
    <3> QED BY <1>1, <1>3, <1>4, <2>1, <3>2
  <2>2. CASE a # p
    <3>1. k.next[a] = l.next[a] /\ l.next[a] # e
      BY <1>1, <1>2, <1>4, <2>2 DEF p
    <3> QED BY <1>4, <3>1
  <2> QED BY <2>1, <2>2
<1>8. ASSUME y \in Alarms PROVE y \in V \ {e} /\ k.prev[y] \notin V \ {e}
  <2>1. y \in V /\ l.prev[y] \notin V /\ y \in Nodes
    BY <1>8, <1>4 DEF ToCome
  <2>2. CASE y = q
    <3>1. e \notin V
      BY <1>3, <2>1, <2>2
    <3>2. p \notin V
      BY <1>3, <1>4, <1>5, <3>1
    <3> QED BY <1>1, <2>1, <2>2, <3>2
  <2>3. CASE y # q
    BY <1>1, <2>1, <2>3
  <2> QED BY <2>2, <2>3
<1>9. y \notin Alarms => V \ {e} = {}
  BY DEF ToCome
<1>10. V \ {e} \subseteq Listed(k)
  BY <1>1, <1>4
<1> QED BY <1>7, <1>8, <1>9, <1>10 DEF ToCome, k

LEMMA ComeNext ==
  ASSUME NEW l \in Links, Whole(l), NEW y \in Alarms, NEW V, ToCome(l, y, V)
  PROVE  ToCome(l, l.next[y], V \ {y}) /\ l.next[y] # y /\ l.next[y] \in Nodes
<1> DEFINE z == l.next[y]
<1>1. /\ V \subseteq Listed(l) /\ y \in V /\ l.prev[y] \notin V
      /\ \A a \in V : l.next[a] \in V \cup {ListHead}
  BY DEF ToCome
<1>2. \A x \in OnRing(l) : l.prev[l.next[x]] = x
  BY DEF Whole
<1>3. \A a \in V : a \in OnRing(l) /\ a \in Alarms /\ l.next[a] # a
  BY <1>1 DEF OnRing, Listed
<1>4. ASSUME NEW a \in V \ {y} PROVE l.next[a] \in (V \ {y}) \cup {ListHead}
  BY <1>1, <1>2, <1>3
<1>5. z \in V \cup {ListHead} /\ z # y /\ l.prev[z] = y
  BY <1>1, <1>2, <1>3
<1>6. z \in Alarms => z \in V \ {y} /\ l.prev[z] \notin V \ {y}
  BY <1>5, AlarmConstants
<1>7. ASSUME z \notin Alarms PROVE V \ {y} = {}
  <2>0. z = ListHead
    BY <1>3, <1>5, <1>7
  <2> SUFFICES ASSUME V \ {y} # {} PROVE FALSE
    OBVIOUS
  <2>1. V \ {y} \in SUBSET Listed(l)
    BY <1>1
  <2>2. PICK a \in V \ {y} : l.next[a] \notin V \ {y}
    BY <2>1 DEF Whole
  <2>3. l.next[a] = ListHead
    BY <1>4, <2>2
  <2>4. l.prev[ListHead] = a
    BY <1>2, <1>3, <2>3
  <2> QED BY <1>5, <2>0, <2>4
<1>8. z \in Nodes
  BY <1>3, <1>5, AlarmConstants
<1> QED BY <1>1, <1>4, <1>5, <1>6, <1>7, <1>8 DEF ToCome

LEMMA ComeStart ==
  ASSUME NEW l \in Links, Whole(l)
  PROVE  ToCome(l, l.next[ListHead], Listed(l)) /\ l.next[ListHead] \in Nodes
<1> DEFINE z == l.next[ListHead]
<1>1. \A x \in OnRing(l) : l.next[x] \in OnRing(l) /\ l.prev[l.next[x]] = x
  BY DEF Whole
<1>2. z \in OnRing(l) /\ l.prev[z] = ListHead /\ ListHead \notin Listed(l)
  BY <1>1, AlarmConstants DEF OnRing, Listed
<1>3. z \in Nodes /\ (z \in Alarms => z \in Listed(l))
  BY <1>2, AlarmConstants DEF OnRing, Listed
<1>4. \A a \in Listed(l) : l.next[a] \in Listed(l) \cup {ListHead}
  BY <1>1 DEF OnRing
<1>5. ASSUME z \notin Alarms PROVE Listed(l) = {}
  <2>0. z = ListHead
    BY <1>3, <1>5, AlarmConstants
  <2> SUFFICES ASSUME Listed(l) # {} PROVE FALSE
    OBVIOUS
  <2>1. PICK a \in Listed(l) : l.next[a] \notin Listed(l)
    BY DEF Whole
  <2>2. l.next[a] = ListHead /\ a \in OnRing(l)
    BY <1>4, <2>1 DEF OnRing
  <2>3. l.prev[ListHead] = a
    BY <1>1, <2>2
  <2> QED BY <1>2, <2>0, <2>3
<1> QED BY <1>2, <1>3, <1>4, <1>5 DEF ToCome

-----------------------------------------------------------------------------
(* Words that wrap. *)
LEMMA AddIs ==
  ASSUME NEW t \in Words, NEW k \in 0 .. WordMod - 1
  PROVE  /\ Add(t, k) \in Words
         /\ Add(t, k) = IF t + k < WordMod THEN t + k ELSE t + k - WordMod
<1>0. WordMod \in Nat \ {0} /\ t \in 0 .. WordMod - 1
  BY AlarmConstants
<1>1. CASE t + k < WordMod
  <2>1. PICK d \in 0 .. WordMod - 1 : d = t + k
    BY <1>0, <1>1
  <2>2. WordMod * 0 + d = t + k /\ 0 \in Int
    BY <1>0, <2>1
  <2>3. (WordMod * 0 + d) % WordMod = d
    BY ONLY <1>0, <2>1, <2>2, OnlyQuotient
  <2>4. (t + k) % WordMod = d
    BY <2>2, <2>3
  <2> QED BY <1>1, <2>1, <2>4, AlarmConstants DEF Add
<1>2. CASE t + k >= WordMod
  <2>1. PICK d \in 0 .. WordMod - 1 : d = t + k - WordMod
    BY <1>0, <1>2
  <2>2. WordMod * 1 + d = t + k
    BY <1>0, <2>1
  <2>3. (WordMod * 1 + d) % WordMod = d
    BY ONLY <1>0, <2>1, 1 \in Int, OnlyQuotient
  <2>4. (t + k) % WordMod = d
    BY <2>2, <2>3
  <2>5. ~ (t + k < WordMod)
    BY <1>0, <1>2
  <2> QED BY <2>1, <2>4, <2>5, AlarmConstants DEF Add
<1> QED BY <1>0, <1>1, <1>2

LEMMA GapIs ==
  ASSUME NEW t \in Words, NEW n \in Words
  PROVE  (t - n) % WordMod = Gap(t, n)
<1>0. WordMod \in Nat \ {0} /\ t \in 0 .. WordMod - 1 /\ n \in 0 .. WordMod - 1
  BY AlarmConstants
<1>1. CASE n <= t
  <2>1. PICK d \in 0 .. WordMod - 1 : d = t - n
    BY <1>0, <1>1
  <2>2. WordMod * 0 + d = t - n /\ 0 \in Int
    BY <1>0, <2>1
  <2>3. (WordMod * 0 + d) % WordMod = d
    BY ONLY <1>0, <2>1, <2>2, OnlyQuotient
  <2>4. (t - n) % WordMod = d
    BY <2>2, <2>3
  <2> QED BY <1>1, <2>1, <2>4 DEF Gap
<1>2. CASE n > t
  <2>1. PICK d \in 0 .. WordMod - 1 : d = t - n + WordMod
    BY <1>0, <1>2
  <2>2. WordMod * (-1) + d = t - n
    BY <1>0, <2>1
  <2>3. (WordMod * (-1) + d) % WordMod = d
    BY ONLY <1>0, <2>1, -1 \in Int, OnlyQuotient
  <2>4. (t - n) % WordMod = d
    BY <2>2, <2>3
  <2>5. ~ (n <= t)
    BY <1>0, <1>2
  <2> QED BY <2>1, <2>4, <2>5 DEF Gap
<1> QED BY <1>0, <1>1, <1>2

(* An alarm asked for k ticks from now, less than all words, is in order. *)
LEMMA NewlyAsked ==
  ASSUME NEW n \in Words, NEW k \in 1 .. WordMod - 1
  PROVE  Asked(Add(n, k), Add(n, k) < n, k, n)
<1>1. k \in 0 .. WordMod - 1 /\ n \in 0 .. WordMod - 1 /\ WordMod \in Nat
  BY AlarmConstants
<1>2. PICK t \in Int :
        t = Add(n, k) /\ t = IF n + k < WordMod THEN n + k ELSE n + k - WordMod
  BY <1>1, AddIs
<1>3. k = Gap(t, n)
  BY <1>1, <1>2 DEF Gap
<1> QED BY <1>2, <1>3 DEF Asked

(* With a tick it is waiting. *)
LEMMA TickWaits ==
  ASSUME NEW t \in Words, NEW r \in BOOLEAN, NEW k \in Int, NEW n \in Words, Asked(t, r, k, n)
  PROVE  Waiting(t, r, k - 1, Add(n, 1))
<1>1. /\ WordMod \in Nat /\ WordMod > 1 /\ t \in 0 .. WordMod - 1 /\ n \in 0 .. WordMod - 1
      /\ 1 \in 0 .. WordMod - 1
  BY AlarmConstants
<1>2. PICK c \in Int :
        c = Add(n, 1) /\ c = IF n + 1 < WordMod THEN n + 1 ELSE n + 1 - WordMod
  <2>1. Add(n, 1) = IF n + 1 < WordMod THEN n + 1 ELSE n + 1 - WordMod
    BY <1>1, AddIs, Zenon
  <2> QED BY <1>1, <2>1
<1>3. k \in 1 .. WordMod - 1 /\ k = (IF n <= t THEN t - n ELSE t - n + WordMod) /\ (r <=> t < n)
  BY DEF Asked, Gap
<1>4. k - 1 = Gap(t, c)
  BY <1>1, <1>2, <1>3 DEF Gap
<1>5. k - 1 \in 0 .. WordMod - 2
  BY <1>1, <1>3
<1>6. (IF c = 0 THEN WordMod - 1 ELSE c - 1) = n
  BY <1>1, <1>2
<1> QED BY <1>2, <1>3, <1>4, <1>5, <1>6 DEF Waiting

(* One that has expired is due now; one that has not is in order when it has been
   visited. *)
LEMMA Expires ==
  ASSUME NEW t \in Words, NEW r \in BOOLEAN, NEW k \in Int, NEW n \in Words, Waiting(t, r, k, n)
  PROVE  /\ t <= n /\ ~(r /\ n # 0) => k = 0 /\ t = n
         /\ ~(t <= n /\ ~(r /\ n # 0)) => Asked(t, r /\ n # 0, k, n)
<1>1. WordMod \in Nat /\ WordMod > 1 /\ t \in 0 .. WordMod - 1 /\ n \in 0 .. WordMod - 1
  BY AlarmConstants
<1>2. /\ k \in 0 .. WordMod - 2 /\ k = (IF n <= t THEN t - n ELSE t - n + WordMod)
      /\ r <=> t < IF n = 0 THEN WordMod - 1 ELSE n - 1
  BY DEF Waiting, Gap
<1>3. CASE n = 0
  BY <1>1, <1>2, <1>3 DEF Asked, Gap
<1>4. CASE n # 0
  <2>1. r <=> t < n - 1
    BY <1>2, <1>4
  <2>2. t # n - 1
    BY <1>1, <1>2, <1>4
  <2>3. (t <= n /\ ~(r /\ n # 0)) <=> t = n
    BY <1>1, <1>4, <2>1, <2>2
  <2>4. t = n => k = 0
    BY <1>1, <1>2
  <2>5. ASSUME t # n PROVE Asked(t, r /\ n # 0, k, n)
    <3>1. k \in 1 .. WordMod - 1
      BY <1>1, <1>2, <2>5
    <3>2. (r /\ n # 0) <=> t < n
      BY <1>1, <1>4, <2>1, <2>2, <2>5
    <3> QED BY <1>2, <3>1, <3>2 DEF Asked, Gap
  <2> QED BY <2>3, <2>4, <2>5
<1> QED BY <1>3, <1>4

-----------------------------------------------------------------------------
(* What starting, stopping and calling an alarm make of all the tables. *)
Started(m, b, n, d) ==
  [list |-> LlistInsert(m.list, b),
   time |-> [m.time EXCEPT ![b] = Add(n, d + 1)],
   rollover |-> [m.rollover EXCEPT ![b] = (Add(n, d + 1) < n)],
   left |-> [m.left EXCEPT ![b] = d + 1]]

Stopped(m, b) ==
  [list |-> LlistRemove(m.list, b), time |-> m.time, rollover |-> m.rollover,
   left |-> [m.left EXCEPT ![b] = Off]]

LEMMA StartedKept ==
  ASSUME NEW n \in Words, NEW m, NEW y, NEW V, NEW X, Kept(m, n, y, V, X),
         NEW b \in Alarms, b \notin Listed(m.list), b \notin X,
         NEW d \in 0 .. WordMod - 2
  PROVE  Kept(Started(m, b, n, d), n, y, V, X)
<1> DEFINE s == Started(m, b, n, d)
           t == Add(n, d + 1)
<1>1. /\ m.list \in Links /\ m.time \in [Alarms -> Words]
      /\ m.rollover \in [Alarms -> BOOLEAN] /\ m.left \in [Alarms -> Int]
      /\ Whole(m.list) /\ ToCome(m.list, y, V)
  BY DEF Kept, Tables
<1>2. PICK k \in 1 .. WordMod - 1 : k = d + 1
  BY AlarmConstants
<1>3. t \in Words /\ Asked(t, t < n, k, n)
  <2>1. k \in 0 .. WordMod - 1
    BY <1>2, AlarmConstants
  <2> QED BY <1>2, <2>1, AddIs, NewlyAsked
<1>4. /\ s.list = LlistInsert(m.list, b) /\ s.time = [m.time EXCEPT ![b] = t]
      /\ s.rollover = [m.rollover EXCEPT ![b] = (t < n)] /\ s.left = [m.left EXCEPT ![b] = k]
      /\ s = [list |-> s.list, time |-> s.time, rollover |-> s.rollover, left |-> s.left]
  BY <1>2 DEF Started
<1> HIDE DEF s, t
<1>5. s.list \in Links /\ Whole(s.list) /\ ToCome(s.list, y, V)
  BY <1>1, <1>4, InsertFacts, InsertWhole, ComeInsert
<1>6. Listed(s.list) = Listed(m.list) \cup {b}
  BY <1>1, <1>4, InsertFacts
<1>7. s \in Tables
  <2>1. s.time \in [Alarms -> Words] /\ s.left \in [Alarms -> Int]
    BY <1>1, <1>2, <1>3, <1>4
  <2>2. s.rollover \in [Alarms -> BOOLEAN]
    BY <1>1, <1>4
  <2> QED BY <1>4, <1>5, <2>1, <2>2 DEF Tables
<1>8. ASSUME NEW a \in Alarms
      PROVE  /\ a \in Listed(s.list) <=> s.left[a] # Off
             /\ a \in V \ X => Waiting(s.time[a], s.rollover[a], s.left[a], n)
             /\ a \in Listed(s.list) \ (V \cup X) =>
                  Asked(s.time[a], s.rollover[a], s.left[a], n)
  <2>1. CASE a = b
    <3>1. s.time[a] = t /\ s.rollover[a] = (t < n) /\ s.left[a] = k
      BY <1>1, <1>4, <2>1
    <3>2. a \notin V
      BY <1>1, <2>1 DEF ToCome
    <3>3. k # Off
      BY <1>2 DEF Off
    <3> QED BY <1>3, <1>6, <2>1, <3>1, <3>2, <3>3
  <2>2. CASE a # b
    <3>1. /\ s.time[a] = m.time[a] /\ s.rollover[a] = m.rollover[a]
          /\ s.left[a] = m.left[a]
      BY <1>1, <1>4, <2>2
    <3> QED BY <1>6, <2>2, <3>1 DEF Kept, Timed
  <2> QED BY <2>1, <2>2
<1> QED BY <1>5, <1>7, <1>8 DEF Kept, Timed, s

LEMMA StoppedKept ==
  ASSUME NEW n \in Words, NEW m, NEW y, NEW V, NEW X, Kept(m, n, y, V, X),
         NEW b \in Alarms, b # y, m.list.next[b] # None
  PROVE  /\ Kept(Stopped(m, b), n, y, V \ {b}, X)
         /\ b \notin Listed(Stopped(m, b).list)
<1> DEFINE s == Stopped(m, b)
<1>1. /\ m.list \in Links /\ m.time \in [Alarms -> Words]
      /\ m.rollover \in [Alarms -> BOOLEAN] /\ m.left \in [Alarms -> Int]
      /\ Whole(m.list) /\ ToCome(m.list, y, V)
  BY DEF Kept, Tables
<1>2. /\ s.list = LlistRemove(m.list, b) /\ s.time = m.time /\ s.rollover = m.rollover
      /\ s.left = [m.left EXCEPT ![b] = Off]
      /\ s = [list |-> s.list, time |-> s.time, rollover |-> s.rollover, left |-> s.left]
  BY DEF Stopped
<1> HIDE DEF s
<1>3. /\ s.list \in Links /\ Whole(s.list) /\ ToCome(s.list, y, V \ {b})
      /\ Listed(s.list) = Listed(m.list) \ {b}
  <2>1. CASE b \in Listed(m.list)
    BY <1>1, <1>2, <2>1, RemoveFacts, RemoveWhole, ComeRemove
  <2>2. CASE b \notin Listed(m.list)
    <3>1. s.list = m.list
      BY <1>1, <1>2, <2>2, RemoveOut
    <3>2. V \ {b} = V /\ Listed(m.list) \ {b} = Listed(m.list)
      BY <1>1, <2>2 DEF ToCome
    <3> QED BY <1>1, <3>1, <3>2
  <2> QED BY <2>1, <2>2
<1>4. s \in Tables
  <2>1. s.left \in [Alarms -> Int]
    BY <1>1, <1>2 DEF Off
  <2> QED BY <1>1, <1>2, <1>3, <2>1 DEF Tables
<1>5. ASSUME NEW a \in Alarms
      PROVE  /\ a \in Listed(s.list) <=> s.left[a] # Off
             /\ a \in (V \ {b}) \ X => Waiting(s.time[a], s.rollover[a], s.left[a], n)
             /\ a \in Listed(s.list) \ ((V \ {b}) \cup X) =>
                  Asked(s.time[a], s.rollover[a], s.left[a], n)
  <2>1. CASE a = b
    BY <1>1, <1>2, <1>3, <2>1
  <2>2. CASE a # b
    <3>1. s.left[a] = m.left[a]
      BY <1>1, <1>2, <2>2
    <3> QED BY <1>2, <1>3, <2>2, <3>1 DEF Kept, Timed
  <2> QED BY <2>1, <2>2
<1> QED BY <1>3, <1>4, <1>5 DEF Kept, Timed, s

(* The alarm called: stopped for good, or due again k ticks from now unless its
   callback stopped it. *)
Rolled(m, a, v) ==
  [list |-> m.list, time |-> m.time, rollover |-> [m.rollover EXCEPT ![a] = v],
   left |-> m.left]

Again(m, a, n, k) ==
  [list |-> m.list,
   time |-> [m.time EXCEPT ![a] = Add(n, k)],
   rollover |-> [m.rollover EXCEPT ![a] = (Add(n, k) < n)],
   left |-> [m.left EXCEPT ![a] = IF @ = Off THEN Off ELSE k]]

LEMMA RolledKept ==
  ASSUME NEW n, NEW m, NEW y, NEW V, NEW a \in Alarms,
         Kept(m, n, y, V, {a}), a \notin Listed(m.list), NEW v \in BOOLEAN
  PROVE  Kept(Rolled(m, a, v), n, y, V, {})
<1> DEFINE s == Rolled(m, a, v)
<1>1. /\ m \in Tables /\ m.rollover \in [Alarms -> BOOLEAN]
      /\ Whole(m.list) /\ ToCome(m.list, y, V)
  BY DEF Kept, Tables
<1>2. /\ s.list = m.list /\ s.time = m.time /\ s.left = m.left
      /\ s.rollover = [m.rollover EXCEPT ![a] = v]
      /\ s = [list |-> m.list, time |-> m.time, rollover |-> s.rollover, left |-> m.left]
  BY <1>1 DEF Rolled, Tables
<1> HIDE DEF s
<1>3. s.rollover \in [Alarms -> BOOLEAN]
  BY <1>1, <1>2
<1>4. s \in Tables
  BY <1>1, <1>2, <1>3 DEF Tables
<1>5. V \subseteq Listed(m.list)
  BY <1>1 DEF ToCome
<1>6. \A b \in Alarms : b # a => s.rollover[b] = m.rollover[b]
  BY <1>1, <1>2
<1>7. Timed(s, n, V, {})
  BY <1>2, <1>5, <1>6 DEF Kept, Timed
<1> QED BY <1>1, <1>2, <1>4, <1>7 DEF Kept, s

LEMMA AgainKept ==
  ASSUME NEW n \in Words, NEW m, NEW y, NEW V, NEW a \in Alarms,
         Kept(m, n, y, V, {a}), a \notin V, NEW k \in 1 .. WordMod - 1
  PROVE  Kept(Again(m, a, n, k), n, y, V, {})
<1> DEFINE s == Again(m, a, n, k)
           t == Add(n, k)
<1>1. /\ m.list \in Links /\ m.time \in [Alarms -> Words]
      /\ m.rollover \in [Alarms -> BOOLEAN] /\ m.left \in [Alarms -> Int]
      /\ Whole(m.list) /\ ToCome(m.list, y, V)
  BY DEF Kept, Tables
<1>2. /\ s.list = m.list /\ s.time = [m.time EXCEPT ![a] = t]
      /\ s.rollover = [m.rollover EXCEPT ![a] = (t < n)]
      /\ s.left = [m.left EXCEPT ![a] = IF @ = Off THEN Off ELSE k]
      /\ s = [list |-> s.list, time |-> s.time, rollover |-> s.rollover, left |-> s.left]
  BY DEF Again
<1>3. t \in Words /\ Asked(t, t < n, k, n)
  <2>1. k \in 0 .. WordMod - 1
    BY AlarmConstants
  <2> QED BY <2>1, AddIs, NewlyAsked
<1> HIDE DEF s, t
<1>4. s \in Tables
  <2>1. s.time \in [Alarms -> Words]
    BY <1>1, <1>2, <1>3
  <2>2. s.left \in [Alarms -> Int]
    <3>1. (IF m.left[a] = Off THEN Off ELSE k) \in Int
      BY <1>1 DEF Off
    <3> QED BY <1>1, <1>2, <3>1
  <2>3. s.rollover \in [Alarms -> BOOLEAN]
    BY <1>1, <1>2
  <2> QED BY <1>1, <1>2, <2>1, <2>2, <2>3 DEF Tables
<1>5. ASSUME NEW b \in Alarms
      PROVE  /\ b \in Listed(s.list) <=> s.left[b] # Off
             /\ b \in V \ {} => Waiting(s.time[b], s.rollover[b], s.left[b], n)
             /\ b \in Listed(s.list) \ (V \cup {}) =>
                  Asked(s.time[b], s.rollover[b], s.left[b], n)
  <2>1. CASE b = a
    <3>1. /\ s.time[b] = t /\ s.rollover[b] = (t < n)
          /\ s.left[b] = IF m.left[b] = Off THEN Off ELSE k
      BY <1>1, <1>2, <2>1
    <3>2. k # Off
      BY DEF Off
    <3>3. b \in Listed(m.list) <=> m.left[b] # Off
      BY DEF Kept, Timed
    <3> QED BY <1>2, <1>3, <2>1, <3>1, <3>2, <3>3
  <2>2. CASE b # a
    <3>1. /\ s.time[b] = m.time[b] /\ s.rollover[b] = m.rollover[b]
          /\ s.left[b] = m.left[b]
      BY <1>1, <1>2, <2>2
    <3> QED BY <1>2, <2>2, <3>1 DEF Kept, Timed
  <2> QED BY <2>1, <2>2
<1> QED BY <1>1, <1>2, <1>4, <1>5 DEF Kept, Timed, s

(* Whatever a callback does while its alarm is out of order, the tick can go on to
   the alarm after it, which no callback stops. *)
LEMMA EffectKept ==
  ASSUME NEW n \in Words, n = _alt_nticks,
         ~StopsNext, Delays \subseteq 0 .. WordMod - 2,
         alarm \in Alarms, NEW V, Kept(NoEffect, n, alarm, V, {}), NEW e \in Effects
  PROVE  \E W \in SUBSET Alarms :
           /\ Kept(e, n, list.next[alarm], W, {alarm}) /\ alarm \notin W
           /\ e.list.next[alarm] # None /\ e.time[alarm] = time[alarm]
           /\ alarm # list.next[alarm]
<1> DEFINE y == list.next[alarm]
           U == V \ {alarm}
<1>1. /\ list \in Links /\ time \in [Alarms -> Words] /\ Whole(list)
      /\ ToCome(list, alarm, V) /\ alarm \in V /\ alarm \in Listed(list)
      /\ V \subseteq Alarms
  BY DEF Kept, Tables, NoEffect, ToCome, Listed
<1>2. ToCome(list, y, U) /\ y # alarm /\ y \in Nodes
  BY <1>1, ComeNext
<1>3. Kept(NoEffect, n, y, U, {alarm})
  <2>1. NoEffect.list = list
    BY DEF NoEffect
  <2>2. Timed(NoEffect, n, U, {alarm})
    BY <1>1 DEF Kept, Timed
  <2> QED BY <1>2, <2>1, <2>2 DEF Kept
<1>4. list.next[alarm] # None
  BY <1>1 DEF Listed
<1> HIDE DEF y, U
<1>5. U \in SUBSET Alarms /\ alarm \notin U
  BY <1>1 DEF U
<1>6. ASSUME e = NoEffect
      PROVE  \E W \in SUBSET Alarms :
               /\ Kept(e, n, y, W, {alarm}) /\ alarm \notin W
               /\ e.list.next[alarm] # None /\ e.time[alarm] = time[alarm]
               /\ alarm # y
  <2>1. e.list = list /\ e.time = time
    BY <1>6 DEF NoEffect
  <2> QED BY <1>2, <1>3, <1>4, <1>5, <1>6, <2>1 DEF y
<1>7. ASSUME NEW b \in Stoppable, e = StopEffect(b)
      PROVE  \E W \in SUBSET Alarms :
               /\ Kept(e, n, y, W, {alarm}) /\ alarm \notin W
               /\ e.list.next[alarm] # None /\ e.time[alarm] = time[alarm]
               /\ alarm # y
  <2>1. b \in Alarms /\ list.next[b] # None /\ b # y
    BY <1>4 DEF Stoppable, y
  <2>2. e = Stopped(NoEffect, b) /\ e.time = time /\ e.list = LlistRemove(list, b)
    BY <1>7 DEF StopEffect, Stopped, NoEffect
  <2>3. Kept(e, n, y, U \ {b}, {alarm})
    <3>1. NoEffect.list.next[b] # None
      BY <2>1 DEF NoEffect
    <3> QED BY <1>3, <2>1, <2>2, <3>1, StoppedKept
  <2>4. e.list.next[alarm] # None
    <3>0. alarm \in Nodes /\ alarm \in OnRing(list)
      BY <1>1, AlarmConstants DEF OnRing
    <3>1. CASE b \in Listed(list)
      <4>1. e.list.next[alarm] =
              IF alarm = b THEN b
              ELSE IF alarm = list.prev[b] THEN list.next[b] ELSE list.next[alarm]
        BY <1>1, <2>2, <3>0, <3>1, RemoveFacts
      <4> QED BY <1>4, <2>1, <4>1, AlarmConstants
    <3>2. CASE b \notin Listed(list)
      BY <1>1, <1>4, <2>1, <2>2, <3>2, RemoveOut
    <3> QED BY <3>1, <3>2
  <2>5. U \ {b} \in SUBSET Alarms /\ alarm \notin U \ {b}
    BY <1>5
  <2> QED BY <1>2, <2>2, <2>3, <2>4, <2>5
<1>8. ASSUME NEW b \in Alarms \ (Listed(list) \cup {alarm}), NEW d \in Delays,
             e = StartEffect(b, d)
      PROVE  \E W \in SUBSET Alarms :
               /\ Kept(e, n, y, W, {alarm}) /\ alarm \notin W
               /\ e.list.next[alarm] # None /\ e.time[alarm] = time[alarm]
               /\ alarm # y
  <2>1. b \in Alarms /\ b \notin Listed(list) /\ b # alarm /\ d \in 0 .. WordMod - 2
    OBVIOUS
  <2>2. e = Started(NoEffect, b, n, d)
    BY <1>8 DEF StartEffect, Started, NoEffect, DueTime
  <2>3. Kept(e, n, y, U, {alarm})
    <3>1. b \notin Listed(NoEffect.list) /\ b \notin {alarm}
      BY <2>1 DEF NoEffect
    <3> QED BY <1>3, <2>1, <2>2, <3>1, StartedKept
  <2>4. e.list = LlistInsert(list, b) /\ e.time[alarm] = time[alarm]
    BY <1>1, <1>8, <2>1 DEF StartEffect
  <2>5. e.list.next[alarm] = list.next[alarm]
    <3>1. alarm \in Nodes /\ alarm # ListHead
      BY AlarmConstants
    <3> QED BY <1>1, <2>1, <2>4, <3>1, InsertFacts
  <2> QED BY <1>2, <1>4, <1>5, <2>3, <2>4, <2>5
<1>9. \/ e = NoEffect
      \/ \E b \in Stoppable : e = StopEffect(b)
      \/ \E b \in Alarms \ (Listed(list) \cup {alarm}), d \in Delays : e = StartEffect(b, d)
  BY DEF Effects
<1>10. \E W \in SUBSET Alarms :
         /\ Kept(e, n, y, W, {alarm}) /\ alarm \notin W
         /\ e.list.next[alarm] # None /\ e.time[alarm] = time[alarm]
         /\ alarm # y
  BY <1>6, <1>7, <1>8, <1>9, Zenon
<1> QED BY <1>10 DEF y

LEMMA AlarmStart == Init => AInv
<1> SUFFICES ASSUME Init PROVE AInv
  OBVIOUS
<1>1. /\ _alt_nticks = 0 /\ alarm = None
      /\ list = [next |-> Unlinked, prev |-> Unlinked]
      /\ time = [a \in Alarms |-> 0] /\ rollover = [a \in Alarms |-> FALSE]
      /\ left = [a \in Alarms |-> Off]
  BY DEF Init
<1>2. /\ \A x \in Nodes : Unlinked[x] = IF x = ListHead THEN ListHead ELSE None
      /\ Unlinked \in [Nodes -> Nodes \cup {None}]
  BY AlarmConstants DEF Unlinked
<1>3. list.next = Unlinked /\ list.prev = Unlinked /\ list \in Links
  BY <1>1, <1>2 DEF Links
<1>4. Listed(list) = {}
  BY <1>2, <1>3, AlarmConstants DEF Listed
<1>5. Whole(list)
  BY <1>2, <1>3, <1>4, AlarmConstants DEF Whole, OnRing
<1>6. NoEffect \in Tables
  BY <1>1, <1>3, AlarmConstants DEF NoEffect, Tables, Off
<1>7. ToCome(list, alarm, {})
  BY <1>1, AlarmConstants DEF ToCome
<1>8. Timed(NoEffect, _alt_nticks, {}, {})
  BY <1>1, <1>4 DEF Timed, NoEffect
<1>9. Kept(NoEffect, _alt_nticks, alarm, {}, {})
  <2>1. NoEffect.list = list
    BY DEF NoEffect
  <2> QED BY <1>5, <1>6, <1>7, <1>8, <2>1 DEF Kept
<1> QED BY <1>1, <1>9, AlarmConstants DEF AInv

(* The invariant with its witness. *)
LEMMA AlarmState ==
  ASSUME AInv
  PROVE  /\ _alt_nticks \in Words /\ alarm \in Nodes \cup {None}
         /\ \E V \in SUBSET Alarms : Kept(NoEffect, _alt_nticks, alarm, V, {})
         /\ list \in Links /\ Whole(list)
         /\ time \in [Alarms -> Words] /\ rollover \in [Alarms -> BOOLEAN]
         /\ left \in [Alarms -> Int]
BY DEF AInv, Kept, Tables, NoEffect

LEMMA StartKeeps ==
  ASSUME AInv, NEW a \in Alarms, NEW d \in 0 .. WordMod - 2, Start(a, d)
  PROVE  AInv'
<1>1. PICK V \in SUBSET Alarms : Kept(NoEffect, _alt_nticks, alarm, V, {})
  BY AlarmState
<1>2. /\ a \notin Listed(NoEffect.list) /\ _alt_nticks' = _alt_nticks /\ alarm' = alarm
      /\ NoEffect' = Started(NoEffect, a, _alt_nticks, d)
  BY DEF Start, NoEffect, Started, DueTime
<1>3. Kept(NoEffect', _alt_nticks, alarm, V, {})
  BY <1>1, <1>2, StartedKept, AlarmState
<1>4. Kept(NoEffect', _alt_nticks', alarm', V, {})
  BY <1>2, <1>3
<1> QED BY <1>2, <1>4, AlarmState DEF AInv

LEMMA StopKeeps ==
  ASSUME AInv, NEW a \in Alarms, Stop(a)
  PROVE  AInv'
<1>1. PICK V \in SUBSET Alarms : Kept(NoEffect, _alt_nticks, alarm, V, {})
  BY AlarmState
<1>2. /\ NoEffect.list.next[a] # None /\ _alt_nticks' = _alt_nticks /\ alarm' = alarm
      /\ NoEffect' = Stopped(NoEffect, a) /\ a # alarm
  BY AlarmConstants DEF Stop, NoEffect, Stopped
<1>3. Kept(NoEffect', _alt_nticks, alarm, V \ {a}, {})
  BY <1>1, <1>2, StoppedKept, AlarmState
<1>4. Kept(NoEffect', _alt_nticks', alarm', V \ {a}, {}) /\ V \ {a} \in SUBSET Alarms
  BY <1>2, <1>3
<1> QED BY <1>2, <1>4, AlarmState DEF AInv

(* A tick begins: every alarm that is listed is still to come. *)
LEMMA TickBeginKeeps ==
  ASSUME AInv, TickBegin
  PROVE  AInv'
<1> DEFINE L == Listed(list)
           n == Add(_alt_nticks, 1)
<1>1. PICK V \in SUBSET Alarms : Kept(NoEffect, _alt_nticks, alarm, V, {})
  BY AlarmState
<1>2. /\ alarm = None /\ _alt_nticks' = n /\ alarm' = list.next[ListHead]
      /\ left' = [a \in Alarms |-> IF left[a] = Off THEN Off ELSE left[a] - 1]
      /\ UNCHANGED <<list, time, rollover>>
  BY DEF TickBegin
<1>3. V = {}
  BY <1>1, <1>2, AlarmConstants DEF Kept, ToCome
<1>4. \A a \in Alarms :
        /\ a \in L <=> left[a] # Off
        /\ a \in L => Asked(time[a], rollover[a], left[a], _alt_nticks)
  BY <1>1, <1>3 DEF Kept, Timed, NoEffect
<1>5. ToCome(list, list.next[ListHead], L) /\ list.next[ListHead] \in Nodes
  BY AlarmState, ComeStart
<1>6. n \in Words
  <2>1. 1 \in 0 .. WordMod - 1
    BY AlarmConstants
  <2> QED BY <2>1, AlarmState, AddIs
<1>7. NoEffect' = [list |-> list, time |-> time, rollover |-> rollover, left |-> left']
  BY <1>2 DEF NoEffect
<1>8. left' \in [Alarms -> Int]
  BY <1>2, AlarmState DEF Off
<1>9. NoEffect' \in Tables
  BY <1>7, <1>8, AlarmState DEF Tables
<1> HIDE DEF n
<1>10. ASSUME NEW a \in Alarms
       PROVE  /\ a \in L <=> left'[a] # Off
              /\ a \in L => Waiting(time[a], rollover[a], left'[a], n)
  <2>1. CASE a \in L
    <3>1. Asked(time[a], rollover[a], left[a], _alt_nticks) /\ left[a] # Off
      BY <1>4, <2>1
    <3>2. PICK k \in 1 .. WordMod - 1 : k = left[a]
      BY <3>1 DEF Asked
    <3>3. left'[a] = k - 1
      BY <1>2, <3>1, <3>2
    <3>4. k - 1 # Off
      BY DEF Off
    <3>5. time[a] \in Words /\ rollover[a] \in BOOLEAN /\ k \in Int /\ _alt_nticks \in Words
      BY AlarmState
    <3>6. Asked(time[a], rollover[a], k, _alt_nticks)
      BY <3>1, <3>2
    <3>7. Waiting(time[a], rollover[a], k - 1, n)
      BY <3>5, <3>6, TickWaits DEF n
    <3> QED BY <2>1, <3>3, <3>4, <3>7
  <2>2. CASE a \notin L
    BY <1>2, <1>4, <2>2
  <2> QED BY <2>1, <2>2
<1>11. Timed(NoEffect', n, L, {})
  BY <1>7, <1>10 DEF Timed
<1>12. Kept(NoEffect', n, list.next[ListHead], L, {})
  BY <1>5, <1>7, <1>9, <1>11, AlarmState DEF Kept
<1>13. L \in SUBSET Alarms
  BY DEF Listed
<1> QED BY <1>2, <1>5, <1>6, <1>12, <1>13 DEF AInv

(* The alarm the tick is at waits; if it has expired it is due now. *)
LEMMA AtAlarm ==
  ASSUME AInv, alarm \in Alarms, NEW V, Kept(NoEffect, _alt_nticks, alarm, V, {})
  PROVE  /\ alarm \in V /\ alarm \in Listed(list)
         /\ Waiting(time[alarm], rollover[alarm], left[alarm], _alt_nticks)
         /\ Expired(alarm) => left[alarm] = 0 /\ time[alarm] = _alt_nticks
         /\ ~Expired(alarm) =>
              Asked(time[alarm], StillHeld(alarm), left[alarm], _alt_nticks)
<1>1. alarm \in V /\ alarm \in Listed(list)
  BY DEF Kept, ToCome, NoEffect
<1>2. Waiting(time[alarm], rollover[alarm], left[alarm], _alt_nticks)
  BY <1>1 DEF Kept, Timed, NoEffect
<1>3. /\ time[alarm] \in Words /\ rollover[alarm] \in BOOLEAN /\ left[alarm] \in Int
      /\ _alt_nticks \in Words
  BY AlarmState
<1> QED BY <1>1, <1>2, <1>3, Expires DEF Expired, StillHeld

LEMMA PassKeeps ==
  ASSUME AInv, Pass
  PROVE  AInv'
<1>1. PICK V \in SUBSET Alarms : Kept(NoEffect, _alt_nticks, alarm, V, {})
  BY AlarmState
<1>2. /\ alarm \in Alarms /\ ~Expired(alarm)
      /\ rollover' = [rollover EXCEPT ![alarm] = StillHeld(alarm)]
      /\ alarm' = list.next[alarm]
      /\ UNCHANGED <<_alt_nticks, list, time, left>>
  BY DEF Pass
<1>3. /\ alarm \in V /\ alarm \in Listed(list)
      /\ Asked(time[alarm], StillHeld(alarm), left[alarm], _alt_nticks)
  BY <1>1, <1>2, AtAlarm
<1>4. ToCome(list, alarm, V)
  BY <1>1 DEF Kept, NoEffect
<1>5. ToCome(list, list.next[alarm], V \ {alarm}) /\ list.next[alarm] \in Nodes
  BY <1>2, <1>4, AlarmState, ComeNext
<1>6. NoEffect' = [list |-> list, time |-> time, rollover |-> rollover', left |-> left]
  BY <1>2 DEF NoEffect
<1>7. StillHeld(alarm) \in BOOLEAN
  BY <1>2, AlarmState DEF StillHeld
<1>8. rollover' \in [Alarms -> BOOLEAN] /\ NoEffect' \in Tables
  BY <1>2, <1>6, <1>7, AlarmState DEF Tables
<1>9. ASSUME NEW a \in Alarms
      PROVE  /\ a \in Listed(list) <=> left[a] # Off
             /\ a \in V \ {alarm} => Waiting(time[a], rollover'[a], left[a], _alt_nticks)
             /\ a \in Listed(list) \ (V \ {alarm}) =>
                  Asked(time[a], rollover'[a], left[a], _alt_nticks)
  <2>0. /\ a \in Listed(list) <=> left[a] # Off
        /\ a \in V => Waiting(time[a], rollover[a], left[a], _alt_nticks)
        /\ a \in Listed(list) \ V => Asked(time[a], rollover[a], left[a], _alt_nticks)
    BY <1>1 DEF Kept, Timed, NoEffect
  <2>1. CASE a = alarm
    <3>1. rollover'[a] = StillHeld(alarm)
      BY <1>2, <2>1, AlarmState
    <3> QED BY <1>3, <2>0, <2>1, <3>1
  <2>2. CASE a # alarm
    <3>1. rollover'[a] = rollover[a]
      BY <1>2, <2>2, AlarmState
    <3> QED BY <2>0, <2>2, <3>1
  <2> QED BY <2>1, <2>2
<1>10. Timed(NoEffect', _alt_nticks, V \ {alarm}, {})
  BY <1>6, <1>9 DEF Timed
<1>11. Kept(NoEffect', _alt_nticks', alarm', V \ {alarm}, {})
  BY <1>2, <1>5, <1>6, <1>8, <1>10, AlarmState DEF Kept
<1> QED BY <1>2, <1>5, <1>11, AlarmState DEF AInv

LEMMA CallBackLastKeeps ==
  ASSUME AInv, ~StopsNext, Delays \subseteq 0 .. WordMod - 2, CallBackLast
  PROVE  AInv'
<1> DEFINE y == list.next[alarm]
<1>1. PICK V \in SUBSET Alarms : Kept(NoEffect, _alt_nticks, alarm, V, {})
  BY AlarmState
<1>2. alarm \in Alarms /\ alarm' = y /\ _alt_nticks' = _alt_nticks
  BY DEF CallBackLast
<1>3. PICK e \in Effects :
        /\ list' = LlistRemove(e.list, alarm)
        /\ time' = e.time
        /\ rollover' = [e.rollover EXCEPT ![alarm] = FALSE]
        /\ left' = [e.left EXCEPT ![alarm] = Off]
  BY DEF CallBackLast
<1>4. PICK W \in SUBSET Alarms :
        /\ Kept(e, _alt_nticks, y, W, {alarm}) /\ alarm \notin W
        /\ e.list.next[alarm] # None /\ alarm # y
  BY <1>1, <1>2, AlarmState, EffectKept
<1>5. /\ Kept(Stopped(e, alarm), _alt_nticks, y, W \ {alarm}, {alarm})
      /\ alarm \notin Listed(Stopped(e, alarm).list)
  BY <1>2, <1>4, AlarmState, StoppedKept
<1>6. Kept(Rolled(Stopped(e, alarm), alarm, FALSE), _alt_nticks, y, W \ {alarm}, {})
  BY <1>2, <1>5, RolledKept
<1>7. NoEffect' = Rolled(Stopped(e, alarm), alarm, FALSE)
  <2>1. NoEffect' = [list |-> LlistRemove(e.list, alarm), time |-> e.time,
                     rollover |-> [e.rollover EXCEPT ![alarm] = FALSE],
                     left |-> [e.left EXCEPT ![alarm] = Off]]
    BY <1>3 DEF NoEffect
  <2>2. /\ Stopped(e, alarm).list = LlistRemove(e.list, alarm)
        /\ Stopped(e, alarm).rollover = e.rollover /\ Stopped(e, alarm).time = e.time
        /\ Stopped(e, alarm).left = [e.left EXCEPT ![alarm] = Off]
    BY DEF Stopped
  <2>3. Rolled(Stopped(e, alarm), alarm, FALSE) =
          [list |-> Stopped(e, alarm).list, time |-> Stopped(e, alarm).time,
           rollover |-> [Stopped(e, alarm).rollover EXCEPT ![alarm] = FALSE],
           left |-> Stopped(e, alarm).left]
    BY DEF Rolled, Stopped
  <2> QED BY <2>1, <2>2, <2>3, Zenon
<1>8. y \in Nodes
  <2>1. ToCome(list, alarm, V)
    BY <1>1 DEF Kept, NoEffect
  <2> QED BY <1>2, <2>1, AlarmState, ComeNext
<1>9. Kept(NoEffect', _alt_nticks', alarm', W \ {alarm}, {}) /\ W \ {alarm} \in SUBSET Alarms
  BY <1>2, <1>6, <1>7
<1> QED BY <1>2, <1>8, <1>9, AlarmState DEF AInv

LEMMA CallBackAgainKeeps ==
  ASSUME AInv, ~StopsNext, Delays \subseteq 0 .. WordMod - 2,
         NEW p \in Periods \ {0}, CallBackAgain(p)
  PROVE  AInv'
<1> DEFINE y == list.next[alarm]
           n == _alt_nticks
<1>1. PICK V \in SUBSET Alarms : Kept(NoEffect, _alt_nticks, alarm, V, {})
  BY AlarmState
<1>2. alarm \in Alarms /\ alarm' = y /\ _alt_nticks' = _alt_nticks /\ Expired(alarm)
  BY DEF CallBackAgain
<1>3. PICK e \in Effects :
        /\ list' = e.list
        /\ time' = [e.time EXCEPT ![alarm] = Add(@, p)]
        /\ rollover' = [e.rollover EXCEPT ![alarm] = (Add(time[alarm], p) < _alt_nticks)]
        /\ left' = [e.left EXCEPT ![alarm] = IF @ = Off THEN Off ELSE p]
  BY DEF CallBackAgain
<1>4. PICK W \in SUBSET Alarms :
        /\ Kept(e, _alt_nticks, y, W, {alarm}) /\ alarm \notin W
        /\ e.time[alarm] = time[alarm]
  BY <1>1, <1>2, AlarmState, EffectKept
<1>5. p \in 1 .. WordMod - 1
  BY AlarmAssumption DEF Words
<1>6. Kept(Again(e, alarm, n, p), n, y, W, {})
  BY <1>2, <1>4, <1>5, AlarmState, AgainKept
<1>7. time[alarm] = n
  BY <1>1, <1>2, AtAlarm
<1>8. NoEffect' = Again(e, alarm, n, p)
  BY <1>3, <1>4, <1>7 DEF NoEffect, Again
<1>9. y \in Nodes
  <2>1. ToCome(list, alarm, V)
    BY <1>1 DEF Kept, NoEffect
  <2> QED BY <1>2, <2>1, AlarmState, ComeNext
<1>10. Kept(NoEffect', _alt_nticks', alarm', W, {})
  BY <1>2, <1>6, <1>8
<1> QED BY <1>2, <1>9, <1>10, AlarmState DEF AInv

LEMMA AlarmRests ==
  ASSUME AInv, NoEffect' = NoEffect, _alt_nticks' = _alt_nticks,
         alarm' = alarm \/ (alarm = ListHead /\ alarm' = None)
  PROVE  AInv'
<1>1. PICK V \in SUBSET Alarms : Kept(NoEffect, _alt_nticks, alarm, V, {})
  BY AlarmState
<1>2. Kept(NoEffect', _alt_nticks', alarm', V, {})
  BY <1>1, AlarmConstants DEF Kept, ToCome
<1> QED BY <1>2, AlarmState DEF AInv

LEMMA AlarmStep ==
  ASSUME ~StopsNext, Delays \subseteq 0 .. WordMod - 2
  PROVE  AInv /\ [Next]_vars => AInv'
<1> SUFFICES ASSUME AInv, [Next]_vars PROVE AInv'
  OBVIOUS
<1>1. CASE SysclkInit(1)
  BY <1>1, AlarmRests DEF SysclkInit, NoEffect
<1>2. ASSUME NEW a \in Alarms, Stop(a) PROVE AInv'
  BY <1>2, StopKeeps
<1>3. ASSUME NEW a \in Alarms, NEW d \in Delays, Start(a, d) PROVE AInv'
  BY <1>3, StartKeeps
<1>4. CASE TickBegin
  BY <1>4, TickBeginKeeps
<1>5. CASE Pass
  BY <1>5, PassKeeps
<1>6. CASE CallBack
  BY <1>6, CallBackLastKeeps, CallBackAgainKeeps DEF CallBack
<1>7. CASE TickEnd
  BY <1>7, AlarmRests DEF TickEnd, NoEffect
<1>8. CASE UNCHANGED vars
  BY <1>8, AlarmRests DEF vars, NoEffect
<1> QED BY <1>1, <1>2, <1>3, <1>4, <1>5, <1>6, <1>7, <1>8 DEF Next, Visit

LEMMA AlarmImplies == AInv => AlarmInv
<1> SUFFICES ASSUME AInv PROVE AlarmInv
  OBVIOUS
<1>1. PICK V \in SUBSET Alarms : Kept(NoEffect, _alt_nticks, alarm, V, {})
  BY AlarmState
<1>2. ListWhole
  BY AlarmState DEF ListWhole, Whole, OnRing
<1>3. DueAsAsked
  <2> SUFFICES ASSUME alarm = None, NEW a \in Alarms
               PROVE  /\ a \in Listed(list) <=> left[a] # Off
                      /\ a \in Listed(list) =>
                           /\ left[a] > 0 /\ left[a] = (time[a] - _alt_nticks) % WordMod
                           /\ rollover[a] <=> time[a] < _alt_nticks
    BY DEF DueAsAsked
  <2>1. V = {}
    BY <1>1, AlarmConstants DEF Kept, ToCome
  <2>2. /\ a \in Listed(list) <=> left[a] # Off
        /\ a \in Listed(list) => Asked(time[a], rollover[a], left[a], _alt_nticks)
    BY <1>1, <2>1 DEF Kept, Timed, NoEffect
  <2>3. (time[a] - _alt_nticks) % WordMod = Gap(time[a], _alt_nticks)
    <3>1. time[a] \in Words /\ _alt_nticks \in Words
      BY AlarmState
    <3> QED BY <3>1, GapIs
  <2>4. ASSUME a \in Listed(list)
        PROVE  /\ left[a] > 0 /\ left[a] = Gap(time[a], _alt_nticks)
               /\ rollover[a] <=> time[a] < _alt_nticks
    BY <2>2, <2>4, AlarmConstants DEF Asked
  <2> QED BY <2>2, <2>3, <2>4
<1> QED BY <1>2, <1>3 DEF AlarmInv

(* Unless a callback stops the alarm after its own or one is started with the
   longest delay, the list is whole and every alarm is due when it was asked to be,
   for any number of alarms and any word. *)
THEOREM AlarmCorrect ==
  ASSUME ~StopsNext, Delays \subseteq 0 .. WordMod - 2
  PROVE  Spec => []AlarmInv
<1>1. Init => AInv
  BY AlarmStart
<1>2. AInv /\ [Next]_vars => AInv'
  BY AlarmStep
<1>3. AInv => AlarmInv
  BY AlarmImplies
<1> QED BY <1>1, <1>2, <1>3, PTL DEF Spec

(* Then a callback is made at the tick that was asked for, and none is left out. *)
THEOREM CalledOnTime ==
  ASSUME ~StopsNext, Delays \subseteq 0 .. WordMod - 2
  PROVE  Spec => OnTime
<1> DEFINE Step1 == /\ CallBack => left[alarm] = 0
                    /\ TickBegin => \A a \in Alarms : left[a] # 0
<1>1. Init => AInv
  BY AlarmStart
<1>2. AInv /\ [Next]_vars => AInv'
  BY AlarmStep
<1>3. AInv => Step1
  <2> SUFFICES ASSUME AInv PROVE Step1
    OBVIOUS
  <2>1. PICK V \in SUBSET Alarms : Kept(NoEffect, _alt_nticks, alarm, V, {})
    BY AlarmState
  <2>2. ASSUME CallBack PROVE left[alarm] = 0
    <3>1. alarm \in Alarms /\ Expired(alarm)
      BY <2>2 DEF CallBack, CallBackLast, CallBackAgain
    <3> QED BY <2>1, <3>1, AtAlarm
  <2>3. ASSUME TickBegin, NEW a \in Alarms PROVE left[a] # 0
    <3>1. V = {}
      BY <2>1, <2>3, AlarmConstants DEF Kept, ToCome, TickBegin
    <3>2. \/ left[a] = Off
          \/ Asked(time[a], rollover[a], left[a], _alt_nticks)
      BY <2>1, <3>1 DEF Kept, Timed, NoEffect
    <3> QED BY <3>2 DEF Off, Asked
  <2> QED BY <2>2, <2>3
<1> QED BY <1>1, <1>2, <1>3, PTL DEF Spec, OnTime

-----------------------------------------------------------------------------
(* AltConsole.  Numbers first: their digits, as the documentation has them and
   as each of the two formatters makes them. *)
LEMMA SmallerQuotient ==
  ASSUME NEW base \in Nat \ {0, 1}, NEW v \in Nat
  PROVE  /\ v \div base \in Nat
         /\ v % base \in 0 .. base - 1
         /\ v < base <=> v \div base = 0
         /\ v < base => v % base = v
         /\ v >= base => v \div base < v
<1>1. base \in Nat \ {0}
  OBVIOUS
<1>2. PICK q \in Nat, r \in 0 .. base - 1 :
        q = v \div base /\ r = v % base /\ v = base * q + r
  BY <1>1, DivMod, NatDiv
<1>3. CASE q = 0
  <2>1. base * q = 0
    BY <1>3
  <2> QED BY <1>2, <1>3, <2>1
<1>4. CASE q # 0
  <2>1. base * 1 <= base * q /\ base * 1 = base
    BY <1>1, <1>4, ProductOrder
  <2>2. q * 2 <= q * base
    BY <1>4, ProductOrder
  <2>3. q * base = base * q
    OBVIOUS
  <2> QED BY <1>2, <1>4, <2>1, <2>2, <2>3
<1> QED BY <1>3, <1>4

(* One by one: what a digit puts in front of a text or behind it. *)
Before(c, s) == <<c>> \o s
Behind(s, c) == Append(s, c)
Signs(digits) == {digits[k] : k \in Nat}

LEMMA OneDigit ==
  ASSUME NEW S, NEW c \in S
  PROVE  <<c>> \in Seq(S) /\ Len(<<c>>) = 1 /\ <<>> \in Seq(S)
OBVIOUS

LEMMA DigitTypes ==
  ASSUME NEW S, NEW s \in Seq(S), NEW c \in S
  PROVE  /\ <<c>> \in Seq(S) /\ Len(<<c>>) = 1 /\ <<>> \in Seq(S)
         /\ Before(c, s) \in Seq(S) /\ Len(Before(c, s)) = Len(s) + 1
         /\ Behind(s, c) \in Seq(S) /\ Len(Behind(s, c)) = Len(s) + 1
<1>1. <<c>> \in Seq(S) /\ Len(<<c>>) = 1 /\ <<>> \in Seq(S)
  OBVIOUS
<1> QED BY <1>1, ConsParts, AppendProperties DEF Before, Behind

Either(b, s, c) == Behind(Before(b, s), c) = Before(b, Behind(s, c))

LEMMA BeforeAndBehind ==
  ASSUME NEW S, NEW s \in Seq(S), NEW b \in S, NEW c \in S
  PROVE  /\ Either(b, s, c)
         /\ Behind(<<b>>, c) = Before(b, <<c>>)
         /\ Before(b, <<>>) = <<b>>
<1>1. <<b>> \in Seq(S) /\ <<c>> \in Seq(S) /\ <<>> \in Seq(S)
  OBVIOUS
<1>2. PICK t \in Seq(S) : t = Before(b, s)
  BY DigitTypes
<1>3. Append(t, c) = t \o <<c>> /\ Append(s, c) = s \o <<c>> /\ Append(<<b>>, c) = <<b>> \o <<c>>
  BY <1>1, AppendIsConcat
<1>4. (<<b>> \o s) \o <<c>> = <<b>> \o (s \o <<c>>)
  BY <1>1, ConcatAssociative
<1>5. <<b>> \o <<>> = <<b>>
  BY <1>1, ConcatEmptySeq
<1> QED BY <1>2, <1>3, <1>4, <1>5 DEF Before, Behind, Either

LEMMA NumeralDef ==
  ASSUME NEW base \in Nat \ {0, 1}, NEW digits
  PROVE  \A v \in Nat :
           Numeral(v, base, digits) =
             IF v < base THEN <<digits[v + 1]>>
             ELSE Behind(Numeral(v \div base, base, digits), digits[(v % base) + 1])
<1> DEFINE S == Signs(digits)
           first == [n \in Nat |-> <<digits[n + 1]>>]
           step == [p \in Nat \X Seq(S) |-> Behind(p[2], digits[(p[1] % base) + 1])]
           before == [n \in Nat |-> n \div base]
           F(g) == [n \in Nat |-> IF n < base THEN <<digits[n + 1]>>
                                  ELSE Behind(g[n \div base], digits[(n % base) + 1])]
           Rec == CHOOSE g : g = F(g)
<1>1. \A v \in Nat : Numeral(v, base, digits) = Rec[v]
  BY DEF Numeral, Behind
<1>2. \A n \in Nat : digits[n + 1] \in S /\ digits[(n % base) + 1] \in S /\ n \div base \in Nat
  <2> SUFFICES ASSUME NEW n \in Nat
               PROVE digits[n + 1] \in S /\ digits[(n % base) + 1] \in S /\ n \div base \in Nat
    OBVIOUS
  <2>1. n + 1 \in Nat /\ (n % base) + 1 \in Nat /\ n \div base \in Nat
    BY SmallerQuotient
  <2> QED BY <2>1 DEF Signs
<1> HIDE DEF S
<1>3. first \in [Nat -> Seq(S)]
  <2>1. \A n \in Nat : <<digits[n + 1]>> \in Seq(S)
    BY <1>2, OneDigit
  <2> QED BY <2>1
<1>4. step \in [Nat \X Seq(S) -> Seq(S)]
  <2>1. \A p \in Nat \X Seq(S) : p[1] \in Nat /\ p[2] \in Seq(S)
    OBVIOUS
  <2>2. \A p \in Nat \X Seq(S) : Behind(p[2], digits[(p[1] % base) + 1]) \in Seq(S)
    BY <1>2, <2>1, DigitTypes
  <2> QED BY <2>2
<1>5. before \in [Nat -> Nat] /\ \A n \in Nat : n >= base => before[n] < n
  BY SmallerQuotient
<1>6. /\ \A n \in Nat : first[n] = <<digits[n + 1]>> /\ before[n] = n \div base
      /\ \A n \in Nat, s \in Seq(S) : step[<<n, s>>] = Behind(s, digits[(n % base) + 1])
  OBVIOUS
<1> HIDE DEF first, step, before
<1>7. PICK f \in [Nat -> Seq(S)] : Recurs(f, base, first, step, before)
  <2>1. base \in Nat \ {0}
    OBVIOUS
  <2> QED BY <1>3, <1>4, <1>5, <2>1, RecursiveFunction
<1>8. ASSUME NEW n \in Nat
      PROVE  f[n] = IF n < base THEN <<digits[n + 1]>>
                    ELSE Behind(f[n \div base], digits[(n % base) + 1])
  <2>1. f[n] = IF n < base THEN first[n] ELSE step[<<n, f[before[n]]>>]
    BY <1>7 DEF Recurs
  <2>2. n \div base \in Nat /\ f[n \div base] \in Seq(S)
    BY <1>2
  <2> QED BY <1>6, <2>1, <2>2
<1>9. f = F(f)
  <2>1. f = [n \in Nat |-> f[n]]
    OBVIOUS
  <2> QED BY <1>8, <2>1
<1> HIDE DEF F
<1>10. Rec = F(Rec)
  BY <1>9
<1> HIDE DEF Rec
<1>11. \A v \in Nat : v \div base \in Nat
  BY <1>2
<1> QED BY <1>1, <1>10, <1>11 DEF F

LEMMA CountDef ==
  ASSUME NEW base \in Nat \ {0, 1}
  PROVE  \A v \in Nat :
           /\ CountDigits(v, base) \in Nat \X Nat
           /\ CountDigits(v, base) =
                IF v < base THEN <<1, 1>>
                ELSE <<CountDigits(v \div base, base)[1] + 1,
                       CountDigits(v \div base, base)[2] * base>>
<1> DEFINE T == Nat \X Nat
           More(t) == <<t[1] + 1, t[2] * base>>
           first == [n \in Nat |-> <<1, 1>>]
           step == [p \in Nat \X T |-> More(p[2])]
           before == [n \in Nat |-> n \div base]
           F(g) == [s \in Nat |-> IF s \div base = 0 THEN <<1, 1>>
                                  ELSE <<g[s \div base][1] + 1, g[s \div base][2] * base>>]
           Rec == CHOOSE g : g = F(g)
<1>1. \A v \in Nat : CountDigits(v, base) = Rec[v]
  BY DEF CountDigits
<1>2. \A n \in Nat : n \div base \in Nat /\ (n < base <=> n \div base = 0)
  BY SmallerQuotient
<1>3. <<1, 1>> \in T /\ \A t \in T : More(t) \in T
  <2>1. \A t \in T : t[1] + 1 \in Nat /\ t[2] * base \in Nat
    OBVIOUS
  <2> QED BY <2>1
<1>4. first \in [Nat -> T] /\ step \in [Nat \X T -> T]
  BY <1>3
<1>5. before \in [Nat -> Nat] /\ \A n \in Nat : n >= base => before[n] < n
  BY SmallerQuotient
<1>6. /\ \A n \in Nat : first[n] = <<1, 1>> /\ before[n] = n \div base
      /\ \A n \in Nat, t \in T : step[<<n, t>>] = More(t)
  OBVIOUS
<1> HIDE DEF first, step, before
<1>7. PICK f \in [Nat -> T] : Recurs(f, base, first, step, before)
  <2>1. base \in Nat \ {0}
    OBVIOUS
  <2> QED BY <1>4, <1>5, <2>1, RecursiveFunction
<1>8. ASSUME NEW n \in Nat
      PROVE  f[n] = IF n \div base = 0 THEN <<1, 1>> ELSE More(f[n \div base])
  <2>1. f[n] = IF n < base THEN first[n] ELSE step[<<n, f[before[n]]>>]
    BY <1>7 DEF Recurs
  <2>2. n \div base \in Nat /\ f[n \div base] \in T
    BY <1>2
  <2> HIDE DEF T, More
  <2> QED BY <1>2, <1>6, <2>1, <2>2
<1>9. f = F(f)
  <2>1. f = [n \in Nat |-> f[n]]
    OBVIOUS
  <2> QED BY <1>8, <2>1
<1> DEFINE Counts(g) == \A n \in Nat :
             g[n] = IF n < base THEN <<1, 1>> ELSE More(g[n \div base])
<1>10. \A g : g = F(g) => Counts(g)
  BY <1>2
<1> HIDE DEF F, Counts
<1>11. Rec = F(Rec)
  BY <1>9
<1> HIDE DEF Rec, More, T
<1>12. \A n \in Nat : Rec[n] = IF n < base THEN <<1, 1>> ELSE More(Rec[n \div base])
  BY <1>10, <1>11 DEF Counts
<1> DEFINE U == {n \in Nat : Rec[n] \in T}
<1>13. ASSUME NEW n \in Nat, \A m \in 0 .. n - 1 : m \in U
       PROVE  n \in U
  <2>1. CASE n < base
    BY <1>3, <1>12, <2>1
  <2>2. CASE n >= base
    <3>1. n \div base \in 0 .. n - 1
      <4>1. PICK q \in Nat : q = n \div base
        BY <1>2
      <4>2. q < n
        BY <2>2, <4>1, SmallerQuotient
      <4> QED BY <4>1, <4>2
    <3>2. Rec[n \div base] \in T
      BY <1>13, <3>1
    <3>3. Rec[n] = More(Rec[n \div base])
      <4>1. ~ (n < base)
        BY <2>2
      <4> QED BY <1>12, <4>1
    <3> QED BY <1>3, <3>2, <3>3
  <2> QED BY <2>1, <2>2
<1> HIDE DEF U
<1>14. \A n \in Nat : n \in U
  BY <1>13, StrongInduction
<1> QED BY <1>1, <1>2, <1>12, <1>14 DEF U, More, T

LEMMA DigitsDef ==
  ASSUME NEW base \in Nat \ {0, 1}, NEW digits
  PROVE  \A v \in Nat, p \in Nat :
           /\ Digits(v, p, base, digits) \in Seq(Signs(digits))
           /\ Digits(v, p, base, digits) =
                IF p = 0 THEN <<>>
                ELSE Before(digits[(v \div p) + 1], Digits(v % p, p \div base, base, digits))
<1> DEFINE S == Signs(digits)
           T == [Nat -> Seq(S)]
           Shown(p, g) == [v \in Nat |-> Before(digits[(v \div p) + 1], g[v % p])]
           Nil == [v \in Nat |-> <<>>]
           first == [n \in Nat |-> Nil]
           step == [x \in Nat \X T |-> IF x[1] = 0 THEN Nil ELSE Shown(x[1], x[2])]
           before == [n \in Nat |-> n \div base]
           F(g) == [p \in Nat |-> [v \in Nat |->
                     IF p = 0 THEN <<>>
                     ELSE Before(digits[(v \div p) + 1], g[p \div base][v % p])]]
           Rec == CHOOSE g : g = F(g)
<1>1. \A v \in Nat, p \in Nat : Digits(v, p, base, digits) = Rec[p][v]
  BY DEF Digits, Before
<1>2. \A v \in Nat, p \in Nat \ {0} : digits[(v \div p) + 1] \in S /\ v % p \in Nat
  <2> SUFFICES ASSUME NEW v \in Nat, NEW p \in Nat \ {0}
               PROVE  digits[(v \div p) + 1] \in S /\ v % p \in Nat
    OBVIOUS
  <2>1. v \div p \in Nat /\ v % p \in Nat
    BY DivMod, NatDiv
  <2>2. (v \div p) + 1 \in Nat
    BY <2>1
  <2> QED BY <2>1, <2>2 DEF Signs
<1>3. \A n \in Nat : n \div base \in Nat
  BY SmallerQuotient
<1> HIDE DEF S
<1>4. Nil \in T
  OBVIOUS
<1>5. ASSUME NEW p \in Nat \ {0}, NEW g \in T
      PROVE  Shown(p, g) \in T
  <2>1. \A v \in Nat : Before(digits[(v \div p) + 1], g[v % p]) \in Seq(S)
    BY <1>2, DigitTypes
  <2> QED BY <2>1
<1> HIDE DEF Nil, Shown
<1>6. first \in [Nat -> T]
  BY <1>4
<1>7. step \in [Nat \X T -> T]
  <2>1. \A x \in Nat \X T : x[1] \in Nat /\ x[2] \in T
    OBVIOUS
  <2> HIDE DEF T
  <2>2. \A x \in Nat \X T : (IF x[1] = 0 THEN Nil ELSE Shown(x[1], x[2])) \in T
    BY <1>4, <1>5, <2>1
  <2> QED BY <2>2
<1>8. before \in [Nat -> Nat] /\ \A n \in Nat : n >= 1 => before[n] < n
  <2>1. \A n \in Nat : n >= 1 => n \div base < n
    BY SmallerQuotient
  <2> QED BY <1>3, <2>1
<1> HIDE DEF T
<1>9. /\ \A n \in Nat : first[n] = Nil /\ before[n] = n \div base
      /\ \A n \in Nat, g \in T : step[<<n, g>>] = IF n = 0 THEN Nil ELSE Shown(n, g)
  OBVIOUS
<1> HIDE DEF first, step, before
<1>10. PICK f \in [Nat -> T] : Recurs(f, 1, first, step, before)
  <2>1. 1 \in Nat \ {0}
    OBVIOUS
  <2> QED BY <1>6, <1>7, <1>8, <2>1, RecursiveFunction
<1>11. ASSUME NEW p \in Nat
       PROVE  f[p] = IF p = 0 THEN Nil ELSE Shown(p, f[p \div base])
  <2>1. f[p] = IF p < 1 THEN first[p] ELSE step[<<p, f[before[p]]>>]
    BY <1>10 DEF Recurs
  <2>2. p \div base \in Nat /\ f[p \div base] \in T
    BY <1>3
  <2> QED BY <1>9, <2>1, <2>2
<1>12. ASSUME NEW p \in Nat
       PROVE  f[p] = [v \in Nat |->
                        IF p = 0 THEN <<>>
                        ELSE Before(digits[(v \div p) + 1], f[p \div base][v % p])]
  <2>1. CASE p = 0
    BY <1>11, <2>1 DEF Nil
  <2>2. CASE p # 0
    BY <1>11, <2>2 DEF Shown
  <2> QED BY <2>1, <2>2
<1>13. f = F(f)
  <2>1. f = [n \in Nat |-> f[n]]
    OBVIOUS
  <2> QED BY <1>12, <2>1
<1> DEFINE Shows(g) == \A p \in Nat, v \in Nat :
             g[p][v] = IF p = 0 THEN <<>>
                       ELSE Before(digits[(v \div p) + 1], g[p \div base][v % p])
<1>14. \A g : g = F(g) => Shows(g)
  <2> SUFFICES ASSUME NEW g, g = F(g), NEW p \in Nat, NEW v \in Nat
               PROVE  g[p][v] = IF p = 0 THEN <<>>
                                ELSE Before(digits[(v \div p) + 1], g[p \div base][v % p])
    OBVIOUS
  <2>1. F(g)[p][v] = IF p = 0 THEN <<>>
                     ELSE Before(digits[(v \div p) + 1], g[p \div base][v % p])
    OBVIOUS
  <2>2. g[p][v] = F(g)[p][v]
    <3> HIDE DEF F
    <3> QED OBVIOUS
  <2> QED BY <2>1, <2>2
<1> HIDE DEF F, Shows
<1>15. Rec = F(Rec)
  BY <1>13
<1>16. Shows(Rec)
  BY <1>14, <1>15
<1> HIDE DEF Rec
<1>17. ASSUME NEW p \in Nat, NEW v \in Nat
       PROVE  Rec[p][v] = IF p = 0 THEN <<>>
                          ELSE Before(digits[(v \div p) + 1], Rec[p \div base][v % p])
  BY <1>16 DEF Shows
<1> DEFINE U == {p \in Nat : \A v \in Nat : Rec[p][v] \in Seq(S)}
<1>18. ASSUME NEW p \in Nat, \A m \in 0 .. p - 1 : m \in U
       PROVE  p \in U
  <2> SUFFICES ASSUME NEW v \in Nat PROVE Rec[p][v] \in Seq(S)
    OBVIOUS
  <2>1. CASE p = 0
    <3>1. <<>> \in Seq(S)
      OBVIOUS
    <3> QED BY <1>17, <2>1, <3>1
  <2>2. CASE p # 0
    <3>0. v % p \in Nat
      BY <1>2, <2>2
    <3>1. p \div base \in 0 .. p - 1
      <4>1. PICK q \in Nat : q = p \div base
        BY <1>3
      <4>2. (p < base => q = 0) /\ (p >= base => q < p)
        BY <4>1, SmallerQuotient
      <4> QED BY <2>2, <4>1, <4>2
    <3>2. Rec[p \div base][v % p] \in Seq(S)
      BY <1>18, <3>0, <3>1
    <3>3. digits[(v \div p) + 1] \in S
      BY <1>2, <2>2
    <3>4. Rec[p][v] = Before(digits[(v \div p) + 1], Rec[p \div base][v % p])
      BY <1>17, <2>2
    <3> QED BY <3>2, <3>3, <3>4, DigitTypes
  <2> QED BY <2>1, <2>2
<1> HIDE DEF U
<1>19. \A p \in Nat : p \in U
  BY <1>18, StrongInduction
<1> SUFFICES ASSUME NEW v \in Nat, NEW p \in Nat
             PROVE  /\ Digits(v, p, base, digits) \in Seq(S)
                    /\ Digits(v, p, base, digits) =
                         IF p = 0 THEN <<>>
                         ELSE Before(digits[(v \div p) + 1], Digits(v % p, p \div base, base, digits))
  BY DEF S
<1>20. Digits(v, p, base, digits) \in Seq(S)
  BY <1>1, <1>19 DEF U
<1>21. CASE p = 0
  BY <1>1, <1>17, <1>20, <1>21
<1>22. CASE p # 0
  <2>1. v % p \in Nat /\ p \div base \in Nat
    BY <1>2, <1>3, <1>22
  <2>2. Digits(v % p, p \div base, base, digits) = Rec[p \div base][v % p]
    BY <1>1, <2>1
  <2> QED BY <1>1, <1>17, <1>20, <1>22, <2>2
<1> QED BY <1>21, <1>22

(* The digits that are written, from the largest power of the base in a number
   down, are those of its numeral. *)
LEMMA NumeralType ==
  ASSUME NEW base \in Nat \ {0, 1}, NEW digits, NEW S, NEW v \in Nat,
         \A k \in 0 .. base - 1 : digits[k + 1] \in S
  PROVE  Numeral(v, base, digits) \in Seq(S) /\ Numeral(v, base, digits) # <<>>
<1> DEFINE N(n) == Numeral(n, base, digits)
           U == {n \in Nat : N(n) \in Seq(S) /\ N(n) # <<>>}
<1>1. ASSUME NEW n \in Nat, \A m \in 0 .. n - 1 : m \in U
      PROVE  n \in U
  <2>1. CASE n < base
    <3>1. N(n) = <<digits[n + 1]>>
      BY <2>1, NumeralDef
    <3>2. n \in 0 .. base - 1
      BY <2>1
    <3>3. digits[n + 1] \in S
      BY <3>2
    <3>4. <<digits[n + 1]>> \in Seq(S) /\ <<digits[n + 1]>> # <<>>
      BY <3>3, OneDigit
    <3> QED BY <3>1, <3>4
  <2>2. CASE n >= base
    <3>1. PICK q \in Nat, r \in 0 .. base - 1 : q = n \div base /\ r = n % base /\ q < n
      BY <2>2, SmallerQuotient
    <3>2. N(n) = Behind(N(q), digits[r + 1])
      <4>1. ~ (n < base)
        BY <2>2
      <4> QED BY <3>1, <4>1, NumeralDef
    <3>3. q \in 0 .. n - 1
      BY <3>1
    <3>4. N(q) \in Seq(S)
      BY <1>1, <3>3
    <3>5. PICK t \in Seq(S), c \in S : t = N(q) /\ c = digits[r + 1]
      BY <3>1, <3>4
    <3>6. Behind(t, c) \in Seq(S) /\ Len(Behind(t, c)) = Len(t) + 1 /\ Len(t) \in Nat
      BY DigitTypes, LenProperties
    <3>7. Behind(t, c) # <<>>
      BY <3>6, EmptySeq
    <3> HIDE DEF N
    <3> QED BY <3>2, <3>5, <3>6, <3>7
  <2> QED BY <2>1, <2>2
<1> HIDE DEF U
<1>2. \A n \in Nat : n \in U
  BY <1>1, StrongInduction
<1> QED BY <1>2 DEF U

(* Parts: the quotient and the remainder of v by p, as numbers of their own. *)
Parts(v, p, h, l) == h = v \div p /\ l = v % p

LEMMA PartsExist ==
  ASSUME NEW v \in Nat, NEW p \in Nat \ {0}
  PROVE  \E h \in Nat, l \in Nat : Parts(v, p, h, l)
<1>1. v \div p \in Nat /\ v % p \in Nat
  BY DivMod, NatDiv
<1>2. Parts(v, p, v \div p, v % p)
  BY DEF Parts
<1> HIDE DEF Parts
<1> QED BY <1>1, <1>2

LEMMA DigitsBy ==
  ASSUME NEW base \in Nat \ {0, 1}, NEW digits, NEW v \in Nat, NEW p \in Nat \ {0},
         NEW h, NEW l, Parts(v, p, h, l), NEW m, m = p \div base
  PROVE  Digits(v, p, base, digits) = Before(digits[h + 1], Digits(l, m, base, digits))
<1>1. Digits(v, p, base, digits) =
        IF p = 0 THEN <<>>
        ELSE Before(digits[(v \div p) + 1], Digits(v % p, p \div base, base, digits))
  BY DigitsDef
<1> QED BY <1>1 DEF Parts

LEMMA PartsOfParts ==
  ASSUME NEW base \in Nat \ {0, 1}, NEW m \in Nat \ {0}, NEW v \in Nat,
         NEW a, NEW r, Parts(v, base, a, r),
         NEW h, NEW l, Parts(v, base * m, h, l)
  PROVE  \E t \in Nat : Parts(a, m, h, t) /\ Parts(l, base, t, r)
<1>1. base \in Nat \ {0}
  OBVIOUS
<1>2. Nested(base, m, v)
  BY <1>1, NestedQuotient
<1>3. v \div base \in Nat
  BY <1>1, NatDiv
<1>4. (v \div base) % m \in Nat
  BY <1>3, DivMod
<1>5. a = v \div base /\ r = v % base /\ h = v \div (base * m) /\ l = v % (base * m)
  BY DEF Parts
<1>6. Parts(a, m, h, a % m) /\ Parts(l, base, a % m, r) /\ a % m \in Nat
  BY <1>2, <1>4, <1>5 DEF Parts, Nested
<1> HIDE DEF Parts
<1> QED BY <1>6

(* By a power of the base, the last digit is written last. *)
LastDigitLast(q, base, digits) ==
  \A v \in Nat, a \in Nat, r \in Nat :
    Parts(v, base, a, r) =>
      Digits(v, base * q, base, digits) =
        Behind(Digits(a, q, base, digits), digits[r + 1])

LEMMA LastOfOne ==
  ASSUME NEW base \in Nat \ {0, 1}, NEW digits
  PROVE  /\ \A v \in Nat : Digits(v, 1, base, digits) = <<digits[v + 1]>>
         /\ LastDigitLast(1, base, digits)
<1> DEFINE D(v, p) == Digits(v, p, base, digits)
<1>1. 1 \div base = 0 /\ base \div base = 1 /\ base * 1 = base
  <2>1. base \in Nat \ {0} /\ 0 \in 0 .. base - 1 /\ 1 \in Int /\ 1 < base
    OBVIOUS
  <2>2. (base * 1 + 0) \div base = 1
    BY <2>1, OnlyQuotient
  <2>3. base * 1 + 0 = base /\ base * 1 = base
    OBVIOUS
  <2>4. 1 \div base = 0
    BY <2>1, SmallerQuotient
  <2> QED BY <2>2, <2>3, <2>4
<1>2. ASSUME NEW v \in Nat
      PROVE  D(v, 1) = <<digits[v + 1]>>
  <2>1. Parts(v, 1, v, 0)
    BY DEF Parts
  <2>2. D(v, 1) = Before(digits[v + 1], D(0, 0))
    <3>1. 1 \in Nat \ {0}
      OBVIOUS
    <3> QED BY <1>1, <2>1, <3>1, DigitsBy
  <2>3. D(0, 0) = <<>>
    BY DigitsDef
  <2>4. digits[v + 1] \in Signs(digits)
    BY DEF Signs
  <2>5. PICK S : S = Signs(digits)
    OBVIOUS
  <2>6. Before(digits[v + 1], <<>>) = <<digits[v + 1]>>
    <3>1. <<>> \in Seq(S)
      OBVIOUS
    <3> QED BY <2>4, <2>5, <3>1, BeforeAndBehind
  <2> HIDE DEF D
  <2> QED BY <1>1, <2>1, <2>2, <2>3, <2>6
<1>3. ASSUME NEW v \in Nat, NEW q \in Nat, NEW r \in Nat, Parts(v, base, q, r)
      PROVE  D(v, base) = Behind(D(q, 1), digits[r + 1])
  <2>1. D(v, base) = Before(digits[q + 1], D(r, 1))
    BY <1>1, <1>3, DigitsBy
  <2>2. D(q, 1) = <<digits[q + 1]>> /\ D(r, 1) = <<digits[r + 1]>>
    BY <1>2
  <2>3. PICK S : S = Signs(digits)
    OBVIOUS
  <2>4. digits[q + 1] \in S /\ digits[r + 1] \in S
    BY <2>3 DEF Signs
  <2>5. PICK b \in S, c \in S : b = digits[q + 1] /\ c = digits[r + 1]
    BY <2>4
  <2>6. Behind(<<b>>, c) = Before(b, <<c>>)
    <3>1. <<>> \in Seq(S)
      OBVIOUS
    <3> QED BY <3>1, BeforeAndBehind
  <2> HIDE DEF D
  <2> QED BY <2>1, <2>2, <2>5, <2>6
<1> HIDE DEF D
<1> QED BY <1>1, <1>2, <1>3 DEF LastDigitLast, D

LEMMA LastOfPower ==
  ASSUME NEW base \in Nat \ {0, 1}, NEW digits, NEW q \in Nat \ {0},
         LastDigitLast(q, base, digits)
  PROVE  base * q \in Nat \ {0} /\ LastDigitLast(base * q, base, digits)
<1> DEFINE D(v, p) == Digits(v, p, base, digits)
<1>1. base \in Nat \ {0}
  OBVIOUS
<1>2. PICK m \in Nat \ {0} : m = base * q
  BY <1>1, NestedQuotient
<1>3. PICK n \in Nat \ {0} : n = base * m
  BY <1>1, NestedQuotient
<1>4. m \div base = q /\ n \div base = m
  <2>1. 0 \in 0 .. base - 1 /\ base * q + 0 = m /\ base * m + 0 = n
    BY <1>2, <1>3
  <2>2. (base * q + 0) \div base = q /\ (base * m + 0) \div base = m
    BY <1>1, <2>1, OnlyQuotient
  <2> QED BY <2>1, <2>2
<1>5. ASSUME NEW v \in Nat, NEW a \in Nat, NEW r \in Nat, Parts(v, base, a, r)
      PROVE  D(v, n) = Behind(D(a, m), digits[r + 1])
  <2>1. PICK h \in Nat, l \in Nat : Parts(v, n, h, l)
    BY PartsExist
  <2>2. PICK t \in Nat : Parts(a, m, h, t) /\ Parts(l, base, t, r)
    BY <1>3, <1>5, <2>1, PartsOfParts
  <2>3. D(v, n) = Before(digits[h + 1], D(l, m))
    BY <1>4, <2>1, DigitsBy
  <2>4. D(l, m) = Behind(D(t, q), digits[r + 1])
    BY <1>2, <2>2 DEF LastDigitLast
  <2>5. D(a, m) = Before(digits[h + 1], D(t, q))
    BY <1>4, <2>2, DigitsBy
  <2>6. PICK S : S = Signs(digits)
    OBVIOUS
  <2>7. digits[h + 1] \in S /\ digits[r + 1] \in S
    BY <2>6 DEF Signs
  <2>8. D(t, q) \in Seq(S)
    BY <2>6, DigitsDef
  <2>9. PICK b \in S, c \in S, s \in Seq(S) :
          b = digits[h + 1] /\ c = digits[r + 1] /\ s = D(t, q)
    BY <2>7, <2>8
  <2>10. Either(b, s, c)
    BY BeforeAndBehind
  <2> HIDE DEF D
  <2> QED BY <2>3, <2>4, <2>5, <2>9, <2>10 DEF Either
<1> HIDE DEF D
<1>6. LastDigitLast(m, base, digits)
  BY <1>3, <1>5 DEF LastDigitLast, D
<1> QED BY <1>2, <1>6

LEMMA DigitsAreNumeral ==
  ASSUME NEW base \in Nat \ {0, 1}, NEW digits, NEW v \in Nat
  PROVE  /\ Digits(v, CountDigits(v, base)[2], base, digits) = Numeral(v, base, digits)
         /\ CountDigits(v, base)[1] = Len(Numeral(v, base, digits))
         /\ CountDigits(v, base)[1] \in Nat
<1> DEFINE D(n, p) == Digits(n, p, base, digits)
           N(n) == Numeral(n, base, digits)
           C(n) == CountDigits(n, base)
           S == Signs(digits)
           Right(n, p) ==
             /\ p \in Nat \ {0}
             /\ LastDigitLast(p, base, digits)
             /\ D(n, p) = N(n)
           U == {n \in Nat : Right(n, C(n)[2]) /\ C(n)[1] = Len(N(n)) /\ N(n) \in Seq(S)}
<1>0. \A k \in Nat : digits[k + 1] \in S
  BY DEF Signs
<1>1. ASSUME NEW n \in Nat, \A m \in 0 .. n - 1 : m \in U
      PROVE  n \in U
  <2>1. CASE n < base
    <3>1. C(n)[1] = 1 /\ C(n)[2] = 1
      BY <2>1, CountDef
    <3>2. N(n) = <<digits[n + 1]>>
      BY <2>1, NumeralDef
    <3>3. D(n, 1) = <<digits[n + 1]>> /\ LastDigitLast(1, base, digits)
      BY LastOfOne
    <3>4. Len(<<digits[n + 1]>>) = 1 /\ <<digits[n + 1]>> \in Seq(S)
      BY <1>0, OneDigit
    <3> HIDE DEF C, N, D, S
    <3>5. Right(n, 1)
      BY <3>2, <3>3
    <3> HIDE DEF Right
    <3> QED BY <3>1, <3>2, <3>4, <3>5
  <2>2. CASE n >= base
    <3>1. PICK q \in Nat, r \in Nat : Parts(n, base, q, r)
      BY PartsExist
    <3>2. q \in U
      <4>1. q < n
        BY <2>2, <3>1, SmallerQuotient DEF Parts
      <4> QED BY <1>1, <4>1
    <3>3. PICK t \in Nat, p \in Nat : C(q)[1] = t /\ C(q)[2] = p
      BY CountDef
    <3>4. N(n) = Behind(N(q), digits[r + 1]) /\ C(n)[1] = t + 1 /\ C(n)[2] = p * base
      <4>1. ~ (n < base)
        BY <2>2
      <4>2. N(n) = Behind(N(q), digits[r + 1])
        BY <3>1, <4>1, NumeralDef DEF Parts
      <4>3. C(n) = <<C(q)[1] + 1, C(q)[2] * base>>
        BY <3>1, <4>1, CountDef DEF Parts
      <4> QED BY <3>3, <4>2, <4>3
    <3> HIDE DEF C, N
    <3>5. p \in Nat \ {0} /\ LastDigitLast(p, base, digits) /\ D(q, p) = N(q)
          /\ t = Len(N(q)) /\ N(q) \in Seq(S)
      BY <3>2, <3>3
    <3>6. p * base = base * p
      OBVIOUS
    <3>7. base * p \in Nat \ {0} /\ LastDigitLast(base * p, base, digits)
      BY <3>5, LastOfPower
    <3>8. D(n, base * p) = Behind(D(q, p), digits[r + 1])
      BY <3>1, <3>5 DEF LastDigitLast
    <3>9. PICK s \in Seq(S), c \in S : s = N(q) /\ c = digits[r + 1]
      BY <1>0, <3>5
    <3>10. Behind(s, c) \in Seq(S) /\ Len(Behind(s, c)) = Len(s) + 1
      BY DigitTypes
    <3> HIDE DEF D, S
    <3> QED BY <3>4, <3>5, <3>6, <3>7, <3>8, <3>9, <3>10
  <2> QED BY <2>1, <2>2
<1> HIDE DEF U
<1>2. \A n \in Nat : n \in U
  BY <1>1, StrongInduction
<1>3. C(v)[1] \in Nat
  BY CountDef
<1> HIDE DEF C, N, D
<1>4. D(v, C(v)[2]) = N(v) /\ C(v)[1] = Len(N(v))
  BY <1>2 DEF U
<1> QED BY <1>3, <1>4 DEF C, N, D

(* The powers of sixteen. *)
LEMMA SixteensDef ==
  /\ Sixteens[0] = 1
  /\ \A k \in Nat : Sixteens[k] \in Nat \ {0} /\ Sixteens[k + 1] = 16 * Sixteens[k]
<1> DEFINE T == Nat \ {0}
           first == [n \in Nat |-> 1]
           step == [p \in Nat \X T |-> 16 * p[2]]
           before == [n \in Nat |-> IF n = 0 THEN 0 ELSE n - 1]
           F(g) == [k \in Nat |-> IF k = 0 THEN 1 ELSE 16 * g[k - 1]]
<1>1. Sixteens = CHOOSE g : g = F(g)
  BY DEF Sixteens
<1>2. first \in [Nat -> T] /\ step \in [Nat \X T -> T]
  OBVIOUS
<1>3. before \in [Nat -> Nat] /\ \A n \in Nat : n >= 1 => before[n] < n
  OBVIOUS
<1>4. /\ \A n \in Nat : first[n] = 1 /\ before[n + 1] = n
      /\ \A n \in Nat, t \in T : step[<<n, t>>] = 16 * t
  OBVIOUS
<1> HIDE DEF first, step, before
<1>5. PICK f \in [Nat -> T] : Recurs(f, 1, first, step, before)
  <2>1. 1 \in Nat \ {0}
    OBVIOUS
  <2> QED BY <1>2, <1>3, <2>1, RecursiveFunction
<1>6. f[0] = 1
  <2>1. 0 \in Nat /\ 0 < 1
    OBVIOUS
  <2>2. f[0] = first[0]
    BY <1>5, <2>1 DEF Recurs
  <2> QED BY <1>4, <2>2
<1>7. ASSUME NEW n \in Nat PROVE f[n + 1] = 16 * f[n]
  <2>1. n + 1 \in Nat /\ ~ (n + 1 < 1)
    OBVIOUS
  <2>2. f[n + 1] = step[<<n + 1, f[before[n + 1]]>>]
    BY <1>5, <2>1 DEF Recurs
  <2>3. before[n + 1] = n /\ f[n] \in T
    BY <1>4
  <2> QED BY <1>4, <2>1, <2>2, <2>3
<1>8. \A n \in Nat : f[n] = IF n = 0 THEN 1 ELSE 16 * f[n - 1]
  <2> SUFFICES ASSUME NEW n \in Nat, n # 0 PROVE f[n] = 16 * f[n - 1]
    BY <1>6
  <2>1. n - 1 \in Nat /\ (n - 1) + 1 = n
    OBVIOUS
  <2> QED BY <1>7, <2>1
<1>9. f = F(f)
  BY <1>8
<1> HIDE DEF F
<1>10. Sixteens = F(Sixteens)
  BY <1>1, <1>9
<1>11. Sixteens[0] = 1 /\ \A k \in Nat : Sixteens[k + 1] = 16 * Sixteens[k]
  <2>1. \A k \in Nat : Sixteens[k] = IF k = 0 THEN 1 ELSE 16 * Sixteens[k - 1]
    BY <1>10 DEF F
  <2>2. \A k \in Nat : k + 1 \in Nat /\ k + 1 # 0 /\ (k + 1) - 1 = k
    OBVIOUS
  <2> QED BY <2>1, <2>2
<1> DEFINE U == {k \in Nat : Sixteens[k] \in T}
<1>12. 0 \in U /\ \A k \in Nat : k \in U => k + 1 \in U
  BY <1>11
<1> HIDE DEF U
<1>13. \A k \in Nat : k \in U
  BY <1>12, Induction
<1> QED BY <1>11, <1>13 DEF U

LEMMA SixteensGrow ==
  ASSUME NEW j \in Nat, NEW k \in Nat, j <= k
  PROVE  Sixteens[j] <= Sixteens[k]
<1> DEFINE U == {e \in Nat : Sixteens[j] <= Sixteens[j + e]}
<1>1. 0 \in U
  BY SixteensDef
<1>2. ASSUME NEW e \in Nat, e \in U PROVE e + 1 \in U
  <2>1. PICK a \in Nat, b \in Nat : a = Sixteens[j] /\ b = Sixteens[j + e]
    BY SixteensDef
  <2>2. Sixteens[(j + e) + 1] = 16 * b
    <3>1. j + e \in Nat
      OBVIOUS
    <3> QED BY <2>1, <3>1, SixteensDef
  <2>3. (j + e) + 1 = j + (e + 1)
    OBVIOUS
  <2> QED BY <1>2, <2>1, <2>2, <2>3
<1> HIDE DEF U
<1>3. k - j \in Nat
  OBVIOUS
<1>4. k - j \in U
  BY <1>1, <1>2, <1>3, Induction
<1>5. j + (k - j) = k
  OBVIOUS
<1> QED BY <1>4, <1>5 DEF U

LEMMA ConsoleConstants ==
  /\ OwnCharacters \subseteq Characters /\ "EOT" \notin Characters
  /\ HexDigits \in Nat \ {0} /\ Room \in Nat \ {0} /\ EchoLen \in Nat /\ EchoLen >= 2
  /\ BufSize \in Nat \ {0} /\ Interval \in Nat /\ MaxPrints \in Nat /\ MaxInterrupts \in Nat
  /\ Messages \subseteq Seq(Pieces) /\ Writes \subseteq Seq(Characters \cup {"EOT"}) /\ Backlogs \subseteq Int
  /\ IntValues \in Nat \ {0}
  BY ConsoleAssumption, SixteensDef DEF IntValues

(* The digit of v at place k, the last one's being 0. *)
HexDigit(v, k) == (v \div Sixteens[k]) % 16

LEMMA HexDigitType ==
  ASSUME NEW v \in Nat, NEW k \in Nat
  PROVE  HexDigit(v, k) \in 0 .. 15
<1>1. PICK s \in Nat \ {0} : s = Sixteens[k]
  BY SixteensDef
<1>2. PICK q \in Nat : q = v \div s
  BY NatDiv
<1> QED BY <1>1, <1>2 DEF HexDigit

LEMMA HexDigitUp ==
  ASSUME NEW v \in Nat, NEW q \in Nat, NEW r \in Nat, Parts(v, 16, q, r), NEW k \in Nat
  PROVE  HexDigit(v, k + 1) = HexDigit(q, k) /\ HexDigit(v, 0) = r
<1>1. PICK s \in Nat \ {0} : s = Sixteens[k] /\ 16 * s = Sixteens[k + 1]
  BY SixteensDef
<1>2. Nested(16, s, v)
  <2>1. 16 \in Nat \ {0}
    OBVIOUS
  <2> QED BY <2>1, NestedQuotient
<1>3. HexDigit(v, k + 1) = HexDigit(q, k)
  BY <1>1, <1>2 DEF Nested, HexDigit, Parts
<1>4. v \div 1 = v
  OBVIOUS
<1> QED BY <1>3, <1>4, SixteensDef DEF HexDigit, Parts

(* A number has as many digits as it has places before its first, which is not zero. *)
HexItems(v, n, digits) == [k \in 1 .. n |-> digits[HexDigit(v, n - k) + 1]]
HasPlaces(v, n) ==
  /\ n \in Nat \ {0} /\ v < Sixteens[n] /\ (v > 0 => Sixteens[n - 1] <= v)

LEMMA HexNumeral ==
  ASSUME NEW digits, NEW S, \A k \in 0 .. 15 : digits[k + 1] \in S, NEW v \in Nat
  PROVE  \E n \in Nat : HasPlaces(v, n)
           /\ Numeral(v, 16, digits) = HexItems(v, n, digits)
<1> DEFINE N(m) == Numeral(m, 16, digits)
           Items(m, n) == \A k \in 1 .. n : N(m)[k] = digits[HexDigit(m, n - k) + 1]
           U == {m \in Nat : \E n \in Nat : HasPlaces(m, n) /\ Len(N(m)) = n /\ Items(m, n)}
<1>1. 16 \in Nat \ {0, 1} /\ 16 - 1 = 15
  OBVIOUS
<1>2. \A m \in Nat : N(m) \in Seq(S)
  BY <1>1, NumeralType
<1>3. ASSUME NEW m \in Nat, \A e \in 0 .. m - 1 : e \in U
      PROVE  m \in U
  <2>1. PICK q \in Nat, r \in Nat : Parts(m, 16, q, r)
    BY <1>1, PartsExist
  <2>2. CASE m < 16
    <3>1. N(m) = <<digits[m + 1]>>
      BY <1>1, <2>2, NumeralDef
    <3>2. HexDigit(m, 0) = m
      BY <2>2, SixteensDef DEF HexDigit
    <3>3. Len(<<digits[m + 1]>>) = 1 /\ <<digits[m + 1]>>[1] = digits[m + 1]
      OBVIOUS
    <3>4. Sixteens[0] = 1 /\ Sixteens[1] = 16
      <4>1. Sixteens[0 + 1] = 16 * Sixteens[0]
        BY SixteensDef
      <4> QED BY <4>1, SixteensDef
    <3>5. HasPlaces(m, 1)
      BY <2>2, <3>4 DEF HasPlaces
    <3>6. Items(m, 1)
      <4> SUFFICES ASSUME NEW k \in 1 .. 1 PROVE N(m)[k] = digits[HexDigit(m, 1 - k) + 1]
        OBVIOUS
      <4>1. k = 1 /\ 1 - k = 0
        OBVIOUS
      <4> HIDE DEF N
      <4> QED BY <3>1, <3>2, <3>3, <4>1
    <3>7. Len(N(m)) = 1
      BY <3>1, <3>3
    <3> HIDE DEF N, Items
    <3> QED BY <3>5, <3>6, <3>7
  <2>3. CASE m >= 16
    <3>1. q < m /\ q > 0 /\ m = 16 * q + r /\ r \in 0 .. 15
      BY <2>1, <2>3 DEF Parts
    <3>2. PICK n \in Nat : HasPlaces(q, n) /\ Len(N(q)) = n /\ Items(q, n)
      <4>1. q \in 0 .. m - 1
        BY <3>1
      <4>2. q \in U
        <5> HIDE DEF U
        <5> QED BY <1>3, <4>1
      <4> QED BY <4>2
    <3>3. N(m) = Behind(N(q), digits[r + 1])
      <4>1. ~ (m < 16)
        BY <2>3
      <4> QED BY <1>1, <2>1, <4>1, NumeralDef DEF Parts
    <3>4. PICK t \in Seq(S), c \in S : t = N(q) /\ c = digits[r + 1]
      BY <1>2, <3>1
    <3>5. /\ Len(Behind(t, c)) = n + 1 /\ Behind(t, c)[n + 1] = c
          /\ \A k \in 1 .. n : Behind(t, c)[k] = t[k]
      <4>1. Extends(Behind(t, c), t, c)
        BY AppendExtends DEF Behind
      <4> QED BY <3>2, <3>4, <4>1 DEF Extends
    <3> HIDE DEF N
    <3>6. HasPlaces(m, n + 1)
      <4>1. n \in Nat \ {0} /\ n - 1 \in Nat /\ (n - 1) + 1 = n
        BY <3>2 DEF HasPlaces
      <4>2. PICK a \in Nat, b \in Nat :
              a = Sixteens[n - 1] /\ b = Sixteens[n] /\ b = 16 * a /\ Sixteens[n + 1] = 16 * b
        BY <4>1, SixteensDef
      <4>3. a <= q /\ q < b
        BY <3>1, <3>2, <4>2 DEF HasPlaces
      <4>4. b <= m /\ m < 16 * b
        <5>1. b = 16 * a /\ m = 16 * q + r /\ r < 16
          BY <3>1, <4>2
        <5> QED BY <4>3, <5>1
      <4>5. n + 1 \in Nat \ {0} /\ (n + 1) - 1 = n
        OBVIOUS
      <4> QED BY <4>2, <4>4, <4>5 DEF HasPlaces
    <3>7. ASSUME NEW k \in 1 .. n + 1
          PROVE  N(m)[k] = digits[HexDigit(m, (n + 1) - k) + 1]
      <4>1. CASE k = n + 1
        <5>1. HexDigit(m, 0) = r
          BY <2>1, HexDigitUp
        <5>2. (n + 1) - k = 0
          BY <4>1
        <5> QED BY <3>3, <3>4, <3>5, <4>1, <5>1, <5>2
      <4>2. CASE k \in 1 .. n
        <5>1. n - k \in Nat /\ (n - k) + 1 = (n + 1) - k
          BY <4>2
        <5>2. HexDigit(m, (n - k) + 1) = HexDigit(q, n - k)
          BY <2>1, <5>1, HexDigitUp
        <5>3. N(q)[k] = digits[HexDigit(q, n - k) + 1]
          BY <3>2, <4>2
        <5>4. N(m)[k] = N(q)[k]
          BY <3>3, <3>4, <3>5, <4>2
        <5> QED BY <5>1, <5>2, <5>3, <5>4
      <4> QED BY <4>1, <4>2
    <3>8. Items(m, n + 1)
      BY <3>7
    <3>9. Len(N(m)) = n + 1 /\ n + 1 \in Nat
      BY <3>3, <3>4, <3>5
    <3> HIDE DEF Items
    <3> QED BY <3>6, <3>8, <3>9
  <2> HIDE DEF U
  <2> QED BY <2>2, <2>3
<1> HIDE DEF U
<1>4. \A m \in Nat : m \in U
  BY <1>3, StrongInduction
<1>5. PICK n \in Nat : HasPlaces(v, n) /\ Len(N(v)) = n /\ Items(v, n)
  BY <1>4 DEF U
<1>6. N(v) = [k \in 1 .. n |-> digits[HexDigit(v, n - k) + 1]]
  <2>1. PICK t \in Seq(S) : t = N(v)
    BY <1>2
  <2> HIDE DEF N
  <2>2. t = [k \in 1 .. n |-> t[k]]
    BY <1>5, <2>1
  <2> QED BY <1>5, <2>1, <2>2
<1> HIDE DEF Items
<1> QED BY <1>5, <1>6 DEF HexItems

(* alt_printf's digits: those of the numeral too. *)
LEMMA HexPrintIsNumeral ==
  ASSUME NEW v \in 0 .. IntValues - 1
  PROVE  HexPrint(v) = Numeral(v, 16, Lower)
<1>0. v \in Nat /\ v < Sixteens[HexDigits] /\ HexDigits \in Nat
  BY ConsoleConstants DEF IntValues
<1>1. \A k \in 0 .. 15 : Lower[k + 1] \in {Lower[j] : j \in 1 .. 16}
  OBVIOUS
<1>2. PICK n \in Nat : HasPlaces(v, n)
        /\ Numeral(v, 16, Lower) = HexItems(v, n, Lower)
  BY <1>0, <1>1, HexNumeral
<1>3. CASE v = 0
  <2>1. Numeral(0, 16, Lower) = <<Lower[0 + 1]>>
    <3>1. 16 \in Nat \ {0, 1} /\ 0 \in Nat /\ 0 < 16
      OBVIOUS
    <3> QED BY <3>1, NumeralDef
  <2>2. Lower[0 + 1] = "0"
    BY DEF Lower
  <2> QED BY <1>3, <2>1, <2>2 DEF HexPrint
<1>4. CASE v # 0
  <2> DEFINE places == {k \in 0 .. HexDigits - 1 : HexDigit(v, k) # 0}
             top == CHOOSE k \in places : \A j \in places : j <= k
  <2>1. n - 1 \in Nat /\ n \in Nat \ {0}
    BY <1>2 DEF HasPlaces
  <2>2. PICK a \in Nat \ {0} : a = Sixteens[n - 1] /\ Sixteens[n] = 16 * a
    <3>1. (n - 1) + 1 = n
      BY <2>1
    <3>2. Sixteens[n - 1] \in Nat \ {0} /\ Sixteens[(n - 1) + 1] = 16 * Sixteens[n - 1]
      BY <2>1, SixteensDef
    <3> QED BY <3>1, <3>2
  <2>3. a <= v /\ v < 16 * a
    BY <1>0, <1>2, <1>4, <2>2 DEF HasPlaces
  <2>4. n - 1 \in places
    <3>1. PICK q \in Nat, r \in Nat : Parts(v, a, q, r)
      BY <1>0, PartsExist
    <3>2. v = a * q + r /\ r < a
      BY <1>0, <3>1, DivMod DEF Parts
    <3>3. q # 0 /\ q < 16
      <4>1. q = 0 => a * q = 0
        OBVIOUS
      <4>2. q >= 16 => a * 16 <= a * q
        BY ProductOrder
      <4> QED BY <2>3, <3>2, <4>1, <4>2
    <3>4. HexDigit(v, n - 1) = q % 16
      BY <2>2, <3>1 DEF HexDigit, Parts
    <3>5. n - 1 < HexDigits
      <4> SUFFICES ASSUME HexDigits <= n - 1 PROVE FALSE
        BY <1>0, <2>1
      <4>1. Sixteens[HexDigits] <= a
        BY <1>0, <2>1, <2>2, SixteensGrow
      <4> QED BY <1>0, <2>3, <4>1, SixteensDef
    <3> QED BY <1>0, <2>1, <3>3, <3>4, <3>5
  <2>5. ASSUME NEW j \in places PROVE j <= n - 1
    <3> SUFFICES ASSUME n <= j PROVE FALSE
      BY <2>1
    <3>1. j \in Nat /\ HexDigit(v, j) # 0
      BY <1>0
    <3>2. PICK b \in Nat \ {0} : b = Sixteens[j]
      BY <3>1, SixteensDef
    <3>3. v < b
      <4>1. Sixteens[n] <= b
        BY <3>1, <3>2, SixteensGrow
      <4>2. Sixteens[n] \in Nat /\ v < Sixteens[n]
        BY <1>2, SixteensDef DEF HasPlaces
      <4> QED BY <1>0, <4>1, <4>2
    <3>4. v \div b = 0
      <4>1. v \in 0 .. b - 1
        BY <1>0, <3>3
      <4> QED BY <4>1, SmallRemainder
    <3> QED BY <3>1, <3>2, <3>4 DEF HexDigit
  <2>6. places \subseteq Nat
    BY <1>0
  <2> HIDE DEF places
  <2>7. top = n - 1
    <3>1. top \in places /\ \A j \in places : j <= top
      BY <2>4, <2>5
    <3>2. top <= n - 1 /\ n - 1 <= top /\ top \in Nat
      BY <2>4, <2>5, <2>6, <3>1
    <3> HIDE DEF top
    <3> QED BY <2>1, <3>2
  <2>8. HexPrint(v) = HexItems(v, top + 1, Lower)
    <3> DEFINE Items(t) == [k \in 1 .. t + 1 |-> Lower[HexDigit(v, t + 1 - k) + 1]]
    <3>1. HexPrint(v) = IF v = 0 THEN <<"0">> ELSE Items(top)
      BY Zenon DEF HexPrint, HexDigit, places
    <3> HIDE DEF top
    <3>2. \A t \in Nat : Items(t) = HexItems(v, t + 1, Lower)
      BY DEF HexItems
    <3> HIDE DEF Items
    <3> QED BY <1>4, <2>1, <2>7, <3>1, <3>2
  <2> HIDE DEF top
  <2>9. top + 1 = n
    BY <2>1, <2>7
  <2> QED BY <1>2, <2>8, <2>9
<1> QED BY <1>3, <1>4

-----------------------------------------------------------------------------
(* What is printed for a piece. *)
DigitSets == {Lower, Upper}

LEMMA DigitSetsAre ==
  ASSUME NEW digits \in DigitSets, NEW k \in 0 .. 15
  PROVE  digits[k + 1] \in Characters
<1>1. k + 1 \in 1 .. 16
  OBVIOUS
<1>2. digits[k + 1] \in OwnCharacters
  BY <1>1 DEF DigitSets, OwnCharacters
<1> QED BY <1>2, ConsoleConstants

LEMMA PieceFields ==
  ASSUME NEW p \in Pieces
  PROVE  /\ p.conv \in Conversions \cup {"lit"} /\ p.zero \in BOOLEAN
         /\ p.width \in 0 .. 9 /\ p.num \in 0 .. IntValues - 1
         /\ p.str \in Seq(Characters)
         /\ p.conv = "lit" => Len(p.str) = 1 /\ p.width = 0
         /\ p.conv = "c" => Len(p.str) = 1
  BY DEF Pieces

LEMMA RepType ==
  ASSUME NEW c \in Characters, NEW n \in Int
  PROVE  Rep(c, n) \in Seq(Characters)
<1>1. PICK m \in Nat : m = IF n > 0 THEN n ELSE 0
  OBVIOUS
<1>2. [k \in 1 .. m |-> c] \in Seq(Characters)
  OBVIOUS
<1> QED BY <1>1, <1>2 DEF Rep

LEMMA RepNone ==
  ASSUME NEW c, NEW n \in Int, n <= 0
  PROVE  Rep(c, n) = <<>>
<1>1. ~ (n > 0)
  OBVIOUS
<1>2. Rep(c, n) = [k \in 1 .. 0 |-> c]
  BY <1>1 DEF Rep
<1>3. [k \in 1 .. 0 |-> c] = <<>>
  OBVIOUS
<1> QED BY <1>2, <1>3

(* A width that is not given leaves as many places free as a width of 0. *)
Given(before, width) == before = IF width > 0 THEN width ELSE -1

LEMMA SameSpace ==
  ASSUME NEW c, NEW width \in Nat, NEW before, Given(before, width), NEW n \in Nat
  PROVE  Rep(c, before - n) = Rep(c, width - n)
<1>1. CASE width > 0
  BY <1>1 DEF Given
<1>2. CASE width = 0
  <2>1. before - n \in Int /\ before - n <= 0 /\ width - n \in Int /\ width - n <= 0
    BY <1>2 DEF Given
  <2> QED BY <2>1, RepNone
<1> QED BY <1>1, <1>2

(* A number: its sign, the places before it and its digits. *)
NumberText(zero, minus, places, text) ==
  IF zero THEN minus \o Rep("0", places) \o text ELSE Rep(" ", places) \o minus \o text
Minus(sign) == IF sign THEN <<"-">> ELSE <<>>
SignsOf(p) == IF p.conv = "X" THEN Upper ELSE Lower

LEMMA NumberParts ==
  ASSUME NEW p \in Pieces
  PROVE  /\ Magnitude(p) \in Nat /\ Base(p) \in Nat \ {0, 1} /\ Base(p) <= 16
         /\ MeantDigits(p) = Numeral(Magnitude(p), Base(p), SignsOf(p))
         /\ MeantDigits(p) \in Seq(Characters)
         /\ Len(MeantDigits(p)) \in Nat
<1>1. p.num \in Nat /\ p.num <= IntValues - 1 /\ IntValues \in Nat
  BY ConsoleConstants, PieceFields
<1>2. Magnitude(p) \in Nat
  BY <1>1 DEF Magnitude
<1>3. PICK b \in Nat \ {0, 1} : b = Base(p) /\ b <= 16
  BY DEF Base
<1>4. MeantDigits(p) = Numeral(Magnitude(p), Base(p), SignsOf(p))
  BY DEF MeantDigits, SignsOf
<1>5. \A k \in 0 .. b - 1 : SignsOf(p)[k + 1] \in Characters
  <2>1. SignsOf(p) \in DigitSets
    BY DEF SignsOf, DigitSets
  <2> SUFFICES ASSUME NEW k \in 0 .. b - 1 PROVE SignsOf(p)[k + 1] \in Characters
    OBVIOUS
  <2>2. k \in 0 .. 15
    BY <1>3
  <2> QED BY <2>1, <2>2, DigitSetsAre
<1>6. Numeral(Magnitude(p), b, SignsOf(p)) \in Seq(Characters)
  BY <1>2, <1>5, NumeralType
<1>7. MeantDigits(p) \in Seq(Characters)
  BY <1>3, <1>4, <1>6
<1> QED BY <1>2, <1>3, <1>4, <1>7, LenProperties

Numbers == {"d", "i", "u", "o", "x", "X"}

LEMMA NumberMeant ==
  ASSUME NEW p \in Pieces, p.conv \in Numbers
  PROVE  MeantOf(p) = NumberText(p.zero, Minus(Negative(p)),
                        p.width - Len(Minus(Negative(p))) - Len(MeantDigits(p)),
                        MeantDigits(p))
<1>1. p.conv \notin {"lit", "c", "s"}
  BY DEF Numbers
<1> QED BY <1>1 DEF MeantOf, NumberText, Minus

LEMMA NumberPrinted ==
  ASSUME NEW p \in Pieces, NEW r, r.zero = p.zero, Given(r.before, p.width),
         NEW signed \in BOOLEAN, signed <=> p.conv \in {"d", "i"}
  PROVE  IntegerPrint(r, p.num, Base(p), signed, SignsOf(p)) =
           NumberText(p.zero, Minus(Negative(p)),
             p.width - Len(Minus(Negative(p))) - Len(MeantDigits(p)), MeantDigits(p))
<1> DEFINE v == Magnitude(p)
           dp == CountDigits(v, Base(p))
           sign == signed /\ p.num >= IntValues \div 2
<1>1. sign <=> Negative(p)
  BY DEF Negative
<1>2. v = IF sign THEN IntValues - p.num ELSE p.num
  BY <1>1 DEF Magnitude
<1>3. /\ Digits(v, dp[2], Base(p), SignsOf(p)) = MeantDigits(p)
      /\ dp[1] = Len(MeantDigits(p)) /\ dp[1] \in Nat
  BY NumberParts, DigitsAreNumeral
<1>4. PICK n \in Nat, s \in 0 .. 1 :
        /\ n = dp[1] /\ s = (IF sign THEN 1 ELSE 0) /\ s = Len(Minus(Negative(p)))
  <2>1. Len(<<"-">>) = 1 /\ Len(<<>>) = 0
    OBVIOUS
  <2> QED BY <1>1, <1>3, <2>1 DEF Minus
<1>5. ASSUME NEW c PROVE Rep(c, r.before - n - s) = Rep(c, p.width - s - n)
  <2>1. n + s \in Nat /\ p.width \in Nat /\ r.before \in Int
    BY PieceFields DEF Given
  <2>2. Rep(c, r.before - (n + s)) = Rep(c, p.width - (n + s))
    BY <2>1, SameSpace
  <2>3. r.before - n - s = r.before - (n + s) /\ p.width - s - n = p.width - (n + s)
    BY <2>1
  <2> QED BY <2>2, <2>3
<1>6. IntegerPrint(r, p.num, Base(p), signed, SignsOf(p)) =
        (IF r.zero THEN Minus(sign) \o Rep("0", r.before - n - s)
         ELSE Rep(" ", r.before - n - s) \o Minus(sign)) \o Digits(v, dp[2], Base(p), SignsOf(p))
  BY <1>2, <1>4 DEF IntegerPrint, Minus
<1>7. Minus(sign) = Minus(Negative(p))
  BY <1>1 DEF Minus
<1> HIDE DEF v, dp, sign
<1> QED BY <1>3, <1>4, <1>5, <1>6, <1>7 DEF NumberText

LEMMA OwnAre ==
  /\ {" ", "-", "%", "=", "\n", "\r", "B", "S", "E", "C", "A", "I", "D", "0"} \subseteq Characters
  /\ Conversions \subseteq Characters
<1>1. Lower[1] = "0" /\ 1 \in 1 .. 16
  BY DEF Lower
<1>2. "0" \in OwnCharacters
  BY <1>1 DEF OwnCharacters
<1> QED BY <1>2, ConsoleConstants DEF OwnCharacters

LEMMA TextMeant ==
  ASSUME NEW p \in Pieces, p.conv \in {"lit", "c", "s"}
  PROVE  /\ MeantOf(p) = Rep(" ", p.width - Len(p.str)) \o p.str
         /\ p.conv = "lit" => MeantOf(p) = p.str
<1>1. MeantOf(p) = Rep(" ", p.width - Len(p.str)) \o p.str
  BY DEF MeantOf
<1>2. CASE p.conv = "lit"
  <2>1. p.width - Len(p.str) \in Int /\ p.width - Len(p.str) <= 0
    BY <1>2, PieceFields
  <2>2. Rep(" ", p.width - Len(p.str)) = <<>>
    BY <2>1, RepNone
  <2>3. <<>> \o p.str = p.str
    BY PieceFields, ConcatEmptySeq
  <2> QED BY <1>1, <2>2, <2>3
<1> QED BY <1>1, <1>2

LEMMA MeantOfType ==
  ASSUME NEW p \in Pieces
  PROVE  MeantOf(p) \in Seq(Characters)
<1>1. CASE p.conv \in {"lit", "c", "s"}
  <2>1. p.width - Len(p.str) \in Int /\ p.str \in Seq(Characters)
    <3>1. p.width \in Int /\ p.str \in Seq(Characters)
      BY PieceFields
    <3>2. Len(p.str) \in Nat
      BY <3>1, LenProperties
    <3> QED BY <3>1, <3>2
  <2>2. Rep(" ", p.width - Len(p.str)) \in Seq(Characters)
    BY <2>1, OwnAre, RepType
  <2>3. PICK a \in Seq(Characters), b \in Seq(Characters) :
          a = Rep(" ", p.width - Len(p.str)) /\ b = p.str
    BY <2>1, <2>2
  <2>4. a \o b \in Seq(Characters)
    BY ConcatProperties
  <2> QED BY <1>1, <2>3, <2>4, TextMeant
<1>2. CASE p.conv \in Numbers
  <2>1. PICK d \in Seq(Characters) : d = MeantDigits(p)
    BY NumberParts
  <2>2. PICK m \in Seq(Characters) : m = Minus(Negative(p))
    <3>1. <<"-">> \in Seq(Characters) /\ <<>> \in Seq(Characters)
      <4>1. "-" \in Characters
        BY OwnAre
      <4> QED BY <4>1, OneDigit
    <3> QED BY <3>1 DEF Minus
  <2>3. PICK n \in Int : n = p.width - Len(m) - Len(d)
    BY PieceFields, LenProperties
  <2>4. PICK z \in Seq(Characters), b \in Seq(Characters) : z = Rep("0", n) /\ b = Rep(" ", n)
    BY OwnAre, RepType
  <2>5. PICK x \in Seq(Characters), y \in Seq(Characters) : x = m \o z /\ y = b \o m
    BY ConcatProperties
  <2>6. x \o d \in Seq(Characters) /\ y \o d \in Seq(Characters)
    BY ConcatProperties
  <2>7. NumberText(p.zero, m, n, d) \in Seq(Characters)
    BY <2>4, <2>5, <2>6 DEF NumberText
  <2> QED BY <1>2, <2>1, <2>2, <2>3, <2>7, NumberMeant
<1> QED BY <1>1, <1>2, PieceFields DEF Numbers, Conversions

(* What a conversion prints is what it means. *)
LEMMA ConvertedIsMeant ==
  ASSUME NEW p \in Pieces, p.conv # "lit", NEW r, Head(r.args) = p,
         r.zero = p.zero, Given(r.before, p.width)
  PROVE  Converted(r, p.conv) = MeantOf(p)
<1> DEFINE text == NumberText(p.zero, Minus(Negative(p)),
                     p.width - Len(Minus(Negative(p))) - Len(MeantDigits(p)), MeantDigits(p))
<1>1. CASE p.conv \in {"d", "i"}
  <2>1. IntegerPrint(r, p.num, Base(p), TRUE, SignsOf(p)) = text
    BY <1>1, NumberPrinted
  <2>2. Base(p) = 10 /\ SignsOf(p) = Lower
    BY <1>1 DEF Base, SignsOf
  <2>3. Converted(r, p.conv) = IntegerPrint(r, p.num, 10, TRUE, Lower)
    BY <1>1 DEF Converted
  <2> HIDE DEF text
  <2>4. Converted(r, p.conv) = text
    BY <2>1, <2>2, <2>3
  <2> QED BY <1>1, <2>4, NumberMeant DEF text, Numbers
<1>2. CASE p.conv \in {"u", "o", "x", "X"}
  <2>1. IntegerPrint(r, p.num, Base(p), FALSE, SignsOf(p)) = text
    BY <1>2, NumberPrinted
  <2>2. Converted(r, p.conv) = IntegerPrint(r, p.num, Base(p), FALSE, SignsOf(p))
    BY <1>2 DEF Converted, Base, SignsOf
  <2> HIDE DEF text
  <2>3. Converted(r, p.conv) = text
    BY <2>1, <2>2
  <2> QED BY <1>2, <2>3, NumberMeant DEF text, Numbers
<1>3. CASE p.conv = "c"
  <2>1. Converted(r, p.conv) = Rep(" ", r.before - 1) \o p.str
    BY <1>3 DEF Converted
  <2>2. Len(p.str) = 1 /\ p.width \in Nat
    BY <1>3, PieceFields
  <2>3. Rep(" ", r.before - 1) = Rep(" ", p.width - 1)
    <3>1. PICK n \in Nat : n = 1
      OBVIOUS
    <3>2. Rep(" ", r.before - n) = Rep(" ", p.width - n)
      BY <2>2, SameSpace
    <3> QED BY <3>1, <3>2
  <2> QED BY <1>3, <2>1, <2>2, <2>3, TextMeant
<1>4. CASE p.conv = "s"
  <2>1. Converted(r, p.conv) = Rep(" ", r.before - Len(p.str)) \o p.str
    BY <1>4 DEF Converted
  <2>2. Len(p.str) \in Nat /\ p.width \in Nat
    BY PieceFields, LenProperties
  <2>3. Rep(" ", r.before - Len(p.str)) = Rep(" ", p.width - Len(p.str))
    BY <2>2, SameSpace
  <2> QED BY <1>4, <2>1, <2>3, TextMeant
<1> QED BY <1>1, <1>2, <1>3, <1>4, PieceFields DEF Conversions

-----------------------------------------------------------------------------
(* Messages: the format of one, its arguments and what it means, by its first
   piece and the others. *)
WidthOf(p) == IF p.width > 0 THEN Before(Lower[p.width + 1], <<p.conv>>) ELSE <<p.conv>>

LEMMA SpecParts ==
  ASSUME NEW p \in Pieces
  PROVE  /\ p.conv = "lit" => SpecOf(p) = <<"%">>
         /\ p.conv # "lit" =>
              /\ SpecOf(p) = IF p.zero THEN Before("0", WidthOf(p)) ELSE WidthOf(p)
              /\ p.conv \in Characters
              /\ p.width > 0 => Lower[p.width + 1] \in Characters
              /\ WidthOf(p) \in Seq(Characters)
         /\ SpecOf(p) \in Seq(Characters)
<1>1. CASE p.conv = "lit"
  <2>1. "%" \in Characters /\ SpecOf(p) = <<"%">>
    BY <1>1, OwnAre DEF SpecOf
  <2> QED BY <1>1, <2>1, OneDigit
<1>2. CASE p.conv # "lit"
  <2>1. p.conv \in Characters
    BY <1>2, PieceFields, OwnAre
  <2>2. p.width > 0 => Lower[p.width + 1] \in Characters
    <3>1. Lower \in DigitSets /\ p.width \in 0 .. 15
      BY PieceFields DEF DigitSets
    <3> QED BY <3>1, DigitSetsAre
  <2>3. <<p.conv>> \in Seq(Characters) /\ <<>> \in Seq(Characters)
    BY <2>1, OneDigit
  <2>4. WidthOf(p) \in Seq(Characters)
    BY <2>2, <2>3, DigitTypes DEF WidthOf
  <2>5. SpecOf(p) = (IF p.zero THEN <<"0">> ELSE <<>>)
                    \o (IF p.width > 0 THEN <<Lower[p.width + 1]>> ELSE <<>>) \o <<p.conv>>
    BY <1>2 DEF SpecOf
  <2>6. PICK a \in Seq(Characters), b \in Seq(Characters), c \in Seq(Characters) :
          /\ a = IF p.zero THEN <<"0">> ELSE <<>>
          /\ b = IF p.width > 0 THEN <<Lower[p.width + 1]>> ELSE <<>>
          /\ c = <<p.conv>>
    <3>1. <<"0">> \in Seq(Characters)
      <4>1. "0" \in Characters
        BY OwnAre
      <4> QED BY <4>1, OneDigit
    <3>2. p.width > 0 => <<Lower[p.width + 1]>> \in Seq(Characters)
      BY <2>2, OneDigit
    <3> QED BY <2>3, <3>1, <3>2
  <2>7. b \o c = WidthOf(p)
    <3>1. CASE p.width > 0
      BY <2>6, <3>1 DEF WidthOf, Before
    <3>2. CASE ~ (p.width > 0)
      <4>1. <<>> \o c = c
        BY ConcatEmptySeq
      <4> QED BY <2>6, <3>2, <4>1 DEF WidthOf
    <3> QED BY <3>1, <3>2
  <2>8. PICK d \in Seq(Characters) : d = WidthOf(p)
    BY <2>4
  <2>9. (a \o b) \o c = a \o d
    <3>1. Groups(a, b, c)
      BY ConcatGroups
    <3> QED BY <2>7, <2>8, <3>1 DEF Groups
  <2>10. a \o d = IF p.zero THEN Before("0", d) ELSE d
    <3>1. <<>> \o d = d
      BY ConcatEmptySeq
    <3>2. CASE p.zero
      BY <2>6, <3>2 DEF Before
    <3>3. CASE ~ p.zero
      BY <2>6, <3>1, <3>3
    <3> QED BY <3>2, <3>3
  <2>11. a \o d \in Seq(Characters)
    BY ConcatProperties
  <2>12. SpecOf(p) = a \o d
    BY <2>5, <2>6, <2>9
  <2> QED BY <1>2, <2>1, <2>2, <2>4, <2>8, <2>10, <2>11, <2>12
<1> QED BY <1>1, <1>2

LEMMA FormatParts ==
  ASSUME NEW p \in Pieces
  PROVE  /\ FormatOf(p) = IF p.conv = "lit" /\ p.str # <<"%">> THEN p.str
                          ELSE Before("%", SpecOf(p))
         /\ FormatOf(p) \in Seq(Characters)
         /\ ArgumentsOf(p) = IF p.conv = "lit" THEN <<>> ELSE <<p>>
         /\ ArgumentsOf(p) \in Seq(Pieces)
<1>1. FormatOf(p) = IF p.conv = "lit" /\ p.str # <<"%">> THEN p.str
                    ELSE Before("%", SpecOf(p))
  BY DEF FormatOf, Before
<1>2. Before("%", SpecOf(p)) \in Seq(Characters) /\ p.str \in Seq(Characters)
  <2>1. "%" \in Characters
    BY OwnAre
  <2> QED BY <2>1, SpecParts, PieceFields, DigitTypes
<1>3. ArgumentsOf(p) = IF p.conv = "lit" THEN <<>> ELSE <<p>>
  BY DEF ArgumentsOf
<1>4. <<p>> \in Seq(Pieces) /\ <<>> \in Seq(Pieces)
  BY OneDigit
<1> QED BY <1>1, <1>2, <1>3, <1>4

LEMMA MessageTypes ==
  ASSUME NEW msg \in Seq(Pieces)
  PROVE  /\ Format(msg) \in Seq(Characters) /\ Arguments(msg) \in Seq(Pieces)
         /\ Meant(msg) \in Seq(Characters)
<1> DEFINE f == [p \in Pieces |-> FormatOf(p)]
           g == [p \in Pieces |-> ArgumentsOf(p)]
           h == [p \in Pieces |-> MeantOf(p)]
<1>1. /\ \A p \in Pieces : f[p] = FormatOf(p) /\ f[p] \in Seq(Characters)
      /\ \A p \in Pieces : g[p] = ArgumentsOf(p) /\ g[p] \in Seq(Pieces)
      /\ \A p \in Pieces : h[p] = MeantOf(p) /\ h[p] \in Seq(Characters)
  BY FormatParts, MeantOfType
<1> HIDE DEF f, g, h
<1>2. /\ Mapped(f, msg) = [k \in DOMAIN msg |-> FormatOf(msg[k])]
      /\ Mapped(g, msg) = [k \in DOMAIN msg |-> ArgumentsOf(msg[k])]
      /\ Mapped(h, msg) = [k \in DOMAIN msg |-> MeantOf(msg[k])]
  BY <1>1, ElementOfSeq, LenProperties DEF Mapped
<1>3. /\ Mapped(f, msg) \in Seq(Seq(Characters)) /\ Mapped(g, msg) \in Seq(Seq(Pieces))
      /\ Mapped(h, msg) \in Seq(Seq(Characters))
  BY <1>1, MappedType
<1> QED BY <1>2, <1>3, FlattenType DEF Format, Arguments, Meant

LEMMA MessageParts ==
  ASSUME NEW p \in Pieces, NEW msg \in Seq(Pieces)
  PROVE  /\ Format(Before(p, msg)) = FormatOf(p) \o Format(msg)
         /\ Arguments(Before(p, msg)) = ArgumentsOf(p) \o Arguments(msg)
         /\ Meant(Before(p, msg)) = MeantOf(p) \o Meant(msg)
<1> DEFINE f == [q \in Pieces |-> FormatOf(q)]
           g == [q \in Pieces |-> ArgumentsOf(q)]
           h == [q \in Pieces |-> MeantOf(q)]
<1>1. /\ \A q \in Pieces : f[q] = FormatOf(q) /\ f[q] \in Seq(Characters)
      /\ \A q \in Pieces : g[q] = ArgumentsOf(q) /\ g[q] \in Seq(Pieces)
      /\ \A q \in Pieces : h[q] = MeantOf(q) /\ h[q] \in Seq(Characters)
  BY FormatParts, MeantOfType
<1> HIDE DEF f, g, h
<1>2. ASSUME NEW s \in Seq(Pieces)
      PROVE  /\ Format(s) = FlattenSeq(Mapped(f, s))
             /\ Arguments(s) = FlattenSeq(Mapped(g, s))
             /\ Meant(s) = FlattenSeq(Mapped(h, s))
  <2>1. /\ Mapped(f, s) = [k \in DOMAIN s |-> FormatOf(s[k])]
        /\ Mapped(g, s) = [k \in DOMAIN s |-> ArgumentsOf(s[k])]
        /\ Mapped(h, s) = [k \in DOMAIN s |-> MeantOf(s[k])]
    BY <1>1, ElementOfSeq, LenProperties DEF Mapped
  <2> QED BY <2>1 DEF Format, Arguments, Meant
<1>3. Before(p, msg) \in Seq(Pieces)
  BY DigitTypes
<1>4. FlattensCons(f, p, msg) /\ FlattensCons(g, p, msg) /\ FlattensCons(h, p, msg)
  BY <1>1, FlattenMapped
<1>5. /\ FlattenSeq(Mapped(f, Before(p, msg))) = f[p] \o FlattenSeq(Mapped(f, msg))
      /\ FlattenSeq(Mapped(g, Before(p, msg))) = g[p] \o FlattenSeq(Mapped(g, msg))
      /\ FlattenSeq(Mapped(h, Before(p, msg))) = h[p] \o FlattenSeq(Mapped(h, msg))
  BY <1>4 DEF Before, FlattensCons
<1> QED BY <1>1, <1>2, <1>3, <1>5

LEMMA NoMessage == Format(<<>>) = <<>> /\ Arguments(<<>>) = <<>> /\ Meant(<<>>) = <<>>
<1>1. [k \in DOMAIN <<>> |-> FormatOf(<<>>[k])] = <<>>
      /\ [k \in DOMAIN <<>> |-> ArgumentsOf(<<>>[k])] = <<>>
      /\ [k \in DOMAIN <<>> |-> MeantOf(<<>>[k])] = <<>>
  OBVIOUS
<1> QED BY <1>1, FlattenEmpty DEF Format, Arguments, Meant

-----------------------------------------------------------------------------
(* The scans, one character at a time: by a digit and by a conversion. *)
LEMMA DigitsDiffer ==
  ASSUME NEW d \in 1 .. 10
  PROVE  /\ \A e \in 1 .. 10 : Lower[d] = Lower[e] => d = e
         /\ Lower[d] \notin Conversions \cup {".", "%", "l"}
         /\ d # 1 => Lower[d] # "0"
<1>1. \/ d = 1 \/ d = 2 \/ d = 3 \/ d = 4 \/ d = 5 \/ d = 6 \/ d = 7 \/ d = 8 \/ d = 9
      \/ d = 10
  OBVIOUS
<1>2. ASSUME NEW e \in 1 .. 10, Lower[d] = Lower[e] PROVE d = e
  <2>1. \/ e = 1 \/ e = 2 \/ e = 3 \/ e = 4 \/ e = 5 \/ e = 6 \/ e = 7 \/ e = 8 \/ e = 9
        \/ e = 10
    OBVIOUS
  <2> QED BY <1>1, <1>2, <2>1 DEF Lower
<1>3. Lower[d] \notin Conversions \cup {".", "%", "l"} /\ (d # 1 => Lower[d] # "0")
  BY <1>1 DEF Lower, Conversions
<1> QED BY <1>2, <1>3

LEMMA DigitRead ==
  ASSUME NEW n \in 1 .. 9
  PROVE  /\ IsDigit(Lower[n + 1]) /\ DigitValue(Lower[n + 1]) = n
         /\ Lower[n + 1] \notin Conversions \cup {".", "%", "l", "0"}
<1>1. n + 1 \in 1 .. 10 /\ n + 1 # 1
  OBVIOUS
<1>2. PICK d \in 1 .. 10 : d = n + 1
  BY <1>1
<1>3. IsDigit(Lower[d])
  BY DEF IsDigit
<1>4. DigitValue(Lower[d]) = d - 1
  <2>1. \A e \in 1 .. 10 : Lower[e] = Lower[d] => e = d
    BY DigitsDiffer
  <2>2. (CHOOSE e \in 1 .. 10 : Lower[e] = Lower[d]) = d
    BY <2>1
  <2> QED BY <2>2 DEF DigitValue
<1>5. Lower[d] \notin Conversions \cup {".", "%", "l", "0"}
  BY <1>1, <1>2, DigitsDiffer
<1> QED BY <1>2, <1>3, <1>4, <1>5

LEMMA ConversionRead ==
  ASSUME NEW c \in Conversions
  PROVE  ~ IsDigit(c) /\ c \notin {".", "%", "l", "0"}
<1>1. ~ IsDigit(c)
  BY DigitsDiffer DEF IsDigit
<1> QED BY <1>1 DEF Conversions

Calls ==
  [kind : {"none", "log", "printf"}, w : Seq(Characters), args : Seq(Pieces),
   state : {"chars", "first", "other"}, zero : BOOLEAN, before : Int, decimal : BOOLEAN,
   q : Seq(Characters), ready : BOOLEAN,
   sent : Seq(Characters), lost : BOOLEAN, meant : Seq(Characters)]

(* A call x whose scan is one character on, at w. *)
Moved(x, w, args, state, zero, before, q) ==
  [x EXCEPT !.w = w, !.args = args, !.state = state, !.zero = zero, !.before = before,
            !.decimal = FALSE, !.q = q]
Taken(x) == [x EXCEPT !.w = Tail(@)]

LEMMA CharsMoves ==
  ASSUME NEW x \in Calls, x.state = "chars", x.decimal = FALSE, NEW c
  PROVE  /\ c = "%" => Chars(Taken(x), c) = Moved(x, Tail(x.w), x.args, "first", FALSE, -1, x.q)
         /\ c # "%" => Chars(Taken(x), c) =
                         Moved(x, Tail(x.w), x.args, "chars", x.zero, x.before, <<c>>)
BY DEF Chars, Taken, Moved, Calls

LEMMA OtherReads ==
  ASSUME NEW y \in Calls
  PROVE  /\ \A n \in 1 .. 9 :
              y.decimal = FALSE /\ y.before = -1 => OtherFmtChar(y, Lower[n + 1]) = [y EXCEPT !.before = n]
         /\ \A c \in Conversions :
              OtherFmtChar(y, c) =
                [y EXCEPT !.q = Converted(y, c), !.args = Tail(@), !.state = "chars"]
<1>1. ASSUME NEW n \in 1 .. 9, y.decimal = FALSE, y.before = -1
      PROVE  OtherFmtChar(y, Lower[n + 1]) = [y EXCEPT !.before = n]
  <2>1. PICK c : c = Lower[n + 1]
    OBVIOUS
  <2>2. IsDigit(c) /\ DigitValue(c) = n /\ c \notin Conversions \cup {".", "%", "l", "0"}
    BY <2>1, DigitRead
  <2>3. OtherFmtChar(y, c) = [y EXCEPT !.before = (IF @ < 0 THEN 0 ELSE @ * 10) + DigitValue(c)]
    BY <1>1, <2>2 DEF OtherFmtChar
  <2>4. (IF y.before < 0 THEN 0 ELSE y.before * 10) + DigitValue(c) = n
    BY <1>1, <2>2
  <2> QED BY <2>1, <2>3, <2>4
<1>2. ASSUME NEW c \in Conversions
      PROVE  OtherFmtChar(y, c) =
               [y EXCEPT !.q = Converted(y, c), !.args = Tail(@), !.state = "chars"]
  <2>1. ~ IsDigit(c) /\ c \notin {".", "%", "l", "0"}
    BY ConversionRead
  <2> QED BY <2>1 DEF OtherFmtChar
<1> QED BY <1>1, <1>2

(* Where the scan of a call is: before a piece, in what follows its "%", or at its
   width or conversion.  goal is what is still to be printed. *)
AtPiece(x, rest, goal) ==
  x.state = "chars" /\ x.w = Format(rest) /\ x.args = Arguments(rest) /\ goal = Meant(rest)

InPiece(x, p, rest, goal) ==
  /\ x.q = <<>>
  /\ x.args = ArgumentsOf(p) \o Arguments(rest)
  /\ goal = MeantOf(p) \o Meant(rest)

AtSpec(x, p, rest) ==
  /\ x.state = "first" /\ x.zero = FALSE /\ x.before = -1
  /\ p.conv = "lit" => p.str = <<"%">>
  /\ x.w = SpecOf(p) \o Format(rest)

AtConversion(x, p, rest) ==
  /\ x.state = "other" /\ x.zero = p.zero /\ p.conv # "lit"
  /\ \/ p.width > 0 /\ x.before = -1 /\ x.w = WidthOf(p) \o Format(rest)
     \/ Given(x.before, p.width) /\ x.w = Before(p.conv, Format(rest))

Scanning(x, goal, P) ==
  /\ x.decimal = FALSE
  /\ \E rest \in Seq(P) :
       \/ AtPiece(x, rest, goal)
       \/ \E p \in P : InPiece(x, p, rest, goal) /\ (AtSpec(x, p, rest) \/ AtConversion(x, p, rest))

(* What is printed next, and then: y's goal is what x's leaves. *)
SameCall(x, y) ==
  y.kind = x.kind /\ y.ready = x.ready /\ y.sent = x.sent /\ y.lost = x.lost /\ y.meant = x.meant

Advanced(x, y, goal, P) ==
  /\ y \in Calls /\ SameCall(x, y)
  /\ \E g \in Seq(Characters) : Scanning(y, g, P) /\ goal = y.q \o g

LEMMA TakenIs ==
  ASSUME NEW x \in Calls, x.w # <<>>
  PROVE  /\ Taken(x) \in Calls /\ Tail(x.w) \in Seq(Characters) /\ Head(x.w) \in Characters
         /\ Taken(x).w = Tail(x.w) /\ Taken(x).args = x.args /\ Taken(x).state = x.state
         /\ Taken(x).zero = x.zero /\ Taken(x).before = x.before
         /\ Taken(x).decimal = x.decimal /\ Taken(x).q = x.q /\ Taken(x).kind = x.kind
<1>1. x.w \in Seq(Characters)
  BY DEF Calls
<1>2. Tail(x.w) \in Seq(Characters) /\ Head(x.w) \in Characters
  BY <1>1, ConsOf
<1> QED BY <1>2 DEF Taken, Calls

(* By a width. *)
LEMMA WidthMoves ==
  ASSUME NEW x \in Calls, x.w # <<>>, x.decimal = FALSE, x.before = -1, NEW n \in 1 .. 9,
         NEW y \in {Taken(x), [Taken(x) EXCEPT !.state = "other"]}
  PROVE  OtherFmtChar(y, Lower[n + 1]) =
           Moved(x, Tail(x.w), x.args, y.state, x.zero, n, x.q)
<1>1. y \in Calls /\ y.decimal = FALSE /\ y.before = -1
  BY TakenIs DEF Calls
<1>2. OtherFmtChar(y, Lower[n + 1]) = [y EXCEPT !.before = n]
  BY <1>1, OtherReads
<1>3. [y EXCEPT !.before = n] = Moved(x, Tail(x.w), x.args, y.state, x.zero, n, x.q)
  BY DEF Moved, Taken, Calls
<1> QED BY <1>2, <1>3

(* By a conversion. *)
LEMMA ConversionMoves ==
  ASSUME NEW x \in Calls, x.w # <<>>, x.decimal = FALSE,
         NEW p \in Pieces, p.conv # "lit", NEW rest \in Seq(Pieces),
         x.args = ArgumentsOf(p) \o Arguments(rest),
         x.zero = p.zero, Given(x.before, p.width),
         NEW y \in {Taken(x), [Taken(x) EXCEPT !.state = "other"]}
  PROVE  OtherFmtChar(y, p.conv) =
           Moved(x, Tail(x.w), Arguments(rest), "chars", x.zero, x.before, MeantOf(p))
<1>1. y \in Calls /\ y.zero = x.zero /\ y.before = x.before /\ y.args = x.args
  BY TakenIs DEF Calls
<1>2. x.args = <<p>> \o Arguments(rest) /\ Arguments(rest) \in Seq(Pieces)
  BY FormatParts, MessageTypes
<1>3. Head(y.args) = p /\ Tail(y.args) = Arguments(rest)
  BY <1>1, <1>2, ConsParts
<1>4. Converted(y, p.conv) = MeantOf(p)
  BY <1>1, <1>3, ConvertedIsMeant
<1>5. p.conv \in Conversions
  BY PieceFields
<1>6. OtherFmtChar(y, p.conv) =
        [y EXCEPT !.q = Converted(y, p.conv), !.args = Tail(@), !.state = "chars"]
  BY <1>1, <1>5, OtherReads
<1>7. [y EXCEPT !.q = Converted(y, p.conv), !.args = Tail(@), !.state = "chars"] =
        [y EXCEPT !.q = MeantOf(p), !.args = Arguments(rest), !.state = "chars"]
  BY <1>3, <1>4
<1>8. [y EXCEPT !.q = MeantOf(p), !.args = Arguments(rest), !.state = "chars"] =
        Moved(x, Tail(x.w), Arguments(rest), "chars", x.zero, x.before, MeantOf(p))
  <2>1. PICK a, m, v : a = Arguments(rest) /\ m = MeantOf(p) /\ v = Tail(x.w)
    OBVIOUS
  <2>2. CASE y = Taken(x)
    <3>1. [y EXCEPT !.q = m, !.args = a, !.state = "chars"] =
            Moved(x, v, a, "chars", x.zero, x.before, m)
      BY <2>1, <2>2 DEF Moved, Taken, Calls
    <3> QED BY <2>1, <3>1
  <2>3. CASE y = [Taken(x) EXCEPT !.state = "other"]
    <3>1. [y EXCEPT !.q = m, !.args = a, !.state = "chars"] =
            Moved(x, v, a, "chars", x.zero, x.before, m)
      BY <2>1, <2>3 DEF Moved, Taken, Calls
    <3> QED BY <2>1, <3>1
  <2> QED BY <2>2, <2>3
<1> QED BY <1>6, <1>7, <1>8

(* What a moved call is, and what a text is with a character before it. *)
IsMoved(y, x, w, args, state, zero, before, q) ==
  /\ y \in Calls /\ SameCall(x, y)
  /\ y.w = w /\ y.args = args /\ y.state = state /\ y.zero = zero
  /\ y.before = before /\ y.decimal = FALSE /\ y.q = q

LEMMA MovedDoes ==
  ASSUME NEW x \in Calls, NEW w \in Seq(Characters), NEW args \in Seq(Pieces),
         NEW state \in {"chars", "first", "other"}, NEW zero \in BOOLEAN,
         NEW before \in Int, NEW q \in Seq(Characters)
  PROVE  IsMoved(Moved(x, w, args, state, zero, before, q), x, w, args, state, zero, before, q)
BY DEF Moved, Calls, IsMoved, SameCall

Splits(c, s, t) ==
  /\ Before(c, s) \in Seq(Characters) /\ Before(c, s) # <<>>
  /\ Head(Before(c, s)) = c /\ Tail(Before(c, s)) = s
  /\ Before(c, s) \o t = Before(c, s \o t)
  /\ <<c>> \o t = Before(c, t)

LEMMA TextSplits ==
  ASSUME NEW c \in Characters, NEW s \in Seq(Characters), NEW t \in Seq(Characters)
  PROVE  Splits(c, s, t)
<1>1. <<c>> \in Seq(Characters)
  OBVIOUS
<1>2. PICK one \in Seq(Characters) : one = <<c>>
  BY <1>1
<1>3. Groups(one, s, t)
  BY ConcatGroups
<1> QED BY <1>2, <1>3, ConsParts DEF Before, Splits, Groups

(* A piece is printed, or the scan goes on in it. *)
LEMMA PiecePrinted ==
  ASSUME NEW x \in Calls, NEW P, P \subseteq Pieces, NEW rest \in Seq(P),
         NEW zero \in BOOLEAN, NEW before \in Int, NEW m \in Seq(Characters),
         NEW y, y = Moved(x, Format(rest), Arguments(rest), "chars", zero, before, m),
         NEW goal, goal = m \o Meant(rest)
  PROVE  Advanced(x, y, goal, P)
<1>1. rest \in Seq(Pieces)
  OBVIOUS
<1>2. PICK w \in Seq(Characters), args \in Seq(Pieces), g \in Seq(Characters) :
        w = Format(rest) /\ args = Arguments(rest) /\ g = Meant(rest)
  BY <1>1, MessageTypes
<1>3. IsMoved(y, x, w, args, "chars", zero, before, m)
  BY <1>2, MovedDoes
<1>4. AtPiece(y, rest, g)
  BY <1>2, <1>3 DEF IsMoved, AtPiece
<1>5. Scanning(y, g, P)
  BY <1>3, <1>4 DEF Scanning, IsMoved
<1>6. y \in Calls /\ SameCall(x, y) /\ goal = y.q \o g
  BY <1>2, <1>3 DEF IsMoved
<1> QED BY <1>5, <1>6 DEF Advanced

LEMMA PieceEntered ==
  ASSUME NEW x \in Calls, NEW y \in Calls, SameCall(x, y), y.decimal = FALSE,
         NEW P, P \subseteq Pieces, NEW rest \in Seq(P), NEW p \in P, NEW goal,
         InPiece(y, p, rest, goal), AtSpec(y, p, rest) \/ AtConversion(y, p, rest)
  PROVE  Advanced(x, y, goal, P)
<1>1. rest \in Seq(Pieces) /\ p \in Pieces
  OBVIOUS
<1>2. PICK m \in Seq(Characters), s \in Seq(Characters) : m = MeantOf(p) /\ s = Meant(rest)
  BY <1>1, MeantOfType, MessageTypes
<1>3. goal = m \o s /\ m \o s \in Seq(Characters)
  BY <1>2, ConcatProperties DEF InPiece
<1>4. <<>> \o goal = goal
  BY <1>3, ConcatEmptySeq
<1>5. Scanning(y, goal, P)
  BY DEF Scanning
<1>6. y.q = <<>>
  BY DEF InPiece
<1> QED BY <1>3, <1>4, <1>5, <1>6 DEF Advanced

(* What there is before a piece. *)
Starts(x, p, others, goal) ==
  /\ x.w = FormatOf(p) \o Format(others)
  /\ x.args = ArgumentsOf(p) \o Arguments(others)
  /\ goal = MeantOf(p) \o Meant(others)

LEMMA FirstPiece ==
  ASSUME NEW x \in Calls, x.w # <<>>, NEW P, P \subseteq Pieces, NEW rest \in Seq(P), NEW goal,
         AtPiece(x, rest, goal)
  PROVE  \E p \in P, others \in Seq(P) : Starts(x, p, others, goal)
<1>1. rest # <<>>
  BY NoMessage DEF AtPiece
<1>2. PICK p \in P, others \in Seq(P) : rest = <<p>> \o others
  BY <1>1, ConsOf
<1>3. p \in Pieces /\ others \in Seq(Pieces) /\ rest = Before(p, others)
  BY <1>2 DEF Before
<1>4. Starts(x, p, others, goal)
  BY <1>3, MessageParts DEF AtPiece, Starts
<1> QED BY <1>4

LEMMA CharsAdvance ==
  ASSUME NEW x \in Calls, x.q = <<>>, x.w # <<>>, x.decimal = FALSE,
         NEW P, P \subseteq Pieces, NEW rest \in Seq(P), NEW goal, AtPiece(x, rest, goal)
  PROVE  Advanced(x, Chars(Taken(x), Head(x.w)), goal, P)
<1>1. PICK p \in P, others \in Seq(P) : Starts(x, p, others, goal)
  BY FirstPiece
<1>2. p \in Pieces /\ others \in Seq(Pieces) /\ x.state = "chars"
  BY DEF AtPiece
<1>3. PICK f \in Seq(Characters), s \in Seq(Characters) :
        f = Format(others) /\ s = SpecOf(p)
  BY <1>2, MessageTypes, SpecParts
<1>4. CASE p.conv = "lit" /\ p.str # <<"%">>
  <2>1. PICK c \in Characters : p.str = <<c>>
    <3>1. p.str \in Seq(Characters) /\ Len(p.str) = 1
      BY <1>2, <1>4, PieceFields
    <3>2. p.str[1] \in Characters /\ p.str = <<p.str[1]>>
      BY <3>1
    <3> QED BY <3>2
  <2>2. c # "%"
    BY <1>4, <2>1
  <2>3. Splits(c, f, f)
    BY TextSplits
  <2>4. x.w = Before(c, f)
    BY <1>1, <1>2, <1>3, <1>4, <2>1, <2>3, FormatParts DEF Splits, Starts
  <2>5. Head(x.w) = c /\ Tail(x.w) = f
    BY <2>3, <2>4 DEF Splits
  <2>6. x.args = Arguments(others)
    <3>1. ArgumentsOf(p) = <<>>
      BY <1>2, <1>4, FormatParts
    <3>2. <<>> \o Arguments(others) = Arguments(others)
      BY <1>2, MessageTypes, ConcatEmptySeq
    <3> QED BY <1>1, <3>1, <3>2 DEF Starts
  <2>7. MeantOf(p) = <<c>>
    BY <1>2, <1>4, <2>1, TextMeant
  <2>8. PICK m \in Seq(Characters) : m = <<c>>
    BY OneDigit
  <2>9. Chars(Taken(x), c) = Moved(x, f, Arguments(others), "chars", x.zero, x.before, m)
    BY <1>2, <2>2, <2>5, <2>6, <2>8, CharsMoves
  <2>10. x.zero \in BOOLEAN /\ x.before \in Int
    BY DEF Calls
  <2>11. goal = m \o Meant(others)
    BY <1>1, <2>7, <2>8 DEF Starts
  <2>12. PICK zero \in BOOLEAN, before \in Int : zero = x.zero /\ before = x.before
    BY <2>10
  <2> DEFINE y == Chars(Taken(x), c)
  <2>13. y = Moved(x, Format(others), Arguments(others), "chars", zero, before, m)
    BY <1>3, <2>9, <2>12
  <2> HIDE DEF y
  <2>14. Advanced(x, y, goal, P)
    BY <2>11, <2>13, PiecePrinted
  <2> QED BY <2>5, <2>14 DEF y
<1>5. CASE ~ (p.conv = "lit" /\ p.str # <<"%">>)
  <2>1. PICK percent \in Characters : percent = "%"
    BY OwnAre
  <2>2. FormatOf(p) = Before("%", s)
    BY <1>2, <1>3, <1>5, FormatParts
  <2>3. PICK w \in Seq(Characters) : w = s \o f
    BY ConcatProperties
  <2>4. Splits(percent, s, f) /\ Splits(percent, w, f)
    BY TextSplits
  <2>5. x.w = Before("%", w)
    BY <1>1, <1>3, <2>1, <2>2, <2>3, <2>4 DEF Splits, Starts
  <2>6. Head(x.w) = "%" /\ Tail(x.w) = w
    BY <2>1, <2>4, <2>5 DEF Splits
  <2>7. PICK y : y = Chars(Taken(x), "%")
    OBVIOUS
  <2>8. PICK args \in Seq(Pieces), before \in Int, zero \in BOOLEAN, q \in Seq(Characters) :
          args = x.args /\ before = -1 /\ zero = FALSE /\ q = x.q
    BY DEF Calls
  <2>9. y = Moved(x, w, args, "first", zero, before, q)
    BY <1>2, <2>6, <2>7, <2>8, CharsMoves
  <2>10. IsMoved(y, x, w, args, "first", zero, before, q)
    BY <2>9, MovedDoes
  <2>11. InPiece(y, p, others, goal)
    BY <1>1, <2>8, <2>10 DEF InPiece, Starts, IsMoved
  <2>12. AtSpec(y, p, others)
    BY <1>3, <1>5, <2>3, <2>8, <2>10 DEF AtSpec, IsMoved
  <2>13. y \in Calls /\ SameCall(x, y) /\ y.decimal = FALSE
    BY <2>10 DEF IsMoved
  <2>14. Advanced(x, y, goal, P)
    BY <2>11, <2>12, <2>13, PieceEntered
  <2> QED BY <2>6, <2>7, <2>14
<1> QED BY <1>4, <1>5

(* On from a width, and from a conversion. *)
LEMMA WidthAdvance ==
  ASSUME NEW x \in Calls, x.q = <<>>, x.decimal = FALSE, x.before = -1,
         NEW P, P \subseteq Pieces, NEW rest \in Seq(P), NEW p \in P, NEW goal,
         InPiece(x, p, rest, goal), x.zero = p.zero, p.conv # "lit", p.width > 0,
         x.w = WidthOf(p) \o Format(rest),
         NEW t \in {Taken(x), [Taken(x) EXCEPT !.state = "other"]}, t.state = "other"
  PROVE  Advanced(x, OtherFmtChar(t, Head(x.w)), goal, P)
<1>1. p \in Pieces /\ rest \in Seq(Pieces)
  OBVIOUS
<1>2. PICK f \in Seq(Characters), c \in Characters, n \in 1 .. 9 :
        f = Format(rest) /\ c = p.conv /\ n = p.width
  BY <1>1, MessageTypes, SpecParts, PieceFields
<1>3. PICK d \in Characters : d = Lower[n + 1]
  BY <1>1, <1>2, SpecParts
<1>4. PICK s \in Seq(Characters), w \in Seq(Characters) : s = <<c>> /\ w = Before(c, f)
  BY OneDigit, DigitTypes
<1>5. Splits(d, s, f) /\ Splits(d, w, f) /\ Splits(c, f, f)
  BY TextSplits
<1>6. x.w = Before(d, w)
  BY <1>2, <1>3, <1>4, <1>5 DEF WidthOf, Splits
<1>7. x.w # <<>> /\ Head(x.w) = d /\ Tail(x.w) = w
  BY <1>5, <1>6 DEF Splits
<1>8. OtherFmtChar(t, Lower[n + 1]) = Moved(x, Tail(x.w), x.args, t.state, x.zero, n, x.q)
  BY <1>7, WidthMoves
<1> DEFINE y == OtherFmtChar(t, Head(x.w))
<1>9. PICK args \in Seq(Pieces), zero \in BOOLEAN, q \in Seq(Characters) :
        args = x.args /\ zero = x.zero /\ q = x.q
  BY DEF Calls
<1>10. y = Moved(x, w, args, "other", zero, n, q)
  BY <1>3, <1>7, <1>8, <1>9
<1> HIDE DEF y
<1>11. n \in Int /\ "other" \in {"chars", "first", "other"}
  OBVIOUS
<1>12. IsMoved(y, x, w, args, "other", zero, n, q)
  BY <1>10, <1>11, MovedDoes
<1>13. InPiece(y, p, rest, goal)
  BY <1>9, <1>12 DEF InPiece, IsMoved
<1>14. AtConversion(y, p, rest)
  BY <1>2, <1>4, <1>9, <1>12 DEF AtConversion, IsMoved, Given
<1>15. y \in Calls /\ SameCall(x, y) /\ y.decimal = FALSE
  BY <1>12 DEF IsMoved
<1>16. Advanced(x, y, goal, P)
  BY <1>13, <1>14, <1>15, PieceEntered
<1> QED BY <1>16 DEF y

LEMMA ConversionAdvance ==
  ASSUME NEW x \in Calls, x.q = <<>>, x.decimal = FALSE,
         NEW P, P \subseteq Pieces, NEW rest \in Seq(P), NEW p \in P, NEW goal,
         InPiece(x, p, rest, goal), x.zero = p.zero, p.conv # "lit",
         Given(x.before, p.width), x.w = Before(p.conv, Format(rest)),
         NEW t \in {Taken(x), [Taken(x) EXCEPT !.state = "other"]}
  PROVE  Advanced(x, OtherFmtChar(t, Head(x.w)), goal, P)
<1>1. p \in Pieces /\ rest \in Seq(Pieces)
  OBVIOUS
<1>2. PICK f \in Seq(Characters), c \in Characters, m \in Seq(Characters) :
        f = Format(rest) /\ c = p.conv /\ m = MeantOf(p)
  BY <1>1, MessageTypes, SpecParts, MeantOfType
<1>3. Splits(c, f, f)
  BY TextSplits
<1>4. x.w # <<>> /\ Head(x.w) = p.conv /\ Tail(x.w) = f
  BY <1>2, <1>3 DEF Splits
<1>5. OtherFmtChar(t, p.conv) =
        Moved(x, Tail(x.w), Arguments(rest), "chars", x.zero, x.before, MeantOf(p))
  BY <1>1, <1>4, ConversionMoves DEF InPiece
<1> DEFINE y == OtherFmtChar(t, Head(x.w))
<1>6. PICK zero \in BOOLEAN, before \in Int : zero = x.zero /\ before = x.before
  BY DEF Calls
<1>7. y = Moved(x, Format(rest), Arguments(rest), "chars", zero, before, m)
  BY <1>2, <1>4, <1>5, <1>6
<1> HIDE DEF y
<1>8. goal = m \o Meant(rest)
  BY <1>2 DEF InPiece
<1>9. Advanced(x, y, goal, P)
  BY <1>7, <1>8, PiecePrinted
<1> QED BY <1>9 DEF y

LEMMA SpecAdvance ==
  ASSUME NEW x \in Calls, x.q = <<>>, x.decimal = FALSE,
         NEW P, P \subseteq Pieces, NEW rest \in Seq(P), NEW p \in P, NEW goal,
         InPiece(x, p, rest, goal), AtSpec(x, p, rest)
  PROVE  Advanced(x, FirstFmtChar(Taken(x), Head(x.w)), goal, P)
<1>1. p \in Pieces /\ rest \in Seq(Pieces)
  OBVIOUS
<1>2. PICK f \in Seq(Characters) : f = Format(rest)
  BY <1>1, MessageTypes
<1> DEFINE y == FirstFmtChar(Taken(x), Head(x.w))
           t == [Taken(x) EXCEPT !.state = "other"]
<1>3. CASE p.conv = "lit"
  <2>1. PICK percent \in Characters : percent = "%"
    BY OwnAre
  <2>2. Splits(percent, f, f)
    BY TextSplits
  <2>3. x.w = Before(percent, f)
    BY <1>1, <1>2, <1>3, <2>1, <2>2, SpecParts DEF AtSpec, Splits
  <2>4. x.w # <<>> /\ Head(x.w) = "%" /\ Tail(x.w) = f
    BY <2>1, <2>2, <2>3 DEF Splits
  <2>5. PICK m \in Seq(Characters) : m = <<"%">>
    BY <2>1, OneDigit
  <2>6. MeantOf(p) = m
    BY <1>1, <1>3, <2>5, TextMeant DEF AtSpec
  <2>7. x.args = Arguments(rest)
    <3>1. ArgumentsOf(p) = <<>>
      BY <1>1, <1>3, FormatParts
    <3>2. <<>> \o Arguments(rest) = Arguments(rest)
      BY <1>1, MessageTypes, ConcatEmptySeq
    <3> QED BY <3>1, <3>2 DEF InPiece
  <2>8. PICK zero \in BOOLEAN, before \in Int : zero = x.zero /\ before = x.before
    BY DEF Calls
  <2>9. y = [Taken(x) EXCEPT !.q = m, !.state = "chars"]
    BY <2>4, <2>5 DEF FirstFmtChar
  <2>10. [Taken(x) EXCEPT !.q = m, !.state = "chars"] =
           Moved(x, f, x.args, "chars", zero, before, m)
    BY <2>4, <2>8 DEF Moved, Taken, Calls
  <2> HIDE DEF y
  <2>11. y = Moved(x, Format(rest), Arguments(rest), "chars", zero, before, m)
    BY <1>2, <2>7, <2>9, <2>10
  <2>12. goal = m \o Meant(rest)
    BY <2>6 DEF InPiece
  <2>13. Advanced(x, y, goal, P)
    BY <2>11, <2>12, PiecePrinted
  <2> QED BY <2>13 DEF y
<1>4. CASE p.conv # "lit" /\ p.zero
  <2>1. PICK zero \in Characters, s \in Seq(Characters) : zero = "0" /\ s = WidthOf(p)
    BY <1>1, <1>4, OwnAre, SpecParts
  <2>2. PICK w \in Seq(Characters) : w = s \o f
    BY ConcatProperties
  <2>3. Splits(zero, s, f) /\ Splits(zero, w, f)
    BY TextSplits
  <2>4. x.w = Before(zero, w)
    BY <1>1, <1>2, <1>4, <2>1, <2>2, <2>3, SpecParts DEF AtSpec, Splits
  <2>5. x.w # <<>> /\ Head(x.w) = "0" /\ Tail(x.w) = w
    BY <2>1, <2>3, <2>4 DEF Splits
  <2>6. PICK args \in Seq(Pieces), q \in Seq(Characters), before \in Int, yes \in BOOLEAN :
          args = x.args /\ q = x.q /\ before = -1 /\ yes = TRUE
    <3>1. -1 \in Int /\ TRUE \in BOOLEAN /\ x.args \in Seq(Pieces) /\ x.q \in Seq(Characters)
      BY DEF Calls
    <3> QED BY <3>1
  <2>7. y = [Taken(x) EXCEPT !.zero = TRUE, !.state = "other"]
    BY <2>5 DEF FirstFmtChar
  <2>8. [Taken(x) EXCEPT !.zero = TRUE, !.state = "other"] =
          Moved(x, w, args, "other", yes, before, q)
    BY <2>5, <2>6 DEF Moved, Taken, Calls, AtSpec
  <2> HIDE DEF y
  <2>9. y = Moved(x, w, args, "other", yes, before, q)
    BY <2>7, <2>8
  <2>10. IsMoved(y, x, w, args, "other", yes, before, q)
    <3>1. "other" \in {"chars", "first", "other"}
      OBVIOUS
    <3> QED BY <2>9, <3>1, MovedDoes
  <2>11. InPiece(y, p, rest, goal)
    BY <2>6, <2>10 DEF InPiece, IsMoved
  <2>12. AtConversion(y, p, rest)
    <3>1. p.zero = TRUE
      BY <1>1, <1>4, PieceFields
    <3>2. CASE p.width > 0
      BY <1>2, <1>4, <2>1, <2>2, <2>6, <2>10, <3>1, <3>2 DEF AtConversion, IsMoved
    <3>3. CASE ~ (p.width > 0)
      <4>1. PICK c \in Characters : c = p.conv
        BY <1>1, <1>4, SpecParts
      <4>2. Splits(c, f, f)
        BY TextSplits
      <4>3. y.w = Before(p.conv, Format(rest))
        BY <1>2, <2>1, <2>2, <2>10, <3>3, <4>1, <4>2 DEF WidthOf, Splits, IsMoved
      <4> QED BY <1>4, <2>6, <2>10, <3>1, <3>3, <4>3 DEF AtConversion, IsMoved, Given
    <3> QED BY <3>2, <3>3
  <2>13. y \in Calls /\ SameCall(x, y) /\ y.decimal = FALSE
    BY <2>10 DEF IsMoved
  <2>14. Advanced(x, y, goal, P)
    BY <2>11, <2>12, <2>13, PieceEntered
  <2> QED BY <2>14 DEF y
<1>5. CASE p.conv # "lit" /\ ~ p.zero
  <2>1. x.zero = p.zero /\ x.before = -1
    BY <1>1, <1>5, PieceFields DEF AtSpec
  <2>2. PICK s \in Seq(Characters), c \in Characters : s = WidthOf(p) /\ c = p.conv
    BY <1>1, <1>5, SpecParts
  <2>3. x.w = s \o f
    BY <1>1, <1>2, <1>5, <2>2, SpecParts DEF AtSpec
  <2>4. t \in {Taken(x), [Taken(x) EXCEPT !.state = "other"]}
    OBVIOUS
  <2>5. CASE p.width > 0
    <3>1. PICK n \in 1 .. 9, d \in Characters : n = p.width /\ d = Lower[n + 1]
      <4>1. p.width \in 1 .. 9
        BY <1>1, <2>5, PieceFields
      <4>2. Lower[p.width + 1] \in Characters
        BY <1>1, <1>5, <2>5, SpecParts
      <4> QED BY <4>1, <4>2
    <3>2. PICK v \in Seq(Characters) : v = <<c>>
      BY OneDigit
    <3>3. Splits(d, v, f)
      BY TextSplits
    <3>4. x.w # <<>> /\ Head(x.w) = d
      <4>1. PICK w \in Seq(Characters) : w = v \o f
        BY ConcatProperties
      <4>2. Splits(d, w, f)
        BY TextSplits
      <4> QED BY <2>2, <2>3, <2>5, <3>1, <3>2, <3>3, <4>1, <4>2 DEF WidthOf, Splits
    <3>5. d \notin {"0", "%"}
      BY <3>1, DigitRead
    <3>6. y = OtherFmtChar(t, Head(x.w))
      BY <3>4, <3>5 DEF FirstFmtChar
    <3>7. t.state = "other"
      BY <3>4, TakenIs DEF Calls
    <3> HIDE DEF y, t
    <3>8. Advanced(x, OtherFmtChar(t, Head(x.w)), goal, P)
      BY <1>2, <1>5, <2>1, <2>2, <2>3, <2>4, <2>5, <3>7, WidthAdvance
    <3> QED BY <3>6, <3>8 DEF y
  <2>6. CASE ~ (p.width > 0)
    <3>1. Splits(c, f, f)
      BY TextSplits
    <3>2. x.w = Before(p.conv, Format(rest))
      BY <1>2, <2>2, <2>3, <2>6, <3>1 DEF WidthOf, Splits
    <3>3. x.w # <<>> /\ Head(x.w) = c
      BY <1>2, <2>2, <3>1, <3>2 DEF Splits
    <3>4. c \notin {"0", "%"}
      <4>1. c \in Conversions
        BY <1>1, <1>5, <2>2, PieceFields
      <4> QED BY <4>1, ConversionRead
    <3>5. y = OtherFmtChar(t, Head(x.w))
      BY <3>3, <3>4 DEF FirstFmtChar
    <3>6. Given(x.before, p.width)
      BY <2>1, <2>6 DEF Given
    <3> HIDE DEF y, t
    <3>7. Advanced(x, OtherFmtChar(t, Head(x.w)), goal, P)
      BY <1>5, <2>1, <2>4, <3>2, <3>6, ConversionAdvance
    <3> QED BY <3>5, <3>7 DEF y
  <2> QED BY <2>5, <2>6
<1> QED BY <1>3, <1>4, <1>5

(* alt_log_private_printf goes on to print what the message means. *)
LEMMA LogAdvances ==
  ASSUME NEW x \in Calls, x.q = <<>>, x.w # <<>>, NEW P, P \subseteq Pieces,
         NEW goal, Scanning(x, goal, P)
  PROVE  Advanced(x, LogScan(Taken(x), Head(x.w)), goal, P)
<1>1. x.decimal = FALSE /\ Taken(x).state = x.state
  BY TakenIs DEF Scanning
<1>2. PICK rest \in Seq(P) :
        \/ AtPiece(x, rest, goal)
        \/ \E p \in P : InPiece(x, p, rest, goal) /\ (AtSpec(x, p, rest) \/ AtConversion(x, p, rest))
  BY DEF Scanning
<1>3. CASE AtPiece(x, rest, goal)
  <2>1. x.state = "chars"
    BY <1>3 DEF AtPiece
  <2>2. LogScan(Taken(x), Head(x.w)) = Chars(Taken(x), Head(x.w))
    BY <1>1, <2>1 DEF LogScan
  <2>3. Advanced(x, Chars(Taken(x), Head(x.w)), goal, P)
    BY <1>1, <1>3, CharsAdvance
  <2> QED BY <2>2, <2>3
<1>4. ASSUME NEW p \in P, InPiece(x, p, rest, goal), AtSpec(x, p, rest)
      PROVE  Advanced(x, LogScan(Taken(x), Head(x.w)), goal, P)
  <2>1. x.state = "first"
    BY <1>4 DEF AtSpec
  <2>2. LogScan(Taken(x), Head(x.w)) = FirstFmtChar(Taken(x), Head(x.w))
    BY <1>1, <2>1 DEF LogScan
  <2>3. Advanced(x, FirstFmtChar(Taken(x), Head(x.w)), goal, P)
    BY <1>1, <1>4, SpecAdvance
  <2> QED BY <2>2, <2>3
<1>5. ASSUME NEW p \in P, InPiece(x, p, rest, goal), AtConversion(x, p, rest)
      PROVE  Advanced(x, LogScan(Taken(x), Head(x.w)), goal, P)
  <2> DEFINE t == Taken(x)
  <2>1. x.state = "other" /\ x.zero = p.zero /\ p.conv # "lit"
    BY <1>5 DEF AtConversion
  <2>2. LogScan(t, Head(x.w)) = OtherFmtChar(t, Head(x.w))
    BY <1>1, <2>1 DEF LogScan
  <2>3. t.state = "other" /\ t \in {Taken(x), [Taken(x) EXCEPT !.state = "other"]}
    BY <1>1, <2>1
  <2> HIDE DEF t
  <2>4. Advanced(x, OtherFmtChar(t, Head(x.w)), goal, P)
    <3>1. \/ p.width > 0 /\ x.before = -1 /\ x.w = WidthOf(p) \o Format(rest)
          \/ Given(x.before, p.width) /\ x.w = Before(p.conv, Format(rest))
      BY <1>5 DEF AtConversion
    <3>2. ASSUME p.width > 0 /\ x.before = -1 /\ x.w = WidthOf(p) \o Format(rest)
          PROVE  Advanced(x, OtherFmtChar(t, Head(x.w)), goal, P)
      BY <1>1, <1>5, <2>1, <2>3, <3>2, WidthAdvance
    <3>3. ASSUME Given(x.before, p.width) /\ x.w = Before(p.conv, Format(rest))
          PROVE  Advanced(x, OtherFmtChar(t, Head(x.w)), goal, P)
      BY <1>1, <1>5, <2>1, <2>3, <3>3, ConversionAdvance
    <3> QED BY <3>1, <3>2, <3>3
  <2> QED BY <2>2, <2>4 DEF t
<1> QED BY <1>2, <1>3, <1>4, <1>5

-----------------------------------------------------------------------------
(* alt_printf's scan: of pieces with neither a width nor leading zeros. *)
PlainPieces ==
  {p \in Pieces : p.conv \in {"lit", "c", "s", "x"} /\ p.width = 0 /\ ~ p.zero}

PlainScan(x) == x.state # "other" /\ x.zero = FALSE /\ x.before = -1 /\ x.decimal = FALSE

LEMMA PlainMeant ==
  ASSUME NEW p \in PlainPieces
  PROVE  /\ p.conv \in {"lit", "c", "s"} => MeantOf(p) = p.str
         /\ p.conv = "x" => MeantOf(p) = HexPrint(p.num)
<1>1. p \in Pieces /\ p.conv \in {"lit", "c", "s", "x"} /\ p.width = 0 /\ p.zero = FALSE
  BY PieceFields DEF PlainPieces
<1>2. CASE p.conv \in {"lit", "c", "s"}
  <2>1. PICK s \in Seq(Characters) : s = p.str
    BY <1>1, PieceFields
  <2>2. p.width - Len(s) \in Int /\ p.width - Len(s) <= 0
    BY <1>1, LenProperties
  <2>3. Rep(" ", p.width - Len(p.str)) = <<>>
    BY <2>1, <2>2, RepNone
  <2>4. <<>> \o s = s
    BY ConcatEmptySeq
  <2> QED BY <1>1, <1>2, <2>1, <2>3, <2>4, TextMeant
<1>3. CASE p.conv = "x"
  <2>1. ~ Negative(p) /\ Base(p) = 16 /\ Magnitude(p) = p.num /\ SignsOf(p) = Lower
    BY <1>3 DEF Negative, Base, Magnitude, SignsOf
  <2>2. PICK d \in Seq(Characters) : d = MeantDigits(p)
    BY <1>1, NumberParts
  <2>3. d = Numeral(p.num, 16, Lower)
    BY <1>1, <2>1, <2>2, NumberParts
  <2>4. d = HexPrint(p.num)
    BY <1>1, <2>3, PieceFields, HexPrintIsNumeral
  <2>5. Minus(Negative(p)) = <<>>
    BY <2>1 DEF Minus
  <2>6. p.width - Len(<<>>) - Len(d) \in Int /\ p.width - Len(<<>>) - Len(d) <= 0
    <3>1. Len(<<>>) = 0 /\ Len(d) \in Nat
      BY LenProperties
    <3> QED BY <1>1, <3>1
  <2>7. Rep(" ", p.width - Len(<<>>) - Len(d)) = <<>>
    BY <2>6, RepNone
  <2>8. <<>> \o <<>> = <<>> /\ <<>> \o d = d
    <3>1. <<>> \in Seq(Characters)
      OBVIOUS
    <3> QED BY <3>1, ConcatEmptySeq
  <2>9. NumberText(p.zero, <<>>, p.width - Len(<<>>) - Len(d), d) = d
    BY <1>1, <2>7, <2>8 DEF NumberText
  <2>10. MeantOf(p) = d
    BY <1>1, <1>3, <2>2, <2>5, <2>9, NumberMeant DEF Numbers
  <2> QED BY <1>3, <2>4, <2>10
<1> QED BY <1>1, <1>2, <1>3

LEMMA PlainChars ==
  ASSUME NEW x \in Calls, PlainScan(x), x.w # <<>>, x.state = "chars"
  PROVE  /\ PrintfScan(Taken(x), Head(x.w)) = Chars(Taken(x), Head(x.w))
         /\ PlainScan(PrintfScan(Taken(x), Head(x.w)))
<1>1. PICK c : c = Head(x.w)
  OBVIOUS
<1>2. CASE c = "%"
  <2>1. PrintfScan(Taken(x), c) = [Taken(x) EXCEPT !.state = "first"]
    BY <1>2, TakenIs DEF PrintfScan
  <2>2. Chars(Taken(x), c) = [Taken(x) EXCEPT !.zero = FALSE, !.before = -1, !.decimal = FALSE,
                                               !.state = "first"]
    BY <1>2 DEF Chars
  <2>3. [Taken(x) EXCEPT !.state = "first"] =
          [Taken(x) EXCEPT !.zero = FALSE, !.before = -1, !.decimal = FALSE, !.state = "first"]
    BY DEF PlainScan, Taken, Calls
  <2>4. PlainScan([Taken(x) EXCEPT !.state = "first"])
    BY DEF PlainScan, Taken, Calls
  <2> QED BY <1>1, <2>1, <2>2, <2>3, <2>4
<1>3. CASE c # "%"
  <2>1. PrintfScan(Taken(x), c) = [Taken(x) EXCEPT !.q = <<c>>]
    BY <1>3, TakenIs DEF PrintfScan
  <2>2. Chars(Taken(x), c) = [Taken(x) EXCEPT !.q = <<c>>]
    BY <1>3 DEF Chars
  <2>3. PlainScan([Taken(x) EXCEPT !.q = <<c>>])
    BY DEF PlainScan, Taken, Calls
  <2> QED BY <1>1, <2>1, <2>2, <2>3
<1> QED BY <1>2, <1>3

(* By a conversion. *)
LEMMA PlainMoves ==
  ASSUME NEW x \in Calls, PlainScan(x), x.w # <<>>, x.state = "first",
         NEW p \in PlainPieces, p.conv # "lit", NEW rest \in Seq(Pieces),
         x.args = ArgumentsOf(p) \o Arguments(rest), Head(x.w) = p.conv
  PROVE  /\ PrintfScan(Taken(x), Head(x.w)) =
              Moved(x, Tail(x.w), Arguments(rest), "chars", x.zero, x.before, MeantOf(p))
         /\ PlainScan(PrintfScan(Taken(x), Head(x.w)))
<1>1. p \in Pieces /\ p.conv \in {"c", "s", "x"}
  BY DEF PlainPieces
<1>2. x.args = <<p>> \o Arguments(rest) /\ Arguments(rest) \in Seq(Pieces)
  BY <1>1, FormatParts, MessageTypes
<1>3. Head(Taken(x).args) = p /\ Tail(Taken(x).args) = Arguments(rest)
  <2>1. PICK e \in Pieces, s \in Seq(Pieces) : e = p /\ s = Arguments(rest)
    BY <1>1, <1>2
  <2>2. Head(<<e>> \o s) = e /\ Tail(<<e>> \o s) = s
    BY ConsParts
  <2>3. Taken(x).args = <<e>> \o s
    BY <1>2, <2>1, TakenIs
  <2> QED BY <2>1, <2>2, <2>3
<1>4. PICK a, m, v : a = Arguments(rest) /\ m = MeantOf(p) /\ v = Tail(x.w)
  OBVIOUS
<1>5. PrintfScan(Taken(x), p.conv) = [Taken(x) EXCEPT !.q = m, !.args = a, !.state = "chars"]
  <2>1. Taken(x).state = "first"
    BY TakenIs
  <2>2. CASE p.conv \in {"c", "s"}
    <3>1. PrintfScan(Taken(x), p.conv) =
            [Taken(x) EXCEPT !.q = Head(Taken(x).args).str, !.args = Tail(@), !.state = "chars"]
      BY <2>1, <2>2 DEF PrintfScan
    <3>2. m = p.str
      BY <1>4, <2>2, PlainMeant
    <3> QED BY <1>3, <1>4, <3>1, <3>2
  <2>3. CASE p.conv = "x"
    <3>1. PrintfScan(Taken(x), p.conv) =
            [Taken(x) EXCEPT !.q = HexPrint(Head(Taken(x).args).num), !.args = Tail(@),
                             !.state = "chars"]
      BY <2>1, <2>3 DEF PrintfScan
    <3>2. m = HexPrint(p.num)
      BY <1>4, <2>3, PlainMeant
    <3> QED BY <1>3, <1>4, <3>1, <3>2
  <2> QED BY <1>1, <2>2, <2>3
<1>6. [Taken(x) EXCEPT !.q = m, !.args = a, !.state = "chars"] =
        Moved(x, v, a, "chars", x.zero, x.before, m)
  BY <1>4 DEF Moved, Taken, Calls, PlainScan
<1>7. PlainScan([Taken(x) EXCEPT !.q = m, !.args = a, !.state = "chars"])
  BY DEF PlainScan, Taken, Calls
<1> QED BY <1>4, <1>5, <1>6, <1>7

(* alt_printf goes on to print what the message means. *)
LEMMA PrintfAdvances ==
  ASSUME NEW x \in Calls, x.q = <<>>, x.w # <<>>, PlainScan(x),
         NEW goal, Scanning(x, goal, PlainPieces)
  PROVE  /\ Advanced(x, PrintfScan(Taken(x), Head(x.w)), goal, PlainPieces)
         /\ PlainScan(PrintfScan(Taken(x), Head(x.w)))
<1>1. x.decimal = FALSE /\ PlainPieces \subseteq Pieces /\ x.state # "other"
  BY DEF PlainScan, PlainPieces
<1> DEFINE y == PrintfScan(Taken(x), Head(x.w))
           P == PlainPieces
<1>2. PICK rest \in Seq(P) :
        \/ AtPiece(x, rest, goal)
        \/ \E p \in P : InPiece(x, p, rest, goal) /\ (AtSpec(x, p, rest) \/ AtConversion(x, p, rest))
  BY DEF Scanning
<1>3. CASE AtPiece(x, rest, goal)
  <2>1. x.state = "chars"
    BY <1>3 DEF AtPiece
  <2>2. y = Chars(Taken(x), Head(x.w)) /\ PlainScan(y)
    BY <2>1, PlainChars
  <2>3. Advanced(x, Chars(Taken(x), Head(x.w)), goal, P)
    BY <1>1, <1>3, CharsAdvance
  <2> QED BY <2>2, <2>3
<1>4. ASSUME NEW p \in P, InPiece(x, p, rest, goal), AtSpec(x, p, rest)
      PROVE  Advanced(x, y, goal, P) /\ PlainScan(y)
  <2>1. /\ x.state = "first" /\ p \in Pieces /\ rest \in Seq(Pieces)
        /\ p.conv \in {"lit", "c", "s", "x"} /\ p.width = 0 /\ ~ p.zero
    BY <1>4 DEF AtSpec, PlainPieces
  <2>2. PICK f \in Seq(Characters) : f = Format(rest)
    BY <2>1, MessageTypes
  <2>3. PICK c \in Characters : SpecOf(p) = <<c>> /\ c = IF p.conv = "lit" THEN "%" ELSE p.conv
    <3>1. CASE p.conv = "lit"
      BY <2>1, <3>1, SpecParts, OwnAre
    <3>2. CASE p.conv # "lit"
      <4>1. WidthOf(p) = <<p.conv>>
        BY <2>1 DEF WidthOf
      <4>2. p.conv \in Characters /\ SpecOf(p) = WidthOf(p)
        BY <2>1, <3>2, SpecParts
      <4> QED BY <3>2, <4>1, <4>2
    <3> QED BY <3>1, <3>2
  <2>4. Splits(c, f, f)
    BY TextSplits
  <2>5. x.w # <<>> /\ Head(x.w) = c /\ Tail(x.w) = f
    BY <1>4, <2>2, <2>3, <2>4 DEF AtSpec, Splits
  <2>6. CASE p.conv = "lit"
    <3>1. Advanced(x, FirstFmtChar(Taken(x), Head(x.w)), goal, P)
      BY <1>1, <1>4, SpecAdvance
    <3>2. PICK m : m = <<"%">>
      OBVIOUS
    <3>3. FirstFmtChar(Taken(x), Head(x.w)) = [Taken(x) EXCEPT !.q = m, !.state = "chars"]
      BY <2>3, <2>5, <2>6, <3>2 DEF FirstFmtChar
    <3>4. Taken(x).state = "first"
      BY <2>1, <2>5, TakenIs
    <3>5. y = [Taken(x) EXCEPT !.q = m, !.state = "chars"]
      BY <2>3, <2>5, <2>6, <3>2, <3>4 DEF PrintfScan
    <3>6. PlainScan([Taken(x) EXCEPT !.q = m, !.state = "chars"])
      BY DEF PlainScan, Taken, Calls
    <3> QED BY <3>1, <3>3, <3>5, <3>6
  <2>7. CASE p.conv # "lit"
    <3>1. x.args = ArgumentsOf(p) \o Arguments(rest) /\ Head(x.w) = p.conv
      BY <1>4, <2>3, <2>5, <2>7 DEF InPiece
    <3>2. /\ y = Moved(x, Tail(x.w), Arguments(rest), "chars", x.zero, x.before, MeantOf(p))
          /\ PlainScan(y)
      BY <2>1, <2>5, <2>7, <3>1, PlainMoves
    <3>3. PICK zero \in BOOLEAN, before \in Int, m \in Seq(Characters) :
            zero = x.zero /\ before = x.before /\ m = MeantOf(p)
      BY <2>1, MeantOfType DEF Calls
    <3> HIDE DEF y
    <3>4. y = Moved(x, Format(rest), Arguments(rest), "chars", zero, before, m)
      BY <2>2, <2>5, <3>2, <3>3
    <3>5. goal = m \o Meant(rest)
      BY <1>4, <3>3 DEF InPiece
    <3>6. Advanced(x, y, goal, P)
      BY <1>1, <3>4, <3>5, PiecePrinted
    <3> QED BY <3>2, <3>6
  <2> QED BY <2>6, <2>7
<1>5. ASSUME NEW p \in P, InPiece(x, p, rest, goal), AtConversion(x, p, rest)
      PROVE  FALSE
  BY <1>1, <1>5 DEF AtConversion
<1> QED BY <1>2, <1>3, <1>4, <1>5

-----------------------------------------------------------------------------
(* Calls: one that logs still has to print goal, and what it has sent, has
   converted and still has to print is what its message means. *)
Logging(x, goal) ==
  Scanning(x, goal, Pieces) /\ (x.lost \/ x.meant = x.sent \o (x.q \o goal))

Sound(x) ==
  /\ x \in Calls
  /\ x.ready => x.kind = "log" /\ x.q # <<>>
  /\ x.kind = "none" => x.lost \/ x.sent = <<>> \/ x.sent = x.meant
  /\ x.kind = "log" => \E goal \in Seq(Characters) : Logging(x, goal)

(* alt_printf's: what has been put, converted and still has to be is all that was to
   be said. *)
Texts == Seq(Characters \cup {"EOT"})
Putting(x, goal, put, all) ==
  Scanning(x, goal, PlainPieces) /\ all = put \o (x.q \o goal)
Printing(x, put, all) ==
  x.kind = "printf" => /\ PlainScan(x) /\ x.sent = <<>>
                       /\ \E goal \in Seq(Characters) : Putting(x, goal, put, all)

LEMMA TextsAre ==
  ASSUME NEW s \in Seq(Characters)
  PROVE  s \in Texts /\ s \o <<>> = s /\ <<>> \o s = s
<1>1. s \o <<>> = s /\ <<>> \o s = s
  BY ConcatEmptySeq
<1>2. Characters \subseteq Characters \cup {"EOT"}
  OBVIOUS
<1>3. s \in Texts
  BY <1>2 DEF Texts
<1> QED BY <1>1, <1>3

(* While something is left of what was converted, the scan is at a piece. *)
LEMMA ScanKept ==
  ASSUME NEW x, x.q # <<>>, NEW P, NEW goal, Scanning(x, goal, P),
         NEW y, y.w = x.w, y.args = x.args, y.state = x.state, y.decimal = x.decimal
  PROVE  Scanning(y, goal, P)
<1>1. PICK rest \in Seq(P) : AtPiece(x, rest, goal)
  BY DEF Scanning, InPiece
<1>2. AtPiece(y, rest, goal)
  BY <1>1 DEF AtPiece
<1> QED BY <1>2 DEF Scanning

LEMMA FormatNonEmpty ==
  ASSUME NEW p \in Pieces, NEW f \in Seq(Characters)
  PROVE  /\ FormatOf(p) \o f # <<>> /\ SpecOf(p) \o f # <<>>
         /\ p.conv # "lit" => WidthOf(p) \o f # <<>> /\ Before(p.conv, f) # <<>>
<1>1. ASSUME NEW c \in Characters, NEW s \in Seq(Characters), NEW t, t = Before(c, s)
      PROVE  t \o f # <<>> /\ t # <<>>
  <2>1. PICK w \in Seq(Characters) : w = s \o f
    BY ConcatProperties
  <2>2. Splits(c, s, f) /\ Splits(c, w, f)
    BY TextSplits
  <2> QED BY <1>1, <2>1, <2>2 DEF Splits
<1>2. ASSUME NEW c \in Characters
      PROVE  <<c>> = Before(c, <<>>) /\ <<>> \in Seq(Characters)
  <2>1. <<c>> \in Seq(Characters) /\ <<>> \in Seq(Characters)
    BY OneDigit
  <2>2. <<c>> \o <<>> = <<c>>
    BY <2>1, ConcatEmptySeq
  <2> QED BY <2>1, <2>2 DEF Before
<1>3. ASSUME NEW c \in Characters
      PROVE  <<c>> \o f # <<>>
  BY <1>1, <1>2
<1>4. p.conv # "lit" => WidthOf(p) \o f # <<>> /\ Before(p.conv, f) # <<>> /\ p.conv \in Characters
  <2>1. SUFFICES ASSUME p.conv # "lit"
                 PROVE  WidthOf(p) \o f # <<>> /\ Before(p.conv, f) # <<>> /\ p.conv \in Characters
    OBVIOUS
  <2>2. PICK c \in Characters : c = p.conv
    BY <2>1, SpecParts
  <2>3. Before(c, f) # <<>>
    BY <1>1
  <2>4. CASE p.width > 0
    <3>1. PICK d \in Characters, s \in Seq(Characters) : d = Lower[p.width + 1] /\ s = <<c>>
      BY <2>1, <2>4, OneDigit, SpecParts
    <3>2. WidthOf(p) = Before(d, s)
      BY <2>2, <2>4, <3>1 DEF WidthOf
    <3> QED BY <1>1, <2>2, <2>3, <3>2
  <2>5. CASE ~ (p.width > 0)
    BY <1>3, <2>2, <2>3, <2>5 DEF WidthOf
  <2> QED BY <2>4, <2>5
<1>5. SpecOf(p) \o f # <<>>
  <2>1. CASE p.conv = "lit"
    <3>1. "%" \in Characters /\ SpecOf(p) = <<"%">>
      BY <2>1, OwnAre, SpecParts
    <3> QED BY <1>3, <3>1
  <2>2. CASE p.conv # "lit" /\ p.zero
    <3>1. PICK s \in Seq(Characters), c \in Characters : s = WidthOf(p) /\ c = "0"
      BY <2>2, OwnAre, SpecParts
    <3>2. SpecOf(p) = Before(c, s)
      BY <2>2, <3>1, SpecParts
    <3> QED BY <1>1, <3>2
  <2>3. CASE p.conv # "lit" /\ ~ p.zero
    BY <1>4, <2>3, SpecParts
  <2> QED BY <2>1, <2>2, <2>3
<1>6. FormatOf(p) \o f # <<>>
  <2>1. CASE p.conv = "lit" /\ p.str # <<"%">>
    <3>1. p.str \in Seq(Characters) /\ Len(p.str) = 1
      BY <2>1, PieceFields
    <3>2. p.str[1] \in Characters /\ p.str = <<p.str[1]>>
      BY <3>1
    <3>3. PICK c \in Characters : p.str = <<c>>
      BY <3>2
    <3> QED BY <1>3, <2>1, <3>3, FormatParts
  <2>2. CASE ~ (p.conv = "lit" /\ p.str # <<"%">>)
    <3>1. PICK s \in Seq(Characters), c \in Characters : s = SpecOf(p) /\ c = "%"
      BY OwnAre, SpecParts
    <3>2. FormatOf(p) = Before(c, s)
      BY <2>2, <3>1, FormatParts
    <3> QED BY <1>1, <3>2
  <2> QED BY <2>1, <2>2
<1> QED BY <1>4, <1>5, <1>6

(* At the end of the format nothing is left to print. *)
LEMMA ScanDone ==
  ASSUME NEW x \in Calls, x.w = <<>>, NEW P, P \subseteq Pieces,
         NEW goal, Scanning(x, goal, P)
  PROVE  goal = <<>>
<1>1. ASSUME NEW rest \in Seq(P)
      PROVE  rest \in Seq(Pieces) /\ Format(rest) \in Seq(Characters)
  <2>1. rest \in Seq(Pieces)
    OBVIOUS
  <2> QED BY <2>1, MessageTypes
<1>2. ASSUME NEW rest \in Seq(P), AtPiece(x, rest, goal)
      PROVE  goal = <<>>
  <2>1. CASE rest = <<>>
    BY <1>2, <2>1, NoMessage DEF AtPiece
  <2>2. CASE rest # <<>>
    <3>1. PICK p \in P, others \in Seq(P) : rest = <<p>> \o others
      BY <2>2, ConsOf
    <3>2. p \in Pieces /\ others \in Seq(Pieces) /\ rest = Before(p, others)
      BY <3>1 DEF Before
    <3>3. Format(rest) = FormatOf(p) \o Format(others)
      BY <3>2, MessageParts
    <3>4. PICK f \in Seq(Characters) : f = Format(others)
      BY <1>1
    <3>5. FormatOf(p) \o f # <<>>
      BY <3>2, FormatNonEmpty
    <3> QED BY <1>2, <3>3, <3>4, <3>5 DEF AtPiece
  <2> QED BY <2>1, <2>2
<1>3. ASSUME NEW rest \in Seq(P), NEW p \in P,
             AtSpec(x, p, rest) \/ AtConversion(x, p, rest)
      PROVE  FALSE
  <2>1. PICK f \in Seq(Characters) : f = Format(rest)
    BY <1>1
  <2>2. p \in Pieces
    OBVIOUS
  <2>3. /\ SpecOf(p) \o f # <<>>
        /\ p.conv # "lit" => WidthOf(p) \o f # <<>> /\ Before(p.conv, f) # <<>>
    BY <2>2, FormatNonEmpty
  <2> QED BY <1>3, <2>1, <2>3 DEF AtSpec, AtConversion
<1> QED BY <1>2, <1>3 DEF Scanning

(* A character moved from the front of what is left to the end of what is out. *)
Regroups(s, q, goal) ==
  Append(s, Head(q)) \o (Tail(q) \o goal) = s \o (q \o goal)

LEMMA CharacterMoved ==
  ASSUME NEW S, NEW s \in Seq(S), NEW q \in Seq(S), q # <<>>, NEW goal \in Seq(S)
  PROVE  Regroups(s, q, goal)
<1>1. PICK e \in S, t \in Seq(S) : q = <<e>> \o t
  BY ConsOf
<1>2. Head(q) = e /\ Tail(q) = t
  BY <1>1, ConsParts
<1>3. PICK one \in Seq(S) : one = <<e>>
  BY OneDigit
<1>4. PICK w \in Seq(S) : w = t \o goal
  BY ConcatProperties
<1>5. Append(s, e) = s \o one
  BY <1>3, AppendIsConcat
<1>6. Groups(s, one, w)
  BY ConcatGroups
<1>7. one \o w = q \o goal
  <2>1. Groups(one, t, goal)
    BY ConcatGroups
  <2> QED BY <1>1, <1>3, <1>4, <2>1 DEF Groups
<1> QED BY <1>2, <1>4, <1>5, <1>6, <1>7 DEF Regroups, Groups

(* A call's own steps. *)
LEMMA LogScanned ==
  ASSUME NEW x, Sound(x), x.kind = "log", x.q = <<>>, x.w # <<>>,
         NEW y, y = LogScan(Taken(x), Head(x.w))
  PROVE  Sound(y) /\ SameCall(x, y)
<1>1. x \in Calls
  BY DEF Sound
<1>2. PICK goal \in Seq(Characters) : Logging(x, goal)
  BY DEF Sound
<1>3. Advanced(x, y, goal, Pieces)
  BY <1>1, <1>2, LogAdvances DEF Logging
<1>4. PICK g \in Seq(Characters) : Scanning(y, g, Pieces) /\ goal = y.q \o g
  BY <1>3 DEF Advanced
<1>5. y \in Calls /\ SameCall(x, y)
  BY <1>3 DEF Advanced
<1>6. Logging(y, g)
  <2>1. <<>> \o goal = goal
    BY TextsAre
  <2> QED BY <1>2, <1>4, <1>5, <2>1 DEF Logging, SameCall
<1> QED BY <1>5, <1>6 DEF Sound, SameCall

LEMMA LogReady ==
  ASSUME NEW x, Sound(x), x.kind = "log", x.q # <<>>,
         NEW y, y = [x EXCEPT !.ready = TRUE]
  PROVE  Sound(y) /\ y.kind = x.kind /\ y.lost = x.lost
<1>1. x \in Calls
  BY DEF Sound
<1>2. PICK goal \in Seq(Characters) : Logging(x, goal)
  BY DEF Sound
<1>3. /\ y \in Calls /\ y.ready = TRUE /\ y.kind = x.kind /\ y.lost = x.lost /\ y.q = x.q
      /\ y.sent = x.sent /\ y.meant = x.meant
      /\ y.w = x.w /\ y.args = x.args /\ y.state = x.state /\ y.decimal = x.decimal
  BY <1>1 DEF Calls
<1>4. Scanning(y, goal, Pieces)
  BY <1>2, <1>3, ScanKept DEF Logging
<1>5. Logging(y, goal)
  BY <1>2, <1>3, <1>4 DEF Logging
<1> QED BY <1>3, <1>5 DEF Sound

AfterSending(x, room, y) ==
  y = [x EXCEPT !.q = Tail(x.q), !.ready = FALSE,
         !.sent = IF room > 0 THEN Append(x.sent, Head(x.q)) ELSE x.sent,
         !.lost = x.lost \/ room = 0]

LEMMA LogSent ==
  ASSUME NEW x, Sound(x), x.kind = "log", x.q # <<>>, NEW room \in Nat,
         NEW y, AfterSending(x, room, y)
  PROVE  Sound(y) /\ y.kind = x.kind /\ y.lost = (x.lost \/ room = 0) /\ ~ y.ready
<1>1. x \in Calls
  BY DEF Sound
<1>2. PICK goal \in Seq(Characters) : Logging(x, goal)
  BY DEF Sound
<1>3. PICK q \in Seq(Characters), s \in Seq(Characters) : q = x.q /\ s = x.sent
  BY <1>1 DEF Calls
<1>4. Head(q) \in Characters /\ Tail(q) \in Seq(Characters)
  BY <1>3, ConsOf
<1>5. PICK t \in Seq(Characters), a \in Seq(Characters), sent \in Seq(Characters), lost \in BOOLEAN :
        /\ t = Tail(q) /\ a = Append(s, Head(q))
        /\ sent = (IF room > 0 THEN a ELSE s) /\ lost = (x.lost \/ room = 0)
  <2>1. Append(s, Head(q)) \in Seq(Characters)
    BY <1>4, AppendProperties
  <2>2. (x.lost \/ room = 0) \in BOOLEAN
    OBVIOUS
  <2> QED BY <1>4, <2>1, <2>2
<1>6. y = [x EXCEPT !.q = t, !.ready = FALSE, !.sent = sent, !.lost = lost]
  BY <1>3, <1>5 DEF AfterSending
<1>7. /\ y \in Calls /\ y.ready = FALSE /\ y.kind = x.kind /\ y.lost = lost /\ y.q = t
      /\ y.sent = sent /\ y.meant = x.meant
      /\ y.w = x.w /\ y.args = x.args /\ y.state = x.state /\ y.decimal = x.decimal
  BY <1>1, <1>6 DEF Calls
<1>8. Scanning(y, goal, Pieces)
  BY <1>2, <1>7, ScanKept DEF Logging
<1>9. lost \/ x.meant = sent \o (t \o goal)
  <2>1. SUFFICES ASSUME ~ lost PROVE x.meant = sent \o (t \o goal)
    OBVIOUS
  <2>2. ~ x.lost /\ room > 0
    <3>1. ~ x.lost /\ room # 0
      BY <1>5, <2>1, Zenon
    <3> QED BY <3>1
  <2>3. x.meant = s \o (q \o goal)
    BY <1>2, <1>3, <2>2 DEF Logging
  <2>4. Regroups(s, q, goal)
    BY <1>3, CharacterMoved
  <2> QED BY <1>5, <2>2, <2>3, <2>4 DEF Regroups
<1>10. Logging(y, goal)
  BY <1>7, <1>8, <1>9 DEF Logging
<1> QED BY <1>5, <1>7, <1>10 DEF Sound

LEMMA NoCallIs == NoCall \in Calls /\ Sound(NoCall) /\ PlainScan(NoCall)
<1>1. <<>> \in Seq(Characters) /\ <<>> \in Seq(Pieces) /\ -1 \in Int /\ FALSE \in BOOLEAN
  OBVIOUS
<1>2. NoCall \in Calls
  BY <1>1 DEF NoCall, Calls
<1>3. PlainScan(NoCall) /\ NoCall.kind = "none" /\ ~ NoCall.ready /\ NoCall.sent = <<>>
  BY DEF NoCall, PlainScan
<1> QED BY <1>2, <1>3 DEF Sound

LEMMA CallDone ==
  ASSUME NEW x, Sound(x), x.w = <<>>, x.q = <<>>, x.kind \in {"log", "printf"},
         x.kind = "printf" => x.sent = <<>>,
         NEW y, y = [NoCall EXCEPT !.sent = x.sent, !.lost = x.lost, !.meant = x.meant]
  PROVE  Sound(y) /\ y.kind = "none" /\ y.lost = x.lost /\ ~ y.ready
<1>1. x \in Calls
  BY DEF Sound
<1>2. PICK s \in Seq(Characters), m \in Seq(Characters), lost \in BOOLEAN :
        s = x.sent /\ m = x.meant /\ lost = x.lost
  BY <1>1 DEF Calls
<1>3. /\ y.kind = "none" /\ y.w = <<>> /\ y.args = <<>> /\ y.state = "chars" /\ y.zero = FALSE
      /\ y.before = -1 /\ y.decimal = FALSE /\ y.q = <<>> /\ y.ready = FALSE
      /\ y.sent = s /\ y.lost = lost /\ y.meant = m
  BY <1>2 DEF NoCall
<1>4. y \in Calls
  BY <1>2, NoCallIs DEF Calls
<1>5. lost \/ s = <<>> \/ s = m
  <2>1. CASE x.kind = "log"
    <3>1. PICK goal \in Seq(Characters) : Logging(x, goal)
      BY <2>1 DEF Sound
    <3>2. goal = <<>>
      BY <1>1, <3>1, ScanDone DEF Logging
    <3>3. <<>> \o <<>> = <<>> /\ s \o <<>> = s
      <4>1. <<>> \in Seq(Characters)
        OBVIOUS
      <4> QED BY <4>1, ConcatEmptySeq
    <3> QED BY <1>2, <3>1, <3>2, <3>3 DEF Logging
  <2>2. CASE x.kind = "printf"
    BY <1>2, <2>2
  <2> QED BY <2>1, <2>2
<1> QED BY <1>2, <1>3, <1>4, <1>5 DEF Sound

LEMMA CallMade ==
  ASSUME NEW kind \in {"log", "printf"}, NEW msg \in Seq(Pieces),
         NEW y, y = [NoCall EXCEPT !.kind = kind, !.w = Format(msg), !.args = Arguments(msg),
                                   !.meant = Meant(msg)]
  PROVE  /\ Sound(y) /\ y.kind = kind /\ ~ y.lost /\ ~ y.ready
         /\ y.q = <<>> /\ y.sent = <<>> /\ PlainScan(y) /\ AtPiece(y, msg, Meant(msg))
<1>1. PICK w \in Seq(Characters), args \in Seq(Pieces), m \in Seq(Characters) :
        w = Format(msg) /\ args = Arguments(msg) /\ m = Meant(msg)
  BY MessageTypes
<1>2. /\ y.kind = kind /\ y.w = w /\ y.args = args /\ y.state = "chars" /\ y.zero = FALSE
      /\ y.before = -1 /\ y.decimal = FALSE /\ y.q = <<>> /\ y.ready = FALSE
      /\ y.sent = <<>> /\ y.lost = FALSE /\ y.meant = m
  BY <1>1 DEF NoCall
<1>3. y \in Calls
  BY <1>1, NoCallIs DEF Calls
<1>4. AtPiece(y, msg, Meant(msg)) /\ PlainScan(y)
  BY <1>1, <1>2 DEF AtPiece, PlainScan
<1>5. Scanning(y, m, Pieces)
  BY <1>1, <1>2, <1>4 DEF Scanning
<1>6. Logging(y, m)
  <2>1. <<>> \o m = m
    BY TextsAre
  <2> QED BY <1>2, <1>5, <2>1 DEF Logging
<1>7. Sound(y)
  BY <1>2, <1>3, <1>6 DEF Sound
<1> QED BY <1>2, <1>4, <1>7

(* alt_printf's own steps. *)
LEMMA PrintScanned ==
  ASSUME NEW x, Sound(x), x.kind = "printf", x.q = <<>>, x.w # <<>>,
         NEW put, NEW all, Printing(x, put, all),
         NEW y, y = PrintfScan(Taken(x), Head(x.w))
  PROVE  Sound(y) /\ Printing(y, put, all) /\ SameCall(x, y)
<1>1. x \in Calls /\ PlainScan(x) /\ x.sent = <<>>
  BY DEF Sound, Printing
<1>2. PICK goal \in Seq(Characters) : Putting(x, goal, put, all)
  BY DEF Printing
<1>3. Advanced(x, y, goal, PlainPieces) /\ PlainScan(y)
  BY <1>1, <1>2, PrintfAdvances DEF Putting
<1>4. PICK g \in Seq(Characters) : Scanning(y, g, PlainPieces) /\ goal = y.q \o g
  BY <1>3 DEF Advanced
<1>5. y \in Calls /\ SameCall(x, y)
  BY <1>3 DEF Advanced
<1>6. Putting(y, g, put, all)
  <2>1. <<>> \o goal = goal
    BY TextsAre
  <2> QED BY <1>2, <1>4, <2>1 DEF Putting
<1>7. Printing(y, put, all)
  BY <1>1, <1>3, <1>5, <1>6 DEF Printing, SameCall
<1>8. Sound(y)
  BY <1>1, <1>5 DEF Sound, SameCall
<1> QED BY <1>5, <1>7, <1>8

LEMMA PrintPut ==
  ASSUME NEW x, Sound(x), x.kind = "printf", x.q # <<>>,
         NEW put \in Texts, NEW all, Printing(x, put, all),
         NEW y, y = [x EXCEPT !.q = Tail(x.q)]
  PROVE  /\ Sound(y) /\ Printing(y, Append(put, Head(x.q)), all)
         /\ y.kind = x.kind /\ y.lost = x.lost
         /\ Head(x.q) \in Characters
<1>1. x \in Calls /\ PlainScan(x) /\ x.sent = <<>>
  BY DEF Sound, Printing
<1>2. PICK goal \in Seq(Characters) : Putting(x, goal, put, all)
  BY DEF Printing
<1>3. PICK q \in Seq(Characters) : q = x.q
  BY <1>1 DEF Calls
<1>4. Head(q) \in Characters /\ Tail(q) \in Seq(Characters)
  BY <1>3, ConsOf
<1>5. PICK t \in Seq(Characters) : t = Tail(q)
  BY <1>4
<1>6. y = [x EXCEPT !.q = t]
  BY <1>3, <1>5
<1>7. /\ y \in Calls /\ y.ready = x.ready /\ y.kind = x.kind /\ y.lost = x.lost /\ y.q = t
      /\ y.sent = x.sent /\ y.meant = x.meant /\ y.zero = x.zero /\ y.before = x.before
      /\ y.w = x.w /\ y.args = x.args /\ y.state = x.state /\ y.decimal = x.decimal
  BY <1>1, <1>6 DEF Calls
<1>8. Scanning(y, goal, PlainPieces)
  BY <1>2, <1>7, ScanKept DEF Putting
<1>9. Regroups(put, q, goal)
  <2>1. q \in Texts /\ goal \in Texts
    BY TextsAre
  <2> QED BY <1>3, <2>1, CharacterMoved DEF Texts
<1>10. Putting(y, goal, Append(put, Head(q)), all)
  BY <1>2, <1>3, <1>5, <1>7, <1>8, <1>9 DEF Putting, Regroups
<1>11. PlainScan(y)
  BY <1>1, <1>7 DEF PlainScan
<1>12. Sound(y)
  BY <1>7 DEF Sound
<1>13. Printing(y, Append(put, Head(q)), all)
  BY <1>1, <1>7, <1>10, <1>11 DEF Printing
<1> QED BY <1>3, <1>4, <1>7, <1>12, <1>13

LEMMA PrintDone ==
  ASSUME NEW x, Sound(x), x.kind = "printf", x.q = <<>>, x.w = <<>>,
         NEW put \in Texts, NEW all, Printing(x, put, all)
  PROVE  all = put
<1>1. PICK goal \in Seq(Characters) : Putting(x, goal, put, all)
  BY DEF Printing
<1>2. PlainPieces \subseteq Pieces /\ x \in Calls
  BY DEF PlainPieces, Sound
<1>3. goal = <<>>
  BY <1>1, <1>2, ScanDone DEF Putting
<1>4. <<>> \o <<>> = <<>> /\ put \o <<>> = put
  <2>1. <<>> \in Texts
    BY DEF Texts
  <2> QED BY <2>1, ConcatEmptySeq DEF Texts
<1> QED BY <1>1, <1>3, <1>4 DEF Putting

LEMMA PrintMade ==
  ASSUME NEW msg \in Seq(Pieces), Plain(msg),
         NEW y, y.q = <<>>, y.sent = <<>>, PlainScan(y), AtPiece(y, msg, Meant(msg)),
         NEW put
  PROVE  Printing(y, put, put \o Meant(msg))
<1>1. msg \in Seq(PlainPieces)
  <2>1. \A k \in 1 .. Len(msg) : msg[k] \in PlainPieces
    BY ElementOfSeq, LenProperties DEF Plain, PlainPieces
  <2>2. msg = [k \in 1 .. Len(msg) |-> msg[k]] /\ Len(msg) \in Nat
    BY LenProperties
  <2>3. [k \in 1 .. Len(msg) |-> msg[k]] \in Seq(PlainPieces)
    BY <2>1, <2>2
  <2> QED BY <2>2, <2>3
<1>2. PICK m \in Seq(Characters) : m = Meant(msg)
  BY MessageTypes
<1>3. Scanning(y, m, PlainPieces)
  BY <1>1, <1>2 DEF Scanning, PlainScan
<1>4. <<>> \o m = m
  BY TextsAre
<1>5. Putting(y, m, put, put \o m)
  BY <1>3, <1>4 DEF Putting
<1> QED BY <1>2, <1>5 DEF Printing

(* Where a character goes at the end of two texts. *)
LEMMA AppendGroups ==
  ASSUME NEW a \in Texts, NEW b \in Texts, NEW c \in Characters \cup {"EOT"}
  PROVE  /\ a \o Append(b, c) = Append(a \o b, c)
         /\ a \o b \in Texts /\ Append(b, c) \in Texts /\ Append(a, c) \in Texts
         /\ a \o <<>> = a /\ <<>> \in Texts
<1>1. a \o b \in Texts /\ Append(b, c) \in Texts /\ Append(a, c) \in Texts /\ <<>> \in Texts
  BY ConcatProperties, AppendProperties DEF Texts
<1>2. PICK one \in Texts : one = <<c>>
  BY OneDigit DEF Texts
<1>3. PICK s \in Texts : s = a \o b
  BY <1>1
<1>4. Append(b, c) = b \o one /\ Append(s, c) = s \o one
  BY <1>2, AppendIsConcat DEF Texts
<1>5. Groups(a, b, one)
  BY ConcatGroups DEF Texts
<1>6. a \o <<>> = a
  BY ConcatEmptySeq DEF Texts
<1> QED BY <1>1, <1>3, <1>4, <1>5, <1>6 DEF Groups

-----------------------------------------------------------------------------
(* The inductive invariant: every call is sound; a handler's never has to wait for
   room again once it has found some, and so loses nothing; standard output and the
   buffer hold what was to be said, but for what alt_printf still has to put. *)
Contexts == ctx \in [Printers -> Calls] /\ \A c \in Printers : Sound(ctx[c])
HandlerKeeps ==
  /\ ctx["handler"].kind # "printf" /\ ~ ctx["handler"].lost
  /\ ctx["handler"].ready => free > 0
OutputInOrder ==
  /\ buf \in Texts /\ out \in Texts /\ said \in Texts
  /\ semihosting \in BOOLEAN /\ (~ semihosting => buf = <<>>)
  /\ Printing(ctx["program"], out \o buf, said)
  /\ ctx["program"].kind # "printf" => buf = <<>> /\ out = said
Counters == free \in 0 .. Room /\ clkCount \in Nat /\ clkSec \in Nat

ConsoleState == Contexts /\ HandlerKeeps /\ OutputInOrder /\ Counters

LEMMA CallReplaced ==
  ASSUME Contexts, NEW c \in Printers, NEW y, Sound(y), ctx' = [ctx EXCEPT ![c] = y]
  PROVE  /\ Contexts' /\ ctx'[c] = y
         /\ \A d \in Printers : d # c => ctx'[d] = ctx[d]
<1>1. y \in Calls
  BY DEF Sound
<1>2. /\ ctx' \in [Printers -> Calls] /\ ctx'[c] = y
      /\ \A d \in Printers : d # c => ctx'[d] = ctx[d]
  BY <1>1 DEF Contexts
<1>3. \A d \in Printers : Sound(ctx'[d])
  BY <1>2 DEF Contexts
<1> QED BY <1>2, <1>3 DEF Contexts

(* A step of a call that logs, or its start or end. *)
LEMMA LogStep ==
  ASSUME ConsoleState, NEW c \in Printers, NEW y, Sound(y), ctx' = [ctx EXCEPT ![c] = y],
         y.kind # "printf", ctx[c].kind # "printf",
         semihosting' = semihosting, UNCHANGED stdout, Counters',
         c = "handler" => ~ y.lost /\ (y.ready => free' > 0),
         c = "program" => free' = free \/ ~ ctx["handler"].ready
  PROVE  ConsoleState'
<1>1. "program" \in Printers /\ "handler" \in Printers /\ c \in {"program", "handler"}
  BY DEF Printers
<1>2. /\ Contexts' /\ ctx'[c] = y
      /\ \A d \in Printers : d # c => ctx'[d] = ctx[d]
  BY CallReplaced DEF ConsoleState
<1>3. HandlerKeeps'
  <2>1. CASE c = "handler"
    BY <1>2, <2>1 DEF HandlerKeeps
  <2>2. CASE c = "program"
    <3>1. ctx'["handler"] = ctx["handler"]
      BY <1>1, <1>2, <2>2
    <3> QED BY <2>2, <3>1 DEF ConsoleState, HandlerKeeps
  <2> QED BY <1>1, <2>1, <2>2
<1>4. OutputInOrder'
  <2>1. ctx'["program"].kind # "printf" \/ ctx'["program"] = ctx["program"]
    BY <1>1, <1>2
  <2>2. buf' = buf /\ out' = out /\ said' = said
    BY DEF stdout
  <2>3. ctx'["program"].kind # "printf" => ctx["program"].kind # "printf"
    <3>1. CASE c = "program"
      BY <3>1
    <3>2. CASE c = "handler"
      BY <1>1, <1>2, <3>2
    <3> QED BY <1>1, <3>1, <3>2
  <2> QED BY <2>1, <2>2, <2>3 DEF ConsoleState, OutputInOrder, Printing
<1> QED BY <1>2, <1>3, <1>4 DEF ConsoleState

(* A step of the program's call that leaves the port alone. *)
LEMMA PrintStep ==
  ASSUME ConsoleState, NEW y, Sound(y), ctx' = [ctx EXCEPT !["program"] = y],
         UNCHANGED <<semihosting, free, sysClk>>,
         buf' \in Texts, out' \in Texts, said' \in Texts,
         ~ semihosting => buf' = <<>>,
         Printing(y, out' \o buf', said'),
         y.kind # "printf" => buf' = <<>> /\ out' = said'
  PROVE  ConsoleState'
<1>1. "program" \in Printers /\ "handler" \in Printers
  BY DEF Printers
<1>2. /\ Contexts' /\ ctx'["program"] = y
      /\ \A d \in Printers : d # "program" => ctx'[d] = ctx[d]
  BY <1>1, CallReplaced DEF ConsoleState
<1>3. HandlerKeeps'
  <2>1. ctx'["handler"] = ctx["handler"]
    BY <1>1, <1>2
  <2> QED BY <2>1 DEF ConsoleState, HandlerKeeps
<1>4. OutputInOrder'
  BY <1>2 DEF ConsoleState, OutputInOrder
<1>5. Counters'
  BY DEF ConsoleState, Counters, sysClk
<1> QED BY <1>2, <1>3, <1>4, <1>5 DEF ConsoleState

(* What there is to know of a call before it goes on. *)
LEMMA OfCall ==
  ASSUME ConsoleState, NEW c \in Printers
  PROVE  /\ Sound(ctx[c]) /\ ctx[c] \in Calls /\ ctx[c].kind \in {"none", "log", "printf"}
         /\ c = "handler" => ctx[c].kind # "printf" /\ ~ ctx[c].lost
         /\ c = "program" /\ ~ Active("handler") => ~ ctx["handler"].ready
         /\ c \in {"program", "handler"} /\ "handler" \in Printers /\ "program" \in Printers
<1>1. c \in {"program", "handler"} /\ "handler" \in Printers /\ "program" \in Printers
  BY DEF Printers
<1>2. Sound(ctx[c]) /\ Sound(ctx["handler"])
  BY <1>1 DEF ConsoleState, Contexts
<1>3. ctx[c] \in Calls /\ ctx[c].kind \in {"none", "log", "printf"}
  <2>1. ctx[c] \in Calls
    BY <1>2 DEF Sound
  <2> QED BY <2>1 DEF Calls
<1>4. ~ Active("handler") => ~ ctx["handler"].ready
  BY <1>2 DEF Active, Sound
<1> QED BY <1>1, <1>2, <1>3, <1>4 DEF ConsoleState, HandlerKeeps

LEMMA InitSound == ConsoleInit => ConsoleState
<1>1. SUFFICES ASSUME ConsoleInit PROVE ConsoleState
  OBVIOUS
<1>2. NoCall \in Calls /\ Sound(NoCall) /\ NoCall.kind = "none" /\ ~ NoCall.lost /\ ~ NoCall.ready
  <2>1. NoCall.kind = "none" /\ ~ NoCall.lost /\ ~ NoCall.ready
    BY DEF NoCall
  <2> QED BY <2>1, NoCallIs
<1>3. Contexts
  BY <1>1, <1>2 DEF ConsoleInit, Contexts
<1>4. "program" \in Printers /\ "handler" \in Printers
  BY DEF Printers
<1>5. ctx["program"] = NoCall /\ ctx["handler"] = NoCall
  BY <1>1, <1>4 DEF ConsoleInit
<1>6. HandlerKeeps
  BY <1>2, <1>5 DEF HandlerKeeps
<1>7. OutputInOrder
  <2>1. <<>> \in Texts
    BY DEF Texts
  <2> QED BY <1>1, <1>2, <1>5, <2>1 DEF OutputInOrder, Printing, ConsoleInit
<1>8. Counters
  BY <1>1, ConsoleConstants DEF Counters, ConsoleInit
<1> QED BY <1>3, <1>6, <1>7, <1>8 DEF ConsoleState

LEMMA ScanStep ==
  ASSUME ConsoleState, NEW c \in Printers, Scan(c)
  PROVE  ConsoleState'
<1> DEFINE x == ctx[c]
           y == IF x.kind = "log" THEN LogScan(Taken(x), Head(x.w))
                ELSE PrintfScan(Taken(x), Head(x.w))
<1>1. /\ Sound(x) /\ x \in Calls /\ x.kind \in {"none", "log", "printf"}
      /\ c = "handler" => x.kind # "printf" /\ ~ x.lost
      /\ c = "program" /\ ~ Active("handler") => ~ ctx["handler"].ready
      /\ c \in {"program", "handler"}
  BY OfCall
<1>2. /\ Turn(c) /\ x.q = <<>> /\ x.w # <<>>
      /\ UNCHANGED <<level, semihosting, free, stdout, sysClk, quota>>
  BY DEF Scan
<1>3. x.kind # "none" /\ (c = "program" => ~ Active("handler"))
  BY <1>2 DEF Turn, Active
<1>4. ctx' = [ctx EXCEPT ![c] = y]
  <2>1. [ctx[c] EXCEPT !.w = Tail(@)] = Taken(ctx[c]) /\ Taken(ctx[c]).kind = ctx[c].kind
    BY <1>1, <1>2, TakenIs DEF Taken
  <2> QED BY <2>1 DEF Scan
<1>5. Counters'
  BY <1>2 DEF ConsoleState, Counters, sysClk
<1>6. CASE x.kind = "log"
  <2>1. y = LogScan(Taken(x), Head(x.w))
    BY <1>6
  <2> HIDE DEF y
  <2>2. Sound(y) /\ SameCall(x, y)
    BY <1>1, <1>2, <1>6, <2>1, LogScanned
  <2>3. y.kind = "log" /\ y.lost = x.lost /\ ~ y.ready
    BY <1>1, <1>2, <1>6, <2>2 DEF SameCall, Sound
  <2> QED BY <1>1, <1>2, <1>3, <1>4, <1>5, <1>6, <2>2, <2>3, LogStep
<1>7. CASE x.kind = "printf"
  <2>1. y = PrintfScan(Taken(x), Head(x.w))
    BY <1>7
  <2>2. c = "program"
    BY <1>1, <1>7
  <2> HIDE DEF y
  <2>3. Printing(x, out \o buf, said)
    BY <2>2 DEF ConsoleState, OutputInOrder
  <2>4. Sound(y) /\ Printing(y, out \o buf, said) /\ SameCall(x, y)
    BY <1>1, <1>2, <1>7, <2>1, <2>3, PrintScanned
  <2>5. buf' = buf /\ out' = out /\ said' = said /\ semihosting' = semihosting
    BY <1>2 DEF stdout
  <2>6. buf \in Texts /\ out \in Texts /\ said \in Texts /\ (~ semihosting => buf = <<>>)
    BY DEF ConsoleState, OutputInOrder
  <2>7. y.kind = "printf"
    BY <1>7, <2>4 DEF SameCall
  <2> HIDE DEF x
  <2>8. Printing(y, out' \o buf', said')
    BY <2>4, <2>5
  <2>9. UNCHANGED <<semihosting, free, sysClk>>
    BY <1>2
  <2> QED BY <1>4, <2>2, <2>4, <2>5, <2>6, <2>7, <2>8, <2>9, PrintStep
<1> QED BY <1>1, <1>3, <1>6, <1>7

LEMMA TxWaitStep ==
  ASSUME ConsoleState, NEW c \in Printers, TxWait(c)
  PROVE  ConsoleState'
<1> DEFINE x == ctx[c]
           y == [x EXCEPT !.ready = TRUE]
<1>1. /\ Sound(x) /\ x \in Calls
      /\ c = "handler" => ~ x.lost
      /\ c \in {"program", "handler"}
  BY OfCall
<1>2. /\ x.kind = "log" /\ x.q # <<>> /\ free > 0
      /\ UNCHANGED <<level, semihosting, free, stdout, sysClk, quota>>
      /\ ctx' = [ctx EXCEPT ![c] = y]
  BY DEF TxWait
<1> HIDE DEF y
<1>3. Sound(y) /\ y.kind = x.kind /\ y.lost = x.lost
  BY <1>1, <1>2, LogReady DEF y
<1>4. Counters'
  BY <1>2 DEF ConsoleState, Counters, sysClk
<1> QED BY <1>1, <1>2, <1>3, <1>4, LogStep

LEMMA TxCharStep ==
  ASSUME ConsoleState, NEW c \in Printers, TxChar(c)
  PROVE  ConsoleState'
<1> DEFINE x == ctx[c]
           y == [x EXCEPT !.q = Tail(x.q), !.ready = FALSE,
                   !.sent = IF free > 0 THEN Append(x.sent, Head(x.q)) ELSE x.sent,
                   !.lost = x.lost \/ free = 0]
<1>1. /\ Sound(x) /\ x \in Calls
      /\ c = "handler" => ~ x.lost
      /\ c = "program" /\ ~ Active("handler") => ~ ctx["handler"].ready
      /\ c \in {"program", "handler"}
  BY OfCall
<1>2. /\ Turn(c) /\ x.kind = "log" /\ x.ready
      /\ UNCHANGED <<level, semihosting, stdout, sysClk, quota>>
      /\ ctx' = [ctx EXCEPT ![c] = y] /\ free' = IF free > 0 THEN free - 1 ELSE 0
  BY DEF TxChar
<1>3. x.q # <<>> /\ free \in Nat
  BY <1>1, <1>2 DEF Sound, ConsoleState, Counters
<1>4. Sound(y) /\ y.kind = x.kind /\ y.lost = (x.lost \/ free = 0) /\ ~ y.ready
  <2>1. AfterSending(x, free, y)
    BY DEF AfterSending
  <2> HIDE DEF x, y
  <2> QED BY <1>1, <1>2, <1>3, <2>1, LogSent
<1> HIDE DEF y
<1>5. Counters'
  <2>1. free \in 0 .. Room /\ clkCount \in Nat /\ clkSec \in Nat
    BY DEF ConsoleState, Counters
  <2>2. free' \in 0 .. Room
    BY <1>2, <2>1, ConsoleConstants
  <2>3. clkCount' = clkCount /\ clkSec' = clkSec
    BY <1>2 DEF sysClk
  <2> QED BY <2>1, <2>2, <2>3 DEF Counters
<1>6. c = "handler" => ~ y.lost
  <2>1. SUFFICES ASSUME c = "handler" PROVE ~ y.lost
    OBVIOUS
  <2>2. free > 0
    BY <1>2, <2>1 DEF ConsoleState, HandlerKeeps
  <2>3. free # 0
    BY <1>3, <2>2
  <2> QED BY <1>1, <1>4, <2>1, <2>3, Zenon
<1>7. c = "program" => ~ Active("handler")
  BY <1>2 DEF Turn
<1> QED BY <1>1, <1>2, <1>4, <1>5, <1>6, <1>7, LogStep

LEMMA HostTakeStep ==
  ASSUME ConsoleState, HostTake
  PROVE  ConsoleState'
<1>1. Contexts'
  BY DEF ConsoleState, Contexts, HostTake
<1>2. Counters' /\ free' > 0
  BY ConsoleConstants DEF ConsoleState, Counters, HostTake, sysClk
<1>3. HandlerKeeps'
  BY <1>2 DEF ConsoleState, HandlerKeeps, HostTake
<1>4. OutputInOrder'
  BY DEF ConsoleState, OutputInOrder, HostTake, stdout
<1> QED BY <1>1, <1>2, <1>3, <1>4 DEF ConsoleState

(* The pieces the HAL itself prints. *)
LEMMA OwnPieces ==
  /\ \A c \in Characters : Lit(c) \in Pieces
  /\ \A n \in Int : Num("d", n) \in Pieces /\ Num("u", n) \in Pieces
  /\ \A s \in Seq(Characters) : Str("s", s) \in Pieces
<1>1. ASSUME NEW c \in Characters PROVE Lit(c) \in Pieces
  <2>1. <<c>> \in Seq(Characters) /\ Len(<<c>>) = 1
    BY OneDigit
  <2>2. 0 \in 0 .. IntValues - 1
    BY ConsoleConstants
  <2> QED BY <2>1, <2>2 DEF Lit, Pieces, Conversions
<1>2. ASSUME NEW n \in Int PROVE Num("d", n) \in Pieces /\ Num("u", n) \in Pieces
  <2>1. n % IntValues \in 0 .. IntValues - 1
    <3>1. PICK d \in Nat \ {0} : d = IntValues
      BY ConsoleConstants
    <3>2. n % d \in 0 .. d - 1
      OBVIOUS
    <3> QED BY <3>1, <3>2
  <2>2. PICK v \in 0 .. IntValues - 1 : v = n % IntValues
    BY <2>1
  <2>3. <<>> \in Seq(Characters)
    OBVIOUS
  <2> QED BY <2>2, <2>3 DEF Num, Pieces, Conversions
<1>3. ASSUME NEW s \in Seq(Characters) PROVE Str("s", s) \in Pieces
  <2>1. 0 \in 0 .. IntValues - 1
    BY ConsoleConstants
  <2> QED BY <2>1 DEF Str, Pieces, Conversions
<1> QED BY <1>1, <1>2, <1>3

LEMMA EchoText ==
  ASSUME NEW text \in Texts, Len(text) >= 2
  PROVE  Echo(text) \in Seq(Characters)
<1> DEFINE length == IF EchoLen > Len(text) THEN Len(text) ELSE EchoLen
           copied == [k \in 1 .. length |-> IF k = length THEN "\n" ELSE text[k]]
           shown == [k \in 1 .. length |-> IF copied[k] = "EOT" THEN "D" ELSE copied[k]]
<1>1. length \in Nat /\ length <= Len(text)
  BY ConsoleConstants, LenProperties DEF Texts
<1>2. \A k \in 1 .. length : copied[k] \in Characters \cup {"EOT"}
  <2>1. \A k \in 1 .. length : text[k] \in Characters \cup {"EOT"}
    <3>1. \A k \in 1 .. Len(text) : text[k] \in Characters \cup {"EOT"}
      BY ElementOfSeq DEF Texts
    <3>2. Len(text) \in Nat
      BY LenProperties DEF Texts
    <3> QED BY <1>1, <3>1, <3>2
  <2> HIDE DEF length
  <2> QED BY <2>1, OwnAre
<1>3. \A k \in 1 .. length : shown[k] \in Characters
  <2> HIDE DEF length, copied
  <2> QED BY <1>2, OwnAre DEF shown
<1>4. shown \in Seq(Characters)
  <2> HIDE DEF length, copied
  <2> QED BY <1>1, <1>3
<1>5. <<"\r">> \in Seq(Characters)
  <2>1. "\r" \in Characters
    BY OwnAre
  <2> QED BY <2>1, OneDigit
<1>6. Echo(text) = shown \o <<"\r">>
  BY DEF Echo
<1> HIDE DEF shown
<1> QED BY <1>4, <1>5, <1>6, ConcatProperties

(* A call to the log. *)
LEMMA LogMade ==
  ASSUME ConsoleState, NEW c \in Printers, MayCall(c), NEW msg \in Seq(Pieces),
         Say(c, "log", msg), semihosting' = semihosting, free' = free, UNCHANGED stdout,
         clkCount' \in Nat, clkSec' \in Nat
  PROVE  ConsoleState'
<1> DEFINE y == [NoCall EXCEPT !.kind = "log", !.w = Format(msg), !.args = Arguments(msg),
                               !.meant = Meant(msg)]
<1>1. ctx' = [ctx EXCEPT ![c] = y]
  BY DEF Say
<1>2. Sound(y) /\ y.kind = "log" /\ ~ y.lost /\ ~ y.ready
  <2>1. "log" \in {"log", "printf"}
    OBVIOUS
  <2> QED BY <2>1, CallMade
<1> HIDE DEF y
<1>3. Counters'
  BY DEF ConsoleState, Counters
<1>4. ctx[c].kind = "none"
  BY DEF MayCall, Active
<1> QED BY <1>1, <1>2, <1>3, <1>4, LogStep

LEMMA LogPrintfStep ==
  ASSUME ConsoleState, NEW msg \in Seq(Pieces), LogPrintf(msg)
  PROVE  ConsoleState'
<1>1. "program" \in Printers
  BY DEF Printers
<1>2. /\ MayCall("program") /\ Say("program", "log", msg)
      /\ UNCHANGED <<level, semihosting, free, stdout, sysClk>>
  BY DEF LogPrintf
<1>3. clkCount' \in Nat /\ clkSec' \in Nat
  BY <1>2 DEF ConsoleState, Counters, sysClk
<1> QED BY <1>1, <1>2, <1>3, LogMade

LEMMA ControlRegMessage ==
  ASSUME ConsoleState, NEW header \in Characters, NEW inOut \in Int
  PROVE  ControlReg(header, inOut) \in Seq(Pieces)
<1>1. <<header>> \in Seq(Characters) /\ "=" \in Characters /\ free \in Int
  <2>1. <<header>> \in Seq(Characters) /\ "=" \in Characters
    BY OneDigit, OwnAre
  <2>2. free \in 0 .. Room
    BY DEF ConsoleState, Counters
  <2> QED BY <2>1, <2>2
<1>2. PICK p1 \in Pieces, p2 \in Pieces, p3 \in Pieces, p4 \in Pieces :
        /\ p1 = Str("s", <<header>>) /\ p2 = Num("d", inOut) /\ p3 = Lit("=")
        /\ p4 = Num("d", free)
  BY <1>1, OwnPieces
<1>3. ControlReg(header, inOut) = <<p1, p2, p3, p4>>
  BY <1>2 DEF ControlReg
<1> QED BY <1>3

LEMMA ProgramLogs ==
  ASSUME ConsoleState,
         \/ PrintBoot
         \/ \E inOut \in Int : StartupInfo(inOut)
         \/ \E text \in Texts : LogWrite(text)
  PROVE  ConsoleState'
<1>1. CASE PrintBoot
  <2>1. PICK p \in Pieces : p = Lit("B")
    BY OwnAre, OwnPieces
  <2>2. <<Lit("B")>> \in Seq(Pieces)
    BY <2>1
  <2> QED BY <1>1, <2>2, LogPrintfStep DEF PrintBoot
<1>2. ASSUME NEW inOut \in Int, StartupInfo(inOut) PROVE ConsoleState'
  <2>1. ControlReg("S", inOut) \in Seq(Pieces)
    BY OwnAre, ControlRegMessage
  <2> QED BY <1>2, <2>1, LogPrintfStep DEF StartupInfo
<1>3. ASSUME NEW text \in Texts, LogWrite(text) PROVE ConsoleState'
  <2>1. Echo(text) \in Seq(Characters)
    BY <1>3, EchoText DEF LogWrite
  <2>2. PICK p \in Pieces, q \in Pieces : p = Lit("E") /\ q = Str("s", Echo(text))
    BY <2>1, OwnAre, OwnPieces
  <2>3. <<Lit("E"), Str("s", Echo(text))>> \in Seq(Pieces)
    BY <2>2
  <2> QED BY <1>3, <2>3, LogPrintfStep DEF LogWrite
<1> QED BY <1>1, <1>2, <1>3

LEMMA HandlerLogs ==
  ASSUME ConsoleState,
         SystemClock \/ \E inOut \in Int : ReportLog(inOut) \/ IsrProc(inOut)
  PROVE  ConsoleState'
<1>1. "handler" \in Printers
  BY DEF Printers
<1>2. clkCount \in Nat /\ clkSec \in Nat
  BY DEF ConsoleState, Counters
<1>3. CASE SystemClock /\ clkCount + 1 > Interval
  <2>1. /\ MayCall("handler") /\ clkCount' = 0 /\ clkSec' = clkSec + 1
        /\ Say("handler", "log", <<Lit("C"), Num("u", clkSec)>>)
        /\ UNCHANGED <<level, semihosting, free, stdout>>
    BY <1>3 DEF SystemClock
  <2>2. PICK p \in Pieces, q \in Pieces : p = Lit("C") /\ q = Num("u", clkSec)
    <3>1. Lit("C") \in Pieces
      BY OwnAre, OwnPieces
    <3>2. Num("u", clkSec) \in Pieces
      BY <1>2, OwnPieces
    <3> QED BY <3>1, <3>2
  <2>3. <<Lit("C"), Num("u", clkSec)>> \in Seq(Pieces)
    BY <2>2
  <2>4. clkCount' \in Nat /\ clkSec' \in Nat
    BY <1>2, <2>1
  <2> QED BY <1>1, <2>1, <2>3, <2>4, LogMade
<1>4. CASE SystemClock /\ ~ (clkCount + 1 > Interval)
  <2>1. /\ clkCount' = clkCount + 1 /\ UNCHANGED <<ctx, clkSec>>
        /\ UNCHANGED <<level, semihosting, free, stdout>>
    BY <1>4 DEF SystemClock
  <2>2. Contexts' /\ HandlerKeeps'
    BY <2>1 DEF ConsoleState, Contexts, HandlerKeeps
  <2>3. OutputInOrder'
    BY <2>1 DEF ConsoleState, OutputInOrder, stdout
  <2>4. Counters'
    BY <1>2, <2>1 DEF ConsoleState, Counters
  <2> QED BY <2>2, <2>3, <2>4 DEF ConsoleState
<1>5. ASSUME NEW inOut \in Int, NEW header \in {"A", "I"}, MayCall("handler"),
             Say("handler", "log", ControlReg(header, inOut)),
             UNCHANGED <<level, semihosting, free, stdout, sysClk>>
      PROVE  ConsoleState'
  <2>1. ControlReg(header, inOut) \in Seq(Pieces)
    BY OwnAre, ControlRegMessage
  <2>2. clkCount' \in Nat /\ clkSec' \in Nat
    BY <1>2, <1>5 DEF sysClk
  <2> QED BY <1>1, <1>5, <2>1, <2>2, LogMade
<1>6. ASSUME NEW inOut \in Int, ReportLog(inOut) \/ IsrProc(inOut) PROVE ConsoleState'
  BY <1>5, <1>6 DEF ReportLog, IsrProc
<1> QED BY <1>3, <1>4, <1>6

(* alt_printf and alt_putstr. *)
LEMMA PutCharStep ==
  ASSUME ConsoleState, PutChar
  PROVE  ConsoleState'
<1> DEFINE x == ctx["program"]
           y == [x EXCEPT !.q = Tail(x.q)]
           ch == Head(x.q)
<1>1. "program" \in Printers
  BY DEF Printers
<1>2. /\ x.kind = "printf" /\ x.q # <<>>
      /\ UNCHANGED <<level, semihosting, free, said, sysClk, quota>>
      /\ ctx' = [ctx EXCEPT !["program"] = y]
      /\ IF ~ semihosting THEN alt_putchar(ch)
         ELSE IF Len(buf) + 1 >= BufSize THEN out' = out \o Append(buf, ch) /\ buf' = <<>>
         ELSE out' = out /\ buf' = Append(buf, ch)
  BY DEF PutChar
<1>3. Sound(x)
  BY <1>1, OfCall
<1>4. /\ buf \in Texts /\ out \in Texts /\ said \in Texts
      /\ semihosting \in BOOLEAN /\ (~ semihosting => buf = <<>>)
      /\ Printing(x, out \o buf, said)
  BY DEF ConsoleState, OutputInOrder
<1>5. PICK put \in Texts : put = out \o buf
  BY <1>4, ConcatProperties DEF Texts
<1>6. /\ Sound(y) /\ Printing(y, Append(put, ch), said) /\ y.kind = "printf"
      /\ ch \in Characters
  <2> HIDE DEF x
  <2> QED BY <1>2, <1>3, <1>4, <1>5, PrintPut
<1> HIDE DEF x, y, ch
<1>7. PICK c \in Characters \cup {"EOT"} : c = ch
  BY <1>6
<1>8. /\ out \o Append(buf, c) = Append(put, c)
      /\ put \in Texts /\ Append(buf, c) \in Texts /\ Append(out, c) \in Texts
      /\ out \o <<>> = out /\ <<>> \in Texts
  BY <1>4, <1>5, AppendGroups
<1>9. PICK whole \in Texts : whole = Append(put, c) /\ whole \o <<>> = whole
  BY <1>5, AppendGroups
<1>10. buf' \in Texts /\ out' \in Texts /\ out' \o buf' = whole /\ (~ semihosting => buf' = <<>>)
  <2>1. CASE ~ semihosting
    <3>1. buf = <<>> /\ put = out /\ out' = Append(out, c) /\ buf' = <<>>
      BY <1>2, <1>4, <1>5, <1>7, <1>8, <2>1 DEF alt_putchar
    <3> QED BY <1>8, <1>9, <3>1
  <2>2. CASE semihosting /\ Len(buf) + 1 >= BufSize
    <3>1. out' = out \o Append(buf, c) /\ buf' = <<>>
      BY <1>2, <1>7, <2>2
    <3> QED BY <1>8, <1>9, <2>2, <3>1
  <2>3. CASE semihosting /\ ~ (Len(buf) + 1 >= BufSize)
    <3>1. out' = out /\ buf' = Append(buf, c)
      BY <1>2, <1>7, <2>3
    <3> QED BY <1>4, <1>8, <1>9, <2>3, <3>1
  <2> QED BY <2>1, <2>2, <2>3
<1>11. said' = said /\ UNCHANGED <<semihosting, free, sysClk>>
  BY <1>2
<1>12. Printing(y, out' \o buf', said')
  BY <1>6, <1>7, <1>9, <1>10, <1>11
<1> QED BY <1>2, <1>4, <1>6, <1>10, <1>11, <1>12, PrintStep

LEMMA PrintReturnStep ==
  ASSUME ConsoleState, NEW c \in Printers, PrintReturn(c)
  PROVE  ConsoleState'
<1> DEFINE x == ctx[c]
           y == [NoCall EXCEPT !.sent = x.sent, !.lost = x.lost, !.meant = x.meant]
<1>1. /\ Sound(x) /\ x \in Calls /\ x.kind \in {"none", "log", "printf"}
      /\ c = "handler" => x.kind # "printf" /\ ~ x.lost
      /\ c = "program" /\ ~ Active("handler") => ~ ctx["handler"].ready
      /\ c \in {"program", "handler"}
  BY OfCall
<1>2. /\ Turn(c) /\ x.w = <<>> /\ x.q = <<>>
      /\ UNCHANGED <<level, semihosting, free, said, sysClk, quota>>
      /\ ctx' = [ctx EXCEPT ![c] = y]
      /\ IF x.kind = "printf" THEN out' = out \o buf /\ buf' = <<>> ELSE UNCHANGED <<out, buf>>
  BY DEF PrintReturn
<1>3. x.kind # "none" /\ (c = "program" => ~ Active("handler"))
  BY <1>2 DEF Turn, Active
<1>4. x.kind = "printf" => c = "program"
  BY <1>1
<1>5. x.kind = "printf" => Printing(x, out \o buf, said)
  BY <1>4 DEF ConsoleState, OutputInOrder
<1>6. x.kind = "printf" => x.sent = <<>>
  BY <1>5 DEF Printing
<1> HIDE DEF x
<1>7. Sound(y) /\ y.kind = "none" /\ y.lost = x.lost /\ ~ y.ready
  BY <1>1, <1>2, <1>3, <1>6, CallDone
<1> HIDE DEF y
<1>8. /\ buf \in Texts /\ out \in Texts /\ said \in Texts /\ (~ semihosting => buf = <<>>)
  BY DEF ConsoleState, OutputInOrder
<1>9. CASE x.kind = "printf"
  <2>1. PICK put \in Texts : put = out \o buf
    BY <1>8, ConcatProperties DEF Texts
  <2>2. said = put
    BY <1>1, <1>2, <1>5, <1>9, <2>1, PrintDone
  <2>3. out' = put /\ buf' = <<>> /\ said' = put
    BY <1>2, <1>9, <2>1, <2>2
  <2>4. <<>> \in Texts
    BY DEF Texts
  <2>5. Printing(y, out' \o buf', said')
    BY <1>7 DEF Printing
  <2>6. UNCHANGED <<semihosting, free, sysClk>> /\ ctx' = [ctx EXCEPT !["program"] = y]
    BY <1>2, <1>4, <1>9
  <2> QED BY <1>7, <2>3, <2>4, <2>5, <2>6, PrintStep
<1>10. CASE x.kind = "log"
  <2>1. UNCHANGED stdout
    BY <1>2, <1>10 DEF stdout
  <2>2. Counters'
    BY <1>2 DEF ConsoleState, Counters, sysClk
  <2>3. ctx[c].kind # "printf"
    BY <1>10 DEF x
  <2>4. semihosting' = semihosting /\ free' = free
    BY <1>2
  <2> QED BY <1>1, <1>2, <1>3, <1>7, <2>1, <2>2, <2>3, <2>4, LogStep
<1> QED BY <1>1, <1>3, <1>9, <1>10

LEMMA PrintfStep ==
  ASSUME ConsoleState, NEW msg \in Seq(Pieces), alt_printf(msg)
  PROVE  ConsoleState'
<1> DEFINE y == [NoCall EXCEPT !.kind = "printf", !.w = Format(msg), !.args = Arguments(msg),
                               !.meant = Meant(msg)]
<1>1. /\ Plain(msg) /\ ~ Active("program")
      /\ ctx' = [ctx EXCEPT !["program"] = y]
      /\ said' = said \o Meant(msg)
      /\ UNCHANGED <<level, semihosting, free, buf, out, sysClk>>
  BY DEF alt_printf, Say, MayCall
<1>2. /\ Sound(y) /\ y.kind = "printf" /\ y.q = <<>> /\ y.sent = <<>> /\ PlainScan(y)
      /\ AtPiece(y, msg, Meant(msg))
  <2>1. "printf" \in {"log", "printf"}
    OBVIOUS
  <2> QED BY <2>1, CallMade
<1> HIDE DEF y
<1>3. /\ buf \in Texts /\ out \in Texts /\ said \in Texts /\ buf = <<>> /\ out = said
  BY <1>1 DEF ConsoleState, OutputInOrder, Active
<1>4. PICK m \in Texts : m = Meant(msg)
  BY MessageTypes, TextsAre
<1>5. out \o <<>> = out /\ said \o m \in Texts
  BY <1>3, ConcatEmptySeq, ConcatProperties DEF Texts
<1>6. Printing(y, out, out \o Meant(msg))
  BY <1>1, <1>2, PrintMade
<1>7. out' \o buf' = out /\ said' = out \o Meant(msg)
  BY <1>1, <1>3, <1>5
<1>8. Printing(y, out' \o buf', said')
  BY <1>6, <1>7
<1>9. buf' \in Texts /\ out' \in Texts /\ said' \in Texts /\ buf' = <<>>
  BY <1>1, <1>3, <1>4, <1>5
<1>10. UNCHANGED <<semihosting, free, sysClk>>
  BY <1>1
<1> QED BY <1>1, <1>2, <1>8, <1>9, <1>10, PrintStep

LEMMA PutStrStep ==
  ASSUME ConsoleState, NEW text \in Texts, alt_putstr(text)
  PROVE  ConsoleState'
<1>1. /\ ~ Active("program") /\ out' = out \o text /\ said' = said \o text
      /\ UNCHANGED <<level, semihosting, ctx, free, buf, sysClk>>
  BY DEF alt_putstr, MayCall
<1>2. /\ buf \in Texts /\ out \in Texts /\ said \in Texts /\ buf = <<>> /\ out = said
      /\ ctx["program"].kind = "none"
  BY <1>1 DEF ConsoleState, OutputInOrder, Active
<1>3. out \o text \in Texts
  BY <1>2, ConcatProperties DEF Texts
<1>4. OutputInOrder'
  BY <1>1, <1>2, <1>3 DEF ConsoleState, OutputInOrder, Printing
<1>5. Contexts' /\ HandlerKeeps' /\ Counters'
  BY <1>1 DEF ConsoleState, Contexts, HandlerKeeps, Counters, sysClk
<1> QED BY <1>4, <1>5 DEF ConsoleState

LEMMA ConsoleStateKept ==
  ASSUME ConsoleState, [ConsoleNext]_consoleVars
  PROVE  ConsoleState'
<1>1. Messages \subseteq Seq(Pieces) /\ Writes \subseteq Texts /\ Backlogs \subseteq Int
  BY ConsoleConstants DEF Texts
<1>2. CASE ProgramCalls
  <2>1. ASSUME NEW msg \in Messages, LogPrintf(msg) PROVE ConsoleState'
    BY <1>1, <2>1, LogPrintfStep
  <2>2. ASSUME NEW msg \in Messages, alt_printf(msg) PROVE ConsoleState'
    BY <1>1, <2>2, PrintfStep
  <2>3. ASSUME NEW text \in Writes, LogWrite(text) PROVE ConsoleState'
    BY <1>1, <2>3, ProgramLogs
  <2>4. ASSUME NEW text \in Writes, alt_putstr(text) PROVE ConsoleState'
    BY <1>1, <2>4, PutStrStep
  <2> QED BY <1>2, <2>1, <2>2, <2>3, <2>4, ProgramLogs DEF ProgramCalls
<1>3. CASE Reports
  <2>1. PICK inOut \in Int : StartupInfo(inOut) \/ ReportLog(inOut) \/ IsrProc(inOut)
    BY <1>1, <1>3 DEF Reports
  <2> QED BY <2>1, ProgramLogs, HandlerLogs
<1>4. CASE SystemClock
  BY <1>4, HandlerLogs
<1>5. CASE Output
  BY <1>5, ScanStep, TxWaitStep, TxCharStep, PrintReturnStep DEF Output
<1>6. CASE PutChar
  BY <1>6, PutCharStep
<1>7. CASE HostTake
  BY <1>7, HostTakeStep
<1>8. CASE UNCHANGED consoleVars
  <2>1. UNCHANGED <<semihosting, ctx, free, buf, out, said, clkCount, clkSec>>
    BY <1>8 DEF consoleVars
  <2> QED BY <2>1 DEF ConsoleState, Contexts, HandlerKeeps, OutputInOrder, Counters
<1> QED BY <1>2, <1>3, <1>4, <1>5, <1>6, <1>7, <1>8 DEF ConsoleNext

LEMMA ConsoleStateSuffices == ConsoleState => ConsoleInv
<1>1. SUFFICES ASSUME ConsoleState PROVE ConsoleInv
  OBVIOUS
<1>2. LoggedAsMeant
  BY <1>1 DEF LoggedAsMeant, ConsoleState, Contexts, Sound, Active
<1>3. OnlyProgramLoses
  BY <1>1 DEF OnlyProgramLoses, ConsoleState, HandlerKeeps
<1>4. NoCtrlD
  <2>1. SUFFICES ASSUME NEW c \in Printers, NEW k \in DOMAIN ctx[c].sent
                 PROVE  ctx[c].sent[k] # "EOT"
    BY DEF NoCtrlD
  <2>2. PICK s \in Seq(Characters) : s = ctx[c].sent
    BY <1>1 DEF ConsoleState, Contexts, Calls
  <2>3. s[k] \in Characters
    BY <2>2, ElementOfSeq, LenProperties
  <2> QED BY <2>2, <2>3, ConsoleConstants
<1>5. SaidInOrder
  BY <1>1 DEF SaidInOrder, ConsoleState, OutputInOrder, Active
<1> QED BY <1>2, <1>3, <1>4, <1>5 DEF ConsoleInv

(* The log prints what a message means, for every message and every number of digits;
   an interrupt routine's call loses nothing; no Ctrl-D is logged; and alt_printf
   leaves nothing in its buffer, nor passes what was to be said before. *)
THEOREM ConsoleCorrect == ConsoleSpec => []ConsoleInv
<1>1. ConsoleState /\ [ConsoleNext]_consoleVars => ConsoleState'
  BY ConsoleStateKept
<1> QED BY <1>1, InitSound, ConsoleStateSuffices, PTL DEF ConsoleSpec
=============================================================================
