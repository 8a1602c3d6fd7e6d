------------------------------ MODULE AltCache ------------------------------
(***************************************************************************)
(* The caches of the processor and the HAL's maintenance of them: flushing *)
(* and discarding regions of the data cache, flushing the instruction      *)
(* cache, uncached memory, the loading of sections at start-up and the     *)
(* handler for fatal ECC errors, which is read past the cache.             *)
(*                                                                         *)
(* The caches themselves are external: direct-mapped, the data cache       *)
(* written back.  Contents are abstracted to what is newer where: dirty    *)
(* bytes are newer in the data cache than in memory, a line in iold is     *)
(* older in the instruction cache than what was stored last.               *)
(*                                                                         *)
(* A maintenance call is one step for each line, and loads, stores and     *)
(* fetches (of interrupt routines) come between its steps.                 *)
(*                                                                         *)
(* Definitions marked "variant" are plausible slips, not part of the model. *)
(***************************************************************************)
EXTENDS Integers, Sequences

CONSTANTS
  LineSize,   \* bytes in a line of either cache
  DLines,     \* lines of the data cache
  ILines,     \* lines of the instruction cache
  MemLines,   \* lines of the memory
  Regions,    \* regions given to the calls: pairs of a start and a length
  Sections    \* lines that alt_load loads

ASSUME CacheAssumption ==
  /\ {LineSize, DLines, ILines, MemLines} \subseteq Nat \ {0}
  /\ Regions \subseteq Nat \X Nat
  /\ \A r \in Regions : r[1] + r[2] <= LineSize * MemLines
  /\ Sections \subseteq 0 .. MemLines - 1

VARIABLES
  dlines, dirty,    \* the data cache: its lines, and the bytes newer than memory
  ilines, iold,     \* the instruction cache: its lines, and those out of date
  taken,            \* lines given by alt_uncached_malloc
  booted,           \* has alt_load run?
  ops, i,           \* the calls still to be made, and the address of the present one
  due, fresh,       \* history: what they must write back, and make the same
  collateral        \* history: stores discarded where a call does not say so

cacheVars == <<dlines, dirty, ilines, iold, taken, booted, ops, i, due, fresh, collateral>>
caches == <<dlines, dirty, ilines, iold>>

Addresses == 0 .. LineSize * MemLines - 1
Line(a) == a \div LineSize
BytesOf(lines) == {a \in Addresses : Line(a) \in lines}
Bytes(start, len) == start .. start + len - 1
LinesOf(bytes) == {Line(a) : a \in bytes}

CacheInit ==
  /\ dlines = {} /\ dirty = {} /\ ilines = {} /\ iold = {}
  /\ taken = {} /\ booted = FALSE
  /\ ops = <<>> /\ i = 0 /\ due = {} /\ fresh = {}
  /\ collateral = FALSE

-----------------------------------------------------------------------------
(* The processor.  Taking a line in writes back the one it displaces. *)
Displaced(l) == {m \in dlines : m # l /\ m % DLines = l % DLines}

TakeIn(l, stored) ==
  /\ dlines' = (dlines \ Displaced(l)) \cup {l}
  /\ dirty' = (dirty \ BytesOf(Displaced(l))) \cup stored
  /\ iold' = iold \cup (LinesOf(stored) \cap ilines)
  /\ fresh' = fresh \ LinesOf(stored)

Access(a, isStore) ==
  /\ booted /\ Line(a) \notin taken
  /\ TakeIn(Line(a), IF isStore THEN {a} ELSE {})
  /\ due' = due \ BytesOf(Displaced(Line(a)))
  /\ UNCHANGED <<ilines, taken, booted, ops, i, collateral>>

(* The line comes from memory, whatever the data cache has of it. *)
Fetch(l) ==
  /\ booted /\ l \notin ilines
  /\ LET out == {m \in ilines : m % ILines = l % ILines}
         old == IF dirty \cap BytesOf({l}) = {} THEN {} ELSE {l}
     IN /\ ilines' = (ilines \ out) \cup {l}
        /\ iold' = (iold \ out) \cup old
  /\ UNCHANGED <<dlines, dirty, taken, booted, ops, i, due, fresh, collateral>>

-----------------------------------------------------------------------------
(* The calls.  Each is a list of loops over lines, made one after the other. *)
Op(what, start, end) == [what |-> what, start |-> start, end |-> end]
AlignedOp(o) == o.start % LineSize = 0

Begin(calls, written, published) ==
  /\ ops' = calls
  /\ i' = calls[1].start
  /\ due' = dirty \cap written
  /\ fresh' = LinesOf(published)

alt_dcache_flush(start, len) == Op("flush", start, start + len)
alt_dcache_flush_no_writeback(start, len) == Op("discard", start, start + len)
alt_dcache_flush_all == Op("flushAll", 0, DLines * LineSize)
alt_icache_flush(start, len) ==
  Op("iflush", start, start + (IF len > ILines * LineSize THEN ILines * LineSize ELSE len))
alt_icache_flush_all == alt_icache_flush(0, ILines * LineSize)

Idle == booted /\ ops = <<>>

Flush(r) ==
  /\ Idle
  /\ Begin(<<alt_dcache_flush(r[1], r[2])>>, Bytes(r[1], r[2]), {})
  /\ UNCHANGED <<caches, taken, booted, collateral>>

Discard(r) ==
  /\ Idle
  /\ Begin(<<alt_dcache_flush_no_writeback(r[1], r[2])>>, {}, {})
  /\ UNCHANGED <<caches, taken, booted, collateral>>

(* Code that was stored is made known to the instruction cache. *)
Publish(r) ==
  /\ Idle
  /\ Begin(<<alt_dcache_flush(r[1], r[2]), alt_icache_flush(r[1], r[2])>>,
           Bytes(r[1], r[2]), Bytes(r[1], r[2]))
  /\ UNCHANGED <<caches, taken, booted, collateral>>

(* alt_load: the sections are copied through the data cache. *)
LoadSection(l) ==
  /\ ~booted /\ ops = <<>> /\ l \in Sections \ dlines
  /\ TakeIn(l, BytesOf({l}))
  /\ UNCHANGED <<ilines, taken, booted, ops, i, due, collateral>>

LoadUnsynchronised ==   \* variant: the data cache is not flushed
  /\ ~booted /\ Sections \subseteq dlines
  /\ Begin(<<alt_icache_flush_all>>, BytesOf(Sections), BytesOf(Sections))
  /\ booted' = TRUE
  /\ UNCHANGED <<caches, taken, collateral>>

Load ==
  /\ ~booted /\ Sections \subseteq dlines
  /\ Begin(<<alt_dcache_flush_all, alt_icache_flush_all>>, BytesOf(Sections), BytesOf(Sections))
  /\ booted' = TRUE
  /\ UNCHANGED <<caches, taken, collateral>>

(* alt_ecc_fatal_exception_register: the word at a is stored, then flushed. *)
RegisterEccHandler(a) ==
  /\ Idle /\ Line(a) \notin taken
  /\ TakeIn(Line(a), {a})
  /\ ops' = <<alt_dcache_flush(a, 1)>> /\ i' = a /\ due' = {a}
  /\ UNCHANGED <<ilines, taken, booted, collateral>>

(* alt_uncached_malloc: whole lines, given by memalign, out of the cache. *)
UncachedMalloc(l, size) ==
  /\ Idle
  /\ LET n == (size + LineSize - 1) \div LineSize IN
     /\ l + n <= MemLines /\ (l .. l + n - 1) \cap taken = {}
     /\ taken' = taken \cup (l .. l + n - 1)
     /\ Begin(<<alt_dcache_flush(l * LineSize, n * LineSize)>>, {}, {})
  /\ UNCHANGED <<caches, booted, collateral>>

(* alt_remap_cached makes a line cached memory again; alt_uncached_free, all. *)
RemapCached(l) ==
  /\ Idle /\ l \in taken
  /\ taken' = taken \ {l}
  /\ UNCHANGED <<caches, booted, ops, i, due, fresh, collateral>>

UncachedFree ==
  /\ Idle /\ taken # {}
  /\ taken' = {}
  /\ UNCHANGED <<caches, booted, ops, i, due, fresh, collateral>>

-----------------------------------------------------------------------------
(* The steps of a loop: one line; the line after the last one, if the region
   did not start with a line; and the next call. *)
Now == Head(ops)

(* flushda and initda look for the line, flushd and flushi for its place. *)
Found == CASE Now.what \in {"flush", "discard"} -> dlines \cap {Line(i)}
           [] Now.what = "flushAll" -> {m \in dlines : m % DLines = Line(i)}
           [] Now.what = "iflush" -> {m \in ilines : m % ILines = Line(i) % ILines}

(* The lines a loop is about: those of the region, and the one after it if the
   region does not start with a line. *)
Touched(o) ==
  LinesOf(o.start .. o.end - 1 + (IF AlignedOp(o) THEN 0 ELSE LineSize))

Instruction ==
  IF Now.what = "iflush"
  THEN /\ ilines' = ilines \ Found /\ iold' = iold \ Found
       /\ UNCHANGED <<dlines, dirty, due, collateral>>
  ELSE /\ dlines' = dlines \ Found /\ dirty' = dirty \ BytesOf(Found)
       /\ due' = due \ BytesOf(Found)
       /\ collateral' =
            (collateral \/ (/\ Now.what = "discard"
                            /\ ~(LinesOf(dirty \cap BytesOf(Found)) \subseteq Touched(Now))))
       /\ UNCHANGED <<ilines, iold>>

LoopStep ==
  /\ ops # <<>> /\ i < Now.end
  /\ Instruction
  /\ i' = i + LineSize
  /\ UNCHANGED <<taken, booted, ops, fresh>>

NextOp ==
  /\ ops' = Tail(ops)
  /\ i' = IF Tail(ops) = <<>> THEN 0 ELSE Tail(ops)[1].start

LoopEnd ==
  /\ ops # <<>> /\ i >= Now.end
  /\ IF AlignedOp(Now)
     THEN UNCHANGED <<dlines, dirty, ilines, iold, due, collateral>>
     ELSE Instruction
  /\ NextOp
  /\ UNCHANGED <<taken, booted, fresh>>

-----------------------------------------------------------------------------
Processor == \E a \in Addresses :
  Access(a, TRUE) \/ Access(a, FALSE) \/ (a % LineSize = 0 /\ Fetch(Line(a)))

CacheCalls ==
  \/ \E r \in Regions : Flush(r) \/ Discard(r) \/ Publish(r)
  \/ \E l \in Sections : LoadSection(l)
  \/ Load
  \/ \E a \in Addresses : RegisterEccHandler(a)
  \/ \E l \in 0 .. MemLines - 1, size \in 1 .. LineSize + 1 : UncachedMalloc(l, size)
  \/ \E l \in 0 .. MemLines - 1 : RemapCached(l)
  \/ UncachedFree

CacheNext == Processor \/ CacheCalls \/ LoopStep \/ LoopEnd

CacheSpec == CacheInit /\ [][CacheNext]_cacheVars

-----------------------------------------------------------------------------
(* alt_dcache_flush and those that call it: what was in the data cache when a
   call was made is in memory when it returns. *)
WrittenBack == ops = <<>> => due = {}

(* alt_load and the order of the two flushes: once code has been made known, it
   is not fetched as it was before, until it is stored again. *)
FetchedAsStored == ops = <<>> => fresh \cap iold = {}

(* alt_uncached_malloc: no part of an uncached block is in the data cache, where
   it would be read old or written back over what is newer. *)
UncachedApart == ops = <<>> => dlines \cap taken = {}

(* alt_dcache_flush_no_writeback: nothing is lost outside the lines of the region,
   if it starts with a line, and otherwise outside these and the next one.  That
   next line goes even when the region ends before it. *)
DiscardConfined == ~collateral

CacheInv == WrittenBack /\ FetchedAsStored /\ UncachedApart /\ DiscardConfined
=============================================================================
