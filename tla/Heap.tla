-------------------------------- MODULE Heap --------------------------------
(***************************************************************************)
(* The memory allocator (shared/malloc.c.h: Doug Lea's malloc 2.7.2 over   *)
(* the kernel's own sbrk, behind mem_alloc and mem_free).  The same code   *)
(* is compiled for the kernel heap, the user stacks and the user heap.     *)
(* Addresses and sizes are in words of 4 bytes.                            *)
(***************************************************************************)
EXTENDS Integers, Sequences, FiniteSets, SequencesExt

CONSTANTS
  pagesize,
  max_fast,                \* largest chunk kept in a fastbin
  LARGE_SHIFT,             \* MIN_LARGE_SIZE is 2^LARGE_SHIFT words (6 in C)
  LARGE_LOG,               \* magnitudes that have bins of their own (16 in C)
  CONSOLIDATION,           \* FASTBIN_CONSOLIDATION_THRESHOLD
  TRIM,                    \* trim_threshold
  ULONG_MOD,               \* unsigned long, in bytes
  Heaps                    \* the heaps this code manages: the words from start
                           \* to end, the lengths in bytes their callers ask
                           \* for and how many blocks they hold at a time

ASSUME HeapAssumption ==
  /\ pagesize % 2 = 0 /\ max_fast % 2 = 0 /\ LARGE_SHIFT >= 2
  /\ \A c \in Heaps : /\ 0 < c.start /\ c.start < c.end
                      /\ c.lengths \subseteq 0..(ULONG_MOD - 1)

VARIABLES
  h,       \* the heap: headers, bins and flags
  heap,    \* which heap it is
  blocks   \* what the callers hold: address of the chunk |-> length

NULL == 0
MALLOC_ALIGNMENT == 2
MINSIZE == 4
MIN_LARGE_SIZE == 2^LARGE_SHIFT
NSMALLBINS == MIN_LARGE_SIZE \div 2
NBINS == NSMALLBINS + 4 * LARGE_LOG
Bins == 2..(NBINS - 1)

round_up(n, unit) == ((n + unit - 1) \div unit) * unit

----------------------------------------------------------------------------
(* Bins *)

in_smallbin_range(sz) == sz < MIN_LARGE_SIZE
smallbin_index(sz) == sz \div 2

\* The bsrl instruction: the position of the highest bit set.
highest_bit(x) == CHOOSE m \in 0..LARGE_LOG : 2^m <= x /\ x < 2^(m + 1)

largebin_index(sz) ==
  LET x == sz \div MIN_LARGE_SIZE
      m == highest_bit(x)
  IN  IF x >= 2^LARGE_LOG THEN NBINS - 1
      ELSE NSMALLBINS + 4 * m + ((sz \div 2^(m + LARGE_SHIFT - 2)) % 4)

bin_index(sz) ==
  IF in_smallbin_range(sz) THEN smallbin_index(sz) ELSE largebin_index(sz)

\* A bin is the sequence of its chunks from first (fd) to last (bk).
unlink(g, p) ==
  [g EXCEPT !.unsorted = Remove(@, p),
            !.bins = [i \in Bins |-> Remove(@[i], p)]]

\* The place of a chunk in a large bin: behind all others if it is not larger
\* than the last one (the sizes compared carry PREV_INUSE, the new one does
\* not), else in front of the first one that is not larger.
place(g, list, size) ==
  IF list = <<>> THEN 1
  ELSE IF size <= g.mem[Last(list)].size THEN Len(list) + 1
       ELSE CHOOSE i \in 1..Len(list) :
              /\ g.mem[list[i]].size <= size
              /\ \A j \in 1..(i - 1) : g.mem[list[j]].size > size

put_in_bin(g, p) ==
  LET size == g.mem[p].size
      i == bin_index(size)
      at == IF in_smallbin_range(size) THEN 1 ELSE place(g, g.bins[i], size)
  IN  [g EXCEPT !.bins[i] = InsertAt(@, at, p), !.binmap = @ \union {i}]

----------------------------------------------------------------------------
(* Chunks: the header of a chunk is its size, the in-use bit of the chunk  *)
(* before it and, while that one is free, its size (prev_size).            *)

\* What is read where no header was written.
NoHeader == [size |-> 0, prev_inuse |-> TRUE, prev_size |-> 0]
head(g, p) == IF p \in DOMAIN g.mem THEN g.mem[p] ELSE NoHeader
chunksize(g, p) == head(g, p).size

\* The headers that the new chunk covers become plain memory.
set_head(g, p, size, inuse) ==
  LET kept == {a \in DOMAIN g.mem : a <= p \/ a >= p + size}
      foot == IF inuse THEN 0 ELSE head(g, p).prev_size
  IN  [g EXCEPT !.mem = [a \in kept \union {p} |->
         IF a = p THEN [size |-> size, prev_inuse |-> inuse, prev_size |-> foot]
         ELSE g.mem[a]]]

set_inuse_bit(g, a) == set_head(g, a, chunksize(g, a), TRUE)
\* Mutant: a free chunk does not leave its size to the chunk behind it.
set_foot_lost(g, p, size) == g
set_foot(g, p, size) ==
  IF p + size \in DOMAIN g.mem THEN [g EXCEPT !.mem[p + size].prev_size = size]
  ELSE g

\* The chunk p becomes nb words in use; the rest of it is a free chunk and
\* the only one of the unsorted bin.
split_off(g, p, nb) ==
  LET rest == p + nb
      size == chunksize(g, p) - nb
      heads == set_head(set_head(g, p, nb, TRUE), rest, size, TRUE)
  IN  [set_foot(heads, rest, size) EXCEPT !.unsorted = <<rest>>]

\* A chunk that was taken off its bin is used for nb words.
use_chunk(g, p, nb) ==
  IF chunksize(g, p) - nb < MINSIZE
  THEN set_inuse_bit(g, p + chunksize(g, p))
  ELSE split_off(g, p, nb)

----------------------------------------------------------------------------
(* Free *)

\* The merged chunk p starts the unsorted bin; the chunk behind it learns that
\* it is free and how long it is.
add_unsorted(g, p, size) ==
  [set_foot(set_head(g, p, size, TRUE), p, size) EXCEPT !.unsorted = <<p>> \o @]

merge_forward(g, p, size, next) ==
  LET nextsize == chunksize(g, next)
  IN  IF next = g.top
      THEN [set_head(g, p, size + nextsize, TRUE) EXCEPT !.top = p]
      ELSE IF head(g, next + nextsize).prev_inuse
           THEN add_unsorted(set_head(g, next, nextsize, FALSE), p, size)
           ELSE add_unsorted(unlink(g, next), p, size + nextsize)

\* Merge the chunk p with its free neighbours, as fREe and malloc_consolidate
\* both do: into the top chunk, or as a new first chunk of the unsorted bin.
consolidate_chunk(g, p) ==
  LET size == chunksize(g, p)
      back == head(g, p).prev_size
  IN  IF head(g, p).prev_inuse THEN merge_forward(g, p, size, p + size)
      ELSE merge_forward(unlink(g, p - back), p - back, size + back, p + size)

FastSizes == {s \in MINSIZE..max_fast : s % 2 = 0}

\* The fastbins one after the other, from the smallest size on.
all_fast(g) ==
  LET upto[s \in 2..max_fast] ==
        IF s < MINSIZE THEN <<>>
        ELSE upto[s - 1] \o (IF s % 2 = 0 THEN g.fast[s] ELSE <<>>)
  IN  upto[max_fast]

malloc_consolidate(g) ==
  FoldLeft(consolidate_chunk,
           [g EXCEPT !.fast = [s \in FastSizes |-> <<>>], !.fastchunks = FALSE],
           all_fast(g))

sbrk(g, diff) ==
  IF diff < 0 \/ g.curptr + diff > g.end
  THEN [g |-> g, at |-> -1]
  ELSE [g |-> [g EXCEPT !.curptr = @ + diff], at |-> g.curptr]

\* The amount released is what sbrk reports, and sbrk never takes memory back.
sYSTRIm(g) ==
  LET top_size == chunksize(g, g.top)
      extra == ((top_size - MINSIZE + pagesize - 1) \div pagesize - 1) * pagesize
      g1 == sbrk(g, -extra).g
  IN  IF extra > 0 /\ g.curptr = g.top + top_size /\ g1.curptr # g.curptr
      THEN set_head(g1, g.top, top_size - (g.curptr - g1.curptr), TRUE)
      ELSE g

\* The end of a free: a long free chunk makes it merge the fastbins, and a long
\* top chunk makes it try to return memory.
trim(g) == IF chunksize(g, g.top) >= TRIM THEN sYSTRIm(g) ELSE g

after_free(g, old_top) ==
  LET merged == IF g.top # old_top THEN g.top ELSE Head(g.unsorted)
  IN  IF chunksize(g, merged) < CONSOLIDATION THEN g
      ELSE trim(IF g.fastchunks THEN malloc_consolidate(g) ELSE g)

fREe(g, p) ==
  LET size == chunksize(g, p)
  IN  IF size <= max_fast
      THEN [g EXCEPT !.fast[size] = <<p>> \o @,
                     !.fastchunks = TRUE, !.anychunks = TRUE]
      ELSE after_free(consolidate_chunk([g EXCEPT !.anychunks = TRUE], p), g.top)

----------------------------------------------------------------------------
(* Malloc: the heap afterwards and the chunk taken, NULL if there is none *)

Taken(g, p) == [g |-> g, p |-> p]

\* One round of the loop over the unsorted bin: use its last chunk or bin it.
take_unsorted(g, nb) ==
  LET p == Last(g.unsorted)
      size == chunksize(g, p)
      g1 == [g EXCEPT !.unsorted = Front(@)]
  IN  IF /\ in_smallbin_range(nb)
         /\ g1.unsorted = <<>>
         /\ p = g.last_remainder
         /\ size > nb + MINSIZE
      THEN Taken([split_off(g1, p, nb) EXCEPT !.last_remainder = p + nb], p)
      ELSE IF size = nb THEN Taken(set_inuse_bit(g1, p + size), p)
           ELSE Taken(put_in_bin(g1, p), NULL)

\* The loop ends when a chunk is used or the bin is empty.
sort_unsorted(g, nb) ==
  LET round(r, i) == IF r.p # NULL THEN r ELSE take_unsorted(r.g, nb)
  IN  FoldLeft(round, Taken(g, NULL), g.unsorted)

use_top(g, nb) ==
  LET p == g.top
      size == chunksize(g, p)
  IN  IF size >= nb + MINSIZE
      THEN Taken([set_head(set_head(g, p, nb, TRUE), p + nb, size - nb, TRUE)
                    EXCEPT !.top = p + nb], p)
      ELSE Taken(g, NULL)

\* Mutant: the bin is searched from its largest chunk on.
scan_bin_down(g, nb) ==
  LET i == bin_index(nb)
      fit == {j \in 1..Len(g.bins[i]) : chunksize(g, g.bins[i][j]) >= nb}
      p == g.bins[i][CHOOSE j \in fit : \A k \in fit : j <= k]
  IN  IF in_smallbin_range(nb) \/ fit = {} THEN Taken(g, NULL)
      ELSE Taken(use_chunk(unlink(g, p), p, nb), p)

\* The bin of a large request, from its smallest chunk on.
scan_bin(g, nb) ==
  LET i == bin_index(nb)
      fit == {j \in 1..Len(g.bins[i]) : chunksize(g, g.bins[i][j]) >= nb}
      p == g.bins[i][CHOOSE j \in fit : \A k \in fit : k <= j]
  IN  IF in_smallbin_range(nb) \/ fit = {} THEN Taken(g, NULL)
      ELSE Taken(use_chunk(unlink(g, p), p, nb), p)

\* The last chunk of the next bin that is not empty; marks of empty bins that
\* are passed on the way are cleared.
scan_binmap(g, nb) ==
  LET marked == {i \in g.binmap : i > bin_index(nb)}
      filled == {i \in marked : g.bins[i] # <<>>}
      i == CHOOSE j \in filled : \A k \in filled : j <= k
      p == Last(g.bins[i])
      remainder == chunksize(g, p) - nb >= MINSIZE /\ in_smallbin_range(nb)
  IN  IF filled = {} THEN use_top([g EXCEPT !.binmap = @ \ marked], nb)
      ELSE Taken(use_chunk([g EXCEPT !.bins[i] = Front(@),
                                     !.binmap = {j \in @ : j \in marked => j >= i},
                                     !.last_remainder = IF remainder THEN p + nb ELSE @],
                           p, nb), p)

\* The steps of the search, each taken when the one before found nothing.
after_scan(r, nb) == IF r.p # NULL THEN r ELSE scan_binmap(r.g, nb)
after_sort(r, nb) == IF r.p # NULL THEN r ELSE after_scan(scan_bin(r.g, nb), nb)

search_bins(g, nb) ==
  after_sort(sort_unsorted(IF ~in_smallbin_range(nb) /\ g.fastchunks
                           THEN malloc_consolidate(g) ELSE g, nb), nb)

use_smallbin(g, i) ==
  LET p == Last(g.bins[i])
  IN  Taken(set_inuse_bit([g EXCEPT !.bins[i] = Front(@)], p + chunksize(g, p)), p)

mALLOc(g, nb) ==
  IF ~g.anychunks THEN use_top(g, nb)
  ELSE IF nb <= max_fast /\ g.fast[nb] # <<>>
       THEN Taken([g EXCEPT !.fast[nb] = Tail(@)], Head(g.fast[nb]))
       ELSE IF in_smallbin_range(nb) /\ g.bins[smallbin_index(nb)] # <<>>
            THEN use_smallbin(g, smallbin_index(nb))
            ELSE search_bins(g, nb)

\* The first time sbrk gives memory: the first chunk is aligned and the end of
\* the heap is moved to the end of a page, if there is room for that.
first_top(g, brk, size) ==
  LET front == brk % MALLOC_ALIGNMENT
      end == brk + size + front
      g1 == sbrk(g, front + round_up(end, pagesize) - end).g
  IN  set_head([g1 EXCEPT !.top = brk + front],
               brk + front, g1.curptr - (brk + front), TRUE)

grow_top(g, nb) ==
  LET old_size == chunksize(g, g.top)
      size == round_up(nb + MINSIZE - old_size, pagesize)
      r == sbrk(g, size)
  IN  IF r.at = -1 THEN Taken(g, NULL)
      ELSE use_top(IF g.top = NULL THEN first_top(r.g, r.at, size)
                   ELSE set_head(r.g, g.top, size + old_size, TRUE), nb)

after_retry(r, nb) == IF r.p # NULL THEN r ELSE grow_top(r.g, nb)

\* Mutant: the fastbins are not consolidated before the heap is given up.
sYSMALLOc_at_once(g, nb) == grow_top(g, nb)

\* What mALLOc(nb) relays to when neither the bins nor top have room.
sYSMALLOc(g, nb) ==
  IF g.fastchunks THEN after_retry(mALLOc(malloc_consolidate(g), nb), nb)
  ELSE grow_top(g, nb)

\* Mutant: no room is left for the header.
request2size_bare(words) == IF words < MINSIZE THEN MINSIZE ELSE ((words + 1) \div 2) * 2

request2size(words) ==
  LET nb == ((words + 2) \div 2) * 2 IN IF nb < MINSIZE THEN MINSIZE ELSE nb

\* The length in words with the four guard words of the wrapper.
guarded(length) == ((length + 3) % ULONG_MOD) \div 4 + 4

after_malloc(r, nb) == IF r.p # NULL THEN r ELSE sYSMALLOc(r.g, nb)

mem_alloc(g, length) ==
  LET l2 == (guarded(length) * 4) % ULONG_MOD
      nb == request2size(l2 \div 4)
  IN  IF length = 0 \/ l2 <= length \/ l2 >= ULONG_MOD - 8 * MINSIZE
      THEN Taken(g, NULL)
      ELSE after_malloc(mALLOc(g, nb), nb)

----------------------------------------------------------------------------
vars == <<h, heap, blocks>>

malloc_init_state(c) ==
  [curptr |-> c.start, end |-> c.end, mem |-> <<>>, top |-> NULL, last_remainder |-> NULL,
   unsorted |-> <<>>, bins |-> [i \in Bins |-> <<>>], binmap |-> {},
   fast |-> [s \in FastSizes |-> <<>>], anychunks |-> FALSE, fastchunks |-> FALSE]

HeapInit == heap \in Heaps /\ h = malloc_init_state(heap) /\ blocks = <<>>

MemAlloc ==
  /\ Cardinality(DOMAIN blocks) < heap.held
  /\ UNCHANGED heap
  /\ \E length \in heap.lengths : \E r \in {mem_alloc(h, length)} :
       /\ h' = r.g
       /\ blocks' = IF r.p = NULL THEN blocks
                    ELSE [p \in DOMAIN blocks \union {r.p} |->
                            IF p = r.p THEN length ELSE blocks[p]]

MemFree ==
  \E p \in DOMAIN blocks :
    /\ h' = fREe(h, p)
    /\ blocks' = [q \in DOMAIN blocks \ {p} |-> blocks[q]]
    /\ UNCHANGED heap

HeapNext == MemAlloc \/ MemFree

HeapSpec == HeapInit /\ [][HeapNext]_vars

----------------------------------------------------------------------------
Heads == DOMAIN h.mem
FastChunks(g) == UNION {ToSet(g.fast[s]) : s \in FastSizes}
InUse == DOMAIN blocks \union FastChunks(h)
Listed(g) == ToSet(g.unsorted) \union UNION {ToSet(g.bins[i]) : i \in Bins}

\* The type of the allocator's state.
HeapTypeOK ==
  /\ h.curptr \in heap.start..heap.end
  /\ Heads \subseteq heap.start..(heap.end - 1)
  /\ \A p \in Heads : h.mem[p] \in [size : Nat, prev_inuse : BOOLEAN, prev_size : Nat]
  /\ h.top \in Heads \union {NULL} /\ h.binmap \subseteq Bins
  /\ Listed(h) \union InUse \subseteq Heads
  /\ \A p \in DOMAIN blocks : blocks[p] \in heap.lengths

\* do_check_chunk, do_check_inuse_chunk: the chunks follow each other without
\* gap from the start of the heap to what sbrk gave out, top comes last and
\* always exists, and each chunk's successor tells the truth about it: whether
\* it is in use and, if it is not, how long it is.  "All procedures maintain the
\* invariant that no consolidated chunk physically borders another one": neither
\* another free chunk nor top.
BoundaryTags ==
  HeapTypeOK /\ (h.top # NULL =>
    /\ \A p \in Heads : heap.start + (heap.start % 2) <= p /\ p <= h.top
    /\ heap.start + (heap.start % 2) \in Heads
    /\ h.top + chunksize(h, h.top) = h.curptr
    /\ \A p \in Heads : chunksize(h, p) >= MINSIZE /\ p % 2 = 0
    /\ \A p \in Heads \ {h.top} :
         LET next == p + chunksize(h, p)
         IN  /\ next \in Heads /\ \A q \in Heads : ~(p < q /\ q < next)
             /\ h.mem[next].prev_inuse <=> p \in InUse
             /\ p \in InUse \/ h.mem[next].prev_size = chunksize(h, p)
    /\ \A p \in Heads \ InUse :
         h.mem[p].prev_inuse /\ (p # h.top => p + chunksize(h, p) \in InUse))

\* do_check_malloc_state: every free chunk is in one place of one list, the
\* bin of its size; large bins are sorted with the smallest last; a bin, the
\* fastbins and the bins as a whole are never taken for empty when they are not.
Binned ==
  /\ Listed(h) = Heads \ (InUse \union {h.top})
  /\ Len(h.unsorted) = Cardinality(ToSet(h.unsorted))
  /\ \A i \in Bins :
       /\ \A p \in ToSet(h.bins[i]) : bin_index(chunksize(h, p)) = i
       /\ ToSet(h.bins[i]) \cap ToSet(h.unsorted) = {}
       /\ \A j, k \in 1..Len(h.bins[i]) : j < k =>
            /\ h.bins[i][j] # h.bins[i][k]
            /\ chunksize(h, h.bins[i][j]) >= chunksize(h, h.bins[i][k])
       /\ h.bins[i] # <<>> => i \in h.binmap
  /\ \A s \in FastSizes : \A p \in ToSet(h.fast[s]) : chunksize(h, p) = s
  /\ FastChunks(h) # {} => h.fastchunks
  /\ FastChunks(h) \union Listed(h) # {} => h.anychunks

\* "This search is strictly by best-fit": a request that is given a free chunk
\* (or splits it, or top) leaves no other free chunk that would have held it
\* with less left over.  The documented exception is a small request that
\* continues the last remainder; a chunk from a fastbin fits exactly.  It rests
\* on the order of the bins.
BestFit ==
  Binned /\ \A length \in heap.lengths : \A r \in {mem_alloc(h, length)} :
    LET nb == request2size(guarded(length))
        rest == r.p + chunksize(r.g, r.p)
        taken == IF rest = r.g.top THEN r.g.curptr
                 ELSE IF r.g.unsorted = <<rest>> THEN nb + chunksize(r.g, rest)
                      ELSE chunksize(r.g, r.p)
    IN  \/ r.p = NULL \/ r.p \in FastChunks(h)
        \/ r.p = h.last_remainder /\ in_smallbin_range(nb)
        \/ \A c \in Listed(r.g) \ {rest} :
             chunksize(r.g, c) >= nb => chunksize(r.g, c) >= taken

\* A request is refused only when nothing could serve it: every freed chunk
\* was merged with its neighbours, no merged chunk is long enough, and sbrk
\* has no pages left for the rest.
FailsOnlyWhenFull ==
  \A length \in {n \in heap.lengths : 0 < n /\ n < ULONG_MOD - 64} :
  \A r \in {mem_alloc(h, length)} :
    LET nb == request2size(guarded(length))
        missing == nb + MINSIZE - chunksize(r.g, r.g.top)
    IN  r.p # NULL \/
        /\ \A c \in Listed(r.g) : chunksize(r.g, c) < nb
        /\ FastChunks(r.g) = {}
        /\ missing > 0 /\ r.g.curptr + round_up(missing, pagesize) > heap.end

\* The size word of the chunk and the words its caller may use, the word of the
\* next chunk's header that holds prev_size included.
Held ==
  {[lo |-> p + 1, hi |-> p + 2 + guarded(blocks[p])] : p \in DOMAIN blocks}

\* mem_alloc and mem_free implement the abstract allocator: blocks that are
\* held never overlap, so the size and the guard words of one are
\* never written by the holder of another.
Abstract == INSTANCE Allocator WITH
  first <- heap.start, limit <- heap.end, held <- Held
KeepsBlocks == Abstract!AllocatorSpec

=============================================================================
