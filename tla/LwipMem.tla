------------------------------ MODULE LwipMem ------------------------------
(***************************************************************************)
(* The heap of the network stack, src/kernel/lwip/src/core/mem.c: an array *)
(* ram[] cut into blocks, each preceded by a struct mem that says where    *)
(* the next and the previous block start and whether the block is used.    *)
(* Offsets into ram[] are counted in (scaled) headers.  MEM_ALIGNMENT is 1 *)
(* as lwip/opt.h configures it, so that no size is rounded up.             *)
(*                                                                         *)
(* The heap is a record.  next, prev and used are functions on the offsets *)
(* of the blocks in being, the end marker ram_end included.  Every         *)
(* operation runs under mem_sem, hence in one step.                        *)
(***************************************************************************)
EXTENDS Integers, FiniteSetsExt, Functions

CONSTANTS
  SIZEOF_STRUCT_MEM,    \* room a block header takes
  MIN_SIZE              \* the least room mem_realloc cuts off is above this

ASSUME LwipMemAssumption ==
  SIZEOF_STRUCT_MEM \in Nat \ {0} /\ MIN_SIZE \in Nat

NULL == 0

\* One free block and the end marker, whose prev is written as MEM_SIZE.
mem_init(MEM_SIZE) ==
  [next |-> [b \in {0, MEM_SIZE} |-> MEM_SIZE],
   prev |-> [b \in {0, MEM_SIZE} |-> b],
   used |-> [b \in {0, MEM_SIZE} |-> b = MEM_SIZE],
   ram_end |-> MEM_SIZE,
   lfree |-> 0,
   halted |-> FALSE]

Blocks(m) == DOMAIN m.next \ {m.ram_end}

without(f, b) == [x \in DOMAIN f \ {b} |-> f[x]]
with(f, b, v) == [x \in DOMAIN f \union {b} |-> IF x = b THEN v ELSE f[x]]

\* The block that starts at gone becomes part of the block before it, keep.
absorb(m, keep, gone) ==
  [m EXCEPT !.next = without([@ EXCEPT ![keep] = m.next[gone]], gone),
            !.prev = without([@ EXCEPT ![m.next[gone]] = keep], gone),
            !.used = without(@, gone),
            !.lfree = IF @ = gone THEN keep ELSE @]

plug_forward(m, b) ==
  IF ~m.used[m.next[b]] /\ m.next[b] # m.ram_end
  THEN absorb(m, b, m.next[b])
  ELSE m

plug_backward_never(m, b) == m

plug_backward(m, b) ==
  IF m.prev[b] # b /\ ~m.used[m.prev[b]]
  THEN absorb(m, m.prev[b], b)
  ELSE m

plug_holes(m, b) == plug_backward(plug_forward(m, b), b)

\* The used block b is cut at offset at: what follows is a free block.
cut(m, b, at) ==
  [m EXCEPT !.next = with([@ EXCEPT ![b] = at], at, m.next[b]),
            !.prev = with(IF m.next[b] = m.ram_end THEN @
                          ELSE [@ EXCEPT ![m.next[b]] = at], at, b),
            !.used = with([@ EXCEPT ![b] = TRUE], at, FALSE)]

\* Callers know a block by the address after its header.
lmem_free(m, rmem) ==
  LET b == rmem - SIZEOF_STRUCT_MEM
  IN  IF b \notin Blocks(m) \/ ~m.used[b] THEN [m EXCEPT !.halted = TRUE]
      ELSE plug_holes([m EXCEPT !.used[b] = FALSE,
                                !.lfree = IF b < @ THEN b ELSE @], b)

mem_realloc(m, rmem, newsize) ==
  LET b == rmem - SIZEOF_STRUCT_MEM
      size == m.next[b] - rmem
  IN  IF newsize + SIZEOF_STRUCT_MEM + MIN_SIZE < size
      THEN plug_holes(cut(m, b, rmem + newsize), rmem + newsize)
      ELSE m

fits_exactly(m, size) ==
  {b \in Blocks(m) : /\ b >= m.lfree /\ ~m.used[b]
                     /\ m.next[b] - (b + SIZEOF_STRUCT_MEM) >= size}

\* The blocks mem_malloc finds large enough, from lfree on: one header must
\* be left over for the free block behind the new one.
fits(m, size) ==
  {b \in Blocks(m) :
     /\ b >= m.lfree /\ ~m.used[b]
     /\ m.next[b] - (b + SIZEOF_STRUCT_MEM) >= size + SIZEOF_STRUCT_MEM}

\* lfree moves on to the next free block when it has been handed out.
next_free(m) == Min({b \in DOMAIN m.next :
                       b >= m.lfree /\ (~m.used[b] \/ b = m.ram_end)})

advance(m) ==
  [m EXCEPT !.lfree = next_free(m), !.halted = @ \/ next_free(m) = m.ram_end]

\* The result is the heap and the address, NULL when nothing was found.
mem_malloc(m, size) ==
  IF size = 0 \/ size > m.ram_end \/ fits(m, size) = {}
  THEN [m |-> m, p |-> NULL]
  ELSE LET b == Min(fits(m, size))
       IN  [m |-> advance(cut(m, b, b + SIZEOF_STRUCT_MEM + size)),
            p |-> b + SIZEOF_STRUCT_MEM]

============================================================================
