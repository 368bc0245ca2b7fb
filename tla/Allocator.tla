------------------------------ MODULE Allocator ------------------------------
(***************************************************************************)
(* What a memory allocator promises its callers, whatever its bookkeeping: *)
(* a block it hands out lies in the heap, overlaps no block that is still  *)
(* held, and stays where it is until its holder gives it back.             *)
(***************************************************************************)
EXTENDS Integers

VARIABLES
  first, limit,  \* the words first..limit - 1 are the heap
  held           \* the blocks handed out: the words lo..hi - 1

Apart(a, b) == a.hi <= b.lo \/ b.hi <= a.lo

Grant ==
  \E b \in held' :
    /\ first <= b.lo /\ b.lo < b.hi /\ b.hi <= limit
    /\ \A c \in held : Apart(b, c)
    /\ held' = held \union {b}

GiveBack == \E b \in held : held' = held \ {b}

AllocatorSpec ==
  /\ held = {}
  /\ [][(Grant \/ GiveBack) /\ UNCHANGED <<first, limit>>]_<<first, limit, held>>

=============================================================================
