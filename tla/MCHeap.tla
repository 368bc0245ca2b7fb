------------------------------- MODULE MCHeap -------------------------------
(***************************************************************************)
(* Instances of module Heap for TLC.  Lengths of 4, 8, 40 and 48 bytes    *)
(* give chunks of 6 (fast), 8 (small), 16 and 18 words (large, in one      *)
(* bin); 400 bytes fit nowhere and 511 overflow an unsigned long of 9      *)
(* bits.  One heap starts at an odd word, as the linker may place it.      *)
(***************************************************************************)
EXTENDS Heap

MCHeaps ==
  {[start |-> 1, end |-> 37, lengths |-> {0, 4, 8, 400, 511}, held |-> 3],
   [start |-> 2, end |-> 74, lengths |-> {40, 48, 400}, held |-> 4]}

=============================================================================
