------------------------------- MODULE Queue -------------------------------
(***************************************************************************)
(* The priority queues of shared/queue.h, seen through their interface.    *)
(*                                                                         *)
(* A queue is a sequence of elements: index 1 is the element after the     *)
(* list head (head->next, the bottom), the last index is the element       *)
(* before it (head->prev, the top).  The pointer-level lists the macros    *)
(* really build are in module Links.  A key is a function from elements    *)
(* to integers: the field the macro is given as "priofield".               *)
(***************************************************************************)
EXTENDS Integers, Sequences, FiniteSets, FiniteSetsExt, Functions

\* Sequence helpers.  SequencesExt has their like, but it brings several
\* hundred definitions and theorems of other modules into every proof
\* obligation of the modules that extend this one.
FirstWhere(s, Test(_)) ==
  LET I == {i \in 1..Len(s) : Test(s[i])} IN IF I # {} THEN Min(I) ELSE 0

LastWhere(s, Test(_)) ==
  LET I == {i \in 1..Len(s) : Test(s[i])} IN IF I # {} THEN Max(I) ELSE 0

InsertAt(s, i, e) == SubSeq(s, 1, i - 1) \o <<e>> \o SubSeq(s, i, Len(s))

RemoveAt(s, i) == SubSeq(s, 1, i - 1) \o SubSeq(s, i + 1, Len(s))

\* Mutant: an equal key is walked past too.
Stops_lifo(elem, q, key) ==
  {i \in 1..(Len(q) + 1) : i \in 1..Len(q) => ~(key[q[i]] <= key[elem])}

\* The places where elem may go: the end of the queue, or in front of an
\* element whose key is not smaller than its own.
Stops(elem, q, key) ==
  {i \in 1..(Len(q) + 1) : i \in 1..Len(q) => ~(key[q[i]] < key[elem])}

\* queue_add walks from the bottom past every smaller key.
queue_add(elem, q, key) == InsertAt(q, Min(Stops(elem, q, key)), elem)

queue_empty(q) == q = <<>>

\* queue_del unlinks an element wherever it is.
queue_del(elem, q) ==
  IF \E i \in 1..Len(q) : q[i] = elem
  THEN RemoveAt(q, FirstWhere(q, LAMBDA v : v = elem)) ELSE q

\* queue_top and queue_bottom only look; queue_out and queue_out_bot are what
\* is left of the queue once the element they return is unlinked.
queue_top(q) == q[Len(q)]

queue_bottom(q) == q[1]

queue_out(q) == SubSeq(q, 1, Len(q) - 1)

queue_out_bot(q) == SubSeq(q, 2, Len(q))

\* Sortedness by a key, bottom to top: what the header comment of queue.h
\* promises of a queue ("triee par ordre croissant de priorite").
SortedBy(q, key) == \A i, j \in DOMAIN q : i < j => key[q[i]] <= key[q[j]]

=============================================================================
