------------------------------- MODULE Links -------------------------------
(***************************************************************************)
(* The circular doubly-linked lists of shared/queue.h, pointer by pointer. *)
(*                                                                         *)
(* A heap is a record [next, prev] of two functions from nodes (struct     *)
(* list_link objects) to nodes or NULL.  Some nodes are list heads, the    *)
(* others are the link field of an element: elems is the set of the        *)
(* latter, and an element is named by its node.                            *)
(***************************************************************************)
EXTENDS Queue

NULL == -1

\* The n-th node reached from head along one direction (h.next or h.prev).
Reached(dir, head, n) ==
  LET at[i \in 0..n] ==
        IF i = 0 THEN head
        ELSE LET x == at[i - 1] IN IF x = NULL THEN NULL ELSE dir[x]
  IN  at

\* What a queue_for_each loop meets: the elements before it comes back to the
\* head ("closed"), or before it follows a link to something that is not an
\* element, or goes round for ever (not closed).  Elements are naturals: n is
\* more than there are of them.
Walk(dir, head, elems) ==
  LET n    == Max(elems) + 2
      at   == Reached(dir, head, n)
      stop == Min({i \in 1..n : at[i] \notin elems \/ i = n})
  IN  [met |-> [i \in 1..(stop - 1) |-> at[i]], closed |-> at[stop] = head]

\* queue_empty on a head.
link_empty(h, head) == h.next[head] = head

\* INIT_LIST_HEAD and INIT_LINK.
init_head(h, head) ==
  [h EXCEPT !.next[head] = head, !.prev[head] = head]

init_link(h, e) ==
  [h EXCEPT !.next[e] = NULL, !.prev[e] = NULL]

\* Where queue_add stops: the first element met whose key is not smaller, the
\* head if there is none, NULL if the walk leaves the list before that.
link_slot(h, e, head, elems, key) ==
  LET w    == Walk(h.next, head, elems)
      stop == FirstWhere(w.met, LAMBDA x : ~(key[x] < key[e]))
  IN  IF stop # 0 THEN w.met[stop] ELSE IF w.closed THEN head ELSE NULL

\* The assertion of queue_add, together with the walk having an end.
link_add_ok(h, e, head, elems, key) ==
  /\ h.next[e] = NULL /\ h.prev[e] = NULL
  /\ LET at == link_slot(h, e, head, elems, key)
     IN  at # NULL /\ h.prev[at] # NULL

link_add(h, e, head, elems, key) ==
  LET at   == link_slot(h, e, head, elems, key)
      pred == h.prev[at]
  IN  [next |-> [h.next EXCEPT ![e] = at, ![pred] = e],
       prev |-> [h.prev EXCEPT ![e] = pred, ![at] = e]]

\* The assertion of queue_del.
link_del_ok(h, e) == h.next[e] # NULL /\ h.prev[e] # NULL

\* Mutant: the link back from the next node is forgotten.
link_del_one_way(h, e) ==
  [next |-> [h.next EXCEPT ![h.prev[e]] = h.next[e], ![e] = NULL],
   prev |-> [h.prev EXCEPT ![e] = NULL]]

link_del(h, e) ==
  [next |-> [h.next EXCEPT ![h.prev[e]] = h.next[e], ![e] = NULL],
   prev |-> [h.prev EXCEPT ![h.next[e]] = h.prev[e], ![e] = NULL]]

=============================================================================
