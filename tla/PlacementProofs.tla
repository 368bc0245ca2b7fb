-------------------------- MODULE PlacementProofs --------------------------
(***************************************************************************)
(* Facts about natural numbers and bounded iteration, for the loops of the *)
(* code; what the operations of module Queue do to the elements and the    *)
(* order of a queue; and from them, that the functions and the system      *)
(* calls of process_handler.c and sem.c keep every process in the queue of *)
(* its state, for any number of processes, semaphores and priorities.      *)
(***************************************************************************)
EXTENDS Kernel, TLAPS, WellFoundedInduction

-----------------------------------------------------------------------------
(***************************************************************************)
(* Loops.                                                                  *)
(***************************************************************************)

\* A non-empty set of natural numbers has a least element (the slots among
\* which queue_add takes the first).
LEMMA LeastNat ==
  ASSUME NEW T \in SUBSET Nat, T # {}
  PROVE  \E m \in T : \A y \in T : m <= y
<1>1. PICK x \in T : \A y \in T : ~ (<<y, x>> \in OpToRel(<, Nat))
  <2>1. IsWellFoundedOn(OpToRel(<, Nat), Nat)
    BY Zenon, NatLessThanWellFounded
  <2> HIDE DEF OpToRel, IsWellFoundedOn
  <2> QED
    BY Zenon, <2>1, WFMin
<1>2. ASSUME NEW y \in T PROVE x <= y
  <2>1. x \in Nat /\ y \in Nat
    OBVIOUS
  <2>2. ~ (<<y, x>> \in OpToRel(<, Nat))
    BY Zenon, <1>1
  <2>3. ~ (y < x)
    BY <2>1, <2>2 DEF OpToRel
  <2> QED
    BY <2>1, <2>3
<1> QED
  BY <1>2

\* Min of a non-empty set of natural numbers is its least element.
LEMMA MinNat ==
  ASSUME NEW T \in SUBSET Nat, T # {}
  PROVE  Min(T) \in T /\ \A y \in T : Min(T) <= y
<1>1. PICK m \in T : \A y \in T : m <= y
  BY LeastNat
<1> QED
  BY Zenon, <1>1 DEF Min

\* Max of a non-empty set of natural numbers bounded by n is in the set and
\* bounds it.
LEMMA MaxNat ==
  ASSUME NEW n \in Nat, NEW T \in SUBSET (0..n), T # {}
  PROVE  Max(T) \in T /\ \A y \in T : y <= Max(T)
<1> DEFINE U == {n - x : x \in T}
<1>1. U \in SUBSET Nat /\ U # {}
  <2>1. \A x \in T : n - x \in Nat
    OBVIOUS
  <2> QED
    BY Zenon, <2>1
<1>2. PICK m \in U : \A y \in U : m <= y
  <2> HIDE DEF U
  <2> QED
    BY <1>1, LeastNat
<1>3. PICK x \in T : m = n - x
  BY <1>2
<1>4. \A y \in T : x >= y
  <2> SUFFICES ASSUME NEW y \in T PROVE x >= y
    OBVIOUS
  <2>1. n - y \in U
    OBVIOUS
  <2>2. m <= n - y
    BY <1>2, <2>1
  <2>3. x \in 0..n /\ y \in 0..n
    OBVIOUS
  <2> QED
    BY <1>3, <2>2, <2>3
<1> QED
  BY Zenon, <1>4 DEF Max

\* Induction up to n, over the elements of a set.
LEMMA SetInduction ==
  ASSUME NEW n \in Nat, NEW T, 0 \in T, \A i \in 1..n : i-1 \in T => i \in T
  PROVE  \A i \in 0..n : i \in T
<1> DEFINE B == {i \in 0..n : i \notin T}
<1> SUFFICES ASSUME B # {} PROVE FALSE
  OBVIOUS
<1>0. B \in SUBSET Nat
  OBVIOUS
<1>1. PICK m \in B : \A y \in B : m <= y
  <2> HIDE DEF B
  <2> QED BY <1>0, LeastNat
<1>2. m # 0 /\ m \in 1..n /\ m - 1 \in 0..n
  BY <1>1
<1>3. m - 1 \notin B
  BY <1>1, <1>2
<1> QED BY <1>2, <1>3, <1>1

\* it[i] is the state after i turns of F from s.
Iterates(it, S, F, s, n) ==
  /\ it \in [0..n -> S]
  /\ it[0] = s /\ \A i \in 1..n : it[i] = F[it[i - 1]]

\* An iteration of n turns over the states S exists and stays in S.
LEMMA IterExists ==
  ASSUME NEW S, NEW F \in [S -> S], NEW s \in S, NEW n \in Nat
  PROVE  \E it : Iterates(it, S, F, s, n)
<1> DEFINE P(m) == \E it : Iterates(it, S, F, s, m)
           T == {m \in Nat : P(m)}
<1>1. 0 \in T
  <2> DEFINE z == [i \in 0..0 |-> s]
  <2>1. z \in [0..0 -> S] /\ z[0] = s /\ \A i \in 1..0 : z[i] = F[z[i - 1]]
    OBVIOUS
  <2>2. P(0)
    <3> HIDE DEF z
    <3> QED
      BY <2>1 DEF Iterates
  <2> QED
    BY <2>2
<1>2. ASSUME NEW m \in 1..n, m - 1 \in T PROVE m \in T
  <2>1. P(m - 1)
    BY <1>2
  <2>2. PICK it \in [0..(m - 1) -> S] :
          it[0] = s /\ \A i \in 1..(m - 1) : it[i] = F[it[i - 1]]
    BY <2>1 DEF Iterates
  <2> DEFINE z == [i \in 0..m |-> IF i = m THEN F[it[m - 1]] ELSE it[i]]
  <2>3. z \in [0..m -> S] /\ z[0] = s
    BY <2>2
  <2>4. ASSUME NEW i \in 1..m PROVE z[i] = F[z[i - 1]]
    <3>1. CASE i = m
      BY <3>1
    <3>2. CASE i # m
      <4>1. i \in 1..(m - 1) /\ i \in 0..m /\ i - 1 \in 0..m /\ i - 1 # m
        BY <3>2
      <4>2. it[i] = F[it[i - 1]]
        BY <2>2, <4>1
      <4> QED
        BY <3>2, <4>1, <4>2
    <3> QED
      BY <3>1, <3>2
  <2>5. P(m)
    <3> HIDE DEF z
    <3> QED
      BY <2>3, <2>4 DEF Iterates
  <2> QED
    <3> HIDE DEF P
    <3> QED
      BY <2>5
<1>3. n \in T
  <2> HIDE DEF T
  <2>1. \A i \in 1..n : i - 1 \in T => i \in T
    BY <1>2
  <2>2. \A i \in 0..n : i \in T
    BY <1>1, <2>1, SetInduction
  <2> QED
    BY <2>2
<1>4. P(n)
  <2> HIDE DEF P
  <2> QED
    BY <1>3
<1> QED
  BY <1>4

\* Any iteration whose turns are those of F, as long as it is in S, stays there.
LEMMA IterStays ==
  ASSUME NEW S, NEW F \in [S -> S], NEW n \in Nat, NEW it,
         it[0] \in S,
         \A i \in 1..n : it[i - 1] \in S => it[i] = F[it[i - 1]]
  PROVE  \A i \in 0..n : it[i] \in S
<1> DEFINE T == {i \in 0..n : it[i] \in S}
<1>1. 0 \in T
  OBVIOUS
<1>2. \A i \in 1..n : i - 1 \in T => i \in T
  OBVIOUS
<1> HIDE DEF T
<1>3. \A i \in 0..n : i \in T
  BY <1>1, <1>2, SetInduction
<1> QED
  BY <1>3 DEF T

-----------------------------------------------------------------------------
(***************************************************************************)
(* Sequences.                                                              *)
(***************************************************************************)

\* A concatenation, element by element.
LEMMA Concatenation ==
  ASSUME NEW S, NEW s \in Seq(S), NEW t \in Seq(S)
  PROVE  /\ s \o t \in Seq(S) /\ Len(s \o t) = Len(s) + Len(t)
         /\ \A i \in 1..(Len(s) + Len(t)) :
              (s \o t)[i] = IF i <= Len(s) THEN s[i] ELSE t[i - Len(s)]
OBVIOUS

\* InsertAt, element by element.
LEMMA InsertAtProperties ==
  ASSUME NEW S, NEW s \in Seq(S), NEW i \in 1..(Len(s) + 1), NEW e \in S
  PROVE  /\ InsertAt(s, i, e) \in Seq(S)
         /\ Len(InsertAt(s, i, e)) = Len(s) + 1
         /\ \A j \in 1..(Len(s) + 1) :
              InsertAt(s, i, e)[j] = IF j < i THEN s[j]
                                     ELSE IF j = i THEN e ELSE s[j - 1]
<1> DEFINE a == SubSeq(s, 1, i - 1)
           b == SubSeq(s, i, Len(s))
<1>1. Len(s) \in Nat /\ i \in Nat
  OBVIOUS
<1>2. a \in Seq(S) /\ Len(a) = i - 1 /\ \A j \in 1..(i - 1) : a[j] = s[j]
  BY <1>1
<1>3. b \in Seq(S) /\ Len(b) = Len(s) + 1 - i
        /\ \A j \in 1..(Len(s) + 1 - i) : b[j] = s[i + j - 1]
  BY <1>1
<1> DEFINE c == a \o <<e>>
<1>4. c \in Seq(S) /\ Len(c) = i /\ \A j \in 1..i : c[j] = IF j < i THEN s[j] ELSE e
  <2> HIDE DEF a
  <2> QED
    BY <1>1, <1>2
<1>5. InsertAt(s, i, e) = c \o b
  BY DEF InsertAt
<1> HIDE DEF a, b, c
<1>6. c \o b \in Seq(S) /\ Len(c \o b) = Len(s) + 1
  <2>1. Len(c \o b) = Len(c) + Len(b) /\ c \o b \in Seq(S)
    BY Zenon, <1>3, <1>4, Concatenation
  <2> QED
    BY <1>1, <1>3, <1>4, <2>1
<1>7. ASSUME NEW j \in 1..(Len(s) + 1)
      PROVE  (c \o b)[j] = IF j < i THEN s[j] ELSE IF j = i THEN e ELSE s[j - 1]
  <2>1. CASE j <= i
    BY <1>1, <1>3, <1>4, <2>1
  <2>2. CASE j > i
    <3>1. j - i \in 1..(Len(s) + 1 - i) /\ j - Len(c) = j - i
      BY <1>1, <1>4, <2>2
    <3>2. (c \o b)[j] = b[j - i]
      BY <1>1, <1>3, <1>4, <2>2, <3>1
    <3>3. b[j - i] = s[i + (j - i) - 1] /\ i + (j - i) - 1 = j - 1
      <4>1. b[j - i] = s[i + (j - i) - 1]
        BY <1>3, <3>1
      <4> QED
        BY <1>1, <4>1
    <3> QED
      BY <1>1, <2>2, <3>2, <3>3
  <2>3. j <= i \/ j > i
    BY <1>1
  <2> QED
    BY Zenon, <2>1, <2>2, <2>3
<1> QED
  BY <1>5, <1>6, <1>7

\* RemoveAt, element by element.
LEMMA RemoveAtProperties ==
  ASSUME NEW S, NEW s \in Seq(S), NEW i \in 1..Len(s)
  PROVE  /\ RemoveAt(s, i) \in Seq(S)
         /\ Len(RemoveAt(s, i)) = Len(s) - 1
         /\ \A j \in 1..(Len(s) - 1) :
              RemoveAt(s, i)[j] = IF j < i THEN s[j] ELSE s[j + 1]
<1> DEFINE a == SubSeq(s, 1, i - 1)
           b == SubSeq(s, i + 1, Len(s))
<1>1. Len(s) \in Nat /\ i \in Nat
  OBVIOUS
<1>2. a \in Seq(S) /\ Len(a) = i - 1 /\ \A j \in 1..(i - 1) : a[j] = s[j]
  BY <1>1
<1>3. b \in Seq(S) /\ Len(b) = Len(s) - i
        /\ \A j \in 1..(Len(s) - i) : b[j] = s[i + j]
  BY <1>1
<1>4. RemoveAt(s, i) = a \o b
  BY DEF RemoveAt
<1> HIDE DEF a, b
<1>5. a \o b \in Seq(S) /\ Len(a \o b) = Len(s) - 1
  <2>1. a \o b \in Seq(S) /\ Len(a \o b) = Len(a) + Len(b)
    BY Zenon, <1>2, <1>3, Concatenation
  <2> QED
    BY <1>1, <1>2, <1>3, <2>1
<1>6. ASSUME NEW j \in 1..(Len(s) - 1)
      PROVE  (a \o b)[j] = IF j < i THEN s[j] ELSE s[j + 1]
  <2>1. CASE j < i
    BY <1>1, <1>2, <1>3, <2>1
  <2>2. CASE j >= i
    <3>1. /\ j - (i - 1) \in 1..(Len(s) - i)
          /\ i + (j - (i - 1)) = j + 1
      BY <1>1, <2>2
    <3>2. (a \o b)[j] = b[j - (i - 1)]
      BY <1>1, <1>2, <1>3, <2>2
    <3>3. b[j - (i - 1)] = s[i + (j - (i - 1))]
      BY <1>3, <3>1
    <3> QED
      BY <1>1, <2>2, <3>1, <3>2, <3>3
  <2>3. j < i \/ j >= i
    BY <1>1
  <2> QED
    BY Zenon, <2>1, <2>2, <2>3
<1> QED
  BY <1>4, <1>5, <1>6

-----------------------------------------------------------------------------
(***************************************************************************)
(* Queues.                                                                 *)
(***************************************************************************)

\* The first slot is a place of the queue, everything below it has a smaller
\* key, and the element at it, if there is one, has not.
LEMMA FirstStop ==
  ASSUME NEW S, NEW q \in Seq(S), NEW elem \in S, NEW key \in [S -> Int]
  PROVE  LET i == Min(Stops(elem, q, key))
         IN  /\ i \in 1..(Len(q) + 1)
             /\ \A j \in 1..(i - 1) : j \in 1..Len(q) /\ key[q[j]] < key[elem]
             /\ i <= Len(q) => key[elem] <= key[q[i]]
<1> DEFINE T == Stops(elem, q, key)
<1>1. Len(q) \in Nat
  OBVIOUS
<1>2. T \in SUBSET Nat /\ Len(q) + 1 \in T
  BY <1>1 DEF Stops
<1>3. Min(T) \in T /\ \A y \in T : Min(T) <= y
  <2> HIDE DEF T
  <2> QED
    BY <1>2, MinNat
<1> DEFINE i == Min(T)
<1>4. i \in 1..(Len(q) + 1)
  BY <1>3 DEF Stops
<1>5. ASSUME NEW j \in 1..(i - 1)
      PROVE  j \in 1..Len(q) /\ key[q[j]] < key[elem]
  <2>1. j \in 1..Len(q) /\ j < i
    BY <1>1, <1>4
  <2>2. j \notin T
    BY <1>1, <1>3, <1>4, <2>1
  <2> QED
    BY <2>1, <2>2 DEF Stops
<1>6. ASSUME i <= Len(q) PROVE key[elem] <= key[q[i]]
  <2>1. i \in 1..Len(q) /\ q[i] \in S
    BY <1>1, <1>4, <1>6
  <2>2. ~(key[q[i]] < key[elem])
    BY <1>3, <2>1 DEF Stops
  <2> QED
    BY <2>1, <2>2
<1> HIDE DEF T
<1> QED
  BY <1>4, <1>5, <1>6 DEF T

\* queue_add adds the element and nothing else; a queue without duplicates
\* stays without duplicates.
THEOREM QueueAdd ==
  ASSUME NEW S, NEW q \in Seq(S), NEW elem \in S, NEW key \in [S -> Int]
  PROVE  LET r == queue_add(elem, q, key)
         IN  /\ r \in Seq(S)
             /\ Range(r) = Range(q) \cup {elem}
             /\ IsInjective(q) /\ elem \notin Range(q) => IsInjective(r)
<1> DEFINE i == Min(Stops(elem, q, key))
           r == InsertAt(q, i, elem)
<1>1. Len(q) \in Nat /\ DOMAIN q = 1..Len(q)
  OBVIOUS
<1>2. i \in 1..(Len(q) + 1)
  BY FirstStop
<1> HIDE DEF i
<1>3. /\ r \in Seq(S) /\ Len(r) = Len(q) + 1
      /\ \A j \in 1..(Len(q) + 1) :
           r[j] = IF j < i THEN q[j] ELSE IF j = i THEN elem ELSE q[j - 1]
  BY <1>2, InsertAtProperties
<1> HIDE DEF r
<1>4. DOMAIN r = 1..(Len(q) + 1)
  BY <1>1, <1>3
<1>5. Range(r) = Range(q) \cup {elem}
  <2>1. ASSUME NEW j \in DOMAIN r PROVE r[j] \in Range(q) \cup {elem}
    <3>1. j < i \/ j = i \/ j - 1 \in DOMAIN q
      BY <1>1, <1>2, <1>4
    <3>2. CASE j < i
      BY <1>1, <1>2, <1>3, <1>4, <3>2 DEF Range
    <3>3. CASE j >= i
      <4>1. r[j] = IF j = i THEN elem ELSE q[j - 1]
        BY <1>2, <1>3, <1>4, <3>3
      <4> QED
        BY <1>1, <1>2, <1>4, <3>1, <3>3, <4>1 DEF Range
    <3> QED
      BY <1>2, <1>4, <3>2, <3>3
  <2>2. ASSUME NEW j \in DOMAIN q PROVE q[j] \in Range(r)
    <3>1. CASE j < i
      BY <1>1, <1>2, <1>3, <1>4, <3>1 DEF Range
    <3>2. CASE j >= i
      <4>1. j + 1 \in DOMAIN r /\ j + 1 > i /\ (j + 1) - 1 = j
        BY <1>1, <1>2, <1>4, <3>2
      <4>2. r[j + 1] = q[j]
        BY <1>2, <1>3, <1>4, <4>1
      <4> QED
        BY <4>1, <4>2 DEF Range
    <3> QED
      BY <1>1, <1>2, <3>1, <3>2
  <2>3. elem \in Range(r)
    BY <1>2, <1>3, <1>4 DEF Range
  <2> QED
    BY <2>1, <2>2, <2>3 DEF Range
<1>6. ASSUME IsInjective(q), elem \notin Range(q) PROVE IsInjective(r)
  <2>1. \A j \in DOMAIN q : q[j] # elem
    BY <1>6 DEF Range
  <2> DEFINE from(j) == IF j < i THEN j ELSE j - 1
  <2>2. \A j \in 1..(Len(q) + 1) : j # i => from(j) \in 1..Len(q) /\ r[j] = q[from(j)]
    <3> SUFFICES ASSUME NEW j \in 1..(Len(q) + 1), j # i
                 PROVE  from(j) \in 1..Len(q) /\ r[j] = q[from(j)]
      OBVIOUS
    <3>1. r[j] = IF j < i THEN q[j] ELSE q[j - 1]
      BY <1>3
    <3>2. CASE j < i
      BY <1>1, <1>2, <3>1, <3>2
    <3>3. CASE ~(j < i)
      BY <1>1, <1>2, <3>1, <3>3
    <3> QED
      BY <3>2, <3>3
  <2>3. \A a, b \in 1..(Len(q) + 1) :
          a # i /\ b # i /\ from(a) = from(b) => a = b
    BY <1>1, <1>2
  <2>4. r[i] = elem
    BY <1>2, <1>3
  <2> HIDE DEF from
  <2>5. ASSUME NEW a \in 1..(Len(q) + 1), NEW b \in 1..(Len(q) + 1), r[a] = r[b]
        PROVE  a = b
    <3>1. CASE a = i \/ b = i
      BY <1>1, <2>1, <2>2, <2>4, <2>5, <3>1
    <3>2. CASE a # i /\ b # i
      BY <1>1, <1>6, <2>2, <2>3, <2>5, <3>2 DEF IsInjective
    <3> QED
      BY <3>1, <3>2
  <2> QED
    BY <1>4, <2>5 DEF IsInjective
<1> QED
  BY <1>3, <1>5, <1>6 DEF queue_add, r, i

\* What queue_del leaves of a queue is a queue of the same elements.
LEMMA QueueDelType ==
  ASSUME NEW S, NEW q \in Seq(S), NEW elem
  PROVE  queue_del(elem, q) \in Seq(S)
<1>1. CASE ~\E j \in 1..Len(q) : q[j] = elem
  BY <1>1 DEF queue_del
<1>2. CASE \E j \in 1..Len(q) : q[j] = elem
  <2> DEFINE I == {j \in 1..Len(q) : q[j] = elem}
             i == Min(I)
  <2>1. I \in SUBSET Nat /\ I # {}
    BY <1>2
  <2>2. i \in I
    <3> HIDE DEF I
    <3> QED
      BY <2>1, MinNat
  <2>3. queue_del(elem, q) = RemoveAt(q, i)
    BY <1>2, <2>1 DEF queue_del, FirstWhere
  <2>4. i \in 1..Len(q)
    BY <2>2
  <2> HIDE DEF i
  <2> QED
    BY <2>3, <2>4, RemoveAtProperties
<1> QED
  BY <1>1, <1>2

\* queue_del removes the element wherever it is and leaves the others alone.
THEOREM QueueDel ==
  ASSUME NEW S, NEW q \in Seq(S), NEW elem, IsInjective(q)
  PROVE  LET r == queue_del(elem, q)
         IN  /\ r \in Seq(S)
             /\ Range(r) = Range(q) \ {elem}
             /\ IsInjective(r)
<1> DEFINE r == queue_del(elem, q)
<1>1. Len(q) \in Nat /\ DOMAIN q = 1..Len(q)
  OBVIOUS
<1>2. CASE ~\E j \in 1..Len(q) : q[j] = elem
  <2>1. r = q
    BY <1>2 DEF queue_del
  <2> QED
    BY <1>1, <1>2, <2>1 DEF Range
<1>3. CASE \E j \in 1..Len(q) : q[j] = elem
  <2> DEFINE I == {j \in 1..Len(q) : q[j] = elem}
             i == Min(I)
  <2>1. I \in SUBSET Nat /\ I # {}
    BY <1>1, <1>3
  <2>2. i \in I
    <3> HIDE DEF I
    <3> QED
      BY <2>1, MinNat
  <2>3. r = RemoveAt(q, i)
    BY <1>3, <2>1 DEF queue_del, FirstWhere
  <2>4. i \in 1..Len(q) /\ q[i] = elem
    BY <2>2
  <2> HIDE DEF i, I, r
  <2>5. /\ r \in Seq(S) /\ Len(r) = Len(q) - 1
        /\ \A j \in 1..(Len(q) - 1) : r[j] = IF j < i THEN q[j] ELSE q[j + 1]
    BY Zenon, <2>3, <2>4, RemoveAtProperties
  <2>6. DOMAIN r = 1..(Len(q) - 1)
    BY <1>1, <2>4, <2>5
  <2>7. ASSUME NEW j \in DOMAIN r PROVE r[j] \in Range(q) \ {elem}
    <3>1. j \in DOMAIN q /\ j + 1 \in DOMAIN q
      BY <1>1, <2>6
    <3>2. CASE j < i
      <4>1. r[j] = q[j] /\ j # i
        BY <1>1, <2>4, <2>5, <2>6, <3>2
      <4> QED
        BY <1>1, <2>4, <3>1, <4>1 DEF Range, IsInjective
    <3>3. CASE j >= i
      <4>1. r[j] = q[j + 1] /\ j + 1 # i
        BY <1>1, <2>4, <2>5, <2>6, <3>3
      <4> QED
        BY <1>1, <2>4, <3>1, <4>1 DEF Range, IsInjective
    <3>4. j < i \/ j >= i
      BY <1>1, <2>4, <2>6
    <3> QED
      BY <3>2, <3>3, <3>4
  <2>8. ASSUME NEW j \in DOMAIN q, q[j] # elem PROVE q[j] \in Range(r)
    <3>1. CASE j < i
      <4>1. j \in DOMAIN r /\ r[j] = q[j]
        BY <1>1, <2>4, <2>5, <2>6, <3>1
      <4> QED
        BY <4>1 DEF Range
    <3>2. CASE j > i
      <4>1. j - 1 \in 1..(Len(q) - 1) /\ ~(j - 1 < i) /\ (j - 1) + 1 = j
        BY <1>1, <2>4, <3>2
      <4>2. r[j - 1] = q[j]
        BY <2>5, <4>1
      <4> QED
        BY <2>6, <4>1, <4>2 DEF Range
    <3>3. j < i \/ j > i
      BY <1>1, <2>4, <2>8
    <3> QED
      BY <3>1, <3>2, <3>3
  <2>9. IsInjective(r)
    <3> DEFINE from(j) == IF j < i THEN j ELSE j + 1
    <3>1. \A j \in 1..(Len(q) - 1) : from(j) \in 1..Len(q) /\ r[j] = q[from(j)]
      BY <1>1, <2>4, <2>5
    <3>2. \A a, b \in 1..(Len(q) - 1) : from(a) = from(b) => a = b
      BY <1>1, <2>4
    <3> HIDE DEF from
    <3> QED
      BY <1>1, <2>6, <3>1, <3>2 DEF IsInjective
  <2> QED
    BY <2>5, <2>7, <2>8, <2>9 DEF Range, r
<1> QED
  BY <1>2, <1>3

\* x is nearer to the top of the queue than y.
Above(q, x, y) == \E i, j \in DOMAIN q : q[i] = y /\ q[j] = x /\ i < j

\* queue_del brings no element above another.
LEMMA QueueDelOrder ==
  ASSUME NEW S, NEW q \in Seq(S), NEW elem, NEW x, NEW y,
         Above(queue_del(elem, q), x, y)
  PROVE  Above(q, x, y)
<1> DEFINE r == queue_del(elem, q)
<1>1. Len(q) \in Nat /\ DOMAIN q = 1..Len(q)
  OBVIOUS
<1>2. CASE ~\E j \in 1..Len(q) : q[j] = elem
  BY <1>2 DEF queue_del
<1>3. CASE \E j \in 1..Len(q) : q[j] = elem
  <2> DEFINE I == {j \in 1..Len(q) : q[j] = elem}
             i == Min(I)
             from(j) == IF j < i THEN j ELSE j + 1
  <2>1. I \in SUBSET Nat /\ I # {}
    BY <1>1, <1>3
  <2>2. i \in I
    <3> HIDE DEF I
    <3> QED
      BY <2>1, MinNat
  <2>3. r = RemoveAt(q, i)
    BY <1>3, <2>1 DEF queue_del, FirstWhere
  <2>4. i \in 1..Len(q)
    BY <2>2
  <2>5. Above(r, x, y)
    OBVIOUS
  <2> HIDE DEF i, I, r
  <2>6. /\ r \in Seq(S) /\ Len(r) = Len(q) - 1
        /\ \A j \in 1..(Len(q) - 1) : r[j] = IF j < i THEN q[j] ELSE q[j + 1]
    BY Zenon, <2>3, <2>4, RemoveAtProperties
  <2>7. DOMAIN r = 1..(Len(q) - 1)
    BY <1>1, <2>4, <2>6
  <2>8. PICK a, b \in 1..(Len(q) - 1) : r[a] = y /\ r[b] = x /\ a < b
    BY <2>5, <2>7 DEF Above
  <2>9. /\ from(a) \in 1..Len(q) /\ from(b) \in 1..Len(q) /\ from(a) < from(b)
        /\ q[from(a)] = y /\ q[from(b)] = x
    BY <1>1, <2>4, <2>6, <2>8
  <2> HIDE DEF from
  <2> QED
    BY <1>1, <2>9 DEF Above
<1> QED
  BY <1>2, <1>3

\* A queue whose order comes from a sorted one is sorted.
LEMMA SortedBelow ==
  ASSUME NEW q, NEW r, NEW key, SortedBy(q, key),
         \A i, j \in DOMAIN r : i < j => Above(q, r[j], r[i])
  PROVE  SortedBy(r, key)
BY DEF SortedBy, Above

\* queue_del keeps a queue sorted.
LEMMA QueueDelSorted ==
  ASSUME NEW S, NEW q \in Seq(S), NEW elem, NEW key, SortedBy(q, key)
  PROVE  SortedBy(queue_del(elem, q), key)
<1> DEFINE r == queue_del(elem, q)
<1>1. ASSUME NEW i \in DOMAIN r, NEW j \in DOMAIN r, i < j
      PROVE  Above(q, r[j], r[i])
  <2>1. Above(r, r[j], r[i])
    BY <1>1 DEF Above
  <2> QED
    BY <2>1, QueueDelOrder
<1> HIDE DEF r
<1>2. SortedBy(r, key)
  BY <1>1, SortedBelow
<1> QED
  BY <1>2 DEF r

\* A queue sorted by its key stays sorted, and the new element goes below every
\* element whose key is not smaller: equal keys leave by the top in the order
\* in which they came.
THEOREM QueueAddSorted ==
  ASSUME NEW S, NEW q \in Seq(S), NEW elem \in S, NEW key \in [S -> Int]
  PROVE  SortedBy(q, key) =>
         LET r == queue_add(elem, q, key)
         IN  /\ SortedBy(r, key)
             /\ \E i \in DOMAIN r :
                  /\ r[i] = elem
                  /\ \A j \in DOMAIN r : j > i => key[r[j]] >= key[elem]
                  /\ \A j \in DOMAIN r : j < i => key[r[j]] < key[elem]
<1> DEFINE i == Min(Stops(elem, q, key))
           r == InsertAt(q, i, elem)
<1>1. Len(q) \in Nat /\ DOMAIN q = 1..Len(q) /\ \A j \in 1..Len(q) : q[j] \in S
  OBVIOUS
<1>2. /\ i \in 1..(Len(q) + 1)
      /\ \A j \in 1..Len(q) : j < i => key[q[j]] < key[elem]
      /\ i \in 1..Len(q) => ~(key[q[i]] < key[elem])
  <2>1. /\ i \in 1..(Len(q) + 1)
        /\ \A j \in 1..(i - 1) : j \in 1..Len(q) /\ key[q[j]] < key[elem]
        /\ i <= Len(q) => key[elem] <= key[q[i]]
    BY FirstStop
  <2> HIDE DEF i
  <2>2. \A j \in 1..Len(q) : j < i => j \in 1..(i - 1)
    BY <1>1, <2>1
  <2>3. ASSUME i \in 1..Len(q) PROVE ~(key[q[i]] < key[elem])
    <3>1. key[q[i]] \in Int /\ key[elem] \in Int
      BY <1>1, <2>3
    <3> QED
      BY <1>1, <2>1, <2>3, <3>1
  <2> QED
    BY <2>1, <2>2, <2>3
<1> HIDE DEF i
<1>3. /\ r \in Seq(S) /\ Len(r) = Len(q) + 1
      /\ \A j \in 1..(Len(q) + 1) :
           r[j] = IF j < i THEN q[j] ELSE IF j = i THEN elem ELSE q[j - 1]
  <2>1. i \in 1..(Len(q) + 1)
    BY <1>2
  <2> QED
    BY <2>1, InsertAtProperties
<1> HIDE DEF r
<1>4. DOMAIN r = 1..(Len(q) + 1)
  BY <1>1, <1>3
<1>5. \A x \in S : key[x] \in Int
  OBVIOUS
<1> SUFFICES ASSUME SortedBy(q, key)
             PROVE  LET x == queue_add(elem, q, key)
                    IN  /\ SortedBy(x, key)
                        /\ \E n \in DOMAIN x :
                             /\ x[n] = elem
                             /\ \A j \in DOMAIN x : j > n => key[x[j]] >= key[elem]
                             /\ \A j \in DOMAIN x : j < n => key[x[j]] < key[elem]
  OBVIOUS
<1>6. ASSUME NEW a \in 1..Len(q), NEW b \in 1..Len(q), a <= b
      PROVE  key[q[a]] <= key[q[b]]
  <2>1. CASE a < b
    BY <1>1, <2>1 DEF SortedBy
  <2>2. CASE a = b
    BY <1>1, <1>5, <2>2
  <2> QED
    BY <1>6, <2>1, <2>2
<1>7. ASSUME NEW j \in 1..(Len(q) + 1), j > i
      PROVE  j - 1 \in 1..Len(q) /\ r[j] = q[j - 1] /\ key[q[j - 1]] >= key[elem]
  <2>1. j - 1 \in 1..Len(q) /\ i \in 1..Len(q) /\ i <= j - 1 /\ ~(j < i) /\ j # i
    BY <1>1, <1>2, <1>7
  <2>2. r[j] = q[j - 1]
    BY <1>3, <2>1
  <2>3. key[q[i]] <= key[q[j - 1]] /\ ~(key[q[i]] < key[elem])
    BY <1>2, <1>6, <2>1
  <2>4. key[q[i]] \in Int /\ key[q[j - 1]] \in Int /\ key[elem] \in Int
    BY <1>1, <1>5, <2>1
  <2> QED
    BY <2>1, <2>2, <2>3, <2>4
<1>8. ASSUME NEW j \in 1..(Len(q) + 1), j < i
      PROVE  j \in 1..Len(q) /\ r[j] = q[j] /\ key[q[j]] < key[elem]
  BY <1>1, <1>2, <1>3, <1>8
<1>9. r[i] = elem
  BY <1>2, <1>3
<1>10. ASSUME NEW a \in 1..(Len(q) + 1), NEW b \in 1..(Len(q) + 1), a < b
       PROVE  key[r[a]] <= key[r[b]]
  <2>1. CASE b < i
    <3>1. a < i
      BY <1>2, <1>10, <2>1
    <3>2. r[a] = q[a] /\ r[b] = q[b] /\ a \in 1..Len(q) /\ b \in 1..Len(q)
      BY <1>8, <2>1, <3>1
    <3> QED
      BY <1>6, <1>10, <3>2
  <2>2. CASE b = i
    <3>1. a \in 1..Len(q) /\ r[a] = q[a] /\ key[q[a]] < key[elem]
      BY <1>8, <1>10, <2>2
    <3> QED
      BY <1>1, <1>5, <1>9, <2>2, <3>1
  <2>3. CASE b > i /\ a < i
    <3>1. a \in 1..Len(q) /\ r[a] = q[a] /\ key[q[a]] < key[elem]
      BY <1>8, <2>3
    <3>2. b - 1 \in 1..Len(q) /\ r[b] = q[b - 1] /\ key[q[b - 1]] >= key[elem]
      BY <1>7, <2>3
    <3>3. key[q[a]] \in Int /\ key[q[b - 1]] \in Int /\ key[elem] \in Int
      BY <1>1, <1>5, <3>1, <3>2
    <3> QED
      BY <3>1, <3>2, <3>3
  <2>4. CASE b > i /\ a = i
    <3>1. b - 1 \in 1..Len(q) /\ r[b] = q[b - 1] /\ key[q[b - 1]] >= key[elem]
      BY <1>7, <2>4
    <3>2. key[q[b - 1]] \in Int /\ key[elem] \in Int
      BY <1>1, <1>5, <3>1
    <3> QED
      BY <1>9, <2>4, <3>1, <3>2
  <2>5. CASE b > i /\ a > i
    <3>1. b - 1 \in 1..Len(q) /\ r[b] = q[b - 1]
      BY <1>7, <2>5
    <3>2. a - 1 \in 1..Len(q) /\ r[a] = q[a - 1]
      BY <1>7, <2>5
    <3>3. a - 1 <= b - 1
      BY <1>10
    <3> QED
      BY <1>6, <3>1, <3>2, <3>3
  <2> QED
    BY <1>2, <2>1, <2>2, <2>3, <2>4, <2>5
<1>11. SortedBy(r, key)
  BY <1>4, <1>10 DEF SortedBy
<1>12. /\ \A j \in DOMAIN r : j > i => key[r[j]] >= key[elem]
       /\ \A j \in DOMAIN r : j < i => key[r[j]] < key[elem]
  BY <1>4, <1>7, <1>8
<1>13. queue_add(elem, q, key) = r
  BY DEF queue_add, r, i
<1> QED
  BY <1>2, <1>4, <1>9, <1>11, <1>12, <1>13

\* queue_out takes the top away, queue_out_bot the bottom, and nothing else.
THEOREM QueueOut ==
  ASSUME NEW S, NEW q \in Seq(S), ~queue_empty(q)
  PROVE  /\ queue_top(q) \in Range(q) /\ queue_top(q) \in S
         /\ queue_out(q) \in Seq(S) /\ Len(queue_out(q)) = Len(q) - 1
         /\ Range(queue_out(q)) \subseteq Range(q)
         /\ IsInjective(q) => /\ IsInjective(queue_out(q))
                              /\ Range(queue_out(q)) = Range(q) \ {queue_top(q)}
<1> DEFINE n == Len(q)
           r == queue_out(q)
<1>1. n \in Nat /\ n >= 1 /\ DOMAIN q = 1..n
  BY DEF queue_empty
<1>2. r \in Seq(S) /\ Len(r) = n - 1 /\ \A j \in 1..(n - 1) : r[j] = q[j]
  BY <1>1 DEF queue_out
<1>3. DOMAIN r = 1..(n - 1)
  BY <1>1, <1>2
<1> HIDE DEF r
<1>4. Range(r) \subseteq Range(q)
  BY <1>1, <1>2, <1>3 DEF Range
<1>5. q[n] \in Range(q) /\ q[n] \in S
  BY <1>1 DEF Range
<1>6. ASSUME IsInjective(q) PROVE IsInjective(r) /\ Range(r) = Range(q) \ {q[n]}
  <2>1. IsInjective(r)
    BY <1>1, <1>2, <1>3, <1>6 DEF IsInjective
  <2>2. \A j \in 1..(n - 1) : q[j] # q[n]
    BY <1>1, <1>6 DEF IsInjective
  <2>3. \A j \in 1..n : j # n => j \in 1..(n - 1)
    <3> HIDE DEF n
    <3> QED
      BY <1>1
  <2> QED
    BY Zenon, <1>1, <1>2, <1>3, <1>4, <2>1, <2>2, <2>3 DEF Range
<1> QED
  BY <1>2, <1>4, <1>5, <1>6 DEF queue_top, r

\* queue_out_bot takes the bottom of a queue and nothing else.
THEOREM QueueOutBot ==
  ASSUME NEW S, NEW q \in Seq(S), ~queue_empty(q), IsInjective(q)
  PROVE  /\ queue_bottom(q) \in Range(q) /\ queue_bottom(q) \in S
         /\ queue_out_bot(q) \in Seq(S)
         /\ IsInjective(queue_out_bot(q))
         /\ Range(queue_out_bot(q)) = Range(q) \ {queue_bottom(q)}
<1> DEFINE n == Len(q)
           r == queue_out_bot(q)
<1>1. n \in Nat /\ n >= 1 /\ DOMAIN q = 1..n
  BY DEF queue_empty
<1>2. r \in Seq(S) /\ Len(r) = n - 1 /\ \A j \in 1..(n - 1) : r[j] = q[j + 1]
  BY <1>1 DEF queue_out_bot
<1>3. DOMAIN r = 1..(n - 1)
  BY <1>1, <1>2
<1> HIDE DEF r
<1>4. q[1] \in Range(q) /\ q[1] \in S
  BY <1>1 DEF Range
<1>5. \A j \in 1..(n - 1) : j + 1 \in 1..n /\ j + 1 # 1
  BY <1>1
<1>6. \A j \in 1..n : j # 1 => j - 1 \in 1..(n - 1) /\ (j - 1) + 1 = j
  BY <1>1
<1>7. IsInjective(r)
  <2>1. ASSUME NEW a \in 1..(n - 1), NEW b \in 1..(n - 1), r[a] = r[b]
        PROVE  a = b
    <3>1. q[a + 1] = q[b + 1] /\ a + 1 \in 1..n /\ b + 1 \in 1..n
      BY <1>2, <1>5, <2>1
    <3>2. a + 1 = b + 1
      BY <1>1, <3>1 DEF IsInjective
    <3> QED
      BY <1>1, <3>2
  <2> QED
    BY <1>3, <2>1 DEF IsInjective
<1>8. ASSUME NEW j \in DOMAIN r PROVE r[j] \in Range(q) \ {q[1]}
  BY <1>1, <1>2, <1>3, <1>5 DEF IsInjective, Range
<1>9. ASSUME NEW j \in DOMAIN q, q[j] # q[1] PROVE q[j] \in Range(r)
  <2>1. j - 1 \in 1..(n - 1) /\ (j - 1) + 1 = j
    BY <1>1, <1>6, <1>9
  <2>2. r[j - 1] = q[j]
    BY <1>2, <2>1
  <2> QED
    BY <1>3, <2>1, <2>2 DEF Range
<1> QED
  BY <1>2, <1>4, <1>7, <1>8, <1>9 DEF Range, queue_bottom, r

-----------------------------------------------------------------------------
(***************************************************************************)
(* What the functions of module ProcessTable do to the placement.          *)
(***************************************************************************)

\* R is the set of the processes that run (in no queue, actionable), X the set
\* of those between two queues; all others are where their state says.
Proper(m, R, X) ==
  /\ Placed(m, R \cup X)
  /\ R \cap X = {}
  /\ \A p \in R : m.state[p] = "actionable"
  /\ 0 \in X \/ m.state[0] = "actionable"

\* The memories with current process c and garbage list g that have stopped
\* on a fault or are proper.
Held(c, g, R, X) ==
  {m \in Memory : /\ m.cur_pid = c /\ m.garbage_collection_list = g
                  /\ m.fault \/ Proper(m, R, X)}

\* Pid 0, idle, exists.
LEMMA ZeroPid == 0 \in Pid
BY SizeAssumption DEF Pid

\* Membership in Held, as a conjunction.
LEMMA HeldDef ==
  ASSUME NEW c, NEW g, NEW R, NEW X, NEW m
  PROVE  m \in Held(c, g, R, X) <=>
           /\ m \in Memory /\ m.cur_pid = c /\ m.garbage_collection_list = g
           /\ m.fault \/ Proper(m, R, X)
BY DEF Held

\* Outside of a transfer between two queues, idle is actionable.
LEMMA ZeroActionable ==
  ASSUME NEW c, NEW g, NEW R, NEW m \in Held(c, g, R, {})
  PROVE  ~m.fault => m.state[0] = "actionable"
<1>1. ~m.fault => Proper(m, R, {})
  BY DEF Held
<1> QED
  BY <1>1 DEF Proper

\* A failed assertion leaves the memory held, whatever R and X are.
LEMMA Panic ==
  ASSUME NEW c, NEW g, NEW R, NEW X, NEW R2, NEW X2, NEW m \in Held(c, g, R, X)
  PROVE  panic(m) \in Held(c, g, R2, X2) /\ panic(m).fault
BY Zenon DEF Held, panic, Memory

\* queue_add together with the assignment of the field state puts a process
\* that was between two queues where its state says; idle only ever becomes
\* actionable.
LEMMA Place ==
  ASSUME NEW c, NEW g, NEW R \in SUBSET Pid, NEW p \in Pid, NEW s \in list_type,
         NEW key \in [Pid -> Int], NEW m \in Held(c, g, R, {p}),
         p = 0 /\ ~m.fault => s = "actionable"
  PROVE  place(m, p, s, key) \in Held(c, g, R, {})
<1>1. CASE chained(m, p)
  BY <1>1, Panic DEF place
<1>2. CASE ~chained(m, p)
  <2> DEFINE q == queue_add(p, m.queue_table[s], key)
             r == [m EXCEPT !.queue_table[s] = q, !.state[p] = s]
  <2>1. place(m, p, s, key) = r
    BY <1>2 DEF place
  <2>2. /\ m \in Memory /\ m.queue_table \in [list_type -> Seq(Pid)]
        /\ m.state \in [Pid -> list_type]
    BY DEF Held, Memory
  <2>3. /\ q \in Seq(Pid)
        /\ Range(q) = Range(m.queue_table[s]) \cup {p}
        /\ IsInjective(m.queue_table[s]) => IsInjective(q)
    <3>1. m.queue_table[s] \in Seq(Pid) /\ p \notin Range(m.queue_table[s])
      BY <1>2, <2>2 DEF chained
    <3> QED
      BY <3>1, QueueAdd
  <2> HIDE DEF q
  <2>4. /\ r \in Memory /\ r.cur_pid = m.cur_pid /\ r.fault = m.fault
        /\ r.garbage_collection_list = m.garbage_collection_list
        /\ r.queue_table = [m.queue_table EXCEPT ![s] = q]
        /\ r.state = [m.state EXCEPT ![p] = s]
    BY Zenon, <2>2, <2>3 DEF Memory
  <2> HIDE DEF r
  <2>5. ASSUME Proper(m, R, {p}), ~m.fault PROVE Proper(r, R, {})
    <3>1. /\ Placed(m, R \cup {p}) /\ p \notin R
          /\ \A x \in R : m.state[x] = "actionable"
          /\ p = 0 \/ m.state[0] = "actionable"
      BY <2>5 DEF Proper
    <3>2. /\ \A t \in list_type : IsInjective(r.queue_table[t])
          /\ \A t \in list_type : \A x \in Range(r.queue_table[t]) :
               r.state[x] = t /\ x \notin R
          /\ \A x \in Pid \ R : r.state[x] # "freepid" =>
               x \in Range(r.queue_table[r.state[x]])
      <4>1. ASSUME NEW t \in list_type PROVE IsInjective(r.queue_table[t])
        BY <2>2, <2>3, <2>4, <3>1 DEF Placed
      <4>2. ASSUME NEW t \in list_type, NEW x \in Range(r.queue_table[t])
            PROVE  r.state[x] = t /\ x \notin R
        BY <1>2, <2>2, <2>3, <2>4, <3>1 DEF Placed, chained
      <4>3. ASSUME NEW x \in Pid \ R, r.state[x] # "freepid"
            PROVE  x \in Range(r.queue_table[r.state[x]])
        BY <2>2, <2>3, <2>4, <3>1, <4>3 DEF Placed
      <4> QED
        BY <4>1, <4>2, <4>3
    <3>3. Placed(r, R \cup {})
      BY <3>2 DEF Placed
    <3> QED
      BY <2>2, <2>4, <2>5, <3>1, <3>3, ZeroPid DEF Proper
  <2> QED
    BY <2>1, <2>4, <2>5, HeldDef
<1> QED
  BY <1>1, <1>2

\* queue_del of a process takes it out of its queue; its state is not changed.
LEMMA Unchain ==
  ASSUME NEW c, NEW g, NEW R \in SUBSET Pid, NEW p \in Pid,
         NEW m \in Held(c, g, R, {})
  PROVE  /\ unchain(m, p) \in Held(c, g, R, {p})
         /\ unchain(m, p).state = m.state
         /\ unchain(m, p).prio = m.prio
         /\ m.fault => unchain(m, p).fault
<1>1. CASE ~chained(m, p)
  <2>1. unchain(m, p) = panic(m)
    BY <1>1 DEF unchain
  <2>2. panic(m).state = m.state /\ panic(m).prio = m.prio
    BY DEF panic, Memory, Held
  <2> QED
    BY <2>1, <2>2, Panic
<1>2. CASE chained(m, p)
  <2> DEFINE q == [s \in list_type |-> queue_del(p, m.queue_table[s])]
             r == [m EXCEPT !.queue_table = q]
  <2>1. unchain(m, p) = r
    BY <1>2 DEF unchain
  <2>2. /\ m \in Memory /\ m.queue_table \in [list_type -> Seq(Pid)]
        /\ m.state \in [Pid -> list_type] /\ m.fault \in BOOLEAN
        /\ m.cur_pid = c /\ m.garbage_collection_list = g
    BY DEF Memory, Held
  <2>3. CASE m.fault
    <3>1. \A s \in list_type : queue_del(p, m.queue_table[s]) \in Seq(Pid)
      BY <2>2, QueueDelType
    <3>2. q \in [list_type -> Seq(Pid)]
      BY <3>1
    <3> HIDE DEF q
    <3>3. /\ r \in Memory /\ r.cur_pid = m.cur_pid /\ r.fault = m.fault
          /\ r.garbage_collection_list = m.garbage_collection_list
          /\ r.state = m.state /\ r.prio = m.prio
      BY Zenon, <2>2, <3>2 DEF Memory
    <3> HIDE DEF r
    <3> QED
      BY Zenon, <2>1, <2>2, <2>3, <3>3, HeldDef
  <2>4. CASE ~m.fault
    <3>0. Proper(m, R, {})
      BY <2>4, HeldDef
    <3>1. /\ Placed(m, R)
          /\ \A x \in R : m.state[x] = "actionable"
          /\ m.state[0] = "actionable"
      BY <3>0 DEF Proper, Placed
    <3>2. \A s \in list_type :
            /\ q[s] \in Seq(Pid) /\ IsInjective(q[s])
            /\ Range(q[s]) = Range(m.queue_table[s]) \ {p}
      <4> SUFFICES ASSUME NEW s \in list_type
                   PROVE  /\ q[s] \in Seq(Pid) /\ IsInjective(q[s])
                          /\ Range(q[s]) = Range(m.queue_table[s]) \ {p}
        OBVIOUS
      <4>1. m.queue_table[s] \in Seq(Pid) /\ IsInjective(m.queue_table[s])
        BY <2>2, <3>1 DEF Placed
      <4>2. q[s] = queue_del(p, m.queue_table[s])
        OBVIOUS
      <4> QED
        BY <4>1, <4>2, QueueDel
    <3>3. q \in [list_type -> Seq(Pid)]
      BY <3>2
    <3> HIDE DEF q
    <3>4. /\ r \in Memory /\ r.cur_pid = m.cur_pid /\ r.fault = m.fault
          /\ r.garbage_collection_list = m.garbage_collection_list
          /\ r.queue_table = q /\ r.state = m.state /\ r.prio = m.prio
      BY Zenon, <2>2, <3>3 DEF Memory
    <3> HIDE DEF r
    <3>5. p \notin R
      BY <1>2, <3>1 DEF chained, Placed
    <3>6. Placed(r, R \cup {p})
      <4>1. ASSUME NEW x \in Pid \ (R \cup {p}), r.state[x] # "freepid"
            PROVE  x \in Range(r.queue_table[r.state[x]])
        <5>1. m.state[x] \in list_type /\ m.state[x] # "freepid"
          BY <2>2, <3>4, <4>1
        <5>2. x \in Range(m.queue_table[m.state[x]]) /\ x # p
          BY <3>1, <5>1 DEF Placed
        <5>3. Range(q[m.state[x]]) = Range(m.queue_table[m.state[x]]) \ {p}
          BY <3>2, <5>1
        <5> QED
          BY <3>4, <5>2, <5>3
      <4>2. ASSUME NEW t \in list_type, NEW x \in Range(r.queue_table[t])
            PROVE  r.state[x] = t /\ x \notin R \cup {p}
        <5>1. x \in Range(m.queue_table[t]) /\ x # p
          <6>1. Range(q[t]) = Range(m.queue_table[t]) \ {p}
            BY <3>2
          <6> QED
            BY <3>4, <6>1
        <5>2. m.state[x] = t /\ x \notin R
          BY <3>1, <5>1 DEF Placed
        <5> QED
          BY <3>4, <5>1, <5>2
      <4> QED
        BY <3>2, <3>4, <4>1, <4>2 DEF Placed
    <3>7. Proper(r, R, {p})
      BY <3>1, <3>4, <3>5, <3>6 DEF Proper
    <3> QED
      BY <2>1, <2>2, <2>4, <3>4, <3>7, HeldDef
  <2> QED
    BY <2>2, <2>3, <2>4
<1> QED
  BY <1>1, <1>2

-----------------------------------------------------------------------------
(***************************************************************************)
(* Frame facts.                                                            *)
(***************************************************************************)

\* The types of the fields, for a memory of Held.
LEMMA HeldBasic ==
  ASSUME NEW c, NEW g, NEW R, NEW X, NEW m \in Held(c, g, R, X)
  PROVE  /\ m.cur_pid = c /\ m.garbage_collection_list = g
         /\ c \in 0..NB_PROCESS /\ g \in Seq(Pid) /\ m.fault \in BOOLEAN
         /\ m.clock_ticks \in 0..(CLOCK_MOD - 1)
BY DEF Held, Memory

\* Types of the queues and of the states.
LEMMA HeldQueues ==
  ASSUME NEW c, NEW g, NEW R, NEW X, NEW m \in Held(c, g, R, X)
  PROVE  /\ m.queue_table \in [list_type -> Seq(Pid)]
         /\ m.state \in [Pid -> list_type]
BY DEF Held, Memory

\* Types of the fields of struct process that the scheduler and the filiation
\* read.
LEMMA HeldTable ==
  ASSUME NEW c, NEW g, NEW R, NEW X, NEW m \in Held(c, g, R, X)
  PROVE  /\ m.prio \in [Pid -> 0..MAXPRIO]
         /\ m.alarm_time \in [Pid -> Int]
         /\ m.father \in [Pid -> Pid]
         /\ m.child_waited \in [Pid -> Pid \cup {-1}]
BY DEF Held, Memory

\* Types of the semaphore fields.
LEMMA HeldSems ==
  ASSUME NEW c, NEW g, NEW R, NEW X, NEW m \in Held(c, g, R, X)
  PROVE  /\ m.sem_blocked \in [Pid -> Sem \cup {-1}]
         /\ m.value \in [Sem -> SHRT_MIN..SHRT_MAX]
         /\ m.sem_used \in SUBSET Sem
BY DEF Held, Memory

\* Types of the links of the lists of children.
LEMMA HeldLinks ==
  ASSUME NEW c, NEW g, NEW R, NEW X, NEW m \in Held(c, g, R, X)
  PROVE  /\ m.links.next \in [Node -> Node \cup {NULL}]
         /\ m.links.prev \in [Node -> Node \cup {NULL}]
BY DEF Held, Memory

\* prio and pid may be the key of a queue.
LEMMA HeldKeys ==
  ASSUME NEW c, NEW g, NEW R, NEW X, NEW m \in Held(c, g, R, X)
  PROVE  m.prio \in [Pid -> Int] /\ pid_key \in [Pid -> Int]
<1>1. m.prio \in [Pid -> 0..MAXPRIO]
  BY HeldTable
<1> QED
  BY <1>1, SizeAssumption DEF pid_key, Pid

\* A change of fields other than state and the queues changes no placement.
LEMMA Unmoved ==
  ASSUME NEW c, NEW g, NEW R, NEW X, NEW m \in Held(c, g, R, X),
         NEW r \in Memory,
         r.cur_pid = m.cur_pid,
         r.garbage_collection_list = m.garbage_collection_list,
         r.queue_table = m.queue_table, r.state = m.state,
         m.fault => r.fault
  PROVE  r \in Held(c, g, R, X)
<1>1. Proper(m, R, X) => Proper(r, R, X)
  BY DEF Proper, Placed
<1> QED
  BY <1>1, HeldDef

\* queue_del(find_pid(...)) either fails or finds the process in the queue it
\* names, and then that queue is the one of its state.
LEMMA UnchainFrom ==
  ASSUME NEW c, NEW g, NEW R \in SUBSET Pid, NEW p \in Pid, NEW s \in list_type,
         NEW m \in Held(c, g, R, {})
  PROVE  /\ unchain_from(m, p, s) \in Held(c, g, R, {p})
         /\ ~unchain_from(m, p, s).fault => ~m.fault /\ m.state[p] = s
         /\ unchain_from(m, p, s).prio = m.prio
         /\ unchain_from(m, p, s).state = m.state
<1>1. CASE p \in Range(m.queue_table[s])
  <2>1. unchain_from(m, p, s) = unchain(m, p)
    BY <1>1 DEF unchain_from
  <2>2. ~m.fault => m.state[p] = s
    BY <1>1, HeldDef DEF Proper, Placed
  <2> QED
    BY <2>1, <2>2, Unchain
<1>2. CASE p \notin Range(m.queue_table[s])
  <2>1. unchain_from(m, p, s) = panic(m)
    BY <1>2 DEF unchain_from
  <2>2. panic(m).state = m.state /\ panic(m).prio = m.prio
    BY DEF panic, Memory, Held
  <2> QED
    BY <2>1, <2>2, Panic
<1> QED
  BY <1>1, <1>2

\* free_pid puts a process that is in no queue in the queue of free pids.
LEMMA FreePid ==
  ASSUME NEW c, NEW g, NEW R \in SUBSET Pid, NEW p \in Pid,
         NEW m \in Held(c, g, R, {p}), p = 0 => m.fault
  PROVE  free_pid(m, p) \in Held(c, g, R, {})
<1> DEFINE a == [m EXCEPT !.awakener[p] = -1, !.sem_blocked[p] = -1]
<1>1. /\ a \in Memory /\ a.cur_pid = m.cur_pid /\ a.fault = m.fault
      /\ a.garbage_collection_list = m.garbage_collection_list
      /\ a.queue_table = m.queue_table /\ a.state = m.state
  BY Zenon DEF Held, Memory
<1> HIDE DEF a
<1>2. a \in Held(c, g, R, {p}) /\ (p = 0 => a.fault)
  BY <1>1, Unmoved
<1>3. place(a, p, "freepid", pid_key) \in Held(c, g, R, {})
  <2>1. "freepid" \in list_type
    BY DEF list_type
  <2> QED
    BY <1>2, <2>1, HeldKeys, Place
<1> QED
  BY <1>3 DEF free_pid, a

-----------------------------------------------------------------------------
(***************************************************************************)
(* Filiation.                                                              *)
(***************************************************************************)

\* Whatever the links are, a walk over a list of children meets processes.
LEMMA WalkMet ==
  ASSUME NEW dir, NEW head
  PROVE  Walk(dir, head, Pid).met \in Seq(Pid)
<1> DEFINE n == Max(Pid) + 2
           at == Reached(dir, head, n)
           I == {i \in 1..n : at[i] \notin Pid \/ i = n}
           stop == Min(I)
<1>1. n \in Nat /\ n >= 1
  <2>1. NB_PROCESS \in Nat /\ Pid \in SUBSET (0..NB_PROCESS) /\ Pid # {}
    <3>1. \A x \in Pid : x \in 0..NB_PROCESS
      BY SizeAssumption DEF Pid
    <3>2. NB_PROCESS \in Nat /\ 0 \in Pid
      BY SizeAssumption, ZeroPid
    <3> QED
      BY Zenon, <3>1, <3>2
  <2>2. Max(Pid) \in 0..NB_PROCESS
    <3> HIDE DEF Pid
    <3>1. Max(Pid) \in Pid
      BY Zenon, <2>1, MaxNat
    <3> QED
      BY Zenon, <2>1, <3>1
  <2> DEFINE x == Max(Pid)
  <2>3. x \in 0..NB_PROCESS
    BY <2>2
  <2> HIDE DEF x
  <2>4. x + 2 \in Nat /\ x + 2 >= 1
    BY <2>1, <2>3
  <2> QED
    BY <2>4 DEF x
<1> HIDE DEF n, at
<1>2. I \in SUBSET Nat /\ I # {}
  BY <1>1
<1>3. stop \in I /\ \A y \in I : stop <= y
  <2> HIDE DEF I
  <2> QED
    BY <1>2, MinNat
<1>4. stop \in 1..n
  BY <1>3
<1>5. \A i \in 1..(stop - 1) : at[i] \in Pid
  <2> SUFFICES ASSUME NEW i \in 1..(stop - 1), at[i] \notin Pid PROVE FALSE
    OBVIOUS
  <2>1. i \in 1..n /\ ~(stop <= i)
    <3> HIDE DEF stop
    <3> QED
      BY <1>1, <1>4
  <2> QED
    BY <1>3, <2>1
<1>6. Walk(dir, head, Pid).met = [i \in 1..(stop - 1) |-> at[i]]
  BY DEF Walk, n, at
<1> HIDE DEF stop
<1>7. stop - 1 \in Nat
  BY <1>1, <1>4
<1> QED
  BY <1>5, <1>6, <1>7

\* The links of the lists of children have distinct names.
LEMMA NodeType ==
  /\ Pid \subseteq Node /\ NULL \notin Node
  /\ \A f \in Pid : children(f) \in Node
BY SizeAssumption DEF Pid, Node, children, NULL

\* queue_del on children_chaining does not touch the state queues.
LEMMA DelChild ==
  ASSUME NEW c, NEW g, NEW R, NEW X, NEW p \in Pid, NEW m \in Held(c, g, R, X)
  PROVE  /\ del_child(m, p) \in Held(c, g, R, X)
         /\ del_child(m, p).state = m.state
         /\ m.fault => del_child(m, p).fault
<1>1. CASE ~link_del_ok(m.links, p)
  <2>1. del_child(m, p) = panic(m)
    BY <1>1 DEF del_child
  <2>2. panic(m).state = m.state
    BY DEF panic, Memory, Held
  <2> QED
    BY <2>1, <2>2, Panic
<1>2. CASE link_del_ok(m.links, p)
  <2> DEFINE h == m.links
             l == link_del(h, p)
             r == [m EXCEPT !.links = l]
  <2>1. del_child(m, p) = r
    BY <1>2 DEF del_child
  <2>2. /\ h.next \in [Node -> Node \cup {NULL}]
        /\ h.prev \in [Node -> Node \cup {NULL}]
    BY HeldLinks
  <2>3. p \in Node /\ h.next[p] \in Node /\ h.prev[p] \in Node
    BY <1>2, <2>2, NodeType DEF link_del_ok
  <2> DEFINE nx == [h.next EXCEPT ![h.prev[p]] = h.next[p], ![p] = NULL]
             pv == [h.prev EXCEPT ![h.next[p]] = h.prev[p], ![p] = NULL]
  <2>4. l = [next |-> nx, prev |-> pv]
    BY DEF link_del
  <2>5. nx \in [Node -> Node \cup {NULL}] /\ pv \in [Node -> Node \cup {NULL}]
    BY <2>2, <2>3
  <2> HIDE DEF nx, pv
  <2>6. l \in [next : [Node -> Node \cup {NULL}], prev : [Node -> Node \cup {NULL}]]
    BY <2>4, <2>5
  <2> HIDE DEF l
  <2>7. /\ r \in Memory /\ r.cur_pid = m.cur_pid /\ r.fault = m.fault
        /\ r.garbage_collection_list = m.garbage_collection_list
        /\ r.queue_table = m.queue_table /\ r.state = m.state
    BY Zenon, <2>6 DEF Held, Memory
  <2> HIDE DEF r
  <2> QED
    BY <2>1, <2>7, Unmoved
<1> QED
  BY <1>1, <1>2

\* queue_add on children_chaining does not touch the state queues.
LEMMA AddChild ==
  ASSUME NEW c, NEW g, NEW R, NEW X, NEW p \in Pid, NEW f \in Pid,
         NEW m \in Held(c, g, R, X)
  PROVE  add_child(m, p, f) \in Held(c, g, R, X)
<1> DEFINE h == m.links
           head == children(f)
           w == Walk(h.next, head, Pid)
           at == link_slot(h, p, head, Pid, m.prio)
<1>1. CASE ~link_add_ok(h, p, head, Pid, m.prio)
  BY <1>1, Panic DEF add_child
<1>2. CASE link_add_ok(h, p, head, Pid, m.prio)
  <2> DEFINE l == link_add(h, p, head, Pid, m.prio)
             r == [m EXCEPT !.links = l]
  <2>1. add_child(m, p, f) = r
    BY <1>2 DEF add_child
  <2>2. /\ h.next \in [Node -> Node \cup {NULL}]
        /\ h.prev \in [Node -> Node \cup {NULL}]
    BY HeldLinks
  <2>3. p \in Node /\ head \in Node
    BY NodeType
  <2>4. at \in Node
    <3> DEFINE I == {i \in 1..Len(w.met) : ~(m.prio[w.met[i]] < m.prio[p])}
               stop == IF I # {} THEN Min(I) ELSE 0
    <3>1. w.met \in Seq(Pid)
      BY WalkMet
    <3>2. I \in SUBSET Nat
      BY <3>1
    <3>3. I # {} => Min(I) \in I
      <4> HIDE DEF I
      <4> QED
        BY <3>2, MinNat
    <3>4. at = IF stop # 0 THEN w.met[stop] ELSE IF w.closed THEN head ELSE NULL
      BY DEF link_slot, FirstWhere
    <3>5. at # NULL
      BY <1>2 DEF link_add_ok
    <3> HIDE DEF w, at
    <3>6. stop # 0 => w.met[stop] \in Pid
      <4>1. stop # 0 => stop \in 1..Len(w.met)
        BY <3>3
      <4> HIDE DEF stop
      <4> QED
        BY <3>1, <4>1
    <3> QED
      BY Zenon, <2>3, <3>4, <3>5, <3>6, NodeType
  <2>5. h.prev[at] \in Node
    BY <1>2, <2>2, <2>4 DEF link_add_ok
  <2> HIDE DEF at
  <2> DEFINE nx == [h.next EXCEPT ![p] = at, ![h.prev[at]] = p]
             pv == [h.prev EXCEPT ![p] = h.prev[at], ![at] = p]
  <2>6. l = [next |-> nx, prev |-> pv]
    BY DEF link_add, at
  <2>7. nx \in [Node -> Node \cup {NULL}] /\ pv \in [Node -> Node \cup {NULL}]
    BY <2>2, <2>3, <2>4, <2>5
  <2> HIDE DEF nx, pv
  <2>8. l \in [next : [Node -> Node \cup {NULL}], prev : [Node -> Node \cup {NULL}]]
    BY <2>6, <2>7
  <2> HIDE DEF l
  <2>9. /\ r \in Memory /\ r.cur_pid = m.cur_pid /\ r.fault = m.fault
        /\ r.garbage_collection_list = m.garbage_collection_list
        /\ r.queue_table = m.queue_table /\ r.state = m.state
    BY Zenon, <2>8 DEF Held, Memory
  <2> HIDE DEF r
  <2> QED
    BY <2>1, <2>9, Unmoved
<1> QED
  BY <1>1, <1>2

\* report_father moves the father from its queue to the actionable one.
LEMMA ReportFather ==
  ASSUME NEW c, NEW g, NEW R \in SUBSET Pid, NEW p \in Pid,
         NEW m \in Held(c, g, R, {})
  PROVE  report_father(m, p) \in Held(c, g, R, {})
<1> DEFINE f == m.father[p]
           a == [m EXCEPT !.child_waited[f] = p]
           b == unchain_from(a, f, "waiting_child")
<1>1. f \in Pid
  <2>1. m.father \in [Pid -> Pid]
    BY HeldTable
  <2> QED
    BY <2>1
<1>2. CASE m.child_waited[f] \notin {p, -1}
  BY <1>2 DEF report_father
<1>3. CASE m.child_waited[f] \in {p, -1}
  <2>1. report_father(m, p) = place(b, f, "actionable", pid_key)
    BY <1>3 DEF report_father
  <2> HIDE DEF f
  <2>2. /\ a \in Memory /\ a.cur_pid = m.cur_pid /\ a.fault = m.fault
        /\ a.garbage_collection_list = m.garbage_collection_list
        /\ a.queue_table = m.queue_table /\ a.state = m.state
    BY Zenon, <1>1 DEF Held, Memory
  <2> HIDE DEF a
  <2>3. a \in Held(c, g, R, {})
    BY <2>2, Unmoved
  <2>4. {"actionable", "waiting_child"} \subseteq list_type
    BY DEF list_type
  <2>5. b \in Held(c, g, R, {f})
    BY <1>1, <2>3, <2>4, UnchainFrom
  <2> HIDE DEF b
  <2> QED
    BY <1>1, <2>1, <2>4, <2>5, HeldKeys, Place
<1> QED
  BY <1>2, <1>3

\* One turn of check_zombies_children moves a child from zombie to freepid.
LEMMA FreeZombieChild ==
  ASSUME NEW c, NEW g, NEW R \in SUBSET Pid, NEW f \in Pid,
         NEW m \in Held(c, g, R, {})
  PROVE  free_zombie_child(m, f) \in Held(c, g, R, {})
<1> DEFINE w == children_met(m, f)
           I == {i \in 1..Len(w.met) : m.state[w.met[i]] = "zombie"}
           i == IF I # {} THEN Min(I) ELSE 0
           p == w.met[i]
           a == del_child(m, p)
           b == unchain_from(a, p, "zombie")
<1>1. free_zombie_child(m, f) =
        IF i # 0 THEN free_pid(b, p) ELSE IF w.closed THEN m ELSE panic(m)
  BY DEF free_zombie_child, FirstWhere
<1>2. CASE i = 0
  <2>1. free_zombie_child(m, f) = IF w.closed THEN m ELSE panic(m)
    BY Zenon, <1>1, <1>2
  <2> HIDE DEF w
  <2> QED
    BY <2>1, Panic
<1>3. CASE i # 0
  <2>1. w.met \in Seq(Pid)
    BY WalkMet DEF children_met
  <2>2. I \in SUBSET Nat
    OBVIOUS
  <2>3. I # {} => Min(I) \in I
    <3> HIDE DEF I
    <3> QED
      BY <2>2, MinNat
  <2>4. i \in 1..Len(w.met)
    BY <1>3, <2>3
  <2> HIDE DEF i, w
  <2>5. p \in Pid
    BY <2>1, <2>4
  <2> HIDE DEF p
  <2>6. a \in Held(c, g, R, {}) /\ a.state = m.state
    BY <2>5, DelChild
  <2> HIDE DEF a
  <2>7. "zombie" \in list_type /\ "zombie" # "actionable"
    BY DEF list_type
  <2>8. /\ b \in Held(c, g, R, {p})
        /\ ~b.fault => ~a.fault /\ a.state[p] = "zombie"
    <3>1. a \in Held(c, g, R, {}) /\ "zombie" \in list_type
      BY <2>6, <2>7
    <3> QED
      BY <2>5, <3>1, UnchainFrom
  <2>9. p = 0 => b.fault
    <3>1. ~a.fault => a.state[0] = "actionable"
      BY <2>6, ZeroActionable
    <3> QED
      BY <2>7, <2>8, <3>1
  <2> HIDE DEF b
  <2>10. free_pid(b, p) \in Held(c, g, R, {})
    BY <2>5, <2>8, <2>9, FreePid
  <2> QED
    BY <1>1, <1>3, <2>10
<1> QED
  BY <1>2, <1>3

\* The loop of check_zombies_children stays in every set its turns stay in.
LEMMA ZombieLoop ==
  ASSUME NEW S, NEW f, NEW m \in S, \A x \in S : x.fault \/ free_zombie_child(x, f) \in S,
         Len(m.queue_table["zombie"]) \in Nat
  PROVE  check_zombies_children(m, f) \in S
<1> DEFINE n == Len(m.queue_table["zombie"])
           F == [x \in S |-> IF x.fault THEN x ELSE free_zombie_child(x, f)]
           E(h) == h = [i \in 0..n |->
                          IF i = 0 THEN m
                          ELSE LET x == h[i - 1]
                               IN  IF x.fault THEN x ELSE free_zombie_child(x, f)]
           it == CHOOSE h : E(h)
<1>1. n \in Nat
  OBVIOUS
<1>2. F \in [S -> S]
  OBVIOUS
<1>3. check_zombies_children(m, f) = it[n]
  BY DEF check_zombies_children, Repeat
<1> HIDE DEF n
<1>4. PICK h : Iterates(h, S, F, m, n)
  <2> HIDE DEF F
  <2> QED
    BY <1>1, <1>2, IterExists
<1>5. E(h)
  <2>1. \A i \in 0..n : i # 0 => i \in 1..n /\ i - 1 \in 0..n /\ h[i - 1] \in S
    BY <1>1, <1>4 DEF Iterates
  <2> QED
    BY Zenon, <1>4, <2>1 DEF Iterates
<1>6. E(it)
  BY Zenon, <1>5
<1>7. it[0] \in S /\ \A i \in 1..n : it[i - 1] \in S => it[i] = F[it[i - 1]]
  <2> HIDE DEF it
  <2>1. it[0] = m
    BY <1>1, <1>6
  <2>2. ASSUME NEW i \in 1..n, it[i - 1] \in S PROVE it[i] = F[it[i - 1]]
    BY <1>1, <1>6, <2>2
  <2> QED
    BY <2>1, <2>2
<1>8. \A i \in 0..n : it[i] \in S
  <2> HIDE DEF it, F
  <2> QED
    BY Zenon, <1>1, <1>2, <1>7, IterStays
<1> QED
  BY <1>1, <1>3, <1>8

\* The length of a state queue is a natural number.
LEMMA QueueLen ==
  ASSUME NEW c, NEW g, NEW R, NEW X, NEW m \in Held(c, g, R, X), NEW s \in list_type
  PROVE  Len(m.queue_table[s]) \in Nat
<1>1. m.queue_table[s] \in Seq(Pid)
  BY HeldQueues
<1> QED
  BY <1>1

\* check_zombies_children leaves every process in the queue of its state.
LEMMA CheckZombiesChildren ==
  ASSUME NEW c, NEW g, NEW R \in SUBSET Pid, NEW f \in Pid,
         NEW m \in Held(c, g, R, {})
  PROVE  check_zombies_children(m, f) \in Held(c, g, R, {})
<1> DEFINE S == Held(c, g, R, {})
<1>1. \A x \in S : free_zombie_child(x, f) \in S
  BY FreeZombieChild
<1>2. Len(m.queue_table["zombie"]) \in Nat
  BY QueueLen DEF list_type
<1>3. m \in S
  OBVIOUS
<1> HIDE DEF S
<1>4. check_zombies_children(m, f) \in S
  BY <1>1, <1>2, <1>3, ZombieLoop
<1> QED
  BY <1>4 DEF S

\* funeral does not touch the state queues.
LEMMA Funeral ==
  ASSUME NEW c, NEW g, NEW R, NEW X, NEW f \in Pid, NEW m \in Held(c, g, R, X)
  PROVE  funeral(m, f) \in Held(c, g, R, X)
<1> DEFINE w == children_met(m, f)
           fa == [p \in Pid |-> IF p \in Range(w.met) THEN 0 ELSE m.father[p]]
           r == [m EXCEPT !.father = fa]
<1>1. CASE m.fault \/ ~w.closed
  BY <1>1, Panic DEF funeral
<1>2. CASE ~m.fault /\ w.closed
  <2>1. funeral(m, f) = r
    BY <1>2 DEF funeral
  <2>2. m.father \in [Pid -> Pid]
    BY HeldTable
  <2>3. fa \in [Pid -> Pid]
    BY <2>2, ZeroPid
  <2> HIDE DEF fa
  <2>4. /\ r \in Memory /\ r.cur_pid = m.cur_pid /\ r.fault = m.fault
        /\ r.garbage_collection_list = m.garbage_collection_list
        /\ r.queue_table = m.queue_table /\ r.state = m.state
    BY Zenon, <2>3 DEF Held, Memory
  <2> HIDE DEF r
  <2> QED
    BY <2>1, <2>4, Unmoved
<1> QED
  BY <1>1, <1>2

-----------------------------------------------------------------------------
(***************************************************************************)
(* Memory of dead processes.                                               *)
(***************************************************************************)

\* A change of the garbage list changes no placement.
LEMMA FrameGarbage ==
  ASSUME NEW c, NEW g, NEW R, NEW X, NEW m \in Held(c, g, R, X),
         NEW r \in Memory, NEW g2,
         r.cur_pid = m.cur_pid, r.garbage_collection_list = g2,
         r.queue_table = m.queue_table, r.state = m.state,
         m.fault => r.fault
  PROVE  r \in Held(c, g2, R, X)
<1>1. Proper(m, R, X) => Proper(r, R, X)
  BY DEF Proper, Placed
<1> QED
  BY <1>1, HeldDef

\* add_garbage_collection puts one pid in the list, or fails because it is
\* already there.
LEMMA AddGarbageCollection ==
  ASSUME NEW c, NEW g, NEW R, NEW X, NEW p \in Pid, NEW m \in Held(c, g, R, X)
  PROVE  \/ add_garbage_collection(m, p) \in Held(c, g, R, X)
              /\ add_garbage_collection(m, p).fault
         \/ \E g2 \in Seq(Pid) :
              /\ add_garbage_collection(m, p) \in Held(c, g2, R, X)
              /\ Range(g2) = Range(g) \cup {p}
<1>1. CASE p \in Range(m.garbage_collection_list)
  BY <1>1, Panic DEF add_garbage_collection
<1>2. CASE p \notin Range(m.garbage_collection_list)
  <2> DEFINE g2 == queue_add(p, m.garbage_collection_list, pid_key)
             r == [m EXCEPT !.garbage_collection_list = g2]
  <2>1. add_garbage_collection(m, p) = r
    BY <1>2 DEF add_garbage_collection
  <2>2. m.garbage_collection_list = g /\ g \in Seq(Pid)
    BY HeldBasic
  <2>3. g2 \in Seq(Pid) /\ Range(g2) = Range(g) \cup {p}
    BY <2>2, HeldKeys, QueueAdd
  <2> HIDE DEF g2
  <2>4. /\ r \in Memory /\ r.cur_pid = m.cur_pid /\ r.fault = m.fault
        /\ r.garbage_collection_list = g2
        /\ r.queue_table = m.queue_table /\ r.state = m.state
    BY Zenon, <2>3 DEF Held, Memory
  <2> HIDE DEF r
  <2>5. r \in Held(c, g2, R, X)
    BY <2>4, FrameGarbage
  <2> QED
    BY <2>1, <2>3, <2>5
<1> QED
  BY <1>1, <1>2

\* One turn of garbage_collect takes the top of the list; the process stays a
\* zombie, or its pid is freed when it has no father.
LEMMA CollectOne ==
  ASSUME NEW c, NEW g, NEW R \in SUBSET Pid, NEW m \in Held(c, g, R, {}),
         Range(g) \subseteq UserPid, ~queue_empty(g)
  PROVE  collect_one(m) \in Held(c, queue_out(g), R, {})
<1> DEFINE p == queue_top(m.garbage_collection_list)
           g2 == queue_out(m.garbage_collection_list)
           a == [m EXCEPT !.garbage_collection_list = g2, !.stacks[p] = "freed"]
           b == IF m.stacks[p] = "allocated" THEN a ELSE panic(a)
           d == unchain(b, p)
           e == del_child(d, p)
<1>1. m.garbage_collection_list = g /\ g \in Seq(Pid)
  BY HeldBasic
<1>2. collect_one(m) = IF m.father[p] # 0 THEN b ELSE free_pid(e, p)
  BY <1>1 DEF collect_one, garbage_collection_needed
<1>3. p \in UserPid /\ p \in Pid /\ p # 0 /\ g2 \in Seq(Pid) /\ g2 = queue_out(g)
  <2>1. p \in Pid /\ p \in Range(g) /\ g2 \in Seq(Pid)
    BY <1>1, QueueOut
  <2> HIDE DEF p, g2
  <2>2. p \in UserPid
    BY <2>1
  <2> QED
    BY <1>1, <2>1, <2>2 DEF UserPid, g2
<1> HIDE DEF p, g2
<1>4. /\ a \in Memory /\ a.cur_pid = m.cur_pid /\ a.fault = m.fault
      /\ a.garbage_collection_list = g2
      /\ a.queue_table = m.queue_table /\ a.state = m.state
  BY Zenon, <1>3 DEF Held, Memory
<1> HIDE DEF a
<1>5. a \in Held(c, g2, R, {})
  BY <1>4, FrameGarbage
<1>6. b \in Held(c, g2, R, {})
  BY <1>5, Panic
<1> HIDE DEF b
<1>7. d \in Held(c, g2, R, {p})
  BY <1>3, <1>6, Unchain
<1> HIDE DEF d
<1>8. e \in Held(c, g2, R, {p})
  BY <1>3, <1>7, DelChild
<1> HIDE DEF e
<1>9. free_pid(e, p) \in Held(c, g2, R, {})
  BY <1>3, <1>8, FreePid
<1> QED
  BY <1>2, <1>3, <1>6, <1>9

\* The loop of garbage_collect, of which it[i] is the memory after i turns,
\* stays in every set its turns stay in.
LEMMA CollectLoop ==
  ASSUME NEW S, NEW m \in S, \A x \in S : x.fault \/ collect_one(x) \in S,
         Len(m.garbage_collection_list) \in Nat
  PROVE  \E it :
           LET n == Len(m.garbage_collection_list)
           IN  /\ it[0] = m /\ it[n] = garbage_collect(m)
               /\ \A i \in 0..n : it[i] \in S
               /\ \A i \in 1..n : it[i] = IF it[i - 1].fault THEN it[i - 1]
                                          ELSE collect_one(it[i - 1])
<1> DEFINE n == Len(m.garbage_collection_list)
           F == [x \in S |-> IF x.fault THEN x ELSE collect_one(x)]
           E(h) == h = [i \in 0..n |->
                          IF i = 0 THEN m
                          ELSE LET x == h[i - 1]
                               IN  IF x.fault THEN x ELSE collect_one(x)]
           it == CHOOSE h : E(h)
<1>1. n \in Nat
  OBVIOUS
<1>2. F \in [S -> S]
  OBVIOUS
<1>3. garbage_collect(m) = it[n]
  BY DEF garbage_collect, Repeat
<1> HIDE DEF n
<1>4. PICK h : Iterates(h, S, F, m, n)
  <2> HIDE DEF F
  <2> QED
    BY <1>1, <1>2, IterExists
<1>5. E(h)
  <2>1. \A i \in 0..n : i # 0 => i \in 1..n /\ i - 1 \in 0..n /\ h[i - 1] \in S
    BY <1>1, <1>4 DEF Iterates
  <2> QED
    BY Zenon, <1>4, <2>1 DEF Iterates
<1>6. E(it)
  BY Zenon, <1>5
<1> HIDE DEF it
<1>7. it[0] = m /\ \A i \in 1..n :
         it[i] = IF it[i - 1].fault THEN it[i - 1] ELSE collect_one(it[i - 1])
  BY <1>1, <1>6
<1>8. \A i \in 0..n : it[i] \in S
  <2>1. it[0] \in S /\ \A i \in 1..n : it[i - 1] \in S => it[i] = F[it[i - 1]]
    BY <1>7
  <2> HIDE DEF F
  <2> QED
    BY Zenon, <1>1, <1>2, <2>1, IterStays
<1> QED
  BY <1>3, <1>7, <1>8 DEF n

\* garbage_collect empties the list.
LEMMA GarbageCollect ==
  ASSUME NEW c, NEW g, NEW R \in SUBSET Pid, NEW m \in Held(c, g, R, {}),
         Range(g) \subseteq UserPid
  PROVE  \E g2 \in Seq(Pid) :
           /\ garbage_collect(m) \in Held(c, g2, R, {})
           /\ Range(g2) \subseteq UserPid
           /\ ~garbage_collect(m).fault => queue_empty(g2)
<1> DEFINE G == {x \in Seq(Pid) : Range(x) \subseteq UserPid}
           S == UNION {Held(c, x, R, {}) : x \in G}
           n == Len(m.garbage_collection_list)
<1>1. m.garbage_collection_list = g /\ g \in Seq(Pid) /\ n \in Nat
  <2>1. m.garbage_collection_list = g /\ g \in Seq(Pid)
    BY HeldBasic
  <2> QED
    BY <2>1
<1>2. ASSUME NEW x \in S
      PROVE  /\ x.garbage_collection_list \in G
             /\ x \in Held(c, x.garbage_collection_list, R, {})
  <2>1. PICK y \in G : x \in Held(c, y, R, {})
    OBVIOUS
  <2>2. x.garbage_collection_list = y
    BY <2>1, HeldBasic
  <2> QED
    BY <2>1, <2>2
<1>3. ASSUME NEW x \in S
      PROVE  LET l == x.garbage_collection_list
             IN  /\ collect_one(x) \in S
                 /\ ~queue_empty(l) =>
                      Len(collect_one(x).garbage_collection_list) = Len(l) - 1
  <2> DEFINE l == x.garbage_collection_list
  <2>1. l \in Seq(Pid) /\ Range(l) \subseteq UserPid /\ x \in Held(c, l, R, {})
    BY <1>2
  <2>2. CASE queue_empty(l)
    <3>1. collect_one(x) = x
      BY <2>2 DEF collect_one, garbage_collection_needed
    <3> QED
      BY <2>2, <3>1
  <2>3. CASE ~queue_empty(l)
    <3> HIDE DEF l
    <3>1. /\ queue_out(l) \in Seq(Pid) /\ Len(queue_out(l)) = Len(l) - 1
          /\ Range(queue_out(l)) \subseteq Range(l)
      BY <2>1, <2>3, QueueOut
    <3>2. collect_one(x) \in Held(c, queue_out(l), R, {})
      BY <2>1, <2>3, CollectOne
    <3>3. queue_out(l) \in G
      BY <2>1, <3>1
    <3>4. collect_one(x) \in S
      <4> HIDE DEF G
      <4> QED
        BY <3>2, <3>3
    <3>5. collect_one(x).garbage_collection_list = queue_out(l)
      BY <3>2, HeldBasic
    <3> QED
      BY <3>1, <3>4, <3>5 DEF l
  <2> QED
    BY <2>2, <2>3
<1>4. m \in S
  BY <1>1
<1> HIDE DEF S
<1>5. PICK it :
        /\ it[0] = m /\ it[n] = garbage_collect(m)
        /\ \A i \in 0..n : it[i] \in S
        /\ \A i \in 1..n : it[i] = IF it[i - 1].fault THEN it[i - 1]
                                   ELSE collect_one(it[i - 1])
  BY <1>1, <1>3, <1>4, CollectLoop
<1> HIDE DEF n
<1>6. ~it[n].fault => Len(it[n].garbage_collection_list) = 0
  <2> DEFINE T == {i \in 0..n : ~it[i].fault =>
                                  Len(it[i].garbage_collection_list) = n - i}
  <2>1. 0 \in T
    BY <1>1, <1>5 DEF n
  <2>2. ASSUME NEW i \in 1..n, i - 1 \in T PROVE i \in T
    <3> SUFFICES ASSUME ~it[i].fault
                 PROVE  Len(it[i].garbage_collection_list) = n - i
      OBVIOUS
    <3> DEFINE x == it[i - 1]
               l == x.garbage_collection_list
    <3>1. x \in S /\ i - 1 \in 0..n /\ it[i] = IF x.fault THEN x ELSE collect_one(x)
      BY <1>1, <1>5
    <3>2. ~x.fault /\ it[i] = collect_one(x)
      BY <3>1
    <3>3. Len(l) = n - (i - 1)
      BY <2>2, <3>2
    <3>4. ~queue_empty(l)
      <4>1. Len(<<>>) = 0
        OBVIOUS
      <4> HIDE DEF l
      <4> QED
        BY <1>1, <3>3, <4>1 DEF queue_empty
    <3>5. Len(it[i].garbage_collection_list) = Len(l) - 1
      BY <1>3, <3>1, <3>2, <3>4
    <3> HIDE DEF l
    <3> QED
      BY <1>1, <3>3, <3>5
  <2> HIDE DEF T
  <2>3. \A i \in 0..n : i \in T
    BY <1>1, <2>1, <2>2, SetInduction
  <2>4. n \in T
    BY <1>1, <2>3
  <2> QED
    BY <1>1, <2>4 DEF T
<1> DEFINE r == it[n]
           g2 == r.garbage_collection_list
<1>7. r \in S
  BY <1>1, <1>5
<1>8. g2 \in G /\ r \in Held(c, g2, R, {})
  BY <1>2, <1>7
<1>9. ~r.fault => queue_empty(g2)
  BY <1>6, <1>8 DEF queue_empty
<1> QED
  BY <1>5, <1>8, <1>9

-----------------------------------------------------------------------------
(***************************************************************************)
(* The scheduler.                                                          *)
(***************************************************************************)

\* What holds whenever the kernel is left.
Settled(m) ==
  /\ m \in Memory
  /\ ~m.fault =>
       /\ Proper(m, {m.cur_pid} \cap Pid, {})
       /\ Range(m.garbage_collection_list) \subseteq UserPid
       /\ m.cur_pid = PID_GARBAGE <=> garbage_collection_needed(m)

\* An assignment to alarm_time does not touch the state queues.
LEMMA SetAlarm ==
  ASSUME NEW c, NEW g, NEW R, NEW X, NEW m \in Held(c, g, R, X),
         NEW at \in [Pid -> Int]
  PROVE  LET a == [m EXCEPT !.alarm_time = at]
         IN  a \in Held(c, g, R, X) /\ a.prio = m.prio /\ a.alarm_time = at
<1> DEFINE a == [m EXCEPT !.alarm_time = at]
<1>1. /\ a \in Memory /\ a.cur_pid = m.cur_pid /\ a.fault = m.fault
      /\ a.garbage_collection_list = m.garbage_collection_list
      /\ a.queue_table = m.queue_table /\ a.state = m.state
      /\ a.prio = m.prio /\ a.alarm_time = at
  BY Zenon DEF Held, Memory
<1> HIDE DEF a
<1>2. a \in Held(c, g, R, X)
  BY <1>1, Unmoved
<1> QED
  BY <1>1, <1>2 DEF a

\* One turn of the first loop of scheduler moves a sleeper to the actionable
\* queue.
LEMMA WakeOne ==
  ASSUME NEW c, NEW g, NEW R \in SUBSET Pid, NEW m \in Held(c, g, R, {})
  PROVE  wake_one(m) \in Held(c, g, R, {})
<1> DEFINE q == m.queue_table["asleep"]
           p == queue_bottom(q)
           at == [m.alarm_time EXCEPT ![p] = 0]
           a == [m EXCEPT !.alarm_time = at]
           b == unchain(a, p)
<1>1. {"asleep", "actionable"} \subseteq list_type
  BY DEF list_type
<1>2. CASE queue_empty(q) \/ ~(m.alarm_time[p] < ToInt(m.clock_ticks))
  BY <1>2 DEF wake_one
<1>3. CASE ~(queue_empty(q) \/ ~(m.alarm_time[p] < ToInt(m.clock_ticks)))
  <2>1. wake_one(m) = place(b, p, "actionable", m.prio)
    BY <1>3 DEF wake_one
  <2>2. q \in Seq(Pid) /\ ~queue_empty(q)
    BY <1>1, <1>3, HeldQueues
  <2>3. p \in Pid
    <3> HIDE DEF q
    <3> QED
      BY <2>2 DEF queue_bottom, queue_empty
  <2> HIDE DEF p
  <2>4. at \in [Pid -> Int]
    <3>1. m.alarm_time \in [Pid -> Int]
      BY HeldTable
    <3> QED
      BY <2>3, <3>1
  <2> HIDE DEF at
  <2>5. a \in Held(c, g, R, {})
    BY <2>4, SetAlarm
  <2> HIDE DEF a
  <2>6. b \in Held(c, g, R, {p})
    BY <2>3, <2>5, Unchain
  <2> HIDE DEF b
  <2>7. m.prio \in [Pid -> Int]
    BY HeldKeys
  <2> QED
    BY <1>1, <2>1, <2>3, <2>6, <2>7, Place
<1> QED
  BY <1>2, <1>3

\* The first loop of scheduler stays in every set its turns stay in.
LEMMA WakeLoop ==
  ASSUME NEW S, NEW m \in S, \A x \in S : x.fault \/ wake_one(x) \in S,
         Len(m.queue_table["asleep"]) \in Nat
  PROVE  wake_sleepers(m) \in S
<1> DEFINE n == Len(m.queue_table["asleep"])
           F == [x \in S |-> IF x.fault THEN x ELSE wake_one(x)]
           E(h) == h = [i \in 0..n |->
                          IF i = 0 THEN m
                          ELSE LET x == h[i - 1]
                               IN  IF x.fault THEN x ELSE wake_one(x)]
           it == CHOOSE h : E(h)
<1>1. n \in Nat
  OBVIOUS
<1>2. F \in [S -> S]
  OBVIOUS
<1>3. wake_sleepers(m) = it[n]
  BY DEF wake_sleepers, Repeat
<1> HIDE DEF n
<1>4. PICK h : Iterates(h, S, F, m, n)
  <2> HIDE DEF F
  <2> QED
    BY <1>1, <1>2, IterExists
<1>5. E(h)
  <2>1. \A i \in 0..n : i # 0 => i \in 1..n /\ i - 1 \in 0..n /\ h[i - 1] \in S
    BY <1>1, <1>4 DEF Iterates
  <2> QED
    BY Zenon, <1>4, <2>1 DEF Iterates
<1>6. E(it)
  BY Zenon, <1>5
<1> HIDE DEF it
<1>7. it[0] \in S /\ \A i \in 1..n : it[i - 1] \in S => it[i] = F[it[i - 1]]
  BY <1>1, <1>6
<1>8. \A i \in 0..n : it[i] \in S
  <2> HIDE DEF F
  <2> QED
    BY Zenon, <1>1, <1>2, <1>7, IterStays
<1> QED
  BY <1>1, <1>3, <1>8

\* The first loop of scheduler leaves every process in the queue of its state.
LEMMA WakeSleepers ==
  ASSUME NEW c, NEW g, NEW R \in SUBSET Pid, NEW m \in Held(c, g, R, {})
  PROVE  wake_sleepers(m) \in Held(c, g, R, {})
<1> DEFINE S == Held(c, g, R, {})
<1>1. \A x \in S : wake_one(x) \in S
  BY WakeOne
<1>2. Len(m.queue_table["asleep"]) \in Nat
  BY QueueLen DEF list_type
<1>3. m \in S
  OBVIOUS
<1> HIDE DEF S
<1>4. wake_sleepers(m) \in S
  BY <1>1, <1>2, <1>3, WakeLoop
<1> QED
  BY <1>4 DEF S

\* A running process may be set aside, to be put into a queue.
LEMMA Release ==
  ASSUME NEW c, NEW g, NEW p, NEW m \in Held(c, g, {p}, {})
  PROVE  m \in Held(c, g, {}, {p})
<1>1. {p} \cup {} = {} \cup {p}
  OBVIOUS
<1>2. Proper(m, {p}, {}) => Proper(m, {}, {p})
  BY <1>1 DEF Proper
<1> QED
  BY <1>2, HeldDef

\* The process that was running is in a queue again before scheduler chooses.
LEMMA RequeueCurrent ==
  ASSUME NEW c, NEW g, NEW R \in SUBSET ({c} \cap Pid),
         NEW m \in Held(c, g, R, {})
  PROVE  requeue_current(m) \in Held(c, g, {}, {})
<1>1. m.cur_pid = c /\ c \in 0..NB_PROCESS
  BY HeldBasic
<1>2. "actionable" \in list_type /\ m.prio \in [Pid -> Int]
  BY HeldKeys DEF list_type
<1>3. CASE ~(c # PID_GARBAGE /\ m.state[c] = "actionable")
  <2>1. requeue_current(m) = m
    BY <1>1, <1>3 DEF requeue_current
  <2>2. c \in Pid => c # PID_GARBAGE
    BY SizeAssumption DEF Pid, PID_GARBAGE
  <2>3. ~m.fault => R = {}
    BY <1>3, <2>2, HeldDef DEF Proper
  <2>4. CASE m.fault
    BY <2>1, <2>4, HeldDef
  <2>5. CASE ~m.fault
    BY <2>1, <2>3, <2>5
  <2> QED
    BY <2>4, <2>5
<1>4. CASE c # PID_GARBAGE /\ m.state[c] = "actionable"
  <2>1. requeue_current(m) = place(m, c, "actionable", m.prio)
    BY <1>1, <1>4 DEF requeue_current
  <2>2. c \in Pid
    BY <1>1, <1>4, SizeAssumption DEF Pid, PID_GARBAGE
  <2>3. CASE m.fault \/ R = {c}
    <3>1. m \in Held(c, g, {}, {c})
      <4>1. CASE m.fault
        BY <4>1, HeldDef
      <4>2. CASE R = {c}
        BY Zenon, <4>2, Release
      <4> QED
        BY <2>3, <4>1, <4>2
    <3> QED
      BY <1>2, <2>1, <2>2, <3>1, Place
  <2>4. CASE ~m.fault /\ R = {}
    <3>1. c \in Range(m.queue_table["actionable"])
      BY <1>2, <1>4, <2>2, <2>4, HeldDef DEF Proper, Placed
    <3>2. chained(m, c)
      BY <1>2, <3>1 DEF chained
    <3>3. requeue_current(m) = panic(m)
      BY <2>1, <3>2 DEF place
    <3> QED
      BY <3>3, Panic
  <2> QED
    BY <2>3, <2>4
<1> QED
  BY <1>3, <1>4

\* The choice of the next process: the garbage collector if it is needed, else
\* the top of the actionable queue, which idle keeps from being empty.
LEMMA Switch ==
  ASSUME NEW c, NEW g, NEW m \in Held(c, g, {}, {}), Range(g) \subseteq UserPid
  PROVE  Settled(switch(m))
<1> DEFINE q == m.queue_table["actionable"]
<1>1. m.garbage_collection_list = g /\ m \in Memory
  BY HeldBasic, HeldDef
<1>2. CASE garbage_collection_needed(m)
  <2> DEFINE r == [m EXCEPT !.cur_pid = PID_GARBAGE]
  <2>1. switch(m) = r
    BY <1>2 DEF switch
  <2>2. PID_GARBAGE \in 0..NB_PROCESS /\ {PID_GARBAGE} \cap Pid = {}
    BY SizeAssumption DEF PID_GARBAGE, Pid
  <2>3. /\ r \in Memory /\ r.cur_pid = PID_GARBAGE /\ r.fault = m.fault
        /\ r.garbage_collection_list = g
        /\ r.queue_table = m.queue_table /\ r.state = m.state
    BY Zenon, <1>1, <2>2 DEF Memory
  <2> HIDE DEF r
  <2>4. ~m.fault => Proper(m, {}, {})
    BY HeldDef
  <2>5. ~r.fault => Proper(r, {r.cur_pid} \cap Pid, {})
    BY <2>2, <2>3, <2>4 DEF Proper, Placed
  <2>6. garbage_collection_needed(r)
    BY <1>1, <1>2, <2>3 DEF garbage_collection_needed
  <2> QED
    BY <2>1, <2>3, <2>5, <2>6 DEF Settled
<1>3. CASE ~garbage_collection_needed(m) /\ queue_empty(q)
  <2>1. switch(m) = panic(m)
    BY <1>3 DEF switch
  <2>2. panic(m) \in Memory /\ panic(m).fault
    BY Panic, HeldDef
  <2> QED
    BY <2>1, <2>2 DEF Settled
<1>4. CASE ~garbage_collection_needed(m) /\ ~queue_empty(q)
  <2> DEFINE p == queue_top(q)
             q2 == queue_out(q)
             r == [m EXCEPT !.cur_pid = p, !.queue_table["actionable"] = q2]
  <2>1. switch(m) = r
    BY <1>4 DEF switch
  <2>2. /\ m.queue_table \in [list_type -> Seq(Pid)]
        /\ m.state \in [Pid -> list_type]
        /\ "actionable" \in list_type
    BY HeldQueues DEF list_type
  <2>3. q \in Seq(Pid)
    BY <2>2
  <2>4. /\ p \in Pid /\ p \in Range(q) /\ q2 \in Seq(Pid)
        /\ IsInjective(q) => IsInjective(q2) /\ Range(q2) = Range(q) \ {p}
    <3> HIDE DEF q
    <3> QED
      BY <1>4, <2>3, QueueOut
  <2> HIDE DEF p, q2
  <2>5. p \in 0..NB_PROCESS /\ p # PID_GARBAGE /\ {p} \cap Pid = {p}
    BY <2>4, SizeAssumption DEF Pid, PID_GARBAGE
  <2>6. /\ r \in Memory /\ r.cur_pid = p /\ r.fault = m.fault
        /\ r.garbage_collection_list = g
        /\ r.queue_table = [m.queue_table EXCEPT !["actionable"] = q2]
        /\ r.state = m.state
    BY Zenon, <1>1, <2>2, <2>4, <2>5 DEF Memory
  <2> HIDE DEF r
  <2>7. ~garbage_collection_needed(r)
    BY <1>1, <1>4, <2>6 DEF garbage_collection_needed
  <2>8. ASSUME ~m.fault PROVE Proper(r, {p}, {})
    <3>1. Placed(m, {}) /\ m.state[0] = "actionable"
      <4>1. Proper(m, {}, {})
        BY <2>8, HeldDef
      <4> QED
        BY <4>1 DEF Proper, Placed
    <3>2. /\ m.state[p] = "actionable"
          /\ IsInjective(q2) /\ Range(q2) = Range(q) \ {p}
      BY <2>2, <2>4, <3>1 DEF Placed
    <3>3. ASSUME NEW t \in list_type PROVE IsInjective(r.queue_table[t])
      BY <2>2, <2>6, <3>1, <3>2 DEF Placed
    <3>4. ASSUME NEW t \in list_type, NEW x \in Range(r.queue_table[t])
          PROVE  r.state[x] = t /\ x \notin {p}
      <4>1. CASE t = "actionable"
        <5>1. r.queue_table[t] = q2
          BY <2>2, <2>6, <4>1
        <5>2. x \in Range(q) /\ x # p
          BY <3>2, <3>4, <5>1
        <5> QED
          BY <2>2, <2>6, <3>1, <4>1, <5>2 DEF Placed
      <4>2. CASE t # "actionable"
        <5>1. r.queue_table[t] = m.queue_table[t]
          BY <2>2, <2>6, <4>2
        <5>2. m.state[x] = t
          BY <3>1, <3>4, <5>1 DEF Placed
        <5> QED
          BY <2>6, <3>2, <4>2, <5>2
      <4> QED
        BY <4>1, <4>2
    <3>5. ASSUME NEW x \in Pid \ {p}, r.state[x] # "freepid"
          PROVE  x \in Range(r.queue_table[r.state[x]])
      <4>1. m.state[x] \in list_type /\ x \in Range(m.queue_table[m.state[x]])
        BY <2>2, <2>6, <3>1, <3>5 DEF Placed
      <4>2. CASE m.state[x] = "actionable"
        BY <2>2, <2>6, <3>2, <4>1, <4>2
      <4>3. CASE m.state[x] # "actionable"
        BY <2>2, <2>6, <4>1, <4>3
      <4> QED
        BY <4>2, <4>3
    <3>6. Placed(r, {p} \cup {})
      BY <3>3, <3>4, <3>5 DEF Placed
    <3> QED
      BY <2>6, <3>1, <3>2, <3>6 DEF Proper
  <2>9. g \in Seq(Pid)
    BY HeldBasic
  <2> QED
    BY <2>1, <2>5, <2>6, <2>7, <2>8 DEF Settled
<1> QED
  BY <1>2, <1>3, <1>4

\* Called with at most the current process out of the queues, and only if it
\* is actionable, scheduler leaves the queues and the table in agreement.
THEOREM Scheduler ==
  ASSUME NEW c, NEW g, NEW R \in SUBSET ({c} \cap Pid),
         NEW m \in Held(c, g, R, {}), Range(g) \subseteq UserPid
  PROVE  Settled(scheduler(m))
<1>1. CASE m.fault
  <2>1. scheduler(m) = m /\ m \in Memory
    BY <1>1, HeldDef DEF scheduler
  <2> QED
    BY <1>1, <2>1 DEF Settled
<1>2. CASE ~m.fault
  <2> DEFINE a == wake_sleepers(m)
             b == requeue_current(a)
  <2>1. scheduler(m) = switch(b)
    BY <1>2 DEF scheduler
  <2>2. a \in Held(c, g, R, {})
    BY WakeSleepers
  <2> HIDE DEF a
  <2>3. b \in Held(c, g, {}, {})
    BY <2>2, RequeueCurrent
  <2> HIDE DEF b
  <2> QED
    BY <2>1, <2>3, Switch
<1> QED
  BY <1>1, <1>2

-----------------------------------------------------------------------------
(***************************************************************************)
(* The system calls of sem.c.                                              *)
(***************************************************************************)

\* The memories in which process c is about to run kernel code: it is out of
\* the queues, and the garbage collector has nothing to do.
Entered(c) == Held(c, <<>>, {c}, {})

\* A call may end without scheduler().
LEMMA Stay ==
  ASSUME NEW c \in Pid, NEW m \in Entered(c)
  PROVE  Settled(m)
<1>1. /\ m \in Memory /\ m.cur_pid = c /\ m.garbage_collection_list = <<>>
      /\ m.fault \/ Proper(m, {c}, {})
  BY HeldDef DEF Entered
<1>2. c # PID_GARBAGE /\ {c} \cap Pid = {c}
  BY SizeAssumption DEF Pid, PID_GARBAGE
<1>3. Range(<<>>) = {} /\ queue_empty(<<>>)
  BY DEF Range, queue_empty
<1> QED
  BY Zenon, <1>1, <1>2, <1>3 DEF Settled, garbage_collection_needed

\* scheduler() called by a process that may go on running.
LEMMA Yield ==
  ASSUME NEW c \in Pid, NEW m \in Entered(c)
  PROVE  Settled(scheduler(m))
<1>1. m \in Held(c, <<>>, {c}, {})
  BY DEF Entered
<1>2. Range(<<>>) \subseteq UserPid /\ {c} \in SUBSET ({c} \cap Pid)
  BY DEF Range
<1> QED
  BY <1>1, <1>2, Scheduler

-----------------------------------------------------------------------------

\* find_by_sem returns a process or NULL.
LEMMA FindBySem ==
  ASSUME NEW c, NEW g, NEW R, NEW X, NEW m \in Held(c, g, R, X), NEW sem
  PROVE  LET p == find_by_sem(m, sem)
         IN  /\ p \in Pid \cup {NULL}
             /\ p # NULL => p \in Range(m.queue_table["sem_blocked"])
<1> DEFINE q == m.queue_table["sem_blocked"]
           I == {i \in 1..Len(q) : m.sem_blocked[q[i]] = sem}
<1>1. q \in Seq(Pid)
  BY HeldQueues DEF list_type
<1>2. find_by_sem(m, sem) =
        IF I # {} THEN (IF Max(I) = 0 THEN NULL ELSE q[Max(I)]) ELSE NULL
  BY DEF find_by_sem, LastWhere
<1> HIDE DEF q
<1>3. Len(q) \in Nat /\ I \in SUBSET (0..Len(q))
  BY <1>1
<1>4. I # {} => Max(I) \in I
  <2> HIDE DEF I
  <2> QED
    BY Zenon, <1>3, MaxNat
<1>5. I # {} => Max(I) \in 1..Len(q)
  BY <1>4
<1> HIDE DEF I
<1> QED
  BY <1>1, <1>2, <1>5 DEF q, Range

\* One turn of the unblocking loops moves a process from the sem_blocked queue
\* to the actionable one.
LEMMA UnblockOne ==
  ASSUME NEW c, NEW g, NEW R \in SUBSET Pid, NEW m \in Held(c, g, R, {}),
         NEW sem, NEW wake \in {0, -3, -4}
  PROVE  unblock_one(m, sem, wake) \in Held(c, g, R, {})
<1> DEFINE p == find_by_sem(m, sem)
           a == [m EXCEPT !.awakener[p] = wake, !.sem_blocked[p] = -1]
           b == unchain(a, p)
<1>1. p \in Pid \cup {NULL}
  BY FindBySem
<1>2. unblock_one(m, sem, wake) =
        IF p = NULL THEN m ELSE place(b, p, "actionable", m.prio)
  BY DEF unblock_one
<1> HIDE DEF p
<1>3. CASE p = NULL
  BY <1>2, <1>3
<1>4. CASE p # NULL
  <2>1. p \in Pid
    BY <1>1, <1>4
  <2>2. /\ a \in Memory /\ a.cur_pid = m.cur_pid /\ a.fault = m.fault
        /\ a.garbage_collection_list = m.garbage_collection_list
        /\ a.queue_table = m.queue_table /\ a.state = m.state
    BY Zenon, <2>1 DEF Held, Memory
  <2> HIDE DEF a
  <2>3. a \in Held(c, g, R, {})
    BY <2>2, Unmoved
  <2>4. b \in Held(c, g, R, {p})
    BY <2>1, <2>3, Unchain
  <2> HIDE DEF b
  <2>5. m.prio \in [Pid -> Int] /\ "actionable" \in list_type
    BY HeldKeys DEF list_type
  <2> QED
    BY <1>2, <1>4, <2>1, <2>4, <2>5, Place
<1> QED
  BY <1>3, <1>4

\* The preemption test at the end of unblock_n_sems and unblock_all_sem.
LEMMA YieldToTop ==
  ASSUME NEW c \in Pid, NEW m \in Entered(c)
  PROVE  Settled(yield_to_top(m))
<1>1. panic(m) \in Held(c, <<>>, {c}, {})
  BY Panic DEF Entered
<1>2. Settled(m) /\ Settled(scheduler(m)) /\ Settled(panic(m))
  BY <1>1, Stay, Yield DEF Entered
<1> QED
  BY <1>2 DEF yield_to_top

\* The loop of unblock_n_sems and of unblock_all_sem.
unblock_times(m, sem, wake, n) ==
  LET turn(x) == unblock_one(x, sem, wake) IN Repeat(turn, m, n)

\* The unblocking loops: a fact about the turns 0 to n, given as the set Q[i] of
\* memories for turn i, is kept if each turn keeps it.
LEMMA UnblockLoop ==
  ASSUME NEW sem, NEW wake, NEW n \in Nat, NEW S, NEW m \in S,
         \A x \in S : x.fault \/ unblock_one(x, sem, wake) \in S,
         NEW Q, m \in Q[0],
         \A i \in 1..n : \A x \in S \cap Q[i - 1] :
           (IF x.fault THEN x ELSE unblock_one(x, sem, wake)) \in Q[i]
  PROVE  unblock_times(m, sem, wake, n) \in S \cap Q[n]
<1> DEFINE F == [x \in S |-> IF x.fault THEN x ELSE unblock_one(x, sem, wake)]
           E(h) == h = [i \in 0..n |->
                          IF i = 0 THEN m
                          ELSE LET x == h[i - 1]
                               IN  IF x.fault THEN x
                                   ELSE unblock_one(x, sem, wake)]
           it == CHOOSE h : E(h)
<1>1. F \in [S -> S]
  OBVIOUS
<1>2. unblock_times(m, sem, wake, n) = it[n]
  BY DEF unblock_times, Repeat
<1>3. PICK h : Iterates(h, S, F, m, n)
  <2> HIDE DEF F
  <2> QED
    BY <1>1, IterExists
<1>4. E(h)
  <2>1. \A i \in 0..n : i # 0 => i \in 1..n /\ i - 1 \in 0..n /\ h[i - 1] \in S
    BY <1>3 DEF Iterates
  <2> QED
    BY Zenon, <1>3, <2>1 DEF Iterates
<1>5. E(it)
  BY Zenon, <1>4
<1> HIDE DEF it
<1>6. it[0] = m /\ \A i \in 1..n : it[i - 1] \in S => it[i] = F[it[i - 1]]
  BY <1>5
<1>7. \A i \in 0..n : it[i] \in S
  <2> HIDE DEF F
  <2> QED
    BY <1>1, <1>6, IterStays
<1>8. \A i \in 0..n : i \in {j \in 0..n : it[j] \in Q[j]}
  <2> DEFINE T == {j \in 0..n : it[j] \in Q[j]}
  <2>1. 0 \in T
    BY <1>6
  <2>2. ASSUME NEW i \in 1..n, i - 1 \in T PROVE i \in T
    <3>1. it[i - 1] \in S \cap Q[i - 1] /\ i - 1 \in 0..n
      BY <1>7, <2>2
    <3>2. it[i] = IF it[i - 1].fault THEN it[i - 1]
                  ELSE unblock_one(it[i - 1], sem, wake)
      BY Zenon, <1>6, <3>1
    <3> QED
      BY <3>1, <3>2
  <2> HIDE DEF T
  <2>3. \A i \in 0..n : i \in T
    BY <2>1, <2>2, SetInduction
  <2> QED
    BY <2>3 DEF T
<1> QED
  BY <1>2, <1>7, <1>8

\* Any number of turns of the unblocking loops.
LEMMA UnblockTimes ==
  ASSUME NEW c, NEW g, NEW R \in SUBSET Pid, NEW m \in Held(c, g, R, {}),
         NEW sem, NEW wake \in {0, -3, -4}, NEW n \in Nat
  PROVE  unblock_times(m, sem, wake, n) \in Held(c, g, R, {})
<1> DEFINE S == Held(c, g, R, {})
           Q == [i \in 0..n |-> S]
<1>1. \A x \in S : unblock_one(x, sem, wake) \in S
  BY UnblockOne
<1>2. m \in S
  OBVIOUS
<1> HIDE DEF S
<1>3. m \in Q[0] /\ \A i \in 1..n : \A x \in S \cap Q[i - 1] :
        (IF x.fault THEN x ELSE unblock_one(x, sem, wake)) \in Q[i]
  BY <1>1, <1>2
<1> HIDE DEF Q
<1>4. unblock_times(m, sem, wake, n) \in S \cap Q[n]
  BY Zenon, <1>1, <1>2, <1>3, UnblockLoop
<1> QED
  BY <1>4 DEF S

\* unblock_n_sems leaves the kernel settled.
LEMMA UnblockNSems ==
  ASSUME NEW c \in Pid, NEW m \in Entered(c), NEW sem, NEW n \in Int
  PROVE  Settled(unblock_n_sems(m, sem, n))
<1>1. CASE n <= 0
  BY <1>1, Stay DEF unblock_n_sems
<1>2. CASE n > 0
  <2> DEFINE a == unblock_times(m, sem, 0, n)
  <2>1. unblock_n_sems(m, sem, n) = yield_to_top(a)
    BY <1>2 DEF unblock_n_sems, unblock_times
  <2>2. n \in Nat /\ {c} \in SUBSET Pid
    BY <1>2
  <2>3. a \in Entered(c)
    BY <2>2, UnblockTimes DEF Entered
  <2> HIDE DEF a
  <2> QED
    BY <2>1, <2>3, YieldToTop
<1> QED
  BY <1>1, <1>2

\* unblock_all_sem leaves the kernel settled.
LEMMA UnblockAllSem ==
  ASSUME NEW c \in Pid, NEW m \in Entered(c), NEW sem, NEW wake \in {0, -3, -4}
  PROVE  Settled(unblock_all_sem(m, sem, wake))
<1> DEFINE n == Len(m.queue_table["sem_blocked"])
           a == unblock_times(m, sem, wake, n)
<1>1. unblock_all_sem(m, sem, wake) = yield_to_top(a)
  BY DEF unblock_all_sem, unblock_times
<1>2. n \in Nat
  <2>1. m.queue_table["sem_blocked"] \in Seq(Pid)
    BY HeldQueues DEF list_type, Entered
  <2> QED
    BY <2>1
<1> HIDE DEF n
<1>3. a \in Entered(c)
  BY <1>2, UnblockTimes DEF Entered
<1> HIDE DEF a
<1> QED
  BY <1>1, <1>3, YieldToTop

\* block_sem leaves the kernel settled: the caller is in the sem_blocked queue
\* and another process runs.
LEMMA BlockSem ==
  ASSUME NEW c \in Pid, NEW m \in Entered(c), NEW sem \in Sem, c # 0
  PROVE  Settled(block_sem(m, sem))
<1> DEFINE a == [m EXCEPT !.sem_blocked[c] = sem]
           b == place(a, c, "sem_blocked", m.prio)
<1>1. m \in Held(c, <<>>, {c}, {}) /\ m.cur_pid = c
  BY HeldBasic DEF Entered
<1>2. block_sem(m, sem) = scheduler(b)
  BY <1>1 DEF block_sem
<1>3. m \in Held(c, <<>>, {}, {c})
  BY Zenon, <1>1, Release
<1>4. /\ a \in Memory /\ a.cur_pid = m.cur_pid /\ a.fault = m.fault
      /\ a.garbage_collection_list = m.garbage_collection_list
      /\ a.queue_table = m.queue_table /\ a.state = m.state
  BY Zenon, <1>1 DEF Held, Memory
<1> HIDE DEF a
<1>5. a \in Held(c, <<>>, {}, {c})
  BY <1>3, <1>4, Unmoved
<1>6. m.prio \in [Pid -> Int] /\ "sem_blocked" \in list_type
  BY <1>1, HeldKeys DEF list_type
<1>7. b \in Held(c, <<>>, {}, {})
  BY <1>5, <1>6, Place
<1> HIDE DEF b
<1>8. Range(<<>>) \subseteq UserPid
  BY DEF Range
<1> QED
  BY <1>2, <1>7, <1>8, Scheduler

-----------------------------------------------------------------------------
(***************************************************************************)
(* sem.c.                                                                  *)
(***************************************************************************)

\* A change of the semaphores leaves the process where it was.
LEMMA SetSems ==
  ASSUME NEW c, NEW g, NEW R, NEW X, NEW m \in Held(c, g, R, X),
         NEW v \in [Sem -> SHRT_MIN..SHRT_MAX], NEW u \in SUBSET Sem
  PROVE  /\ [m EXCEPT !.value = v] \in Held(c, g, R, X)
         /\ [m EXCEPT !.sem_used = u] \in Held(c, g, R, X)
         /\ [m EXCEPT !.value = v, !.sem_used = u] \in Held(c, g, R, X)
<1> DEFINE a == [m EXCEPT !.value = v]
           b == [m EXCEPT !.sem_used = u]
           d == [m EXCEPT !.value = v, !.sem_used = u]
<1>1. /\ a \in Memory /\ a.cur_pid = m.cur_pid /\ a.fault = m.fault
      /\ a.garbage_collection_list = m.garbage_collection_list
      /\ a.queue_table = m.queue_table /\ a.state = m.state
  BY Zenon DEF Held, Memory
<1>2. /\ b \in Memory /\ b.cur_pid = m.cur_pid /\ b.fault = m.fault
      /\ b.garbage_collection_list = m.garbage_collection_list
      /\ b.queue_table = m.queue_table /\ b.state = m.state
  BY Zenon DEF Held, Memory
<1>3. /\ d \in Memory /\ d.cur_pid = m.cur_pid /\ d.fault = m.fault
      /\ d.garbage_collection_list = m.garbage_collection_list
      /\ d.queue_table = m.queue_table /\ d.state = m.state
  BY Zenon DEF Held, Memory
<1> HIDE DEF a, b, d
<1>4. a \in Held(c, g, R, X)
  BY <1>1, Unmoved
<1>5. b \in Held(c, g, R, X)
  BY <1>2, Unmoved
<1>6. d \in Held(c, g, R, X)
  BY <1>3, Unmoved
<1> QED
  BY <1>4, <1>5, <1>6 DEF a, b, d

\* The counter of a semaphore is set to a value in range.
LEMMA SetValue ==
  ASSUME NEW c, NEW g, NEW R, NEW X, NEW m \in Held(c, g, R, X),
         NEW id \in Sem, NEW x \in SHRT_MIN..SHRT_MAX
  PROVE  [m EXCEPT !.value[id] = x] \in Held(c, g, R, X)
<1> DEFINE v == [m.value EXCEPT ![id] = x]
<1>1. m.value \in [Sem -> SHRT_MIN..SHRT_MAX] /\ m.sem_used \in SUBSET Sem
  BY HeldSems
<1>2. v \in [Sem -> SHRT_MIN..SHRT_MAX]
  BY <1>1
<1> HIDE DEF v
<1>3. [m EXCEPT !.value = v] \in Held(c, g, R, X)
  BY Zenon, <1>1, <1>2, SetSems
<1> QED
  BY <1>3 DEF v

\* The counter of a semaphore in use is in the range of a short.
LEMMA Values ==
  ASSUME NEW c, NEW g, NEW R, NEW X, NEW m \in Held(c, g, R, X), NEW id,
         id \in m.sem_used
  PROVE  /\ id \in Sem /\ m.value[id] \in SHRT_MIN..SHRT_MAX
         /\ SHRT_MIN \in Int /\ SHRT_MAX \in Nat /\ SHRT_MIN <= 0
<1>1. m.value \in [Sem -> SHRT_MIN..SHRT_MAX] /\ m.sem_used \in SUBSET Sem
  BY HeldSems
<1>2. SHRT_MIN \in Int /\ SHRT_MAX \in Nat /\ SHRT_MIN <= 0
  BY SizeAssumption DEF SHRT_MIN
<1> QED
  BY <1>1, <1>2

\* screate leaves the kernel settled; the counter it stores fits.
LEMMA ScreateSettled ==
  ASSUME NEW c \in Pid, NEW m \in Entered(c), NEW count \in SHRT_MIN..SHRT_MAX
  PROVE  Settled(screate(m, count))
<1> DEFINE id == Min(Sem \ m.sem_used)
           v == [m.value EXCEPT ![id] = count]
           u == m.sem_used \cup {id}
           r == [m EXCEPT !.value = v, !.sem_used = u]
<1>1. screate(m, count) = IF count < 0 \/ m.sem_used = Sem THEN m ELSE r
  BY DEF screate, obtain_id
<1>2. CASE count < 0 \/ m.sem_used = Sem
  BY <1>1, <1>2, Stay
<1>3. CASE ~(count < 0 \/ m.sem_used = Sem)
  <2>1. m.value \in [Sem -> SHRT_MIN..SHRT_MAX] /\ m.sem_used \in SUBSET Sem
    BY HeldSems DEF Entered
  <2>2. Sem \ m.sem_used \in SUBSET Nat /\ Sem \ m.sem_used # {}
    <3>1. Sem \subseteq Nat
      BY SizeAssumption DEF Sem
    <3> QED
      BY <1>3, <2>1, <3>1
  <2>3. id \in Sem
    BY <2>2, MinNat
  <2> HIDE DEF id
  <2>4. v \in [Sem -> SHRT_MIN..SHRT_MAX] /\ u \in SUBSET Sem
    BY <2>1, <2>3
  <2> HIDE DEF v, u
  <2>5. r \in Entered(c)
    BY Zenon, <2>4, SetSems DEF Entered
  <2> HIDE DEF r
  <2> QED
    BY <1>1, <1>3, <2>5, Stay
<1> QED
  BY <1>2, <1>3

\* sdelete leaves the kernel settled.
LEMMA SdeleteSettled ==
  ASSUME NEW c \in Pid, NEW m \in Entered(c), NEW id
  PROVE  Settled(sdelete(m, id))
<1> DEFINE u == m.sem_used \ {id}
           a == [m EXCEPT !.sem_used = u]
<1>1. sdelete(m, id) = IF id \notin m.sem_used THEN m ELSE unblock_all_sem(a, id, -3)
  BY DEF sdelete, free_id
<1>2. m.value \in [Sem -> SHRT_MIN..SHRT_MAX] /\ m.sem_used \in SUBSET Sem
  BY HeldSems DEF Entered
<1>3. u \in SUBSET Sem
  BY <1>2
<1> HIDE DEF u
<1>4. a \in Entered(c)
  BY Zenon, <1>2, <1>3, SetSems DEF Entered
<1> HIDE DEF a
<1>5. Settled(m) /\ Settled(unblock_all_sem(a, id, -3))
  BY <1>4, Stay, UnblockAllSem
<1> QED
  BY <1>1, <1>5

\* sreset leaves the kernel settled; the counter it stores fits.
LEMMA SresetSettled ==
  ASSUME NEW c \in Pid, NEW m \in Entered(c), NEW id,
         NEW count \in SHRT_MIN..SHRT_MAX
  PROVE  Settled(sreset(m, id, count))
<1>1. CASE id \notin m.sem_used \/ count < 0
  BY <1>1, Stay DEF sreset
<1>2. CASE ~(id \notin m.sem_used \/ count < 0)
  <2> DEFINE a == [m EXCEPT !.value[id] = count]
  <2>1. sreset(m, id, count) = unblock_all_sem(a, id, -4)
    BY <1>2 DEF sreset
  <2>2. id \in Sem
    BY <1>2, Values DEF Entered
  <2>3. a \in Entered(c)
    BY <2>2, SetValue DEF Entered
  <2> HIDE DEF a
  <2> QED
    BY <2>1, <2>3, UnblockAllSem
<1> QED
  BY <1>1, <1>2

\* signal_death keeps the counter within SHRT_MAX and the queues proper.
LEMMA SignalDeath ==
  ASSUME NEW c, NEW g, NEW R \in SUBSET Pid, NEW m \in Held(c, g, R, {}), NEW id
  PROVE  signal_death(m, id) \in Held(c, g, R, {})
<1> DEFINE test == m.value[id] + 1
           a == [m EXCEPT !.value[id] = test]
<1>1. signal_death(m, id) =
        IF id \notin m.sem_used \/ test > SHRT_MAX THEN m
        ELSE IF test <= 0 THEN unblock_one(a, id, 0) ELSE a
  BY DEF signal_death, unblock_sem
<1>2. CASE id \notin m.sem_used \/ test > SHRT_MAX
  BY <1>1, <1>2
<1>3. CASE ~(id \notin m.sem_used \/ test > SHRT_MAX)
  <2>1. id \in Sem /\ test \in SHRT_MIN..SHRT_MAX
    <3>1. /\ id \in Sem /\ m.value[id] \in SHRT_MIN..SHRT_MAX
          /\ SHRT_MIN \in Int /\ SHRT_MAX \in Nat
      BY <1>3, Values
    <3> QED
      BY <1>3, <3>1
  <2> HIDE DEF test
  <2>2. a \in Held(c, g, R, {})
    BY <2>1, SetValue
  <2> HIDE DEF a
  <2>3. unblock_one(a, id, 0) \in Held(c, g, R, {})
    BY <2>2, UnblockOne
  <2> QED
    BY <1>1, <1>3, <2>2, <2>3
<1> QED
  BY <1>2, <1>3

\* signal leaves the kernel settled.
LEMMA SignalSettled ==
  ASSUME NEW c \in Pid, NEW m \in Entered(c), NEW id
  PROVE  Settled(signal(m, id))
<1> DEFINE a == signal_death(m, id)
<1>1. a \in Entered(c)
  BY SignalDeath DEF Entered
<1>2. signal(m, id) \in {a, scheduler(a)}
  BY DEF signal
<1> HIDE DEF a
<1> QED
  BY <1>1, <1>2, Stay, Yield

\* signaln leaves the kernel settled; the sum it stores is at most SHRT_MAX.
LEMMA SignalnSettled ==
  ASSUME NEW c \in Pid, NEW m \in Entered(c), NEW id,
         NEW count \in SHRT_MIN..SHRT_MAX
  PROVE  Settled(signaln(m, id, count))
<1> DEFINE test == m.value[id] + count
           a == [m EXCEPT !.value[id] = test]
<1>1. signaln(m, id, count) =
        IF count < 0 \/ id \notin m.sem_used \/ test > SHRT_MAX THEN m
        ELSE unblock_n_sems(a, id, count)
  BY DEF signaln
<1>2. CASE count < 0 \/ id \notin m.sem_used \/ test > SHRT_MAX
  BY <1>1, <1>2, Stay
<1>3. CASE ~(count < 0 \/ id \notin m.sem_used \/ test > SHRT_MAX)
  <2>1. id \in Sem /\ test \in SHRT_MIN..SHRT_MAX /\ count \in Int
    <3>1. /\ id \in Sem /\ m.value[id] \in SHRT_MIN..SHRT_MAX
          /\ SHRT_MIN \in Int /\ SHRT_MAX \in Nat
      BY <1>3, Values DEF Entered
    <3> QED
      BY <1>3, <3>1
  <2> HIDE DEF test
  <2>2. a \in Entered(c)
    BY Zenon, <2>1, SetValue DEF Entered
  <2> HIDE DEF a
  <2> QED
    BY <1>1, <1>3, <2>1, <2>2, UnblockNSems
<1> QED
  BY <1>2, <1>3

\* wait and try_wait leave the kernel settled; the counter does not go below
\* SHRT_MIN.
LEMMA WaitSettled ==
  ASSUME NEW c \in Pid, NEW m \in Entered(c), NEW id, c # 0
  PROVE  Settled(wait(m, id)) /\ Settled(try_wait(m, id))
<1> DEFINE test == m.value[id] - 1
           a == [m EXCEPT !.value[id] = test]
<1>1. /\ wait(m, id) =
           IF id \notin m.sem_used \/ test < SHRT_MIN THEN m
           ELSE IF test < 0 THEN block_sem(a, id) ELSE a
      /\ try_wait(m, id) =
           IF id \notin m.sem_used \/ test < SHRT_MIN \/ test < 0 THEN m ELSE a
  BY DEF wait, try_wait
<1>2. CASE id \notin m.sem_used \/ test < SHRT_MIN
  BY <1>1, <1>2, Stay
<1>3. CASE ~(id \notin m.sem_used \/ test < SHRT_MIN)
  <2>1. id \in Sem /\ test \in SHRT_MIN..SHRT_MAX
    <3>1. /\ id \in Sem /\ m.value[id] \in SHRT_MIN..SHRT_MAX
          /\ SHRT_MIN \in Int /\ SHRT_MAX \in Nat
      BY <1>3, Values DEF Entered
    <3> QED
      BY <1>3, <3>1
  <2> HIDE DEF test
  <2>2. a \in Entered(c)
    BY Zenon, <2>1, SetValue DEF Entered
  <2> HIDE DEF a
  <2>3. Settled(m) /\ Settled(a) /\ Settled(block_sem(a, id))
    BY <2>1, <2>2, Stay, BlockSem
  <2> QED
    BY <1>1, <1>3, <2>3
<1> QED
  BY <1>2, <1>3

-----------------------------------------------------------------------------
(***************************************************************************)
(* start.                                                                  *)
(***************************************************************************)

\* The initialisation of the fields of a new process keeps their types and
\* touches no queue.
LEMMA InitProcess ==
  ASSUME NEW c \in Pid, NEW g, NEW R, NEW X, NEW m \in Held(c, g, R, X),
         NEW p \in Pid, NEW prio \in 0..MAXPRIO
  PROVE  init_process(m, p, prio) \in Held(c, g, R, X)
<1> DEFINE h == init_head(init_link(m.links, p), children(p))
           st == [m.stacks EXCEPT ![p] = "allocated"]
           co == [m.cont EXCEPT ![p] = "user"]
           at == [m.alarm_time EXCEPT ![p] = 0]
           pr == [m.prio EXCEPT ![p] = prio]
           rv == [m.retvalue EXCEPT ![p] = 0]
           cw == [m.child_waited EXCEPT ![p] = 0]
           fa == [m.father EXCEPT ![p] = c]
           r == [m EXCEPT !.stacks = st, !.cont = co, !.alarm_time = at,
                          !.prio = pr, !.retvalue = rv, !.child_waited = cw,
                          !.father = fa, !.links = h]
<1>1. m.cur_pid = c
  BY HeldBasic
<1>2. h \in [next : [Node -> Node \cup {NULL}], prev : [Node -> Node \cup {NULL}]]
  <2>1. /\ m.links.next \in [Node -> Node \cup {NULL}]
        /\ m.links.prev \in [Node -> Node \cup {NULL}]
        /\ m.links \in [next : [Node -> Node \cup {NULL}],
                        prev : [Node -> Node \cup {NULL}]]
    BY HeldLinks DEF Held, Memory
  <2>2. p \in Node /\ children(p) \in Node
    BY NodeType
  <2> QED
    BY Zenon, <2>1, <2>2 DEF init_head, init_link
<1>3. init_process(m, p, prio) = r
  BY <1>1 DEF init_process, Held, Memory
<1>4. /\ m.stacks \in [Pid -> {"none", "allocated", "freed"}]
      /\ m.cont \in [Pid -> {"user", "waitpid", "cons_read", "shell_cons_read"}]
      /\ m.alarm_time \in [Pid -> Int] /\ m.prio \in [Pid -> 0..MAXPRIO]
      /\ m.retvalue \in [Pid -> Int]
      /\ m.child_waited \in [Pid -> Pid \cup {-1}]
      /\ m.father \in [Pid -> Pid]
  BY DEF Held, Memory
<1>5. /\ st \in [Pid -> {"none", "allocated", "freed"}]
      /\ co \in [Pid -> {"user", "waitpid", "cons_read", "shell_cons_read"}]
      /\ at \in [Pid -> Int] /\ pr \in [Pid -> 0..MAXPRIO]
      /\ rv \in [Pid -> Int]
      /\ cw \in [Pid -> Pid \cup {-1}]
      /\ fa \in [Pid -> Pid]
  BY <1>4, ZeroPid
<1> HIDE DEF h, st, co, at, pr, rv, cw, fa
<1>6. /\ r \in Memory /\ r.cur_pid = m.cur_pid /\ r.fault = m.fault
      /\ r.garbage_collection_list = m.garbage_collection_list
      /\ r.queue_table = m.queue_table /\ r.state = m.state
  BY Zenon, <1>2, <1>5 DEF Held, Memory
<1> HIDE DEF r
<1> QED
  BY <1>3, <1>6, Unmoved

\* The pid start takes out of the queue of free pids.
LEMMA TakeFree ==
  ASSUME NEW m \in Memory, NEW R \in SUBSET Pid, Placed(m, R),
         ~queue_empty(m.queue_table["freepid"])
  PROVE  LET free == m.queue_table["freepid"]
             new  == queue_bottom(free)
             a    == [m EXCEPT !.queue_table["freepid"] = queue_out_bot(@)]
         IN  /\ new \in Pid \ R /\ m.state[new] = "freepid"
             /\ a \in Memory /\ a.cur_pid = m.cur_pid /\ a.fault = m.fault
             /\ a.garbage_collection_list = m.garbage_collection_list
             /\ a.state = m.state /\ a.prio = m.prio
             /\ Placed(a, R \cup {new}) /\ Placed(a, R)
<1> DEFINE free == m.queue_table["freepid"]
           new  == queue_bottom(free)
           q    == queue_out_bot(free)
           a    == [m EXCEPT !.queue_table["freepid"] = q]
<1>1. /\ m.queue_table \in [list_type -> Seq(Pid)]
      /\ m.state \in [Pid -> list_type]
  BY DEF Memory
<1>2. "freepid" \in list_type
  BY DEF list_type
<1>3. free \in Seq(Pid) /\ IsInjective(free)
  BY <1>1, <1>2 DEF Placed
<1>4. /\ new \in Range(free) /\ new \in Pid /\ q \in Seq(Pid)
      /\ IsInjective(q) /\ Range(q) = Range(free) \ {new}
  <2>1. ~queue_empty(free)
    OBVIOUS
  <2> HIDE DEF free
  <2> QED
    BY <1>3, <2>1, QueueOutBot
<1>5. m.state[new] = "freepid" /\ new \notin R
  BY <1>2, <1>4 DEF Placed
<1> HIDE DEF new, q
<1>6. /\ a \in Memory /\ a.cur_pid = m.cur_pid /\ a.fault = m.fault
      /\ a.garbage_collection_list = m.garbage_collection_list
      /\ a.queue_table = [m.queue_table EXCEPT !["freepid"] = q]
      /\ a.state = m.state /\ a.prio = m.prio
  BY Zenon, <1>1, <1>2, <1>4 DEF Memory
<1> HIDE DEF a
<1>7. ASSUME NEW t \in list_type PROVE IsInjective(a.queue_table[t])
  BY <1>1, <1>2, <1>4, <1>6 DEF Placed
<1>8. ASSUME NEW t \in list_type, NEW x \in Range(a.queue_table[t])
      PROVE  a.state[x] = t /\ x \notin R \cup {new}
  <2>1. CASE t = "freepid"
    <3>1. a.queue_table[t] = q
      BY <1>1, <1>2, <1>6, <2>1
    <3>2. x \in Range(free) /\ x # new
      BY <1>4, <1>8, <3>1
    <3> QED
      BY <1>2, <1>6, <2>1, <3>2 DEF Placed
  <2>2. CASE t # "freepid"
    <3>1. a.queue_table[t] = m.queue_table[t]
      BY <1>1, <1>6, <2>2
    <3>2. m.state[x] = t /\ x \notin R
      BY <1>8, <3>1 DEF Placed
    <3> QED
      BY <1>5, <1>6, <2>2, <3>2
  <2> QED
    BY <2>1, <2>2
<1>9. ASSUME NEW x \in Pid \ R, a.state[x] # "freepid"
      PROVE  x \in Range(a.queue_table[a.state[x]])
  <2>1. m.state[x] \in list_type /\ x \in Range(m.queue_table[m.state[x]])
    BY <1>1, <1>6, <1>9 DEF Placed
  <2>2. a.queue_table[m.state[x]] = m.queue_table[m.state[x]]
    BY <1>1, <1>6, <1>9, <2>1
  <2> QED
    BY <1>6, <2>1, <2>2
<1>10. Placed(a, R \cup {new}) /\ Placed(a, R)
  BY Zenon, <1>7, <1>8, <1>9 DEF Placed
<1> QED
  BY <1>4, <1>5, <1>6, <1>10 DEF a, q, new

\* obtain_pid returns a pid and keeps the types.
LEMMA TakeFreeType ==
  ASSUME NEW m \in Memory, ~queue_empty(m.queue_table["freepid"])
  PROVE  LET a == [m EXCEPT !.queue_table["freepid"] = queue_out_bot(@)]
         IN  /\ queue_bottom(m.queue_table["freepid"]) \in Pid
             /\ a \in Memory /\ a.cur_pid = m.cur_pid /\ a.fault = m.fault
             /\ a.garbage_collection_list = m.garbage_collection_list
<1> DEFINE free == m.queue_table["freepid"]
           q    == queue_out_bot(free)
           a    == [m EXCEPT !.queue_table["freepid"] = q]
<1>1. m.queue_table \in [list_type -> Seq(Pid)] /\ "freepid" \in list_type
  BY DEF Memory, list_type
<1>2. free \in Seq(Pid) /\ ~queue_empty(free)
  BY <1>1
<1>3. q \in Seq(Pid) /\ queue_bottom(free) \in Pid
  <2> HIDE DEF free
  <2> QED
    BY <1>2 DEF queue_out_bot, queue_bottom, queue_empty
<1> HIDE DEF q
<1>4. /\ a \in Memory /\ a.cur_pid = m.cur_pid /\ a.fault = m.fault
      /\ a.garbage_collection_list = m.garbage_collection_list
  BY Zenon, <1>1, <1>3 DEF Memory
<1> QED
  BY <1>3, <1>4 DEF q

\* The end of start: the new process is actionable and a child of the caller.
LEMMA StartBody ==
  ASSUME NEW c \in Pid, NEW g, NEW R \in SUBSET Pid, NEW new \in Pid,
         NEW a \in Held(c, g, R, {new}), NEW prio \in 1..MAXPRIO
  PROVE  LET b == init_process(a, new, prio)
         IN  add_child(place(b, new, "actionable", b.prio), new, c)
               \in Held(c, g, R, {})
<1> DEFINE b == init_process(a, new, prio)
           d == place(b, new, "actionable", b.prio)
<1>1. b \in Held(c, g, R, {new})
  <2>1. prio \in 0..MAXPRIO
    BY SizeAssumption
  <2> QED
    BY <2>1, InitProcess
<1> HIDE DEF b
<1>2. b.prio \in [Pid -> Int] /\ "actionable" \in list_type
  BY <1>1, HeldKeys DEF list_type
<1>3. d \in Held(c, g, R, {})
  BY <1>1, <1>2, Place
<1> HIDE DEF d
<1>4. add_child(d, new, c) \in Held(c, g, R, {})
  BY <1>3, AddChild
<1> QED
  BY <1>4 DEF d, b

\* start leaves the kernel settled, also when it finds no memory.
LEMMA StartSettled ==
  ASSUME NEW c \in Pid, NEW m \in Entered(c), NEW prio,
         NEW alloc \in BOOLEAN
  PROVE  Settled(start(m, prio, alloc))
<1> DEFINE free == m.queue_table["freepid"]
           new  == queue_bottom(free)
           a    == [m EXCEPT !.queue_table["freepid"] = queue_out_bot(@)]
           b    == init_process(a, new, prio)
           d    == add_child(place(b, new, "actionable", b.prio), new, c)
<1>1. m.cur_pid = c /\ m.garbage_collection_list = <<>>
  BY HeldBasic DEF Entered
<1>2. start(m, prio, alloc) =
        IF prio \notin 1..MAXPRIO \/ queue_empty(free) THEN m
        ELSE IF ~alloc THEN a
        ELSE IF c # 0 /\ m.prio[c] < prio THEN scheduler(d) ELSE d
  BY <1>1 DEF start
<1>3. CASE prio \notin 1..MAXPRIO \/ queue_empty(free)
  BY <1>2, <1>3, Stay
<1>4. CASE prio \in 1..MAXPRIO /\ ~queue_empty(free)
  <2>1. m \in Memory /\ (m.fault \/ Proper(m, {c}, {}))
    BY HeldDef DEF Entered
  <2>2. /\ new \in Pid
        /\ a \in Memory /\ a.cur_pid = m.cur_pid /\ a.fault = m.fault
        /\ a.garbage_collection_list = m.garbage_collection_list
    BY <1>4, <2>1, TakeFreeType
  <2>3. ASSUME ~m.fault PROVE Proper(a, {c}, {new}) /\ Proper(a, {c}, {})
    <3>1. Placed(m, {c}) /\ m.state[0] = "actionable" /\ m.state[c] = "actionable"
      BY <2>1, <2>3 DEF Proper, Placed
    <3>2. /\ new \in Pid \ {c} /\ a.state = m.state
          /\ Placed(a, {c} \cup {new}) /\ Placed(a, {c})
      BY <1>4, <2>1, <3>1, TakeFree
    <3> HIDE DEF a, new
    <3>3. Placed(a, {c} \cup {})
      BY <3>2 DEF Placed
    <3> QED
      BY <3>1, <3>2, <3>3 DEF Proper
  <2> HIDE DEF a, new
  <2>4. a.fault \/ (Proper(a, {c}, {new}) /\ Proper(a, {c}, {}))
    BY <2>2, <2>3
  <2>5. a \in Held(c, <<>>, {c}, {new}) /\ a \in Held(c, <<>>, {c}, {})
    BY <1>1, <2>2, <2>4, HeldDef
  <2>6. d \in Held(c, <<>>, {c}, {})
    BY Zenon, <1>4, <2>2, <2>5, StartBody
  <2> HIDE DEF d
  <2>7. Settled(a) /\ Settled(d) /\ Settled(scheduler(d))
    BY <2>5, <2>6, Stay, Yield DEF Entered
  <2> QED
    BY <1>2, <1>4, <2>7
<1> QED
  BY <1>3, <1>4

-----------------------------------------------------------------------------
(***************************************************************************)
(* Calls that block: the caller leaves the processor, as in wait_clock.    *)
(***************************************************************************)

\* The conversion of a clock value to int is an integer.
LEMMA ToIntType ==
  ASSUME NEW t \in 0..(CLOCK_MOD - 1)
  PROVE  ToInt(t) \in Int
BY SizeAssumption DEF ToInt

\* The caller leaves the processor for the queue s.
LEMMA Block ==
  ASSUME NEW c \in Pid, NEW a \in Held(c, <<>>, {c}, {}), c # 0,
         NEW s \in list_type, NEW key \in [Pid -> Int]
  PROVE  Settled(scheduler(place(a, c, s, key)))
<1> DEFINE b == place(a, c, s, key)
<1>1. a \in Held(c, <<>>, {}, {c})
  BY Zenon, Release
<1>2. b \in Held(c, <<>>, {}, {})
  BY <1>1, Place
<1> HIDE DEF b
<1>3. Range(<<>>) \subseteq UserPid
  BY DEF Range
<1>4. Settled(scheduler(b))
  BY <1>2, <1>3, Scheduler
<1> QED
  BY <1>4 DEF b

\* wait_clock leaves the kernel settled.
LEMMA WaitClockSettled ==
  ASSUME NEW c \in Pid, NEW m \in Entered(c), c # 0,
         NEW clock \in 0..(CLOCK_MOD - 1)
  PROVE  Settled(wait_clock(m, clock))
<1> DEFINE at == [m.alarm_time EXCEPT ![c] = ToInt(clock)]
           a == [m EXCEPT !.alarm_time = at]
<1>1. m \in Held(c, <<>>, {c}, {}) /\ m.cur_pid = c
  BY HeldBasic DEF Entered
<1>2. wait_clock(m, clock) =
        IF clock > m.clock_ticks
        THEN scheduler(place(a, c, "asleep", a.alarm_time)) ELSE m
  BY <1>1 DEF wait_clock
<1>3. at \in [Pid -> Int]
  <2>1. m.alarm_time \in [Pid -> Int] /\ ToInt(clock) \in Int
    BY <1>1, HeldTable, ToIntType
  <2> QED
    BY <2>1
<1> HIDE DEF at
<1>4. a \in Held(c, <<>>, {c}, {}) /\ a.alarm_time = at
  BY <1>1, <1>3, SetAlarm
<1> HIDE DEF a
<1>5. "asleep" \in list_type
  BY DEF list_type
<1>6. Settled(scheduler(place(a, c, "asleep", a.alarm_time)))
  BY <1>3, <1>4, <1>5, Block
<1> QED
  BY <1>2, <1>6, Stay

-----------------------------------------------------------------------------
(***************************************************************************)
(* chprio and waitpid.                                                     *)
(***************************************************************************)

\* chprio leaves the kernel settled: the process goes back to the queue it was
\* in, at its new place.
LEMMA ChprioSettled ==
  ASSUME NEW c \in Pid, NEW m \in Entered(c), ~m.fault, NEW pid \in Pid,
         NEW newprio
  PROVE  Settled(chprio(m, pid, newprio))
<1> DEFINE a == [m EXCEPT !.prio[pid] = newprio]
           d == unchain(a, pid)
           e == place(d, pid, m.state[pid], a.prio)
           b == IF pid = c THEN a ELSE e
<1>1. m \in Held(c, <<>>, {c}, {}) /\ m.cur_pid = c
  BY HeldBasic DEF Entered
<1>2. \/ chprio(m, pid, newprio) = m
      \/ newprio \in 1..MAXPRIO /\ chprio(m, pid, newprio) \in {b, scheduler(b)}
  BY <1>1 DEF chprio
<1>3. CASE chprio(m, pid, newprio) = m
  BY <1>3, Stay
<1>4. CASE newprio \in 1..MAXPRIO /\ chprio(m, pid, newprio) \in {b, scheduler(b)}
  <2>1. newprio \in 0..MAXPRIO
    BY <1>4, SizeAssumption
  <2>2. /\ a \in Memory /\ a.cur_pid = m.cur_pid /\ a.fault = m.fault
        /\ a.garbage_collection_list = m.garbage_collection_list
        /\ a.queue_table = m.queue_table /\ a.state = m.state
    BY Zenon, <1>1, <2>1 DEF Held, Memory
  <2> HIDE DEF a
  <2>3. a \in Held(c, <<>>, {c}, {})
    BY <1>1, <2>2, Unmoved
  <2>4. d \in Held(c, <<>>, {c}, {pid})
    BY <2>3, Unchain
  <2> HIDE DEF d
  <2>5. a.prio \in [Pid -> Int]
    BY <2>3, HeldKeys
  <2>6. m.state[pid] \in list_type /\ m.state[0] = "actionable"
    BY <1>1, HeldQueues, ZeroActionable
  <2>7. e \in Held(c, <<>>, {c}, {})
    BY <2>4, <2>5, <2>6, Place
  <2> HIDE DEF e
  <2>8. b \in Entered(c)
    BY <2>3, <2>7 DEF Entered
  <2> HIDE DEF b
  <2> QED
    BY <1>4, <2>8, Stay, Yield
<1> QED
  BY <1>2, <1>3, <1>4

\* The end of waitpid gives the pid of the dead child back.
LEMMA WaitpidEndSettled ==
  ASSUME NEW c \in Pid, NEW m \in Entered(c), ~m.fault
  PROVE  Settled(waitpid_end(m))
<1> DEFINE ch == m.child_waited[c]
           d == unchain(m, ch)
           e == del_child(d, ch)
           a == free_pid(e, ch)
           r == [a EXCEPT !.child_waited[c] = 0, !.cont[c] = "user"]
<1>1. m \in Held(c, <<>>, {c}, {}) /\ m.cur_pid = c
  BY HeldBasic DEF Entered
<1>2. waitpid_end(m) = IF ch \notin Range(m.queue_table["zombie"]) THEN panic(m) ELSE r
  BY <1>1 DEF waitpid_end
<1>3. CASE ch \notin Range(m.queue_table["zombie"])
  <2>1. panic(m) \in Entered(c)
    BY <1>1, Panic DEF Entered
  <2> QED
    BY <1>2, <1>3, <2>1, Stay
<1>4. CASE ch \in Range(m.queue_table["zombie"])
  <2>1. "zombie" \in list_type /\ "zombie" # "actionable"
    BY DEF list_type
  <2>2. m.queue_table["zombie"] \in Seq(Pid)
    BY <1>1, <2>1, HeldQueues
  <2>3. ch \in Pid
    BY <1>4, <2>2 DEF Range
  <2>4. ch # 0
    <3>1. m.state[ch] = "zombie"
      BY <1>1, <1>4, <2>1, HeldDef DEF Proper, Placed
    <3>2. m.state[0] = "actionable"
      BY <1>1, ZeroActionable
    <3> QED
      BY <2>1, <3>1, <3>2
  <2> HIDE DEF ch
  <2>5. d \in Held(c, <<>>, {c}, {ch})
    BY <1>1, <2>3, Unchain
  <2> HIDE DEF d
  <2>6. e \in Held(c, <<>>, {c}, {ch})
    BY <2>3, <2>5, DelChild
  <2> HIDE DEF e
  <2>7. a \in Held(c, <<>>, {c}, {})
    BY <2>3, <2>4, <2>6, FreePid
  <2> HIDE DEF a
  <2>8. /\ r \in Memory /\ r.cur_pid = a.cur_pid /\ r.fault = a.fault
        /\ r.garbage_collection_list = a.garbage_collection_list
        /\ r.queue_table = a.queue_table /\ r.state = a.state
    BY Zenon, <2>7, ZeroPid DEF Held, Memory
  <2> HIDE DEF r
  <2>9. r \in Entered(c)
    BY <2>7, <2>8, Unmoved DEF Entered
  <2> QED
    BY <1>2, <1>4, <2>9, Stay
<1> QED
  BY <1>3, <1>4

\* A father that has to wait is in the waiting_child queue and another process
\* runs.
LEMMA WaitpidBlockSettled ==
  ASSUME NEW c \in Pid, NEW m \in Entered(c), c # 0
  PROVE  Settled(waitpid_block(m))
<1> DEFINE a == [m EXCEPT !.cont[c] = "waitpid"]
<1>1. m \in Held(c, <<>>, {c}, {}) /\ m.cur_pid = c
  BY HeldBasic DEF Entered
<1>2. waitpid_block(m) = scheduler(place(a, c, "waiting_child", pid_key))
  BY <1>1 DEF waitpid_block
<1>3. /\ a \in Memory /\ a.cur_pid = m.cur_pid /\ a.fault = m.fault
      /\ a.garbage_collection_list = m.garbage_collection_list
      /\ a.queue_table = m.queue_table /\ a.state = m.state
  BY Zenon, <1>1 DEF Held, Memory
<1> HIDE DEF a
<1>4. a \in Held(c, <<>>, {c}, {})
  BY <1>1, <1>3, Unmoved
<1>5. "waiting_child" \in list_type /\ pid_key \in [Pid -> Int]
  BY <1>1, HeldKeys DEF list_type
<1> QED
  BY <1>2, <1>4, <1>5, Block

\* waitpid leaves the kernel settled in each of its cases.
LEMMA WaitpidSettled ==
  ASSUME NEW c \in Pid, NEW m \in Entered(c), c # 0, ~m.fault, NEW pid
  PROVE  Settled(waitpid(m, pid))
<1> DEFINE head == children(c)
           bwd  == Walk(m.links.prev, head, Pid)
           I    == {j \in 1..Len(bwd.met) : m.state[bwd.met[j]] = "zombie"}
           i    == IF I # {} THEN Min(I) ELSE 0
           x    == IF pid = -1 /\ i # 0 THEN bwd.met[i] ELSE pid
           a    == [m EXCEPT !.child_waited[c] = x]
<1>1. m \in Held(c, <<>>, {c}, {}) /\ m.cur_pid = c
  BY HeldBasic DEF Entered
<1>2. \/ waitpid(m, pid) \in {m, panic(m)}
      \/ /\ pid \in UserPid \cup {-1}
         /\ waitpid(m, pid) \in {waitpid_block(a), waitpid_end(a)}
  BY Zenon, <1>1 DEF waitpid, FirstWhere
<1>3. CASE waitpid(m, pid) \in {m, panic(m)}
  <2>1. panic(m) \in Entered(c)
    BY <1>1, Panic DEF Entered
  <2> QED
    BY <1>3, <2>1, Stay
<1>4. CASE /\ pid \in UserPid \cup {-1}
           /\ waitpid(m, pid) \in {waitpid_block(a), waitpid_end(a)}
  <2>1. bwd.met \in Seq(Pid)
    BY WalkMet
  <2>2. I \in SUBSET Nat
    OBVIOUS
  <2>3. I # {} => Min(I) \in I
    <3> HIDE DEF I
    <3> QED
      BY <2>2, MinNat
  <2>4. i # 0 => i \in 1..Len(bwd.met)
    BY Zenon, <2>3
  <2> HIDE DEF i, bwd
  <2>5. i # 0 => bwd.met[i] \in Pid
    BY <2>1, <2>4
  <2>6. UserPid \subseteq Pid
    BY SizeAssumption DEF UserPid, Pid
  <2>7. x \in Pid \cup {-1}
    BY <1>4, <2>5, <2>6
  <2> HIDE DEF x
  <2>8. /\ a \in Memory /\ a.cur_pid = m.cur_pid /\ a.fault = m.fault
        /\ a.garbage_collection_list = m.garbage_collection_list
        /\ a.queue_table = m.queue_table /\ a.state = m.state
    BY Zenon, <1>1, <2>7 DEF Held, Memory
  <2> HIDE DEF a
  <2>9. a \in Entered(c) /\ ~a.fault
    BY <1>1, <2>8, Unmoved DEF Entered
  <2> QED
    BY <1>4, <2>9, WaitpidBlockSettled, WaitpidEndSettled
<1> QED
  BY Zenon, <1>2, <1>3, <1>4

=============================================================================
