-------------------------------- MODULE Pbuf --------------------------------
(***************************************************************************)
(* The packet buffers of the network stack, src/kernel/lwip/src/core/      *)
(* pbuf.c, on the three stores they come from: the heap of mem.c           *)
(* (LwipMem), the pool of pbuf_init and the MEMP_PBUF pool of memp.c.      *)
(*                                                                         *)
(* A pbuf is known by its address: a RAM pbuf by its offset in ram[], the  *)
(* pool's and memp's by the numbers that follow.  Every C function is a    *)
(* function from the memory to the memory, or to a record of the memory    *)
(* and the pointer it returns.  A failed LWIP_ASSERT (which stops the      *)
(* kernel), the use of a freed pbuf and of a NULL pointer set halted.      *)
(***************************************************************************)
EXTENDS LwipMem, Sequences, SequencesExt

CONSTANTS
  SIZEOF_PBUF,           \* room the struct takes in front of the data
  PBUF_POOL_BUFSIZE,
  PBUF_TRANSPORT_HLEN, PBUF_IP_HLEN, PBUF_LINK_HLEN,
  U16_MOD,               \* tot_len and len are u16_t
  Nets                   \* the memories: MEM_SIZE, the sizes of both pools,
                         \* what their users ask for (lengths, flags, layers,
                         \* headers), whether they queue packets and how
                         \* many pointers they keep at a time

ASSUME PbufAssumption ==
  /\ SIZEOF_PBUF \in Nat /\ PBUF_POOL_BUFSIZE \in Nat \ {0}
  /\ \A l \in {PBUF_TRANSPORT_HLEN, PBUF_IP_HLEN, PBUF_LINK_HLEN} : l \in Nat
  /\ PBUF_TRANSPORT_HLEN + PBUF_IP_HLEN + PBUF_LINK_HLEN <= PBUF_POOL_BUFSIZE
  /\ \A n \in Nets : n.MEM_SIZE > SIZEOF_STRUCT_MEM

VARIABLES
  s,       \* the memory: mem, pool, memp, pb (the pbufs in being), wrapped
           \* (a block is smaller than its pbuf) and halted
  net,     \* which memory it is
  held,    \* how many pointers to each pbuf the users of pbuf.c hold
  queue,   \* the first pbuf of a packet queue, as in an ARP table entry
  queued   \* the packets put on that queue, oldest first

vars == <<s, net, held, queue, queued>>

PoolIds(n) == (n.MEM_SIZE + 1)..(n.MEM_SIZE + n.POOL)
MempIds(n) == (n.MEM_SIZE + n.POOL + 1)..(n.MEM_SIZE + n.POOL + n.MEMP)
Ids(n) == 1..(n.MEM_SIZE + n.POOL + n.MEMP)

pbuf_init(n) ==
  [mem |-> mem_init(n.MEM_SIZE),
   pool |-> [i \in 1..n.POOL |-> n.MEM_SIZE + i],
   memp |-> [i \in 1..n.MEMP |-> n.MEM_SIZE + n.POOL + i],
   pb |-> [p \in {} |-> NULL],
   wrapped |-> FALSE,
   halted |-> FALSE]

halt(st) == [st EXCEPT !.halted = TRUE]

----------------------------------------------------------------------------
(* Chains *)

live(st, p) == p \in DOMAIN st.pb

RECURSIVE chain(_, _)
chain(st, p) == IF ~live(st, p) THEN <<>> ELSE <<p>> \o chain(st, st.pb[p].next)

pbuf_clen(st, p) == Len(chain(st, p))

new_pbuf(st, p, flags, length, tot_len, room) ==
  [st EXCEPT !.pb = with(@, p,
     [next |-> NULL, len |-> length, tot_len |-> tot_len, flags |-> flags,
      ref |-> 1, payload |-> room])]

pbuf_ref(st, p) == [st EXCEPT !.pb[p].ref = @ + 1]

\* Where a pbuf goes back to when nobody points to it.
release(st, p) ==
  CASE st.pb[p].flags = "POOL" ->
         [st EXCEPT !.pool = <<p>> \o @, !.pb = without(@, p)]
    [] st.pb[p].flags \in {"ROM", "REF"} ->
         [st EXCEPT !.memp = <<p>> \o @, !.pb = without(@, p)]
    [] OTHER ->
         [st EXCEPT !.mem = lmem_free(@, p), !.pb = without(@, p)]

RECURSIVE pbuf_free(_, _)
pbuf_free(st, p) ==
  CASE p = NULL -> st
    [] ~live(st, p) -> halt(st)
    [] live(st, p) /\ st.pb[p].ref > 1 -> [st EXCEPT !.pb[p].ref = @ - 1]
    [] OTHER -> pbuf_free(release(st, p), st.pb[p].next)

----------------------------------------------------------------------------
(* pbuf_alloc *)

\* The room left in front of the data for the headers of the layers below.
offset(l) ==
  CASE l = "TRANSPORT" -> PBUF_TRANSPORT_HLEN + PBUF_IP_HLEN + PBUF_LINK_HLEN
    [] l = "IP" -> PBUF_IP_HLEN + PBUF_LINK_HLEN
    [] l = "LINK" -> PBUF_LINK_HLEN
    [] OTHER -> 0

least(a, b) == IF a < b THEN a ELSE b

\* The first pbuf of the pool, with the room and the part of rem_len it takes.
pbuf_pool_alloc(st, rem_len, room) ==
  new_pbuf([st EXCEPT !.pool = Tail(@)], Head(st.pool), "POOL",
           least(rem_len, PBUF_POOL_BUFSIZE - room), rem_len, room)

\* The rest of a pool chain whose last pbuf is r: the pbufs the pool has.
RECURSIVE pool_tail(_, _)
pool_tail(st, r) ==
  IF st.pb[r].tot_len = st.pb[r].len \/ st.pool = <<>> THEN st
  ELSE pool_tail([pbuf_pool_alloc(st, st.pb[r].tot_len - st.pb[r].len, 0)
                    EXCEPT !.pb[r].next = Head(st.pool)], Head(st.pool))

complete(st, p) ==
  LET r == Last(chain(st, p)) IN st.pb[r].tot_len = st.pb[r].len

\* Too few pbufs in the pool: the ones taken are given back.
whole_or_nothing(st, p) ==
  IF complete(st, p) THEN [s |-> st, p |-> p]
  ELSE [s |-> pbuf_free(st, p), p |-> NULL]

alloc_pool(st, length, room) ==
  IF st.pool = <<>> THEN [s |-> st, p |-> NULL]
  ELSE whole_or_nothing(
         pool_tail(pbuf_pool_alloc(st, length, room), Head(st.pool)),
         Head(st.pool))

\* mem_size_t, the type of mem_malloc's argument, is 16 bits wide.  When the
\* sum exceeds it, the block is smaller than the pbuf that is set up in it.
set_up_ram(st, r, size, length, room) ==
  IF r.p = NULL THEN [s |-> st, p |-> NULL]
  ELSE [s |-> new_pbuf([st EXCEPT !.mem = r.m, !.wrapped = size >= U16_MOD],
                       r.p, "RAM", length, length, room),
        p |-> r.p]

alloc_ram(st, size, length, room) ==
  set_up_ram(st, mem_malloc(st.mem, size % U16_MOD), size, length, room)

alloc_memp(st, length, flag) ==
  IF st.memp = <<>> THEN [s |-> st, p |-> NULL]
  ELSE [s |-> new_pbuf([st EXCEPT !.memp = Tail(@)], Head(st.memp), flag,
                       length, length, 0),
        p |-> Head(st.memp)]

pbuf_alloc(st, l, length, flag) ==
  CASE flag = "POOL" -> alloc_pool(st, length, offset(l))
    [] flag = "RAM" ->
         alloc_ram(st, SIZEOF_PBUF + offset(l) + length, length, offset(l))
    [] OTHER -> alloc_memp(st, length, flag)

----------------------------------------------------------------------------
(* Lengths and headers *)

\* q becomes the last pbuf of its chain, rem_len bytes long.
cut_at(st, q, rem_len) ==
  pbuf_free(
    [st EXCEPT !.mem = IF st.pb[q].flags = "RAM" /\ rem_len # st.pb[q].len
                       THEN mem_realloc(@, q, SIZEOF_PBUF + st.pb[q].payload + rem_len)
                       ELSE @,
               !.pb[q].len = rem_len, !.pb[q].tot_len = rem_len,
               !.pb[q].next = NULL],
    st.pb[q].next)

RECURSIVE shrink(_, _, _, _)
shrink(st, q, rem_len, grow) ==
  CASE ~live(st, q) -> halt(st)
    [] live(st, q) /\ rem_len > st.pb[q].len ->
         shrink([st EXCEPT !.pb[q].tot_len = @ + grow], st.pb[q].next,
                rem_len - st.pb[q].len, grow)
    [] OTHER -> cut_at(st, q, rem_len)

pbuf_realloc(st, p, new_len) ==
  IF new_len >= st.pb[p].tot_len THEN st
  ELSE shrink(st, p, new_len, new_len - st.pb[p].tot_len)

\* A positive increment reveals room in front of the data, a negative one
\* hides a header.  Nothing is changed when it fails.
pbuf_header(st, p, inc) ==
  LET external == st.pb[p].flags \in {"ROM", "REF"}
  IN  IF \/ external /\ inc >= 0
         \/ ~external /\ st.pb[p].payload < inc
      THEN st
      ELSE [st EXCEPT !.pb[p].payload = IF external THEN 0 ELSE @ - inc,
                      !.pb[p].len = (@ + inc) % U16_MOD,
                      !.pb[p].tot_len = (@ + inc) % U16_MOD]

----------------------------------------------------------------------------
(* Chaining *)

\* Every pbuf of h's chain counts t's bytes too, and the last points to t.
linked(st, ps, t) ==
  [st EXCEPT !.pb =
     [p \in DOMAIN @ |->
        IF p \notin Range(ps) THEN @[p]
        ELSE [@[p] EXCEPT !.tot_len = (@ + st.pb[t].tot_len) % U16_MOD,
                          !.next = IF p = Last(ps) THEN t ELSE @]]]

pbuf_cat(st, h, t) ==
  IF complete(st, h) THEN linked(st, chain(st, h), t) ELSE halt(st)

pbuf_chain_unref(st, h, t) == pbuf_cat(st, h, t)

pbuf_chain(st, h, t) == pbuf_ref(pbuf_cat(st, h, t), t)

\* The pointer returned is the rest of the chain, NULL when it was freed.
dechained(st, p, q) ==
  [s |-> pbuf_free([st EXCEPT !.pb[p].next = NULL,
                              !.pb[p].tot_len = st.pb[p].len], q),
   p |-> IF st.pb[q].ref > 1 THEN q ELSE NULL]

pbuf_dechain(st, p) ==
  LET q == st.pb[p].next
  IN  CASE q = NULL /\ st.pb[p].tot_len = st.pb[p].len -> [s |-> st, p |-> NULL]
        [] q # NULL /\ st.pb[q].tot_len = st.pb[p].tot_len - st.pb[p].len ->
             dechained(st, p, q)
        [] OTHER -> [s |-> halt(st), p |-> NULL]

----------------------------------------------------------------------------
(* Packet queues: chains of chains, where a packet ends at len = tot_len *)

pbuf_queue_in_front(st, p, n) ==
  pbuf_ref([st EXCEPT !.pb[p].next = n,
                      !.pb[Last(chain(st, n))].next = st.pb[p].next], n)

pbuf_queue(st, p, n) ==
  IF p = NULL \/ n = NULL THEN halt(st)
  ELSE pbuf_ref([st EXCEPT !.pb[Last(chain(st, p))].next = n], n)

RECURSIVE packet_end(_, _)
packet_end(st, p) ==
  IF ~live(st, p) \/ st.pb[p].tot_len = st.pb[p].len THEN p
  ELSE IF st.pb[p].len > st.pb[p].tot_len THEN NULL
  ELSE packet_end(st, st.pb[p].next)

\* The pointer returned is the next packet of the queue.
pbuf_dequeue(st, p) ==
  LET e == packet_end(st, p)
  IN  IF ~live(st, e) THEN [s |-> halt(st), p |-> NULL]
      ELSE [s |-> [st EXCEPT !.pb[e].next = NULL], p |-> st.pb[e].next]

----------------------------------------------------------------------------
(* pbuf_take: a packet's PBUF_REF pbufs are replaced by copies *)

\* A pool pbuf when p fits one, or else a RAM pbuf.
replacement(st, p) ==
  LET pooled == pbuf_alloc(st, "RAW", st.pb[p].len, "POOL")
  IN  IF st.pb[p].len <= PBUF_POOL_BUFSIZE /\ pooled.p # NULL THEN pooled
      ELSE pbuf_alloc(st, "RAW", st.pb[p].len, "RAM")

\* r.p takes p's place in the chain, behind prev, and p loses one reference.
replace(r, prev, p) ==
  pbuf_free(
    [r.s EXCEPT !.pb =
       [x \in DOMAIN @ |->
          CASE x = r.p -> [@[x] EXCEPT !.next = r.s.pb[p].next,
                                       !.len = r.s.pb[p].len,
                                       !.tot_len = r.s.pb[p].tot_len]
            [] x = p -> [@[x] EXCEPT !.next = NULL]
            [] x = prev -> [@[x] EXCEPT !.next = r.p]
            [] OTHER -> @[x]]],
    p)

RECURSIVE take_from(_, _, _, _), take_on(_, _, _, _)
take_from(st, head, prev, p) ==
  CASE p = NULL -> [s |-> st, p |-> head]
    [] p # NULL /\ st.pb[p].flags # "REF" -> take_from(st, head, p, st.pb[p].next)
    [] OTHER -> take_on(replacement(st, p), head, prev, p)

take_on(r, head, prev, p) ==
  IF r.p = NULL THEN [s |-> pbuf_free(r.s, head), p |-> NULL]
  ELSE take_from(replace(r, prev, p), IF prev = NULL THEN r.p ELSE head,
                 r.p, r.s.pb[p].next)

pbuf_take(st, p) == take_from(st, p, NULL, p)

----------------------------------------------------------------------------
(* The users of pbuf.c: the stack, the drivers and the applications.  A    *)
(* user passes only pointers it holds, and changes the lengths of a packet *)
(* only when the rest of its chain belongs to that packet alone.           *)

Mine == {p \in DOMAIN held : held[p] > 0}
Heads == {p \in Mine : \A r \in DOMAIN s.pb : s.pb[r].next # p}
Packet(p) == Range(chain(s, p))
OwnTail(p) == \A r \in Packet(p) \ {p} : s.pb[r].ref = 1
Unqueued(p) == p \notin Packet(queue)

gain(p) == IF p = NULL THEN held ELSE [held EXCEPT ![p] = @ + 1]
lose(p) == [held EXCEPT ![p] = @ - 1]
Spare == SumFunction(held) < net.limit

\* The users continue with memory st and pointers h.
Become(st, h) ==
  /\ s' = st /\ held' = h
  /\ UNCHANGED <<net, queue, queued>>

Alloc(l, length, flag) ==
  /\ Spare
  /\ \E r \in {pbuf_alloc(s, l, length, flag)} : Become(r.s, gain(r.p))

Free(p) == Become(pbuf_free(s, p), lose(p))

Ref(p) == Spare /\ Become(pbuf_ref(s, p), gain(p))

Realloc(p, new_len) ==
  /\ p \in Heads /\ OwnTail(p) /\ Unqueued(p)
  /\ Become(pbuf_realloc(s, p, new_len), held)

\* Callers check that the header they hide is there.
Header(p, inc) ==
  /\ p \in Heads /\ OwnTail(p) /\ Unqueued(p)
  /\ s.pb[p].len + inc >= 0
  /\ Become(pbuf_header(s, p, inc), held)

Joinable(h, t) ==
  /\ h \in Heads /\ OwnTail(h) /\ Unqueued(h) /\ Unqueued(t)
  /\ Packet(h) \intersect Packet(t) = {}

Cat(h, t) == Joinable(h, t) /\ Become(pbuf_cat(s, h, t), lose(t))

Chain(h, t) == Joinable(h, t) /\ Become(pbuf_chain(s, h, t), held)

\* The rest of the chain is still held by whoever held it before.
Dechain(p) ==
  /\ p \in Heads /\ Unqueued(p)
  /\ Become(pbuf_dechain(s, p).s, held)

\* p = pbuf_take(p): a PBUF_REF pbuf that others use may not have successors.
Take(p) ==
  /\ p \in Heads /\ Unqueued(p)
  /\ \A r \in Packet(p) : s.pb[r].flags = "REF" /\ s.pb[r].next # NULL
                             => s.pb[r].ref = 1
  /\ \E r \in {pbuf_take(s, p)} :
       Become(r.s, IF r.p = NULL THEN lose(p)
                   ELSE IF r.p = p THEN held
                   ELSE [lose(p) EXCEPT ![r.p] = @ + 1])

\* A packet that does not end with empty pbufs: pbuf_dequeue would take them
\* for the next packet of the queue.
Queueable(p) ==
  /\ p \in Heads /\ OwnTail(p) /\ Unqueued(p)
  /\ \A r \in Packet(p) \ {p} : s.pb[r].tot_len > 0

\* A packet starts a queue: the user's pointer becomes the queue's.
StartQueue(p) ==
  /\ net.queueing /\ queue = NULL /\ Queueable(p)
  /\ queue' = p /\ queued' = <<p>> /\ held' = lose(p)
  /\ UNCHANGED <<s, net>>

Enqueue(n) ==
  /\ queue # NULL /\ Queueable(n) /\ Spare
  /\ s' = pbuf_queue(s, queue, n) /\ queued' = Append(queued, n)
  /\ UNCHANGED <<net, held, queue>>

Dequeue ==
  /\ queue # NULL
  /\ \E r \in {pbuf_dequeue(s, queue)} : s' = r.s /\ queue' = r.p
  /\ queued' = Tail(queued) /\ held' = gain(queue)
  /\ UNCHANGED net

\* Freed as etharp_tmr frees a queue.  A packet that its sender still holds
\* would keep the packets behind it.
FreeQueue ==
  /\ queue # NULL /\ \A p \in Packet(queue) : s.pb[p].ref = 1
  /\ s' = pbuf_free(s, queue) /\ queue' = NULL /\ queued' = <<>>
  /\ UNCHANGED <<net, held>>

PbufInit ==
  /\ net \in Nets
  /\ s = pbuf_init(net)
  /\ held = [p \in Ids(net) |-> 0]
  /\ queue = NULL /\ queued = <<>>

\* What is written into a pbuf that is larger than its block is not modelled:
\* the run of the users ends there.
PbufNext ==
  /\ ~s.halted /\ ~s.wrapped
  /\ \/ \E l \in net.layers, n \in net.lengths, f \in net.flags : Alloc(l, n, f)
     \/ \E p \in Mine : \/ Free(p) \/ Ref(p) \/ Dechain(p) \/ Take(p)
                        \/ StartQueue(p) \/ Enqueue(p)
                        \/ \E n \in net.lengths : Realloc(p, n)
                        \/ \E inc \in net.headers : Header(p, inc)
                        \/ \E t \in Mine : Cat(p, t) \/ Chain(p, t)
     \/ Dequeue
     \/ FreeQueue

PbufSpec == PbufInit /\ [][PbufNext]_vars

----------------------------------------------------------------------------
(* Properties *)

\* The type of the pbufs; lengths are 16 bits wide.
PbTypeOK ==
  /\ DOMAIN s.pb \subseteq Ids(net)
  /\ \A p \in DOMAIN s.pb :
       /\ s.pb[p].next \in Ids(net) \union {NULL}
       /\ s.pb[p].len \in 0..(U16_MOD - 1) /\ s.pb[p].tot_len \in 0..(U16_MOD - 1)
       /\ s.pb[p].ref \in Nat /\ s.pb[p].payload \in Nat
  /\ queue \in Ids(net) \union {NULL}

\* No assertion of pbuf.c and mem.c fails, no freed pbuf is used and no NULL
\* pointer is followed.
NeverHalts == ~s.halted /\ ~s.mem.halted

\* pbuf.h: "the reference count always equals the number of pointers that
\* refer to this pbuf": those of the users, of the queue and of other pbufs.
\* Nothing is lost and nothing is handed out twice: a pbuf is either in use
\* or in the store it came from, and the used blocks of the heap are the RAM
\* pbufs in being.
CountedPointers ==
  /\ PbTypeOK
  /\ \A p \in DOMAIN s.pb :
       s.pb[p].ref = held[p] + (IF queue = p THEN 1 ELSE 0)
                       + Cardinality({r \in DOMAIN s.pb : s.pb[r].next = p})
  /\ Len(s.pool) = Cardinality(PoolIds(net) \ DOMAIN s.pb)
  /\ Range(s.pool) = PoolIds(net) \ DOMAIN s.pb
  /\ Len(s.memp) = Cardinality(MempIds(net) \ DOMAIN s.pb)
  /\ Range(s.memp) = MempIds(net) \ DOMAIN s.pb
  /\ {b + SIZEOF_STRUCT_MEM : b \in {b \in Blocks(s.mem) : s.mem.used[b]}}
       = {p \in DOMAIN s.pb : p <= net.MEM_SIZE}

\* The packets of a queue as pbuf_dequeue finds them, by the lengths alone.
RECURSIVE packets(_, _)
packets(st, p) ==
  IF p = NULL THEN <<>> ELSE <<p>> \o packets(st, st.pb[packet_end(st, p)].next)

\* pbuf.h: "p->tot_len == p->len + (p->next? p->next->tot_len: 0)", except
\* at the end of a queued packet; so pbuf_dequeue hands the queued packets out
\* whole and in order.
TotalLengths ==
  /\ packets(s, queue) = queued
  /\ \A p \in DOMAIN s.pb :
       LET q == s.pb[p].next
       IN  \/ q # NULL /\ q \notin Range(queued)
                /\ s.pb[p].tot_len = s.pb[p].len + s.pb[q].tot_len
           \/ (q = NULL \/ q \in Range(queued)) /\ s.pb[p].tot_len = s.pb[p].len

\* The headers of the heap's blocks form one list from the start of ram[] to
\* its end, each block has room for its header, no two free blocks touch, and
\* the data of a pool pbuf stays inside the memory it was given.  So does the
\* data of a RAM pbuf, unless, and only unless, the size asked for did not fit
\* mem_size_t.
Tiled ==
  LET m == s.mem
      end(p) == s.pb[p].payload + s.pb[p].len
  IN  /\ 0 \in Blocks(m)
      /\ \A b \in Blocks(m) :
           /\ m.next[b] \in DOMAIN m.next /\ m.next[b] - b >= SIZEOF_STRUCT_MEM
           /\ \A c \in Blocks(m) : c <= b \/ c >= m.next[b]
           /\ m.next[b] # m.ram_end =>
                m.prev[m.next[b]] = b /\ (m.used[b] \/ m.used[m.next[b]])
      /\ m.lfree \in Blocks(m) /\ ~m.used[m.lfree]
      /\ \A p \in DOMAIN s.pb : s.pb[p].flags = "POOL" => end(p) <= PBUF_POOL_BUFSIZE
      /\ s.wrapped <=>
           \E p \in DOMAIN s.pb :
             /\ s.pb[p].flags = "RAM"
             /\ p + SIZEOF_PBUF + end(p) > m.next[p - SIZEOF_STRUCT_MEM]

=============================================================================
