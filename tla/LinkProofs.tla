----------------------------- MODULE LinkProofs -----------------------------
(***************************************************************************)
(* Proofs about module Link: the ARP cache and the DHCP client of lwIP,    *)
(* for every network, table size, lease and width of the timers.           *)
(***************************************************************************)
EXTENDS Link, TLAPS, WellFoundedInduction

-----------------------------------------------------------------------------
(***************************************************************************)
(* Arithmetic of the timers.                                               *)
(***************************************************************************)

\* A remainder is smaller than what it is the remainder of.
LEMMA Remainder ==
  ASSUME NEW a \in Int, NEW n \in Nat \ {0}
  PROVE  a % n \in 0..(n - 1)
OBVIOUS

\* Rounding down keeps the order.
LEMMA DivMonotone ==
  ASSUME NEW a \in Int, NEW b \in Int, NEW n \in Nat \ {0}, a <= b
  PROVE  a \div n \in Int /\ a \div n <= b \div n
<1> DEFINE qa == a \div n
           qb == b \div n
<1>1. qa \in Int /\ qb \in Int
  OBVIOUS
<1>2. n * qa <= a /\ b < n * qb + n
  OBVIOUS
<1> HIDE DEF qa, qb
<1>3. n * qa < n * (qb + 1)
  BY <1>1, <1>2
<1>4. qa < qb + 1
  BY <1>1, <1>3
<1> QED
  BY <1>1, <1>4 DEF qa, qb

\* The ticks of a wait: none for no wait, at least one for any other, never
\* more than for 20 seconds, and few enough for the timer's width.
LEMMA TicksBound ==
  ASSUME NEW s \in Nat, s <= 20000
  PROVE  /\ ticks(s) \in 0..ticks(20000)
         /\ s # 0 => ticks(s) \in 1..ticks(20000)
         /\ ticks(s) % U16_MOD = ticks(s)
<1> DEFINE F == DHCP_FINE_TIMER_MSECS
<1>1. F \in Nat \ {0} /\ U16_MOD \in Nat \ {0}
  BY DhcpAssumption
<1> HIDE DEF F
<1>2. ticks(s) \in Int /\ ticks(s) <= ticks(20000)
  <2>1. (s + F) - 1 \in Int /\ (20000 + F) - 1 \in Int /\ (s + F) - 1 <= (20000 + F) - 1
    BY <1>1
  <2> QED
    BY <1>1, <2>1, DivMonotone DEF ticks, F
<1>3. ticks(20000) \in Int
  BY <1>1 DEF ticks, F
<1>4. 0 \div F = 0 /\ F \div F = 1
  BY <1>1
<1>5. ticks(s) >= 0
  <2>1. (s + F) - 1 \in Int /\ 0 <= (s + F) - 1
    BY <1>1
  <2> QED
    BY <1>1, <1>2, <1>4, <2>1, DivMonotone DEF ticks, F
<1>6. s # 0 => ticks(s) >= 1
  <2>1. s # 0 => (s + F) - 1 \in Int /\ F <= (s + F) - 1 /\ F \in Int
    BY <1>1
  <2> QED
    BY <1>1, <1>2, <1>4, <2>1, DivMonotone DEF ticks, F
<1>7. ticks(s) < U16_MOD
  BY <1>1, <1>2, <1>3, TimerAssumption
<1>8. ASSUME NEW x \in Nat, x < U16_MOD PROVE x % U16_MOD = x
  BY <1>1, <1>8
<1> QED
  BY <1>2, <1>3, <1>5, <1>6, <1>7, <1>8

-----------------------------------------------------------------------------
(***************************************************************************)
(* The ARP cache.                                                          *)
(***************************************************************************)

\* An entry.  No packet ever waits on one: pbuf_queue halts on the first.
ArpEntry ==
  [state : {"EMPTY", "PENDING", "STABLE"}, ip : Nat, eth : Nat, ctime : Nat, p : {<<>>}]

ArpTable == [Slots -> ArpEntry]

\* An entry is not too old, an entry in use is for one host, and a host of the
\* local network that it knows is at the Ethernet address h gives.
EntryOK(e, h) ==
  /\ e.ctime < (IF e.state = "PENDING" THEN ARP_MAXPENDING ELSE ARP_MAXAGE)
  /\ e.state # "EMPTY" => e.ip \in Nat \ NotUnicast
  /\ e.state = "STABLE" /\ e.ip \in LocalNet => e.ip \in DOMAIN h /\ e.eth = h[e.ip]

Unique(t) ==
  \A i, j \in Slots :
    t[i].state # "EMPTY" /\ t[j].state # "EMPTY" /\ t[i].ip = t[j].ip => i = j

ArpOK(t, h) == t \in ArpTable /\ Unique(t) /\ \A i \in Slots : EntryOK(t[i], h)

\* The frames with packets go to hosts of the local network, at the address h
\* gives.
EthFrame == [type : {"IP", "REQUEST", "REPLY"}, hop : Nat, eth : Nat]

FrameOK(f, h) ==
  f.type = "IP" /\ f.hop # IP_ADDR_BROADCAST =>
    f.hop \in LocalNet /\ f.hop \in DOMAIN h /\ f.eth = h[f.hop]

\* A non-empty set of natural numbers has a least element.
LEMMA LeastNat ==
  ASSUME NEW T \in SUBSET Nat, T # {}
  PROVE  \E z \in T : \A y \in T : z <= y
<1>1. PICK x \in T : \A y \in T : ~ (<<y, x>> \in OpToRel(<, Nat))
  <2>1. IsWellFoundedOn(OpToRel(<, Nat), Nat)
    BY Zenon, NatLessThanWellFounded
  <2> HIDE DEF OpToRel, IsWellFoundedOn
  <2> QED
    BY Zenon, <2>1, WFMin
<1>2. ASSUME NEW y \in T PROVE x <= y
  <2>1. x \in Nat /\ y \in Nat
    OBVIOUS
  <2>2. ~ (<<y, x>> \in OpToRel(<, Nat))
    BY Zenon, <1>1
  <2>3. ~ (y < x)
    BY <2>1, <2>2 DEF OpToRel
  <2> QED
    BY <2>1, <2>3
<1> QED
  BY <1>2

\* And a greatest one, if it is bounded.
LEMMA GreatestNat ==
  ASSUME NEW n \in Nat, NEW T \in SUBSET (0..n), T # {}
  PROVE  \E z \in T : \A y \in T : y <= z
<1> DEFINE U == {n - x : x \in T}
<1>1. U \in SUBSET Nat /\ U # {}
  <2>1. \A x \in T : n - x \in Nat
    OBVIOUS
  <2> QED
    BY Zenon, <2>1
<1>2. PICK u \in U : \A y \in U : u <= y
  <2> HIDE DEF U
  <2> QED
    BY <1>1, LeastNat
<1>3. PICK x \in T : u = n - x
  BY <1>2
<1>4. ASSUME NEW y \in T PROVE y <= x
  <2>1. u <= n - y
    BY <1>2
  <2>2. x \in 0..n /\ y \in 0..n
    BY Zenon
  <2> QED
    BY <1>3, <2>1, <2>2
<1> QED
  BY <1>4

\* A non-empty set of slots has a first one.
LEMMA FirstEntry ==
  ASSUME NEW S \in SUBSET Slots, S # {}
  PROVE  first_of(S) \in S
<1>1. S \in SUBSET Nat
  BY DEF Slots
<1>2. \E i \in S : \A j \in S : i <= j
  BY <1>1, LeastNat
<1> QED
  BY <1>2 DEF first_of

\* A non-empty set of slots has an oldest entry: the last one with the greatest
\* age.
LEMMA OldestSlot ==
  ASSUME NEW t \in ArpTable, NEW n \in Nat, \A i \in Slots : t[i].ctime <= n,
         NEW S \in SUBSET Slots, S # {}
  PROVE  oldest(t, S) \in S
<1> DEFINE age(i) == t[i].ctime
           A == {age(i) : i \in S}
<1>1. \A i \in S : i \in Slots /\ age(i) \in 0..n
  BY DEF ArpTable, ArpEntry
<1>2. A \in SUBSET (0..n) /\ A # {}
  BY <1>1
<1>3. PICK a \in A : \A y \in A : y <= a
  <2> HIDE DEF A
  <2> QED
    BY Zenon, <1>2, GreatestNat
<1> DEFINE O == {i \in S : age(i) = a}
<1>4. O # {}
  <2> HIDE DEF age
  <2> QED
    BY Zenon, <1>3
<1>5. O \in SUBSET (0..ARP_TABLE_SIZE) /\ ARP_TABLE_SIZE \in Nat
  <2>1. O \in SUBSET Slots
    OBVIOUS
  <2> HIDE DEF O
  <2> QED
    BY <2>1, EtharpAssumption DEF Slots
<1>6. PICK o \in O : \A y \in O : y <= o
  <2> HIDE DEF O
  <2> QED
    BY Zenon, <1>4, <1>5, GreatestNat
<1>7. ASSUME NEW j \in S PROVE age(j) < age(o) \/ (age(j) = age(o) /\ j <= o)
  <2>1. age(o) = a /\ age(j) <= a
    BY <1>3, <1>6
  <2>2. age(j) \in Int /\ a \in Int
    BY <1>1, <1>2, <1>3
  <2>3. age(j) = a => j \in O
    OBVIOUS
  <2> HIDE DEF age, O
  <2> QED
    BY <1>6, <2>1, <2>2, <2>3
<1>8. o \in S
  BY <1>6
<1>9. \E i \in S : \A j \in S : age(j) < age(i) \/ (age(j) = age(i) /\ j <= i)
  <2> HIDE DEF O, A, age
  <2> QED
    BY <1>7, <1>8
<1> QED
  BY <1>9 DEF oldest

\* Ages are bounded.
LEMMA AgesBounded ==
  ASSUME NEW h, NEW t, ArpOK(t, h)
  PROVE  \E n \in Nat : \A i \in Slots : t[i].ctime <= n
<1> DEFINE n == ARP_MAXAGE + ARP_MAXPENDING
<1>1. n \in Nat
  BY EtharpAssumption
<1>2. ASSUME NEW i \in Slots PROVE t[i].ctime <= n
  <2>1. t[i].ctime \in Nat /\ EntryOK(t[i], h)
    BY DEF ArpOK, ArpTable, ArpEntry
  <2> QED
    BY <2>1, EtharpAssumption DEF EntryOK
<1> QED
  BY <1>1, <1>2

\* find_entry recycles a slot of the table, if the table has any.
LEMMA RecycledSlot ==
  ASSUME NEW h, NEW t, ArpOK(t, h), Slots # {}
  PROVE  recyclable(t) \in Slots
<1>1. PICK n \in Nat : \A i \in Slots : t[i].ctime <= n
  BY AgesBounded
<1>2. t \in ArpTable
  BY DEF ArpOK
<1>3. /\ empty(t) \in SUBSET Slots /\ stable(t) \in SUBSET Slots
      /\ pending(t) \in SUBSET Slots /\ pending_queue(t) \in SUBSET Slots
  BY DEF empty, stable, pending, pending_queue
<1>4. empty(t) = {} /\ stable(t) = {} => pending(t) # {}
  BY <1>2 DEF empty, stable, pending, ArpTable, ArpEntry
<1>5. ASSUME NEW S \in SUBSET Slots, S # {} PROVE first_of(S) \in Slots /\ oldest(t, S) \in Slots
  BY <1>1, <1>2, <1>5, FirstEntry, OldestSlot
<1> QED
  BY <1>3, <1>4, <1>5 DEF recyclable


\* What find_entry returns: nothing, or a slot i of the table u for ip, which
\* no other slot is for.  The slot is one in use, as it was, or a new one.
Found(t, f, ip) ==
  \/ /\ f.i = NULL /\ f.arp = t
     /\ \A j \in Slots : t[j].state # "EMPTY" => t[j].ip # ip
  \/ /\ f.i \in Slots /\ f.arp \in ArpTable
     /\ f.arp[f.i].ip = ip
     /\ \A j \in Slots \ {f.i} :
          f.arp[j] = t[j] /\ (t[j].state # "EMPTY" => t[j].ip # ip)
     /\ \/ f.arp[f.i] = t[f.i] /\ t[f.i].state # "EMPTY"
        \/ f.arp[f.i].state = "EMPTY" /\ f.arp[f.i].ctime = 0

\* find_entry finds the entry for ip, or makes room for it.
LEMMA FindEntry ==
  ASSUME NEW h, NEW t, ArpOK(t, h), NEW ip \in Nat \ NotUnicast, NEW create \in BOOLEAN
  PROVE  Found(t, find_entry(t, ip, create), ip)
<1> DEFINE f == find_entry(t, ip, create)
           M == matching(t, ip)
<1>1. t \in ArpTable
  BY DEF ArpOK
<1>2. CASE M # {}
  <2>1. M \in SUBSET Slots
    BY DEF matching
  <2>2. first_of(M) \in M
    BY <1>2, <2>1, FirstEntry
  <2>3. f = [arp |-> t, i |-> first_of(M)]
    BY <1>2 DEF find_entry
  <2>4. f.i \in Slots /\ t[f.i].state # "EMPTY" /\ t[f.i].ip = ip
    BY <2>2, <2>3 DEF matching
  <2>5. \A j \in Slots \ {f.i} : t[j].state # "EMPTY" => t[j].ip # ip
    BY <2>4 DEF ArpOK, Unique
  <2> QED
    BY <1>1, <2>3, <2>4, <2>5 DEF Found
<1>3. CASE M = {} /\ (Slots = {} \/ (~create /\ empty(t) = {}))
  BY <1>3 DEF find_entry, Found, matching
<1>4. CASE M = {} /\ ~(Slots = {} \/ (~create /\ empty(t) = {}))
  <2> DEFINE r == recyclable(t)
             e == [EmptyEntry EXCEPT !.ip = ip]
  <2>1. r \in Slots
    BY <1>4, RecycledSlot
  <2>2. f = [arp |-> [t EXCEPT ![r] = e], i |-> r]
    BY <1>4 DEF find_entry
  <2>3. e \in ArpEntry /\ e.ip = ip /\ e.state = "EMPTY" /\ e.ctime = 0
    BY DEF EmptyEntry, ArpEntry, NULL
  <2>4. \A j \in Slots : t[j].state # "EMPTY" => t[j].ip # ip
    BY <1>4 DEF matching
  <2> HIDE DEF r, e
  <2> QED
    BY <1>1, <2>1, <2>2, <2>3, <2>4 DEF Found, ArpTable
<1> QED
  BY <1>2, <1>3, <1>4

\* The hosts other than ip are at the same addresses in g as in h.
SameElsewhere(h, g, ip) == \A x \in DOMAIN h \ {ip} : x \in DOMAIN g /\ g[x] = h[x]

\* Filling the slot that find_entry found, with the host at its address,
\* keeps the table in order.
LEMMA Filled ==
  ASSUME NEW h, NEW t, ArpOK(t, h), NEW ip \in Nat \ NotUnicast, NEW g,
         NEW f, Found(t, f, ip), f.i # NULL,
         NEW e \in ArpEntry, e.ip = ip, e.state # "EMPTY", EntryOK(e, g),
         SameElsewhere(h, g, ip)
  PROVE  ArpOK([f.arp EXCEPT ![f.i] = e], g)
<1> DEFINE u == [f.arp EXCEPT ![f.i] = e]
<1>1. f.i \in Slots /\ f.arp \in ArpTable
  BY DEF Found
<1>2. u \in ArpTable /\ u[f.i] = e
  BY <1>1 DEF ArpTable
<1>3. ASSUME NEW j \in Slots \ {f.i}
      PROVE  u[j] = t[j] /\ (t[j].state # "EMPTY" => t[j].ip # ip)
  BY <1>1 DEF Found, ArpTable
<1> HIDE DEF u
<1>4. Unique(u)
  <2> SUFFICES ASSUME NEW i \in Slots, NEW j \in Slots, u[i].state # "EMPTY",
                      u[j].state # "EMPTY", u[i].ip = u[j].ip
               PROVE  i = j
    BY DEF Unique
  <2>1. CASE i = f.i
    BY <1>2, <1>3, <2>1
  <2>2. CASE j = f.i
    BY <1>2, <1>3, <2>2
  <2>3. CASE i # f.i /\ j # f.i
    BY <1>3, <2>3 DEF ArpOK, Unique
  <2> QED
    BY <2>1, <2>2, <2>3
<1>5. ASSUME NEW i \in Slots PROVE EntryOK(u[i], g)
  <2>1. CASE i = f.i
    BY <1>2, <2>1
  <2>2. CASE i # f.i
    <3>1. u[i] = t[i] /\ EntryOK(t[i], h) /\ (t[i].state # "EMPTY" => t[i].ip # ip)
      BY <1>3, <2>2 DEF ArpOK
    <3> QED
      BY <3>1 DEF EntryOK, SameElsewhere
  <2> QED
    BY <2>1, <2>2
<1> QED
  BY <1>2, <1>4, <1>5 DEF ArpOK, u


-----------------------------------------------------------------------------
(***************************************************************************)
(* The memory, and what the ARP code may change of it.                     *)
(***************************************************************************)
DhcpState ==
  {"OFF", "SELECTING", "REQUESTING", "CHECKING", "BOUND", "RENEWING", "REBINDING", "BACKING_OFF"}

DhcpClient ==
  [state : DhcpState, tries : 0..(U8_MOD - 1), request_timeout : 0..(U16_MOD - 1),
   t1_timeout : 0..(U16_MOD - 1), t2_timeout : 0..(U16_MOD - 1),
   server : {IP_ADDR_ANY, SERVER}, offered : Nat,
   t0_lease : Int, t1_renew : Int, t2_rebind : Int]

MsgKind == {"NONE", "DISCOVER", "REQUEST", "RELEASE", "DECLINE"}

LinkMemory ==
  [arp : ArpTable, wire : SUBSET EthFrame, halted : BOOLEAN,
   dhcp : {NoClient} \cup DhcpClient, pcbs : Int,
   asked : [kind : MsgKind, ip : Nat], past : SUBSET MsgKind, acked : Nat,
   leftover : BOOLEAN, conflict : BOOLEAN, link_hlen : Nat,
   netif : [ip : Nat, gw : {IP_ADDR_ANY, SERVER}, masked : BOOLEAN]]

\* The ARP code leaves the client and the interface alone.
ArpOnly(a, b) ==
  /\ b.dhcp = a.dhcp /\ b.pcbs = a.pcbs /\ b.asked = a.asked /\ b.past = a.past
  /\ b.acked = a.acked /\ b.leftover = a.leftover /\ b.conflict = a.conflict
  /\ b.netif = a.netif

\* The cache and the frames are in order, for hosts heard at the addresses h.
Cached(a, h) ==
  a \in LinkMemory /\ ArpOK(a.arp, h) /\ \A f \in a.wire : FrameOK(f, h)

\* A host that is not local, or is not in the cache, has no say in it.
LEMMA HeardElsewhere ==
  ASSUME NEW t, NEW h, ArpOK(t, h), NEW ip, NEW eth,
         ip \notin LocalNet \/ \A i \in Slots : t[i].state # "EMPTY" => t[i].ip # ip
  PROVE  ArpOK(t, [h EXCEPT ![ip] = eth])
<1> DEFINE g == [h EXCEPT ![ip] = eth]
<1>1. \A x \in DOMAIN h \ {ip} : x \in DOMAIN g /\ g[x] = h[x]
  OBVIOUS
<1> HIDE DEF g
<1>2. ASSUME NEW i \in Slots PROVE EntryOK(t[i], g)
  <2>1. EntryOK(t[i], h)
    BY DEF ArpOK
  <2> QED
    BY <1>1, <2>1 DEF EntryOK
<1> QED
  BY Zenon, <1>2 DEF ArpOK, g

\* update_arp_entry records the Ethernet address under which ip was heard.
LEMMA UpdateEntry ==
  ASSUME NEW D, NEW h \in [D -> Nat], NEW a, Cached(a, h), a.wire = {},
         NEW ip \in D, ip \in Nat, NEW eth \in Nat, NEW create \in BOOLEAN
  PROVE  /\ Cached(update_arp_entry(a, ip, eth, create), [h EXCEPT ![ip] = eth])
         /\ ArpOnly(a, update_arp_entry(a, ip, eth, create))
         /\ update_arp_entry(a, ip, eth, create).wire = {}
<1> DEFINE g == [h EXCEPT ![ip] = eth]
           f == find_entry(a.arp, ip, create)
           n == update_arp_entry(a, ip, eth, create)
<1>1. a \in LinkMemory /\ ArpOK(a.arp, h)
  BY DEF Cached
<1>2. CASE ip \in NotUnicast
  <2>1. n = a
    BY <1>2 DEF update_arp_entry
  <2>2. \A i \in Slots : a.arp[i].state # "EMPTY" => a.arp[i].ip # ip
    BY <1>1, <1>2 DEF ArpOK, EntryOK
  <2>3. ArpOK(a.arp, g)
    BY Zenon, <1>1, <2>2, HeardElsewhere
  <2> QED
    BY <1>1, <2>1, <2>3 DEF Cached, ArpOnly
<1>3. CASE ip \notin NotUnicast
  <2>1. Found(a.arp, f, ip)
    BY <1>1, <1>3, FindEntry
  <2>2. n = set_stable(a, f, eth)
    BY <1>3 DEF update_arp_entry
  <2>3. g[ip] = eth /\ ip \in DOMAIN g
        /\ SameElsewhere(h, g, ip)
    BY DEF SameElsewhere
  <2> HIDE DEF f, g
  <2>4. CASE f.i = NULL
    <3>1. f.arp = a.arp /\ \A i \in Slots : a.arp[i].state # "EMPTY" => a.arp[i].ip # ip
      BY <2>1, <2>4 DEF Found, Slots, NULL
    <3>2. n = [a EXCEPT !.arp = a.arp]
      BY <2>2, <2>4, <3>1 DEF set_stable
    <3>3. n \in LinkMemory /\ n.arp = a.arp /\ n.wire = {} /\ ArpOnly(a, n)
      BY <1>1, <3>2 DEF LinkMemory, ArpOnly
    <3>4. ArpOK(a.arp, g)
      BY Zenon, <1>1, <3>1, HeardElsewhere DEF g
    <3> QED
      BY <3>3, <3>4 DEF Cached, g
  <2>5. CASE f.i # NULL
    <3> DEFINE e == [f.arp[f.i] EXCEPT !.state = "STABLE", !.eth = eth, !.ctime = 0, !.p = <<>>]
               u == [f.arp EXCEPT ![f.i] = e]
    <3>1. f.arp[f.i] \in ArpEntry /\ f.i \in Slots /\ f.arp[f.i].ip = ip
      BY <2>1, <2>5 DEF Found, ArpTable
    <3>2. e \in ArpEntry /\ e.ip = ip /\ e.state = "STABLE" /\ e.eth = eth /\ e.ctime = 0
      BY Zenon, <3>1 DEF ArpEntry
    <3>3. queued_frames(f.arp[f.i], eth) = {}
      BY <3>1 DEF queued_frames, ArpEntry
    <3>4. n = [a EXCEPT !.arp = u, !.wire = a.wire \cup queued_frames(f.arp[f.i], eth)]
      BY <2>2, <2>5 DEF set_stable
    <3> HIDE DEF e
    <3>5. EntryOK(e, g)
      BY <1>3, <2>3, <3>2, EtharpAssumption DEF EntryOK
    <3>6. ArpOK(u, g)
      <4>1. e.state # "EMPTY" /\ ip \in Nat \ NotUnicast
        BY <1>3, <3>2
      <4> QED
        BY ONLY <1>1, <2>1, <2>3, <2>5, <3>2, <3>5, <4>1, Filled
    <3> HIDE DEF u
    <3>7. n = [a EXCEPT !.arp = u, !.wire = {}]
      BY <3>3, <3>4
    <3>8. n \in LinkMemory /\ n.arp = u /\ n.wire = {} /\ ArpOnly(a, n)
      BY Zenon, <1>1, <3>6, <3>7 DEF LinkMemory, ArpOnly, ArpOK
    <3> QED
      BY <3>6, <3>8 DEF Cached, g
  <2> QED
    BY <2>4, <2>5
<1> QED
  BY <1>2, <1>3


\* The slot that was found is in use once it waits for an answer.
LEMMA FreshPending ==
  ASSUME NEW h, NEW t, ArpOK(t, h), NEW ip \in Nat \ NotUnicast,
         NEW f, Found(t, f, ip), f.i # NULL
  PROVE  /\ ArpOK(fresh_pending(f), h) /\ f.i \in Slots
         /\ fresh_pending(f)[f.i].ip = ip
<1>1. f.i \in Slots /\ f.arp \in ArpTable /\ f.arp[f.i].ip = ip /\ f.arp[f.i] \in ArpEntry
  BY DEF Found, ArpTable
<1>2. CASE f.arp[f.i].state = "EMPTY"
  <2> DEFINE e == [f.arp[f.i] EXCEPT !.state = "PENDING"]
  <2>1. f.arp[f.i].ctime = 0
    BY <1>2 DEF Found
  <2>2. e \in ArpEntry /\ e.ip = ip /\ e.state = "PENDING" /\ e.ctime = 0
    BY <1>1, <2>1 DEF ArpEntry
  <2>3. fresh_pending(f) = [f.arp EXCEPT ![f.i] = e]
    BY <1>2 DEF fresh_pending
  <2> HIDE DEF e
  <2>4. EntryOK(e, h)
    BY <2>2, EtharpAssumption DEF EntryOK
  <2>5. SameElsewhere(h, h, ip) /\ e.state # "EMPTY"
    BY <2>2 DEF SameElsewhere
  <2>6. ArpOK([f.arp EXCEPT ![f.i] = e], h)
    BY <2>2, <2>4, <2>5, Filled
  <2> QED
    BY <1>1, <2>2, <2>3, <2>6 DEF ArpTable
<1>3. CASE f.arp[f.i].state # "EMPTY"
  <2>1. f.arp[f.i] = t[f.i] /\ \A j \in Slots \ {f.i} : f.arp[j] = t[j]
    BY <1>1, <1>3 DEF Found
  <2>2. \A j \in Slots : f.arp[j] = t[j]
    BY <2>1
  <2>3. f.arp = t
    BY <1>1, <2>2 DEF ArpOK, ArpTable
  <2> QED
    BY <1>1, <1>3, <2>3 DEF fresh_pending
<1> QED
  BY <1>2, <1>3

\* A frame more.
LEMMA OneFrame ==
  ASSUME NEW h, NEW a, Cached(a, h), NEW f \in EthFrame, FrameOK(f, h)
  PROVE  /\ Cached([a EXCEPT !.wire = @ \cup {f}], h)
         /\ ArpOnly(a, [a EXCEPT !.wire = @ \cup {f}])
         /\ [a EXCEPT !.wire = @ \cup {f}].arp = a.arp
<1> DEFINE b == [a EXCEPT !.wire = @ \cup {f}]
<1>1. a \in LinkMemory
  BY DEF Cached
<1>2. b \in LinkMemory /\ b.arp = a.arp /\ b.wire = a.wire \cup {f} /\ ArpOnly(a, b)
  BY <1>1 DEF LinkMemory, ArpOnly
<1> QED
  BY <1>2 DEF Cached

\* send_or_queue sends the packet to the host of its entry, or halts.
LEMMA SendOrQueue ==
  ASSUME NEW h, NEW a, Cached(a, h), NEW ip \in Nat \ NotUnicast, NEW q \in {NULL, 1},
         NEW i \in Slots, a.arp[i].ip = ip, q = NULL \/ ip \in LocalNet
  PROVE  /\ Cached(send_or_queue(a, i, ip, q), h)
         /\ ArpOnly(a, send_or_queue(a, i, ip, q))
<1>1. a \in LinkMemory /\ a.arp[i] \in ArpEntry /\ EntryOK(a.arp[i], h)
  BY DEF Cached, ArpOK, ArpTable
<1>2. CASE q = NULL
  BY <1>2 DEF send_or_queue, ArpOnly
<1>3. CASE q # NULL /\ a.arp[i].state = "STABLE"
  <2> DEFINE f == [type |-> "IP", hop |-> ip, eth |-> a.arp[i].eth]
  <2>1. send_or_queue(a, i, ip, q) = [a EXCEPT !.wire = @ \cup {f}]
    BY <1>3 DEF send_or_queue
  <2>2. f \in EthFrame
    BY <1>1 DEF EthFrame, ArpEntry
  <2>3. FrameOK(f, h)
    BY <1>1, <1>3 DEF FrameOK, EntryOK
  <2> HIDE DEF f
  <2> QED
    BY <2>1, <2>2, <2>3, OneFrame
<1>4. CASE q # NULL /\ a.arp[i].state # "STABLE"
  <2>1. send_or_queue(a, i, ip, q) = pbuf_queue(a, i, q)
    BY <1>4 DEF send_or_queue
  <2>2. pbuf_queue(a, i, q) = [a EXCEPT !.halted = TRUE]
    BY <1>1 DEF pbuf_queue, ArpEntry
  <2> DEFINE b == [a EXCEPT !.halted = TRUE]
  <2>3. b \in LinkMemory /\ b.arp = a.arp /\ b.wire = a.wire /\ ArpOnly(a, b)
    BY Zenon, <1>1 DEF LinkMemory, ArpOnly
  <2> QED
    BY <2>1, <2>2, <2>3 DEF Cached
<1> QED
  BY <1>2, <1>3, <1>4

\* etharp_query asks for a host of the local network, or sends it a packet.
LEMMA QueryCached ==
  ASSUME NEW h, NEW a, Cached(a, h), NEW ip \in Nat, NEW q \in {NULL, 1}, NEW room \in BOOLEAN,
         q = NULL \/ ip \in LocalNet \cup NotUnicast
  PROVE  /\ Cached(etharp_query(a, ip, q, room), h)
         /\ ArpOnly(a, etharp_query(a, ip, q, room))
<1> DEFINE f == find_entry(a.arp, ip, q # NULL)
<1>1. a \in LinkMemory /\ ArpOK(a.arp, h)
  BY DEF Cached
<1>2. CASE ip \in NotUnicast
  BY <1>2 DEF etharp_query, ArpOnly
<1>3. CASE ip \notin NotUnicast
  <2>1. Found(a.arp, f, ip)
    BY Zenon, <1>1, <1>3, FindEntry
  <2>2. etharp_query(a, ip, q, room) = queried(a, f, ip, q, room)
    BY <1>3 DEF etharp_query
  <2> HIDE DEF f
  <2>3. CASE f.i = NULL
    <3>1. f.arp = a.arp
      BY <2>1, <2>3 DEF Found, Slots, NULL
    <3>2. queried(a, f, ip, q, room) = a
      BY <1>1, <2>3, <3>1 DEF queried, LinkMemory
    <3> QED
      BY <2>2, <3>2 DEF ArpOnly
  <2>4. CASE f.i # NULL
    <3> DEFINE u == fresh_pending(f)
               b == [a EXCEPT !.arp = u]
               r == [type |-> "REQUEST", hop |-> ip, eth |-> ethbroadcast]
               c == [b EXCEPT !.wire = @ \cup {r}]
    <3>1. ArpOK(u, h) /\ f.i \in Slots /\ u[f.i].ip = ip
      BY <1>1, <1>3, <2>1, <2>4, FreshPending
    <3>2. queried(a, f, ip, q, room) = query_entry(b, f.i, ip, q, room)
      BY <2>4 DEF queried
    <3> HIDE DEF u
    <3>3. b \in LinkMemory /\ b.arp = u /\ b.wire = a.wire /\ ArpOnly(a, b)
      BY <1>1, <3>1 DEF LinkMemory, ArpOnly, ArpOK
    <3>4. Cached(b, h)
      BY <3>1, <3>3 DEF Cached
    <3>5. r \in EthFrame /\ FrameOK(r, h)
      BY DEF EthFrame, FrameOK, ethbroadcast
    <3>6. etharp_request(b, ip) = c
      BY DEF etharp_request
    <3> HIDE DEF b, r
    <3>7. Cached(c, h) /\ ArpOnly(b, c) /\ c.arp = b.arp
      BY <3>4, <3>5, OneFrame
    <3> HIDE DEF c
    <3>8. ip \in Nat \ NotUnicast /\ (q = NULL \/ ip \in LocalNet)
      BY <1>3
    <3>9. Cached(send_or_queue(c, f.i, ip, q), h) /\ ArpOnly(c, send_or_queue(c, f.i, ip, q))
      BY <3>1, <3>3, <3>7, <3>8, SendOrQueue
    <3>10. Cached(send_or_queue(b, f.i, ip, q), h) /\ ArpOnly(b, send_or_queue(b, f.i, ip, q))
      BY <3>1, <3>3, <3>4, <3>8, SendOrQueue
    <3>11. \/ query_entry(b, f.i, ip, q, room) = send_or_queue(c, f.i, ip, q)
           \/ query_entry(b, f.i, ip, q, room) = send_or_queue(b, f.i, ip, q)
      BY <3>6 DEF query_entry
    <3> QED
      BY <2>2, <3>2, <3>3, <3>7, <3>9, <3>10, <3>11 DEF ArpOnly
  <2> QED
    BY <2>3, <2>4
<1> QED
  BY <1>2, <1>3


\* etharp_output sends a packet to a host of the local network, to the gateway
\* or to everyone.
LEMMA OutputCached ==
  ASSUME NEW h, NEW a, Cached(a, h), NEW ip \in Nat, NEW room \in BOOLEAN, NEW space,
         a.netif.masked \/ ip \in LocalNet \cup NotUnicast
  PROVE  /\ Cached(etharp_output(a, ip, 1, space, room), h)
         /\ ArpOnly(a, etharp_output(a, ip, 1, space, room))
<1> DEFINE n == etharp_output(a, ip, 1, space, room)
           f == [type |-> "IP", hop |-> IP_ADDR_BROADCAST, eth |-> ethbroadcast]
<1>1. a \in LinkMemory /\ SERVER \in LocalNet /\ LocalNet \subseteq Nat
  BY DhcpAssumption, EtharpAssumption DEF Cached
<1>2. a.netif.gw \in {IP_ADDR_ANY, SERVER}
  BY <1>1 DEF LinkMemory
<1>3. \/ n = a
      \/ n = [a EXCEPT !.wire = @ \cup {f}]
      \/ ip \in LocalNet \cup NotUnicast /\ n = etharp_query(a, ip, 1, room)
      \/ a.netif.gw # IP_ADDR_ANY /\ n = etharp_query(a, a.netif.gw, 1, room)
  BY <1>1 DEF etharp_output, is_local
<1>4. f \in EthFrame /\ FrameOK(f, h)
  BY DEF EthFrame, FrameOK, IP_ADDR_BROADCAST, ethbroadcast
<1>5. CASE n = a
  BY <1>5 DEF ArpOnly
<1> HIDE DEF f
<1>6. CASE n = [a EXCEPT !.wire = @ \cup {f}]
  BY <1>4, <1>6, OneFrame
<1>7. 1 \in {NULL, 1}
  OBVIOUS
<1>8. CASE ip \in LocalNet \cup NotUnicast /\ n = etharp_query(a, ip, 1, room)
  BY <1>7, <1>8, QueryCached
<1>9. CASE a.netif.gw # IP_ADDR_ANY /\ n = etharp_query(a, a.netif.gw, 1, room)
  <2>1. a.netif.gw \in Nat /\ a.netif.gw \in LocalNet \cup NotUnicast
    BY <1>1, <1>2, <1>9
  <2> QED
    BY <1>7, <1>9, <2>1, QueryCached
<1> QED
  BY <1>3, <1>5, <1>6, <1>8, <1>9

\* etharp_tmr keeps the entries that are not too old.
LEMMA TimerCached ==
  ASSUME NEW h, NEW a, Cached(a, h)
  PROVE  Cached(etharp_tmr(a), h) /\ ArpOnly(a, etharp_tmr(a)) /\ etharp_tmr(a).wire = {}
<1> DEFINE t == a.arp
           u == [i \in Slots |-> aged(t[i])]
           n == etharp_tmr(a)
<1>1. a \in LinkMemory /\ t \in ArpTable /\ Unique(t)
  BY DEF Cached, ArpOK
<1>2. n = [a EXCEPT !.arp = u, !.wire = {}]
  BY DEF etharp_tmr
<1>3. ASSUME NEW i \in Slots
      PROVE  /\ u[i] \in ArpEntry /\ EntryOK(u[i], h)
             /\ u[i].state # "EMPTY" => t[i].state # "EMPTY" /\ u[i].ip = t[i].ip
  <2>1. t[i] \in ArpEntry /\ EntryOK(t[i], h) /\ u[i] = aged(t[i])
    BY <1>1 DEF ArpTable, Cached, ArpOK
  <2>2. CASE t[i].state = "EMPTY" \/ expired(t[i])
    <3>1. u[i] = EmptyEntry
      BY <2>1, <2>2 DEF aged
    <3>2. EmptyEntry \in ArpEntry /\ EmptyEntry.state = "EMPTY" /\ EmptyEntry.ctime = 0
      BY DEF EmptyEntry, ArpEntry, IP_ADDR_ANY, NULL
    <3> QED
      BY <3>1, <3>2, EtharpAssumption DEF EntryOK
  <2>3. CASE ~(t[i].state = "EMPTY" \/ expired(t[i]))
    <3>1. u[i] = [t[i] EXCEPT !.ctime = @ + 1]
      BY <2>1, <2>3 DEF aged
    <3>2. /\ u[i] \in ArpEntry /\ u[i].state = t[i].state /\ u[i].ip = t[i].ip
          /\ u[i].eth = t[i].eth /\ u[i].ctime = t[i].ctime + 1
      BY <2>1, <3>1 DEF ArpEntry
    <3>3. t[i].state \in {"PENDING", "STABLE"} /\ t[i].ctime \in Nat
      BY <2>1, <2>3 DEF ArpEntry
    <3> QED
      BY <2>1, <2>3, <3>2, <3>3, EtharpAssumption DEF EntryOK, expired
  <2> QED
    BY <2>2, <2>3
<1>4. u \in ArpTable
  BY <1>3 DEF ArpTable
<1> HIDE DEF u
<1>5. Unique(u)
  BY <1>1, <1>3 DEF Unique
<1>6. ArpOK(u, h)
  BY <1>3, <1>4, <1>5 DEF ArpOK
<1>7. n \in LinkMemory /\ n.arp = u /\ n.wire = {} /\ ArpOnly(a, n)
  BY Zenon, <1>1, <1>2, <1>4 DEF LinkMemory, ArpOnly
<1> QED
  BY <1>6, <1>7 DEF Cached

-----------------------------------------------------------------------------
(***************************************************************************)
(* The DHCP client.                                                        *)
(***************************************************************************)

\* A client that waits for an answer has its timer running.
Waiting(c) ==
  c.state \notin {"OFF", "BOUND"} /\ (c.tries # 0 \/ c.state \in {"CHECKING", "BACKING_OFF"})
    => c.request_timeout \in 1..ticks(20000)

\* The states in which a request for an address was made, and not refused.
Asking == {"REQUESTING", "CHECKING", "BOUND", "RENEWING", "REBINDING"}

\* A negotiation that began without an address has none until it is bound to
\* the offered one; that one was acknowledged, and is the one it asks for.
Negotiated(a) ==
  ~a.leftover =>
    /\ a.dhcp.state = "BOUND" => a.netif.ip = a.acked
    /\ a.dhcp.state = "CHECKING" => a.dhcp.offered = a.acked
    /\ a.dhcp.state = "SELECTING" => a.netif.ip = IP_ADDR_ANY
    /\ a.dhcp.state \in Asking =>
         /\ a.netif.ip \in {IP_ADDR_ANY, a.dhcp.offered}
         /\ a.asked.kind = "REQUEST" => a.asked.ip \in {IP_ADDR_ANY, a.dhcp.offered}

\* A client, on an interface whose address has a mask, with k UDP pcbs: its own
\* and the ones that earlier clients left behind.
Running(a, h, k) ==
  /\ Cached(a, h) /\ a.dhcp \in DhcpClient /\ a.pcbs = k
  /\ a.netif.ip # IP_ADDR_ANY => a.netif.masked

\* off says whether it may have been left in the state OFF.
Sound(a, h, k, off) ==
  Running(a, h, k) /\ Waiting(a.dhcp) /\ Negotiated(a) /\ (a.dhcp.state = "OFF" => off)


\* dhcp_set_state only sets the state, and starts to count the tries anew.
LEMMA SetState ==
  ASSUME NEW c \in DhcpClient, NEW s \in DhcpState
  PROVE  /\ dhcp_set_state(c, s) \in DhcpClient
         /\ dhcp_set_state(c, s).state = s
         /\ dhcp_set_state(c, s).offered = c.offered
         /\ dhcp_set_state(c, s).request_timeout = c.request_timeout
<1>1. 0 \in 0..(U8_MOD - 1)
  BY DhcpAssumption
<1>2. CASE s = c.state
  BY <1>2 DEF dhcp_set_state
<1>3. CASE s # c.state
  <2>1. dhcp_set_state(c, s) = [c EXCEPT !.state = s, !.tries = 0]
    BY <1>3 DEF dhcp_set_state
  <2> QED
    BY Zenon, <1>1, <2>1 DEF DhcpClient
<1> QED
  BY <1>2, <1>3

\* One more try, in the same state.
LEMMA Tried ==
  ASSUME NEW c \in DhcpClient
  PROVE  /\ tried(c) \in DhcpClient
         /\ tried(c).state = c.state /\ tried(c).offered = c.offered
<1>1. U8_MOD \in Nat \ {0} /\ c.tries + 1 \in Int
  BY DhcpAssumption DEF DhcpClient
<1>2. (c.tries + 1) % U8_MOD \in 0..(U8_MOD - 1)
  BY Zenon, <1>1, Remainder
<1> QED
  BY <1>2 DEF tried, DhcpClient

\* A wait of up to 20 seconds starts the timer, unless it is no wait at all.
LEMMA Wait ==
  ASSUME NEW c \in DhcpClient, NEW s \in Nat, s <= 20000
  PROVE  /\ wait(c, s) \in DhcpClient
         /\ wait(c, s).state = c.state /\ wait(c, s).offered = c.offered
         /\ wait(c, s).tries = c.tries
         /\ s # 0 => wait(c, s).request_timeout \in 1..ticks(20000)
<1>1. ticks(s) \in Int /\ ticks(s) % U16_MOD = ticks(s)
      /\ (s # 0 => ticks(s) \in 1..ticks(20000))
  BY TicksBound
<1>2. ticks(s) % U16_MOD \in 0..(U16_MOD - 1)
  BY <1>1, Remainder, DhcpAssumption
<1> QED
  BY <1>1, <1>2 DEF wait, DhcpClient

\* The client d has counted a try of c and waits for the answer.
Rearmed(c, d) ==
  d \in DhcpClient /\ d.state = c.state /\ d.offered = c.offered /\ Waiting(d)

\* The waits of the requests, which grow with the tries.
LEMMA Rearm ==
  ASSUME NEW c \in DhcpClient
  PROVE  /\ Rearmed(c, discover_wait(tried(c)))
         /\ Rearmed(c, wait(tried(c), 10 * 1000))
         /\ c.state \notin {"CHECKING", "BACKING_OFF"} =>
              /\ Rearmed(c, select_wait(tried(c)))
              /\ Rearmed(c, renew_wait(tried(c)))
              /\ Rearmed(c, rebind_wait(tried(c)))
<1> DEFINE d == tried(c)
<1>1. d \in DhcpClient /\ d.state = c.state /\ d.offered = c.offered
  BY Tried
<1> HIDE DEF d
<1>2. d.tries \in Nat
  BY <1>1, DhcpAssumption DEF DhcpClient
<1>3. ASSUME NEW s \in Nat, s <= 20000, s # 0
      PROVE  Rearmed(c, wait(d, s))
  <2> DEFINE w == wait(d, s)
  <2>1. w \in DhcpClient /\ w.state = d.state /\ w.offered = d.offered
        /\ w.request_timeout \in 1..ticks(20000)
    BY <1>1, <1>3, Wait
  <2> HIDE DEF w
  <2>2. Rearmed(c, w)
    BY <1>1, <2>1 DEF Rearmed, Waiting
  <2> QED
    BY <2>2 DEF w
<1>4. ASSUME d.tries = 0, c.state \notin {"CHECKING", "BACKING_OFF"}
      PROVE  Rearmed(c, wait(d, 0))
  <2> DEFINE w == wait(d, 0)
  <2>1. w \in DhcpClient /\ w.state = d.state /\ w.offered = d.offered /\ w.tries = d.tries
    BY <1>1, Wait
  <2> HIDE DEF w
  <2>2. Rearmed(c, w)
    BY <1>1, <1>4, <2>1 DEF Rearmed, Waiting
  <2> QED
    BY <2>2 DEF w
<1>5. Rearmed(c, discover_wait(d))
  <2> DEFINE s == IF d.tries < 4 THEN (d.tries + 1) * 1000 ELSE 10 * 1000
  <2>1. s \in Nat /\ s <= 20000 /\ s # 0
    BY <1>2
  <2>2. discover_wait(d) = wait(d, s)
    BY DEF discover_wait
  <2> HIDE DEF s
  <2> QED
    BY <1>3, <2>1, <2>2
<1>6. Rearmed(c, wait(d, 10 * 1000))
  BY <1>3
<1>7. ASSUME c.state \notin {"CHECKING", "BACKING_OFF"}, NEW s \in Nat, s <= 20000,
             s = 0 => d.tries = 0
      PROVE  Rearmed(c, wait(d, s))
  <2>1. CASE s = 0
    BY <1>4, <1>7, <2>1
  <2>2. CASE s # 0
    BY <1>3, <1>7, <2>2
  <2> QED
    BY <2>1, <2>2
<1>8. ASSUME c.state \notin {"CHECKING", "BACKING_OFF"}
      PROVE  /\ Rearmed(c, select_wait(d)) /\ Rearmed(c, renew_wait(d))
             /\ Rearmed(c, rebind_wait(d))
  <2> DEFINE s1 == IF d.tries < 4 THEN d.tries * 1000 ELSE 4 * 1000
             s2 == IF d.tries < 10 THEN d.tries * 2000 ELSE 20 * 1000
             s3 == IF d.tries < 10 THEN d.tries * 1000 ELSE 10 * 1000
  <2>1. /\ s1 \in Nat /\ s1 <= 20000 /\ (s1 = 0 => d.tries = 0)
        /\ s2 \in Nat /\ s2 <= 20000 /\ (s2 = 0 => d.tries = 0)
        /\ s3 \in Nat /\ s3 <= 20000 /\ (s3 = 0 => d.tries = 0)
    BY <1>2
  <2>2. /\ select_wait(d) = wait(d, s1) /\ renew_wait(d) = wait(d, s2)
        /\ rebind_wait(d) = wait(d, s3)
    BY DEF select_wait, renew_wait, rebind_wait
  <2> HIDE DEF s1, s2, s3
  <2> QED
    BY <1>7, <1>8, <2>1, <2>2
<1> QED
  BY <1>5, <1>6, <1>8 DEF d


\* A client in another memory that is otherwise the same.
WithClient(a, b, c, h) ==
  /\ Cached(b, h) /\ b.dhcp = c
  /\ b.pcbs = a.pcbs /\ b.acked = a.acked /\ b.leftover = a.leftover
  /\ b.netif = a.netif /\ b.asked = a.asked

\* Only the client changes.
LEMMA ClientChanged ==
  ASSUME NEW h, NEW a, Cached(a, h), NEW c \in DhcpClient
  PROVE  WithClient(a, [a EXCEPT !.dhcp = c], c, h)
<1> DEFINE b == [a EXCEPT !.dhcp = c]
<1>1. a \in LinkMemory
  BY DEF Cached
<1>2. b \in LinkMemory /\ b.dhcp = c /\ b.arp = a.arp /\ b.wire = a.wire
      /\ b.pcbs = a.pcbs /\ b.acked = a.acked /\ b.leftover = a.leftover
      /\ b.netif = a.netif /\ b.asked = a.asked
  BY <1>1 DEF LinkMemory
<1> QED
  BY <1>2 DEF WithClient, Cached

\* The memory b after a request of the given kind for ip was made in a.
Sent(a, b, kind, ip, h) ==
  /\ Cached(b, h) /\ b.dhcp = a.dhcp
  /\ b.pcbs = a.pcbs /\ b.acked = a.acked /\ b.leftover = a.leftover
  /\ b.netif = a.netif /\ b.asked \in {NoRequest, [kind |-> kind, ip |-> ip]}

\* Sending a request changes the client's transaction, the cache and the wire.
LEMMA RequestSent ==
  ASSUME NEW h, NEW a, Cached(a, h), NEW dest \in LocalNet \cup NotUnicast,
         NEW kind \in MsgKind, NEW ip \in Nat
  PROVE  Sent(a, request(a, dest, kind, ip), kind, ip, h)
<1> DEFINE b == dhcp_create_request(a)
           c == etharp_output(b, dest, 1, udp_space(b), TRUE)
           msg == [kind |-> kind, ip |-> ip]
<1>1. a \in LinkMemory /\ a.asked.kind \in MsgKind /\ dest \in Nat
  BY EtharpAssumption DEF Cached, LinkMemory, NotUnicast, IP_ADDR_ANY, IP_ADDR_BROADCAST
<1>2. NoRequest \in [kind : MsgKind, ip : Nat] /\ msg \in [kind : MsgKind, ip : Nat]
  BY DEF NoRequest, MsgKind, IP_ADDR_ANY
<1>3. a.past \cup ({a.asked.kind} \ {"NONE"}) \in SUBSET MsgKind
  BY <1>1 DEF LinkMemory
<1>4. b \in LinkMemory /\ b.arp = a.arp /\ b.wire = {} /\ b.dhcp = a.dhcp
      /\ b.pcbs = a.pcbs /\ b.acked = a.acked /\ b.leftover = a.leftover
      /\ b.netif = a.netif /\ b.asked = NoRequest
  BY Zenon, <1>1, <1>2, <1>3 DEF dhcp_create_request, LinkMemory
<1>5. Cached(b, h)
  BY <1>4 DEF Cached
<1> HIDE DEF b
<1>6. Cached(c, h) /\ ArpOnly(b, c)
  BY Zenon, <1>1, <1>5, OutputCached
<1> HIDE DEF c, msg
<1>7. request(a, dest, kind, ip) = heard_on_wire(c, msg)
  BY DEF request, udp_send, b, c, msg
<1>8. CASE heard_on_wire(c, msg) = c
  BY <1>4, <1>6, <1>7, <1>8 DEF Sent, ArpOnly
<1>9. CASE heard_on_wire(c, msg) = [c EXCEPT !.asked = msg]
  <2> DEFINE d == [c EXCEPT !.asked = msg]
  <2>1. c \in LinkMemory
    BY <1>6 DEF Cached
  <2>2. d \in LinkMemory /\ d.arp = c.arp /\ d.wire = c.wire /\ d.dhcp = c.dhcp
        /\ d.pcbs = c.pcbs /\ d.acked = c.acked /\ d.leftover = c.leftover
        /\ d.netif = c.netif /\ d.asked = msg
    BY <1>2, <2>1 DEF LinkMemory
  <2> HIDE DEF d
  <2>3. Cached(d, h)
    BY <1>6, <2>2 DEF Cached
  <2>4. Sent(a, d, kind, ip, h)
    BY <1>4, <1>6, <2>2, <2>3 DEF Sent, ArpOnly, msg
  <2> QED
    BY <1>7, <1>9, <2>4 DEF d
<1> QED
  BY <1>8, <1>9 DEF heard_on_wire

\* A request to everyone, to the server, or to a server that was forgotten.
LEMMA Destinations ==
  /\ IP_ADDR_BROADCAST \in LocalNet \cup NotUnicast
  /\ IP_ADDR_ANY \in LocalNet \cup NotUnicast
  /\ \A c \in DhcpClient : c.server \in LocalNet \cup NotUnicast
BY DhcpAssumption DEF NotUnicast, DhcpClient

\* A new negotiation: dhcp_discover of a client that waits for nothing.
LEMMA DiscoverSound ==
  ASSUME NEW h, NEW k, NEW off \in BOOLEAN, NEW a, Running(a, h, k),
         NEW ok \in BOOLEAN,
         a.dhcp.state \in {"OFF", "SELECTING", "BACKING_OFF"}, ok \/ off
  PROVE  Sound(dhcp_discover(a, ok), h, k, off)
<1> DEFINE b == begun(a)
           r == request(b, IP_ADDR_BROADCAST, "DISCOVER", IP_ADDR_ANY)
           s == dhcp_set_state(b.dhcp, "SELECTING")
           c1 == discover_wait(tried(s))
           c2 == discover_wait(tried(b.dhcp))
<1>1. a \in LinkMemory /\ a.dhcp \in DhcpClient /\ Cached(a, h)
  BY DEF Running, Cached
<1>2. /\ b \in LinkMemory /\ b.arp = a.arp /\ b.wire = a.wire /\ b.dhcp \in DhcpClient
      /\ b.pcbs = a.pcbs /\ b.netif = a.netif /\ b.dhcp.state = a.dhcp.state
      /\ b.leftover = (a.netif.ip # IP_ADDR_ANY)
  BY Zenon, <1>1 DEF begun, LinkMemory, DhcpClient, IP_ADDR_ANY
<1>3. Cached(b, h)
  BY <1>1, <1>2 DEF Cached
<1>4. Rearmed(b.dhcp, c2)
  BY <1>2, Rearm
<1>5. s \in DhcpClient /\ s.state = "SELECTING"
  BY <1>2, SetState DEF DhcpState
<1>6. Rearmed(s, c1)
  BY <1>5, Rearm
<1>7. Sent(b, r, "DISCOVER", IP_ADDR_ANY, h)
  <2>1. "DISCOVER" \in MsgKind /\ IP_ADDR_ANY \in Nat
    BY DEF MsgKind, IP_ADDR_ANY
  <2> HIDE DEF b
  <2> QED
    BY Zenon, <1>3, <2>1, Destinations, RequestSent
<1>8. CASE ok
  <2>1. dhcp_discover(a, ok) = [r EXCEPT !.dhcp = c1]
    <3>1. r.dhcp = b.dhcp
      BY <1>7 DEF Sent
    <3> QED
      BY <1>8, <3>1 DEF dhcp_discover
  <2>2. WithClient(r, [r EXCEPT !.dhcp = c1], c1, h)
    <3> HIDE DEF r, c1
    <3> QED
      BY <1>6, <1>7, ClientChanged DEF Rearmed, Sent
  <2> DEFINE n == [r EXCEPT !.dhcp = c1]
  <2> HIDE DEF r, c1, b, s, n
  <2>3. Sound(n, h, k, off)
    BY Zenon, <1>2, <1>5, <1>6, <1>7, <2>2
       DEF Sound, Running, Negotiated, WithClient, Sent, Rearmed, Asking, n
  <2> QED
    BY <2>1, <2>3 DEF n
<1>9. CASE ~ok
  <2>1. dhcp_discover(a, ok) = [b EXCEPT !.dhcp = c2]
    BY <1>9 DEF dhcp_discover
  <2>2. WithClient(b, [b EXCEPT !.dhcp = c2], c2, h)
    <3> HIDE DEF b, c2
    <3> QED
      BY <1>3, <1>4, ClientChanged DEF Rearmed
  <2> DEFINE n == [b EXCEPT !.dhcp = c2]
  <2> HIDE DEF c2, b, n
  <2>3. Sound(n, h, k, off)
    BY Zenon, <1>2, <1>4, <1>9, <2>2 DEF Sound, Running, Negotiated, WithClient, Rearmed, Asking, n
  <2> QED
    BY <2>1, <2>3 DEF n
<1> QED
  BY <1>8, <1>9


\* The client c takes the place of the one of r, in which a request was made.
LEMMA SentChanged ==
  ASSUME NEW h, NEW a, NEW r, NEW kind, NEW ip, Sent(a, r, kind, ip, h), NEW c \in DhcpClient
  PROVE  /\ Cached([r EXCEPT !.dhcp = c], h)
         /\ [r EXCEPT !.dhcp = c].dhcp = c
         /\ [r EXCEPT !.dhcp = c].pcbs = a.pcbs
         /\ [r EXCEPT !.dhcp = c].acked = a.acked
         /\ [r EXCEPT !.dhcp = c].leftover = a.leftover
         /\ [r EXCEPT !.dhcp = c].netif = a.netif
         /\ [r EXCEPT !.dhcp = c].asked \in {NoRequest, [kind |-> kind, ip |-> ip]}
<1>1. WithClient(r, [r EXCEPT !.dhcp = c], c, h)
  BY ClientChanged DEF Sent
<1> QED
  BY <1>1 DEF WithClient, Sent

\* dhcp_select asks for the offered address.
LEMMA SelectSound ==
  ASSUME NEW h, NEW k, NEW off \in BOOLEAN, NEW a, Running(a, h, k),
         Negotiated(a), NEW ok \in BOOLEAN,
         a.dhcp.state \in {"SELECTING", "REQUESTING"}
  PROVE  Sound(dhcp_select(a, ok), h, k, off)
<1> DEFINE c == a.dhcp
           r == request(a, IP_ADDR_BROADCAST, "REQUEST", c.offered)
           s == dhcp_set_state(c, "REQUESTING")
           c1 == select_wait(tried(s))
           c2 == select_wait(tried(c))
<1>1. c \in DhcpClient /\ Cached(a, h) /\ c.offered \in Nat
  BY DEF Running, DhcpClient
<1>2. Rearmed(c, c2)
  BY <1>1, Rearm
<1>3. s \in DhcpClient /\ s.state = "REQUESTING" /\ s.offered = c.offered
  BY <1>1, SetState DEF DhcpState
<1>4. Rearmed(s, c1)
  BY <1>3, Rearm
<1>5. Sent(a, r, "REQUEST", c.offered, h)
  BY <1>1, Destinations, RequestSent DEF MsgKind
<1>6. CASE ok
  <2> DEFINE n == [r EXCEPT !.dhcp = c1]
  <2>1. dhcp_select(a, ok) = n
    <3>1. r.dhcp = c
      BY <1>5 DEF Sent
    <3> QED
      BY <1>6, <3>1 DEF dhcp_select
  <2> HIDE DEF r, c1
  <2>2. /\ Cached(n, h) /\ n.dhcp = c1 /\ n.pcbs = a.pcbs /\ n.leftover = a.leftover
        /\ n.netif = a.netif /\ n.asked \in {NoRequest, [kind |-> "REQUEST", ip |-> c.offered]}
    BY <1>4, <1>5, SentChanged DEF Rearmed
  <2> HIDE DEF n, s
  <2>3. Sound(n, h, k, off)
    BY <1>3, <1>4, <2>2 DEF Sound, Running, Negotiated, Rearmed, Asking, NoRequest
  <2> QED
    BY <2>1, <2>3
<1>7. CASE ~ok
  <2> DEFINE n == [a EXCEPT !.dhcp = c2]
  <2>1. dhcp_select(a, ok) = n
    BY <1>7 DEF dhcp_select
  <2> HIDE DEF c2
  <2>2. WithClient(a, n, c2, h)
    BY <1>1, <1>2, ClientChanged DEF Rearmed
  <2> HIDE DEF n
  <2>3. Sound(n, h, k, off)
    BY <1>2, <2>2 DEF Sound, Running, Negotiated, WithClient, Rearmed, Asking
  <2> QED
    BY <2>1, <2>3
<1> QED
  BY <1>6, <1>7

\* Asking again for the address of the interface, of one server or of all.
LEMMA AskAgain ==
  ASSUME NEW h, NEW k, NEW off \in BOOLEAN, NEW a, Running(a, h, k),
         Negotiated(a), NEW ok \in BOOLEAN,
         NEW dest \in LocalNet \cup NotUnicast,
         NEW s, s \in DhcpClient, s.state \in {"RENEWING", "REBINDING"},
         s.offered = a.dhcp.offered, a.dhcp.state \in Asking,
         NEW d, Rearmed(s, d)
  PROVE  Sound([(IF ok THEN request(a, dest, "REQUEST", a.netif.ip) ELSE a) EXCEPT !.dhcp = d],
               h, k, off)
<1> DEFINE r == request(a, dest, "REQUEST", a.netif.ip)
<1>1. Cached(a, h) /\ a.netif.ip \in Nat /\ d \in DhcpClient
  BY DEF Running, Cached, LinkMemory, Rearmed
<1>2. Sent(a, r, "REQUEST", a.netif.ip, h)
  BY <1>1, RequestSent DEF MsgKind
<1> HIDE DEF r
<1>3. CASE ok
  <2> DEFINE n == [r EXCEPT !.dhcp = d]
  <2>1. /\ Cached(n, h) /\ n.dhcp = d /\ n.pcbs = a.pcbs /\ n.leftover = a.leftover
        /\ n.netif = a.netif /\ n.asked \in {NoRequest, [kind |-> "REQUEST", ip |-> a.netif.ip]}
    BY <1>1, <1>2, SentChanged
  <2> HIDE DEF n
  <2>2. Sound(n, h, k, off)
    BY <1>1, <2>1 DEF Sound, Running, Negotiated, Rearmed, Asking, NoRequest
  <2> QED
    BY <1>3, <2>2 DEF n, r
<1>4. CASE ~ok
  <2> DEFINE n == [a EXCEPT !.dhcp = d]
  <2>1. WithClient(a, n, d, h)
    BY <1>1, ClientChanged
  <2> HIDE DEF n
  <2>2. Sound(n, h, k, off)
    BY <1>1, <2>1 DEF Sound, Running, Negotiated, WithClient, Rearmed, Asking
  <2> QED
    BY <1>4, <2>2 DEF n
<1> QED
  BY <1>3, <1>4

\* dhcp_renew and dhcp_rebind, of a client with a lease or one on its way.
LEMMA RenewSound ==
  ASSUME NEW h, NEW k, NEW off \in BOOLEAN, NEW a, Running(a, h, k),
         Negotiated(a), NEW ok \in BOOLEAN, a.dhcp.state \in Asking
  PROVE  Sound(dhcp_renew(a, ok), h, k, off) /\ Sound(dhcp_rebind(a, ok), h, k, off)
<1> DEFINE c == a.dhcp
           s1 == dhcp_set_state(c, "RENEWING")
           s2 == dhcp_set_state(c, "REBINDING")
           d1 == renew_wait(tried(s1))
           d2 == rebind_wait(tried(s2))
           r1 == request(a, c.server, "REQUEST", a.netif.ip)
           r2 == request(a, IP_ADDR_BROADCAST, "REQUEST", a.netif.ip)
<1>1. c \in DhcpClient /\ Cached(a, h) /\ a.netif.ip \in Nat
  BY DEF Running, Cached, LinkMemory
<1>2. /\ s1 \in DhcpClient /\ s1.state = "RENEWING" /\ s1.offered = c.offered
      /\ s2 \in DhcpClient /\ s2.state = "REBINDING" /\ s2.offered = c.offered
  BY <1>1, SetState DEF DhcpState
<1>3. Rearmed(s1, d1) /\ Rearmed(s2, d2)
  BY <1>2, Rearm
<1>4. /\ c.server \in LocalNet \cup NotUnicast
      /\ IP_ADDR_BROADCAST \in LocalNet \cup NotUnicast
  BY <1>1, Destinations
<1>5. r1.dhcp = c /\ r2.dhcp = c
  <2>1. "REQUEST" \in MsgKind
    BY DEF MsgKind
  <2>2. Sent(a, r1, "REQUEST", a.netif.ip, h) /\ Sent(a, r2, "REQUEST", a.netif.ip, h)
    BY <1>1, <1>4, <2>1, RequestSent
  <2> HIDE DEF r1, r2
  <2> QED
    BY <2>2 DEF Sent
<1>6. /\ dhcp_renew(a, ok) = [(IF ok THEN r1 ELSE a) EXCEPT !.dhcp = d1]
      /\ dhcp_rebind(a, ok) = [(IF ok THEN r2 ELSE a) EXCEPT !.dhcp = d2]
  BY <1>5 DEF dhcp_renew, dhcp_rebind
<1> HIDE DEF s1, s2, d1, d2
<1>7. Sound([(IF ok THEN r1 ELSE a) EXCEPT !.dhcp = d1], h, k, off)
  BY <1>2, <1>3, <1>4, AskAgain
<1>8. Sound([(IF ok THEN r2 ELSE a) EXCEPT !.dhcp = d2], h, k, off)
  BY <1>2, <1>3, <1>4, AskAgain
<1> QED
  BY <1>6, <1>7, <1>8


\* dhcp_release gives the address up and forgets the server.
LEMMA ReleaseRunning ==
  ASSUME NEW h, NEW k, NEW a, Running(a, h, k), NEW ok \in BOOLEAN
  PROVE  Running(dhcp_release(a, ok), h, k) /\ dhcp_release(a, ok).dhcp.state = "OFF"
<1> DEFINE c == a.dhcp
           r == request(a, IP_ADDR_ANY, "RELEASE", a.netif.ip)
           b == IF ok THEN r ELSE a
           s == dhcp_set_state(c, "OFF")
           f == forgotten(c)
           d == rebind_wait(tried(f))
           n == [b EXCEPT !.dhcp = d, !.netif = unconfigured]
<1>1. c \in DhcpClient /\ Cached(a, h) /\ a.netif.ip \in Nat
  BY DEF Running, Cached, LinkMemory
<1>2. s \in DhcpClient /\ s.state = "OFF"
  BY <1>1, SetState DEF DhcpState
<1>3. f \in DhcpClient /\ f.state = "OFF"
  <2> DEFINE e == [s EXCEPT !.server = IP_ADDR_ANY, !.offered = IP_ADDR_ANY]
             g == [e EXCEPT !.t0_lease = 0]
             l == [g EXCEPT !.t1_renew = 0]
  <2> HIDE DEF s, f
  <2>1. f = [l EXCEPT !.t2_rebind = 0]
    BY DEF forgotten, s, f
  <2>2. e \in DhcpClient /\ e.state = "OFF"
    BY Zenon, <1>2 DEF DhcpClient, IP_ADDR_ANY
  <2> HIDE DEF e
  <2>3. g \in DhcpClient /\ g.state = "OFF"
    BY <2>2 DEF DhcpClient
  <2> HIDE DEF g
  <2>4. l \in DhcpClient /\ l.state = "OFF"
    BY <2>3 DEF DhcpClient
  <2> HIDE DEF l
  <2> QED
    BY <2>1, <2>4 DEF DhcpClient
<1>4. d \in DhcpClient /\ d.state = "OFF"
  BY <1>3, Rearm DEF Rearmed
<1>5. Sent(a, r, "RELEASE", a.netif.ip, h)
  BY <1>1, Destinations, RequestSent DEF MsgKind
<1>6. Cached(b, h) /\ b.dhcp = c /\ b.pcbs = k
  <2> HIDE DEF r
  <2> QED
    BY <1>1, <1>5 DEF Sent, Running
<1>7. dhcp_release(a, ok) = n
  BY Zenon, <1>6 DEF dhcp_release
<1> HIDE DEF b, d
<1>8. b \in LinkMemory
  BY <1>6 DEF Cached
<1>9. /\ n \in LinkMemory /\ n.arp = b.arp /\ n.wire = b.wire /\ n.dhcp = d /\ n.pcbs = b.pcbs
      /\ n.netif.ip = IP_ADDR_ANY
  BY Zenon, <1>4, <1>8 DEF LinkMemory, unconfigured, IP_ADDR_ANY
<1> HIDE DEF n
<1> QED
  BY <1>4, <1>6, <1>7, <1>9 DEF Running, Cached

\* dhcp_decline turns an address down that another host uses.
LEMMA DeclineSound ==
  ASSUME NEW h, NEW k, NEW off \in BOOLEAN, NEW a, Running(a, h, k),
         NEW ok \in BOOLEAN
  PROVE  Sound(dhcp_decline(a, ok), h, k, off)
<1> DEFINE c == a.dhcp
           r == request(a, c.server, "DECLINE", c.offered)
           b == IF ok THEN r ELSE a
           s == dhcp_set_state(c, "BACKING_OFF")
           d == wait(tried(s), 10 * 1000)
           n == [b EXCEPT !.dhcp = d]
<1>1. c \in DhcpClient /\ Cached(a, h) /\ c.offered \in Nat
      /\ c.server \in LocalNet \cup NotUnicast
  BY Destinations DEF Running, DhcpClient
<1>2. s \in DhcpClient /\ s.state = "BACKING_OFF"
  BY <1>1, SetState DEF DhcpState
<1>3. Rearmed(s, d)
  BY <1>2, Rearm
<1>4. Sent(a, r, "DECLINE", c.offered, h)
  <2>1. "DECLINE" \in MsgKind
    BY DEF MsgKind
  <2> QED
    BY <1>1, <2>1, RequestSent
<1>5. Cached(b, h) /\ b.dhcp = c /\ b.pcbs = a.pcbs /\ b.netif = a.netif
  <2> HIDE DEF r
  <2> QED
    BY <1>1, <1>4 DEF Sent
<1>6. dhcp_decline(a, ok) = n
  BY <1>5 DEF dhcp_decline
<1> HIDE DEF b, d, s
<1>7. WithClient(b, n, d, h)
  BY <1>3, <1>5, ClientChanged DEF Rearmed
<1> HIDE DEF n
<1> QED
  BY <1>2, <1>3, <1>5, <1>6, <1>7
     DEF Sound, Running, Negotiated, WithClient, Rearmed, Asking

\* dhcp_check asks whether another host uses the acknowledged address.
LEMMA CheckSound ==
  ASSUME NEW h, NEW k, NEW off \in BOOLEAN, NEW a, Running(a, h, k),
         NEW ok \in BOOLEAN,
         ~a.leftover =>
           /\ a.dhcp.offered = a.acked
           /\ a.netif.ip \in {IP_ADDR_ANY, a.dhcp.offered}
           /\ a.asked.kind = "REQUEST" => a.asked.ip \in {IP_ADDR_ANY, a.dhcp.offered}
  PROVE  Sound(dhcp_check(a, ok), h, k, off)
<1> DEFINE c == a.dhcp
           b == etharp_query(a, c.offered, NULL, ok)
           w == wait(tried(c), 500)
           d == dhcp_set_state(w, "CHECKING")
           n == [b EXCEPT !.dhcp = d]
<1>1. c \in DhcpClient /\ Cached(a, h) /\ c.offered \in Nat
  BY DEF Running, DhcpClient
<1>2. Cached(b, h) /\ ArpOnly(a, b)
  BY <1>1, QueryCached
<1>3. tried(c) \in DhcpClient /\ tried(c).offered = c.offered
  BY <1>1, Tried
<1>4. w \in DhcpClient /\ w.offered = c.offered /\ w.request_timeout \in 1..ticks(20000)
  BY <1>3, Wait
<1>5. /\ d \in DhcpClient /\ d.state = "CHECKING" /\ d.offered = c.offered
      /\ d.request_timeout \in 1..ticks(20000)
  <2> HIDE DEF w
  <2> QED
    BY <1>4, SetState DEF DhcpState
<1>6. dhcp_check(a, ok) = n
  BY <1>2 DEF dhcp_check, ArpOnly
<1> HIDE DEF b, d, w
<1>7. WithClient(b, n, d, h)
  BY <1>2, <1>5, ClientChanged
<1> HIDE DEF n
<1> QED
  BY <1>2, <1>5, <1>6, <1>7
     DEF Sound, Running, Negotiated, Waiting, WithClient, ArpOnly, Asking

\* A period of the lease fits the coarse timer.
LEMMA LeaseTimer ==
  ASSUME NEW s \in Int, NEW t \in 0..(U16_MOD - 1)
  PROVE  lease_timer(s, t) \in 0..(U16_MOD - 1)
<1>1. U16_MOD \in Nat \ {0} /\ DHCP_COARSE_TIMER_SECS \in Nat \ {0}
  BY DhcpAssumption
<1>2. U16_MOD > 1
  <2>1. ticks(1) \in 1..ticks(20000) /\ ticks(1) % U16_MOD = ticks(1)
    BY TicksBound
  <2>2. ticks(1) % U16_MOD \in 0..(U16_MOD - 1)
    BY <1>1, <2>1, Remainder
  <2> QED
    BY <1>1, <2>1, <2>2
<1>3. (s + DHCP_COARSE_TIMER_SECS \div 2) \div DHCP_COARSE_TIMER_SECS \in Int
  <2>1. DHCP_COARSE_TIMER_SECS \div 2 \in Int
    BY <1>1
  <2>2. s + DHCP_COARSE_TIMER_SECS \div 2 \in Int
    BY <2>1
  <2> QED
    BY <1>1, <2>2, DivMonotone
<1>4. coarse(s) \in 0..(U16_MOD - 1)
  BY <1>1, <1>3, Remainder DEF coarse
<1> QED
  BY <1>1, <1>2, <1>4 DEF lease_timer, never_zero

\* dhcp_bind gives the offered address to the interface.
LEMMA BindSound ==
  ASSUME NEW h, NEW k, NEW off \in BOOLEAN, NEW a, Running(a, h, k),
         ~a.leftover =>
           /\ a.dhcp.offered = a.acked
           /\ a.asked.kind = "REQUEST" => a.asked.ip \in {IP_ADDR_ANY, a.dhcp.offered}
  PROVE  Sound(dhcp_bind(a), h, k, off)
<1> DEFINE c == a.dhcp
           t1 == lease_timer(c.t1_renew, c.t1_timeout)
           t2 == lease_timer(c.t2_rebind, c.t2_timeout)
           e == [c EXCEPT !.t1_timeout = t1, !.t2_timeout = t2]
           d == dhcp_set_state(e, "BOUND")
           i == [ip |-> c.offered, gw |-> SERVER, masked |-> TRUE]
           n == [a EXCEPT !.dhcp = d, !.netif = i]
<1>1. c \in DhcpClient /\ a \in LinkMemory /\ c.offered \in Nat
  BY DEF Running, Cached, DhcpClient
<1>2. t1 \in 0..(U16_MOD - 1) /\ t2 \in 0..(U16_MOD - 1)
  BY Zenon, <1>1, LeaseTimer DEF DhcpClient
<1>3. dhcp_bind(a) = n
  BY DEF dhcp_bind, lease_timed
<1> HIDE DEF t1, t2
<1>4. e \in DhcpClient /\ e.offered = c.offered
  BY Zenon, <1>1, <1>2 DEF DhcpClient
<1> HIDE DEF e
<1>5. d \in DhcpClient /\ d.state = "BOUND" /\ d.offered = c.offered
  BY <1>4, SetState DEF DhcpState
<1> HIDE DEF d
<1>6. /\ n \in LinkMemory /\ n.arp = a.arp /\ n.wire = a.wire /\ n.dhcp = d /\ n.pcbs = a.pcbs
      /\ n.netif.ip = c.offered /\ n.netif.masked /\ n.acked = a.acked
      /\ n.leftover = a.leftover /\ n.asked = a.asked
  BY Zenon, <1>1, <1>5 DEF LinkMemory
<1> HIDE DEF n
<1> QED
  BY <1>3, <1>5, <1>6 DEF Sound, Running, Cached, Negotiated, Waiting, Asking


\* A client that differs in its timers only has negotiated as much.
LEMMA TimersChanged ==
  ASSUME NEW h, NEW k, NEW a, Running(a, h, k), NEW d \in DhcpClient,
         d.state = a.dhcp.state, d.offered = a.dhcp.offered
  PROVE  /\ Running([a EXCEPT !.dhcp = d], h, k)
         /\ Negotiated(a) => Negotiated([a EXCEPT !.dhcp = d])
         /\ [a EXCEPT !.dhcp = d].dhcp = d
<1> DEFINE n == [a EXCEPT !.dhcp = d]
<1>1. WithClient(a, n, d, h)
  BY ClientChanged DEF Running
<1> HIDE DEF n
<1>2. Running(n, h, k) /\ (Negotiated(a) => Negotiated(n)) /\ n.dhcp = d
  BY <1>1 DEF Running, Negotiated, WithClient
<1> QED
  BY <1>2 DEF n

\* dhcp_timeout: whatever the client was waiting for, it goes on.
LEMMA TimeoutSound ==
  ASSUME NEW h, NEW k, NEW off \in BOOLEAN, NEW a, Running(a, h, k),
         Negotiated(a), NEW ok \in BOOLEAN, NEW ok2 \in BOOLEAN,
         a.dhcp.state = "OFF" \/ ~(ok /\ ok2) => off
  PROVE  Sound(dhcp_timeout(a, ok, ok2), h, k, off)
<1> DEFINE c == a.dhcp
           n == dhcp_timeout(a, ok, ok2)
<1>1. c \in DhcpClient /\ c.state \in DhcpState /\ c.tries \in Int
  BY DhcpAssumption DEF Running, DhcpClient
<1>2. Sound(dhcp_discover(dhcp_release(a, ok), ok2), h, k, off)
  <2> DEFINE r == dhcp_release(a, ok)
  <2>1. Running(r, h, k) /\ r.dhcp.state = "OFF"
    BY ReleaseRunning
  <2> HIDE DEF r
  <2>2. Sound(dhcp_discover(r, ok2), h, k, off)
    BY <2>1, DiscoverSound
  <2> QED
    BY <2>2 DEF r
<1>3. CASE c.state \in {"BACKING_OFF", "SELECTING"}
  <2>1. n = dhcp_discover(a, ok)
    BY <1>3 DEF dhcp_timeout
  <2> QED
    BY <1>3, <2>1, DiscoverSound
<1>4. CASE c.state = "REQUESTING"
  <2>1. n = dhcp_select(a, ok) \/ n = dhcp_discover(dhcp_release(a, ok), ok2)
    BY <1>1, <1>4 DEF dhcp_timeout
  <2> QED
    BY <1>2, <1>4, <2>1, SelectSound
<1>5. CASE c.state = "CHECKING"
  <2>1. n = dhcp_check(a, ok) \/ n = dhcp_bind(a)
    BY <1>1, <1>5 DEF dhcp_timeout
  <2>2. ~a.leftover =>
          /\ c.offered = a.acked /\ a.netif.ip \in {IP_ADDR_ANY, c.offered}
          /\ a.asked.kind = "REQUEST" => a.asked.ip \in {IP_ADDR_ANY, c.offered}
    BY <1>5 DEF Negotiated, Asking
  <2>3. Sound(dhcp_check(a, ok), h, k, off)
    BY <2>2, CheckSound
  <2>4. Sound(dhcp_bind(a), h, k, off)
    BY <2>2, BindSound
  <2> QED
    BY <2>1, <2>3, <2>4
<1>6. CASE c.state = "RENEWING"
  <2>1. n = dhcp_renew(a, ok)
    BY <1>6 DEF dhcp_timeout
  <2> QED
    BY <1>6, <2>1, RenewSound DEF Asking
<1>7. CASE c.state = "REBINDING"
  <2>1. n = dhcp_rebind(a, ok) \/ n = dhcp_discover(dhcp_release(a, ok), ok2)
    BY <1>1, <1>7 DEF dhcp_timeout
  <2> QED
    BY <1>2, <1>7, <2>1, RenewSound DEF Asking
<1>8. CASE c.state \in {"OFF", "BOUND"}
  <2>1. n = a
    BY <1>8 DEF dhcp_timeout
  <2> QED
    BY <1>8, <2>1 DEF Sound, Waiting
<1> QED
  BY <1>1, <1>3, <1>4, <1>5, <1>6, <1>7, <1>8 DEF DhcpState

\* A decrement in the width of the timer.
LEMMA OneLess ==
  ASSUME NEW t \in 0..(U16_MOD - 1)
  PROVE  one_less(t) \in 0..(U16_MOD - 1) /\ (t # 0 => one_less(t) = t - 1)
<1>1. U16_MOD \in Nat \ {0}
  BY DhcpAssumption
<1>2. (t + U16_MOD) - 1 \in Int
  BY <1>1
<1>3. ASSUME t # 0 PROVE ((t + U16_MOD) - 1) % U16_MOD = t - 1
  BY <1>1, <1>3
<1> QED
  BY <1>1, <1>2, <1>3, Remainder DEF one_less

\* dhcp_fine_tmr counts down to the timeout of the request.
LEMMA FineSound ==
  ASSUME NEW h, NEW k, NEW off \in BOOLEAN, NEW a, Sound(a, h, k, off),
         NEW ok \in BOOLEAN, NEW ok2 \in BOOLEAN, (ok /\ ok2) \/ off
  PROVE  Sound(dhcp_fine_tmr(a, ok, ok2), h, k, off)
<1> DEFINE c == a.dhcp
           z == [c EXCEPT !.request_timeout = 0]
           l == [c EXCEPT !.request_timeout = one_less(c.request_timeout)]
<1>1. /\ Running(a, h, k) /\ Negotiated(a) /\ c \in DhcpClient
      /\ c.request_timeout \in 0..(U16_MOD - 1) /\ (c.state = "OFF" => off)
  BY DEF Sound, Running, DhcpClient
<1>2. a \in LinkMemory
  BY <1>1 DEF Running, Cached
<1>3. CASE c.request_timeout = 1
  <2> DEFINE b == [a EXCEPT !.dhcp = z]
  <2>1. 0 \in 0..(U16_MOD - 1)
    BY DhcpAssumption
  <2>2. z \in DhcpClient /\ z.state = c.state /\ z.offered = c.offered
    BY <1>1, <2>1 DEF DhcpClient
  <2>3. dhcp_fine_tmr(a, ok, ok2) = dhcp_timeout(b, ok, ok2)
    BY <1>3 DEF dhcp_fine_tmr
  <2> HIDE DEF z
  <2>4. Running(b, h, k) /\ Negotiated(b) /\ b.dhcp = z
    BY <1>1, <2>2, TimersChanged
  <2> HIDE DEF b
  <2>5. b.dhcp.state = "OFF" \/ ~(ok /\ ok2) => off
    BY Zenon, <1>1, <2>2, <2>4
  <2> QED
    BY Zenon, <2>3, <2>4, <2>5, TimeoutSound
<1>4. CASE c.request_timeout # 1
  <2> DEFINE b == [a EXCEPT !.dhcp = l]
             t == one_less(c.request_timeout)
  <2>1. t \in 0..(U16_MOD - 1) /\ (c.request_timeout # 0 => t = c.request_timeout - 1)
    BY <1>1, OneLess
  <2>2. dhcp_fine_tmr(a, ok, ok2) = b
    BY <1>4 DEF dhcp_fine_tmr
  <2> HIDE DEF t
  <2>3. l \in DhcpClient /\ l.state = c.state /\ l.offered = c.offered /\ l.tries = c.tries
        /\ l.request_timeout = t
    BY <1>1, <2>1 DEF DhcpClient, t
  <2> HIDE DEF l
  <2>4. Running(b, h, k) /\ Negotiated(b) /\ b.dhcp = l
    BY <1>1, <2>3, TimersChanged
  <2>5. Waiting(l)
    <3>1. Waiting(c) /\ c.request_timeout \in Int /\ ticks(20000) \in Int
      BY <1>1, TicksBound DEF Sound
    <3> QED
      BY <1>4, <2>1, <2>3, <3>1 DEF Waiting
  <2> HIDE DEF b
  <2> QED
    BY Zenon, <1>1, <2>2, <2>3, <2>4, <2>5 DEF Sound
<1> QED
  BY <1>3, <1>4


\* dhcp_coarse_tmr counts down to the renewal of the lease.
LEMMA CoarseSound ==
  ASSUME NEW h, NEW k, NEW off \in BOOLEAN, NEW a, Sound(a, h, k, off),
         NEW ok \in BOOLEAN
  PROVE  Sound(dhcp_coarse_tmr(a, ok), h, k, off)
<1> DEFINE c == a.dhcp
           o1 == one_less(c.t1_timeout)
           o2 == one_less(c.t2_timeout)
           d1 == [c EXCEPT !.t2_timeout = 0]
           d2 == [c EXCEPT !.t2_timeout = o2, !.t1_timeout = 0]
           d3 == [c EXCEPT !.t2_timeout = o2, !.t1_timeout = o1]
           n == dhcp_coarse_tmr(a, ok)
<1>1. Running(a, h, k) /\ Negotiated(a) /\ c \in DhcpClient /\ a \in LinkMemory
  BY DEF Sound, Running, Cached
<1>2. o1 \in 0..(U16_MOD - 1) /\ o2 \in 0..(U16_MOD - 1) /\ 0 \in 0..(U16_MOD - 1)
  BY <1>1, OneLess, DhcpAssumption DEF DhcpClient
<1>3. \/ n = dhcp_t2_timeout([a EXCEPT !.dhcp = d1], ok)
      \/ n = dhcp_t1_timeout([a EXCEPT !.dhcp = d2], ok)
      \/ n = [a EXCEPT !.dhcp = d3]
  BY Zenon, <1>1 DEF dhcp_coarse_tmr, LinkMemory
<1> HIDE DEF o1, o2
<1>4. ASSUME NEW d \in {d1, d2, d3}
      PROVE  /\ d \in DhcpClient /\ d.state = c.state /\ d.offered = c.offered
             /\ d.tries = c.tries /\ d.request_timeout = c.request_timeout
  <2>1. CASE d = d1
    BY <1>1, <1>2, <2>1 DEF DhcpClient
  <2>2. CASE d = d2
    BY Zenon, <1>1, <1>2, <2>2 DEF DhcpClient
  <2>3. CASE d = d3
    BY Zenon, <1>1, <1>2, <2>3 DEF DhcpClient
  <2> QED
    BY <2>1, <2>2, <2>3
<1> HIDE DEF d1, d2, d3
<1>5. ASSUME NEW d \in {d1, d2, d3}
      PROVE  Sound([a EXCEPT !.dhcp = d], h, k, off) /\ [a EXCEPT !.dhcp = d].dhcp = d
  <2> DEFINE b == [a EXCEPT !.dhcp = d]
  <2>1. /\ d \in DhcpClient /\ d.state = c.state /\ d.offered = c.offered
        /\ d.tries = c.tries /\ d.request_timeout = c.request_timeout
    BY <1>4
  <2>2. Running(b, h, k) /\ Negotiated(b) /\ b.dhcp = d
    BY <1>1, <2>1, TimersChanged
  <2>3. Waiting(d)
    BY <2>1 DEF Sound, Waiting
  <2> HIDE DEF b
  <2>4. Sound(b, h, k, off) /\ b.dhcp = d
    BY Zenon, <2>1, <2>2, <2>3 DEF Sound
  <2> QED
    BY <2>4 DEF b
<1>6. ASSUME NEW b, Sound(b, h, k, off)
      PROVE  Sound(dhcp_t2_timeout(b, ok), h, k, off) /\ Sound(dhcp_t1_timeout(b, ok), h, k, off)
  <2>1. Running(b, h, k) /\ Negotiated(b)
    BY <1>6 DEF Sound
  <2>2. b.dhcp.state \in lease_states =>
          Sound(dhcp_renew(b, ok), h, k, off) /\ Sound(dhcp_rebind(b, ok), h, k, off)
    BY <2>1, RenewSound DEF lease_states, Asking
  <2> QED
    BY <1>6, <2>2 DEF dhcp_t1_timeout, dhcp_t2_timeout
<1> QED
  BY <1>3, <1>5, <1>6

\* What a message of the server says; a fresh acknowledgement is for the
\* address that was asked for.
Answer(a, r) ==
  /\ r.type \in {"OFFER", "ACK", "NAK"} /\ r.server = SERVER /\ r.ip \in Nat
  /\ r.t0 \in Int /\ r.t1 \in Int /\ r.t2 \in Int /\ r.fresh \in BOOLEAN
  /\ r.fresh /\ r.type = "ACK" =>
       a.asked.kind = "REQUEST" /\ r.ip = a.asked.ip /\ r.ip # IP_ADDR_ANY

\* An acknowledged request: the offered address is checked before it is used.
LEMMA AckedSound ==
  ASSUME NEW h, NEW k, NEW off \in BOOLEAN, NEW a, Sound(a, h, k, off),
         NEW ok \in BOOLEAN, NEW r, Answer(a, r), r.fresh,
         r.type = "ACK", a.dhcp.state = "REQUESTING"
  PROVE  Sound(dhcp_check(stopped(dhcp_handle_ack(a, r)), ok), h, k, off)
<1> DEFINE c == a.dhcp
           t0 == option(r.t0, c.t0_lease)
           l == leased(c, r, t0)
           d == [l EXCEPT !.request_timeout = 0]
           b == dhcp_handle_ack(a, r)
           n == stopped(b)
<1>1. Running(a, h, k) /\ Negotiated(a) /\ c \in DhcpClient /\ a \in LinkMemory /\ a.pcbs = k
      /\ Cached(a, h)
  BY DEF Sound, Running, Cached
<1>2. r.ip \in Nat /\ t0 \in Int /\ option(r.t1, t0 \div 2) \in Int /\ option(r.t2, t0) \in Int
  BY <1>1 DEF Answer, option, DhcpClient
<1>3. l \in DhcpClient /\ l.state = c.state /\ l.offered = r.ip
  <2> DEFINE x == option(r.t1, t0 \div 2)
             y == option(r.t2, t0)
             e == [c EXCEPT !.t0_lease = t0, !.t1_renew = x]
  <2>1. l = [e EXCEPT !.t2_rebind = y, !.offered = r.ip]
    BY DEF leased
  <2> HIDE DEF x, y, t0, l
  <2>2. x \in Int /\ y \in Int /\ t0 \in Int
    BY <1>2 DEF x, y
  <2>3. e \in DhcpClient /\ e.state = c.state
    BY Zenon, <1>1, <2>2 DEF DhcpClient
  <2> HIDE DEF e
  <2> QED
    BY Zenon, <1>2, <2>1, <2>2, <2>3 DEF DhcpClient
<1>4. b = [a EXCEPT !.dhcp = l, !.acked = r.ip, !.conflict = FALSE]
  BY DEF dhcp_handle_ack
<1> HIDE DEF l, t0
<1>5. d \in DhcpClient /\ d.state = c.state /\ d.offered = r.ip
  <2>1. 0 \in 0..(U16_MOD - 1)
    BY DhcpAssumption
  <2> QED
    BY <1>3, <2>1 DEF DhcpClient
<1> HIDE DEF b
<1>6. /\ b \in LinkMemory /\ b.arp = a.arp /\ b.wire = a.wire /\ b.pcbs = a.pcbs /\ b.dhcp = l
      /\ b.netif = a.netif /\ b.acked = r.ip /\ b.leftover = a.leftover /\ b.asked = a.asked
  BY Zenon, <1>1, <1>2, <1>3, <1>4 DEF LinkMemory
<1>7. n = [b EXCEPT !.dhcp = d]
  BY <1>6 DEF stopped
<1>8. Cached(b, h)
  BY <1>1, <1>6 DEF Cached
<1> HIDE DEF n, d
<1>9. WithClient(b, n, d, h)
  BY <1>5, <1>7, <1>8, ClientChanged
<1>10. Running(n, h, k)
  BY <1>1, <1>5, <1>6, <1>9 DEF WithClient, Running
<1>11. ~n.leftover =>
         /\ n.dhcp.offered = n.acked
         /\ n.netif.ip \in {IP_ADDR_ANY, n.dhcp.offered}
         /\ n.asked.kind = "REQUEST" => n.asked.ip \in {IP_ADDR_ANY, n.dhcp.offered}
  BY <1>1, <1>5, <1>6, <1>9 DEF WithClient, Negotiated, Answer, Asking
<1>12. Sound(dhcp_check(n, ok), h, k, off)
  BY <1>10, <1>11, CheckSound
<1> QED
  BY <1>12 DEF n, b


\* dhcp_recv: every answer of the server leaves the client waiting or bound.
LEMMA RecvSound ==
  ASSUME NEW h, NEW k, NEW off \in BOOLEAN, NEW a, Sound(a, h, k, off),
         NEW ok \in BOOLEAN, NEW copied \in BOOLEAN,
         NEW r, Answer(a, r)
  PROVE  Sound(dhcp_recv(a, r, copied, ok), h, k, off)
<1> DEFINE c == a.dhcp
           d == [c EXCEPT !.request_timeout = 0]
           s == [a EXCEPT !.dhcp = d]
<1>1. Running(a, h, k) /\ Negotiated(a) /\ c \in DhcpClient /\ a \in LinkMemory
  BY DEF Sound, Running, Cached
<1>2. d \in DhcpClient /\ d.state = c.state /\ d.offered = c.offered
  <2>1. 0 \in 0..(U16_MOD - 1)
    BY DhcpAssumption
  <2> QED
    BY <1>1, <2>1 DEF DhcpClient
<1>3. stopped(a) = s
  BY <1>1 DEF stopped
<1>4. c # NoClient
  BY <1>1 DEF DhcpClient, NoClient, DhcpState
<1> HIDE DEF d
<1>5. Running(s, h, k) /\ Negotiated(s) /\ s.dhcp = d
  BY <1>1, <1>2, TimersChanged
<1>6. WithClient(a, s, d, h)
  BY <1>1, <1>2, ClientChanged DEF Running
<1> HIDE DEF s
<1>7. CASE ~(r.fresh /\ copied)
  BY <1>4, <1>7 DEF dhcp_recv
<1>8. CASE r.fresh /\ copied
  <2> DEFINE n == handle_reply(a, r, ok)
  <2>1. dhcp_recv(a, r, copied, ok) = n
    BY <1>4, <1>8 DEF dhcp_recv
  <2>2. CASE r.type = "ACK" /\ c.state = "REQUESTING"
    <3>1. n = dhcp_check(stopped(dhcp_handle_ack(a, r)), ok)
      BY <2>2 DEF handle_reply
    <3> QED
      BY Zenon, <1>8, <2>1, <2>2, <3>1, AckedSound
  <2>3. CASE r.type = "ACK" /\ c.state \in {"REBINDING", "RENEWING"}
    <3> DEFINE b == [s EXCEPT !.acked = r.ip]
    <3>1. n = dhcp_bind(b)
      BY <1>3, <2>3 DEF handle_reply
    <3>2. s \in LinkMemory /\ r.ip \in Nat
      BY <1>5 DEF Running, Cached, Answer
    <3>3. /\ b \in LinkMemory /\ b.arp = s.arp /\ b.wire = s.wire /\ b.pcbs = s.pcbs /\ b.dhcp = d
          /\ b.netif = s.netif /\ b.acked = r.ip /\ b.leftover = s.leftover /\ b.asked = s.asked
      BY <1>5, <3>2 DEF LinkMemory
    <3> HIDE DEF b
    <3>4. Running(b, h, k)
      BY <1>2, <1>5, <3>3 DEF Running, Cached
    <3>5. ~b.leftover =>
            /\ b.dhcp.offered = b.acked
            /\ b.asked.kind = "REQUEST" => b.asked.ip \in {IP_ADDR_ANY, b.dhcp.offered}
      BY <1>1, <1>2, <1>6, <1>8, <2>3, <3>3 DEF WithClient, Negotiated, Answer, Asking
    <3> QED
      BY <2>1, <3>1, <3>4, <3>5, BindSound
  <2>4. CASE r.type = "NAK" /\ c.state \in {"REQUESTING", "REBINDING", "RENEWING"}
    <3> DEFINE w == wait(d, 10 * 1000)
               e == dhcp_set_state(w, "BACKING_OFF")
               b == [s EXCEPT !.dhcp = e]
    <3>1. n = b
      BY <1>3, <1>5, <2>4 DEF handle_reply, dhcp_handle_nak
    <3>2. w \in DhcpClient /\ w.request_timeout \in 1..ticks(20000)
      BY <1>2, Wait
    <3> HIDE DEF w
    <3>3. e \in DhcpClient /\ e.state = "BACKING_OFF" /\ e.request_timeout \in 1..ticks(20000)
      BY <3>2, SetState DEF DhcpState
    <3> HIDE DEF e
    <3>4. WithClient(s, b, e, h)
      BY <1>5, <3>3, ClientChanged DEF Running
    <3> HIDE DEF b
    <3>5. Sound(b, h, k, off)
      <4>1. Running(b, h, k)
        BY <1>5, <3>3, <3>4 DEF Running, WithClient
      <4>2. Waiting(b.dhcp)
        BY <3>3, <3>4 DEF WithClient, Waiting
      <4>3. Negotiated(b)
        BY <3>3, <3>4 DEF WithClient, Negotiated, Asking
      <4>4. b.dhcp.state # "OFF"
        BY <3>3, <3>4 DEF WithClient
      <4> QED
        BY <4>1, <4>2, <4>3, <4>4 DEF Sound
    <3> QED
      BY <2>1, <3>1, <3>5
  <2>5. CASE r.type = "OFFER" /\ c.state = "SELECTING"
    <3> DEFINE e == [d EXCEPT !.server = r.server, !.offered = r.ip]
               b == [s EXCEPT !.dhcp = e]
    <3>1. r.server # IP_ADDR_ANY /\ r.server = SERVER /\ r.ip \in Nat
      BY DhcpAssumption, EtharpAssumption DEF Answer, IP_ADDR_ANY
    <3>2. s \in LinkMemory
      BY <1>5 DEF Running, Cached
    <3>3. n = dhcp_select(b, ok)
      BY Zenon, <1>3, <1>5, <2>5, <3>1, <3>2 DEF handle_reply, dhcp_handle_offer, LinkMemory
    <3>4. e \in DhcpClient /\ e.state = "SELECTING"
      BY Zenon, <1>2, <2>5, <3>1 DEF DhcpClient
    <3> HIDE DEF e
    <3>5. WithClient(s, b, e, h)
      BY <1>5, <3>4, ClientChanged DEF Running
    <3> HIDE DEF b
    <3>6. Running(b, h, k) /\ Negotiated(b) /\ b.dhcp.state = "SELECTING"
      BY <1>2, <1>5, <2>5, <3>4, <3>5 DEF Running, WithClient, Negotiated, Asking
    <3> QED
      BY <2>1, <3>3, <3>6, SelectSound
  <2>6. CASE ~(\/ r.type = "ACK" /\ c.state = "REQUESTING"
               \/ r.type = "ACK" /\ c.state \in {"REBINDING", "RENEWING"}
               \/ r.type = "NAK" /\ c.state \in {"REQUESTING", "REBINDING", "RENEWING"}
               \/ r.type = "OFFER" /\ c.state = "SELECTING")
    <3>1. n = a
      BY <2>6 DEF handle_reply
    <3> QED
      BY <2>1, <3>1
  <2> QED
    BY <2>2, <2>3, <2>4, <2>5, <2>6
<1> QED
  BY <1>7, <1>8

\* An interface without a client, and k UDP pcbs left behind by earlier ones.
Idle(a, h, k) ==
  /\ Cached(a, h) /\ a.dhcp = NoClient /\ a.pcbs = k
  /\ a.netif.ip # IP_ADDR_ANY => a.netif.masked

\* A client is not the absence of one.
LEMMA SomeClient == NoClient \notin DhcpClient
BY DEF DhcpClient, NoClient, DhcpState

\* dhcp_stop takes the client and its UDP pcb away.
LEMMA StopIdle ==
  ASSUME NEW h, NEW k \in Int, NEW off \in BOOLEAN, NEW a, Sound(a, h, k, off)
  PROVE  Idle(dhcp_stop(a), h, k - 1)
<1>1. /\ Cached(a, h) /\ a.pcbs = k /\ a.dhcp \in DhcpClient
      /\ a.netif.ip # IP_ADDR_ANY => a.netif.masked
  BY DEF Sound, Running
<1>2. dhcp_stop(a) = [a EXCEPT !.dhcp = NoClient, !.pcbs = k - 1]
  BY <1>1, SomeClient DEF dhcp_stop
<1>3. k - 1 \in Int /\ NoClient \in {NoClient} \cup DhcpClient
  OBVIOUS
<1> DEFINE n == dhcp_stop(a)
<1>4. Cached(n, h) /\ n.dhcp = NoClient /\ n.pcbs = k - 1 /\ n.netif = a.netif
  <2> DEFINE l == k - 1
  <2>1. l \in Int /\ a \in LinkMemory /\ NoClient \in {NoClient} \cup DhcpClient
    BY <1>1, <1>3 DEF Cached
  <2> DEFINE x == [a EXCEPT !.dhcp = NoClient]
  <2>2. x \in LinkMemory /\ x.arp = a.arp /\ x.wire = a.wire /\ x.dhcp = NoClient /\ x.netif = a.netif
    BY <1>2, <2>1 DEF LinkMemory
  <2>3. n = [x EXCEPT !.pcbs = l]
    BY <1>2, <2>1
  <2> HIDE DEF n, x, l
  <2>4. /\ n \in LinkMemory /\ n.arp = a.arp /\ n.wire = a.wire
        /\ n.dhcp = NoClient /\ n.pcbs = l /\ n.netif = a.netif
    BY <2>1, <2>2, <2>3 DEF LinkMemory
  <2>5. Cached(n, h)
    BY <1>1, <2>4 DEF Cached
  <2> QED
    BY <2>4, <2>5 DEF l
<1> HIDE DEF n
<1> QED
  BY <1>1, <1>4 DEF Idle, n

\* What dhcp_start finds: k pcbs, and a client or none.
Startable(a, h, k) ==
  /\ Cached(a, h) /\ a.pcbs = k /\ (a.netif.ip # IP_ADDR_ANY => a.netif.masked)

\* dhcp_start: a client with one more pcb and a first request, or no client and
\* the pcbs there were.
LEMMA StartSound ==
  ASSUME NEW h, NEW k \in Nat, NEW off \in BOOLEAN, NEW a, Startable(a, h, k),
         NEW ok \in BOOLEAN
  PROVE  \/ k < MEMP_NUM_UDP_PCB /\ Sound(dhcp_start(a, ok), h, k + 1, off)
         \/ Idle(dhcp_start(a, ok), h, k)
<1> DEFINE b == [a EXCEPT !.dhcp = cleared, !.pcbs = k + 1]
           n == [a EXCEPT !.dhcp = NoClient]
<1>1. /\ Cached(a, h) /\ a \in LinkMemory /\ a.pcbs = k
      /\ a.netif.ip # IP_ADDR_ANY => a.netif.masked
  BY DEF Startable, Cached
<1>2. cleared \in DhcpClient /\ cleared.state = "OFF"
  <2>1. 0 \in 0..(U16_MOD - 1) /\ 0 \in 0..(U8_MOD - 1)
    BY DhcpAssumption
  <2> QED
    BY <2>1 DEF cleared, DhcpClient, DhcpState, IP_ADDR_ANY
<1>3. Cached(b, h) /\ b.dhcp = cleared /\ b.pcbs = k + 1 /\ b.netif = a.netif
  <2> DEFINE l == k + 1
  <2>1. l \in Int /\ cleared \in {NoClient} \cup DhcpClient
    BY <1>2
  <2> DEFINE x == [a EXCEPT !.dhcp = cleared]
  <2>2. x \in LinkMemory /\ x.arp = a.arp /\ x.wire = a.wire /\ x.dhcp = cleared /\ x.netif = a.netif
    BY <1>1, <2>1 DEF LinkMemory
  <2>3. b = [x EXCEPT !.pcbs = l]
    BY <1>1, <2>1
  <2> HIDE DEF b, x, l
  <2>4. /\ b \in LinkMemory /\ b.arp = a.arp /\ b.wire = a.wire
        /\ b.dhcp = cleared /\ b.pcbs = l /\ b.netif = a.netif
    BY <2>1, <2>2, <2>3 DEF LinkMemory
  <2>5. Cached(b, h)
    BY <1>1, <2>4 DEF Cached
  <2> QED
    BY <2>4, <2>5 DEF l
<1>4. /\ MEMP_NUM_UDP_PCB \in Nat
      /\ k >= MEMP_NUM_UDP_PCB <=> ~(k < MEMP_NUM_UDP_PCB)
  BY DhcpAssumption
<1>5. CASE k >= MEMP_NUM_UDP_PCB
  <2>1. dhcp_start(a, ok) = n
    BY Zenon, <1>1, <1>4, <1>5 DEF dhcp_start
  <2>2. n \in LinkMemory /\ n.arp = a.arp /\ n.wire = a.wire /\ n.dhcp = NoClient
        /\ n.pcbs = k /\ n.netif = a.netif
    BY <1>1 DEF LinkMemory
  <2> HIDE DEF n
  <2> QED
    BY <1>1, <2>1, <2>2 DEF Idle, Cached
<1> HIDE DEF b
<1>6. Running(b, h, k + 1) /\ b.dhcp.state \in {"OFF", "SELECTING", "BACKING_OFF"}
  BY <1>1, <1>2, <1>3 DEF Running
<1>7. CASE k < MEMP_NUM_UDP_PCB /\ ok
  <2>1. dhcp_start(a, ok) = dhcp_discover(b, TRUE)
    BY Zenon, <1>1, <1>4, <1>7 DEF dhcp_start, b
  <2>2. Sound(dhcp_discover(b, TRUE), h, k + 1, off)
    BY Zenon, <1>6, DiscoverSound
  <2> QED
    BY <1>7, <2>1, <2>2
<1>8. CASE k < MEMP_NUM_UDP_PCB /\ ~ok
  <2>1. dhcp_start(a, ok) = dhcp_stop(dhcp_discover(b, FALSE))
    BY Zenon, <1>1, <1>4, <1>8 DEF dhcp_start, b
  <2>2. Sound(dhcp_discover(b, FALSE), h, k + 1, TRUE)
    BY Zenon, <1>6, DiscoverSound
  <2>3. k + 1 \in Int /\ (k + 1) - 1 = k
    OBVIOUS
  <2>4. Idle(dhcp_stop(dhcp_discover(b, FALSE)), h, (k + 1) - 1)
    BY Zenon, <2>2, <2>3, StopIdle
  <2> QED
    BY Zenon, <2>1, <2>3, <2>4
<1> QED
  BY Zenon, <1>4, <1>5, <1>7, <1>8


-----------------------------------------------------------------------------
(***************************************************************************)
(* The steps of the interface.                                             *)
(***************************************************************************)

\* How many UDP pcbs there are.  restarts says whether clients may be started
\* again: only then is there one without a client.
Counted(a, restarts) ==
  /\ a.pcbs \in 0..MEMP_NUM_UDP_PCB /\ (a.dhcp # NoClient => a.pcbs # 0)
  /\ ~restarts => a.pcbs = IF a.dhcp = NoClient THEN 0 ELSE 1

\* A memory between two handlers, of an interface on the network w.
Settled(a, h, w) ==
  /\ Idle(a, h, a.pcbs) \/ Sound(a, h, a.pcbs, w.fails)
  /\ Counted(a, w.restarts)

\* The inductive invariant.
LinkInv == net \in NetType /\ heard \in [net.hosts -> Nat] /\ Settled(m, heard, net)

\* The ARP code leaves the client as it found it.
LEMMA ArpKeeps ==
  ASSUME NEW h, NEW g, NEW w, NEW a, Settled(a, h, w), NEW b, Cached(b, g), ArpOnly(a, b)
  PROVE  Settled(b, g, w)
<1>1. b.pcbs = a.pcbs /\ b.dhcp = a.dhcp
  BY DEF ArpOnly
<1>2. Idle(a, h, a.pcbs) => Idle(b, g, b.pcbs)
  BY DEF Idle, ArpOnly
<1>3. Sound(a, h, a.pcbs, w.fails) => Sound(b, g, b.pcbs, w.fails)
  BY Zenon DEF Sound, Running, Negotiated, ArpOnly
<1>4. Counted(b, w.restarts)
  BY Zenon, <1>1 DEF Settled, Counted
<1> QED
  BY Zenon, <1>2, <1>3, <1>4 DEF Settled

\* So does a handler that leaves the client waiting, with the pcbs there were.
LEMMA SoundKeeps ==
  ASSUME NEW h, NEW g, NEW w, NEW a, Settled(a, h, w), a.dhcp # NoClient,
         NEW b, Sound(b, g, a.pcbs, w.fails)
  PROVE  Settled(b, g, w)
<1>1. b.pcbs = a.pcbs /\ b.dhcp \in DhcpClient
  BY Zenon DEF Sound, Running
<1>2. b.dhcp # NoClient
  BY <1>1, SomeClient
<1>3. Counted(b, w.restarts)
  BY Zenon, <1>1, <1>2 DEF Settled, Counted
<1> QED
  BY Zenon, <1>1, <1>3 DEF Settled

\* The frames of a handler are gone when the next one runs.
LEMMA QuietSettled ==
  ASSUME NEW h, NEW w, NEW a, Settled(a, h, w)
  PROVE  /\ Settled(Quiet(a), h, w) /\ Cached(Quiet(a), h)
         /\ Quiet(a).wire = {} /\ Quiet(a).dhcp = a.dhcp /\ Quiet(a).netif = a.netif
<1> DEFINE b == Quiet(a)
<1>1. Cached(a, h)
  BY Zenon DEF Settled, Idle, Sound, Running
<1>2. a \in LinkMemory
  BY <1>1 DEF Cached
<1>3. b \in LinkMemory /\ b.arp = a.arp /\ b.wire = {} /\ ArpOnly(a, b)
  BY <1>2 DEF Quiet, LinkMemory, ArpOnly
<1> HIDE DEF b
<1>4. Cached(b, h)
  BY <1>1, <1>3 DEF Cached
<1> QED
  BY <1>3, <1>4, ArpKeeps DEF ArpOnly, b

\* The messages that can arrive.
LEMMA Answers ==
  ASSUME LinkInv, NEW r \in FreshReplies \cup StaleReplies
  PROVE  Answer(m, r)
<1>1. net.addrs \in SUBSET Nat /\ net.leases \in SUBSET [t0 : Int, t1 : Int, t2 : Int]
  BY DEF LinkInv, NetType
<1>2. ASSUME NEW type \in {"OFFER", "ACK", "NAK"}, NEW ip \in Nat, NEW l \in net.leases,
             NEW fresh \in BOOLEAN, r = Reply(type, ip, l, fresh),
             fresh /\ type = "ACK" =>
               m.asked.kind = "REQUEST" /\ ip = m.asked.ip /\ ip # IP_ADDR_ANY
      PROVE  Answer(m, r)
  BY <1>1, <1>2 DEF Reply, Answer
<1>3. ASSUME NEW fresh \in BOOLEAN, r \in Offers(fresh) \cup Naks(fresh) PROVE Answer(m, r)
  <2>1. CASE r \in Offers(fresh)
    <3>1. PICK ip \in net.addrs, l \in net.leases : r = Reply("OFFER", ip, l, fresh)
      BY <2>1 DEF Offers
    <3> QED
      BY <1>1, <1>2, <3>1
  <2>2. CASE r \in Naks(fresh)
    <3>1. PICK l \in net.leases : r = Reply("NAK", IP_ADDR_ANY, l, fresh)
      BY <2>2 DEF Naks
    <3>2. IP_ADDR_ANY \in Nat
      BY DEF IP_ADDR_ANY
    <3> QED
      BY <1>2, <3>1, <3>2
  <2> QED
    BY <1>3, <2>1, <2>2
<1>4. ASSUME NEW ips, NEW fresh, r \in Acks(ips, fresh)
      PROVE  \E ip \in ips, l \in net.leases : r = Reply("ACK", ip, l, fresh)
  BY <1>4 DEF Acks
<1>5. ASSUME m.asked.kind = "REQUEST", r \in Acks({m.asked.ip} \ {IP_ADDR_ANY}, TRUE)
      PROVE  Answer(m, r)
  <2>1. PICK ip \in {m.asked.ip} \ {IP_ADDR_ANY}, l \in net.leases : r = Reply("ACK", ip, l, TRUE)
    BY Zenon, <1>4, <1>5
  <2>2. m.asked.ip \in Nat
    BY DEF LinkInv, Settled, Idle, Sound, Running, Cached, LinkMemory
  <2> QED
    BY Zenon, <1>2, <1>5, <2>1, <2>2
<1>6. ASSUME r \in Acks(net.addrs \ {IP_ADDR_ANY}, FALSE) PROVE Answer(m, r)
  <2>1. PICK ip \in net.addrs \ {IP_ADDR_ANY}, l \in net.leases : r = Reply("ACK", ip, l, FALSE)
    BY Zenon, <1>4, <1>6
  <2> QED
    BY Zenon, <1>1, <1>2, <2>1
<1>7. CASE r \in FreshReplies
  BY Zenon, <1>3, <1>5, <1>7 DEF FreshReplies
<1>8. CASE r \in StaleReplies
  BY Zenon, <1>3, <1>6, <1>8 DEF StaleReplies
<1> QED
  BY <1>7, <1>8

\* A frame of the ARP protocol.
LEMMA ArpInputStep ==
  ASSUME LinkInv, NEW op \in {"REQUEST", "REPLY"}, NEW src \in net.hosts, NEW eth \in net.eths,
         NEW dst, NEW ok \in BOOLEAN, ArpInput(op, src, eth, dst, ok)
  PROVE  LinkInv'
<1> DEFINE q == Quiet(m)
           x == [q EXCEPT !.conflict = @ \/ answers_check(op, src)]
           g == [heard EXCEPT ![src] = eth]
           us == for_us(x, dst)
           b == update_arp_entry(x, src, eth, us)
           n == act_on(b, op, src, eth, dst, ok)
<1>1. net \in NetType /\ heard \in [net.hosts -> Nat] /\ Settled(m, heard, net)
      /\ src \in Nat /\ eth \in Nat
  BY DEF LinkInv, NetType
<1>2. m' = n /\ heard' = g /\ net' = net
  BY DEF ArpInput, etharp_arp_input
<1>3. Settled(q, heard, net) /\ q.wire = {} /\ Cached(q, heard)
  BY Zenon, <1>1, QuietSettled
<1> HIDE DEF q
<1>4. Settled(x, heard, net) /\ x.wire = {} /\ Cached(x, heard)
  <2>1. q \in LinkMemory
    BY <1>3 DEF Cached
  <2>2. answers_check(op, src) \in BOOLEAN
    BY DEF answers_check
  <2>3. /\ x \in LinkMemory /\ x.arp = q.arp /\ x.wire = {} /\ x.dhcp = q.dhcp /\ x.pcbs = q.pcbs
        /\ x.asked = q.asked /\ x.acked = q.acked /\ x.leftover = q.leftover /\ x.netif = q.netif
    BY <1>3, <2>1, <2>2 DEF LinkMemory
  <2> HIDE DEF x
  <2>4. Cached(x, heard)
    BY <1>3, <2>3 DEF Cached
  <2>5. Settled(x, heard, net)
    BY Zenon, <1>3, <2>3, <2>4 DEF Settled, Idle, Sound, Running, Negotiated, Counted
  <2> QED
    BY <2>3, <2>4, <2>5
<1> HIDE DEF x
<1>5. us \in BOOLEAN
  BY DEF for_us
<1> HIDE DEF us
<1>6. Cached(b, g) /\ ArpOnly(x, b)
  BY Zenon, <1>1, <1>4, <1>5, UpdateEntry
<1>7. g \in [net.hosts -> Nat]
  BY <1>1
<1> HIDE DEF b, g
<1>8. Settled(b, g, net)
  BY <1>4, <1>6, ArpKeeps
<1>9. \/ n = [b EXCEPT !.wire = @ \cup {[type |-> "REPLY", hop |-> src, eth |-> eth]}]
      \/ n = dhcp_arp_reply(b, src, ok)
      \/ n = b
  BY DEF act_on
<1>10. CASE n = [b EXCEPT !.wire = @ \cup {[type |-> "REPLY", hop |-> src, eth |-> eth]}]
  <2> DEFINE f == [type |-> "REPLY", hop |-> src, eth |-> eth]
  <2>1. f \in EthFrame /\ FrameOK(f, g)
    BY <1>1 DEF EthFrame, FrameOK
  <2> HIDE DEF f
  <2>2. Cached([b EXCEPT !.wire = @ \cup {f}], g) /\ ArpOnly(b, [b EXCEPT !.wire = @ \cup {f}])
    BY <1>6, <2>1, OneFrame
  <2>3. Settled([b EXCEPT !.wire = @ \cup {f}], g, net)
    BY <1>8, <2>2, ArpKeeps
  <2> QED
    BY <1>1, <1>2, <1>7, <1>10, <2>3 DEF LinkInv, f
<1>11. CASE n = dhcp_arp_reply(b, src, ok)
  <2>1. b.dhcp.state = "CHECKING" => Settled(dhcp_decline(b, ok), g, net)
    <3> SUFFICES ASSUME b.dhcp.state = "CHECKING" PROVE Settled(dhcp_decline(b, ok), g, net)
      OBVIOUS
    <3>1. b.dhcp # NoClient
      BY DEF NoClient
    <3>2. Running(b, g, b.pcbs) /\ net.fails \in BOOLEAN
      BY Zenon, <1>1, <1>8, <3>1 DEF Settled, Idle, Sound, NetType
    <3>3. Sound(dhcp_decline(b, ok), g, b.pcbs, net.fails)
      BY Zenon, <3>2, DeclineSound
    <3> QED
      BY Zenon, <1>8, <3>1, <3>3, SoundKeeps
  <2>2. Settled(n, g, net)
    BY <1>8, <1>11, <2>1 DEF dhcp_arp_reply
  <2> QED
    BY <1>1, <1>2, <1>7, <2>2 DEF LinkInv
<1>12. CASE n = b
  BY <1>1, <1>2, <1>7, <1>8, <1>12 DEF LinkInv
<1> QED
  BY <1>9, <1>10, <1>11, <1>12


\* A packet from the network, a packet to send, the timer of the cache.
LEMMA ArpStep ==
  ASSUME LinkInv,
         \/ \E src \in net.hosts, eth \in net.eths : IpInput(src, eth)
         \/ ArpTimer
         \/ \E dest \in net.dests, space \in {m.link_hlen, udp_space(m)}, ok \in Mem :
              Output(dest, space, ok)
  PROVE  LinkInv'
<1> DEFINE q == Quiet(m)
<1>1. net \in NetType /\ heard \in [net.hosts -> Nat] /\ Settled(m, heard, net) /\ Cached(m, heard)
  BY DEF LinkInv, Settled, Idle, Sound, Running
<1>2. Settled(q, heard, net) /\ q.wire = {} /\ Cached(q, heard) /\ q.netif = m.netif
  BY Zenon, <1>1, QuietSettled
<1>3. ASSUME NEW src \in net.hosts, NEW eth \in net.eths, IpInput(src, eth) PROVE LinkInv'
  <2> DEFINE g == [heard EXCEPT ![src] = eth]
             n == etharp_ip_input(q, src, eth)
  <2>1. m' = n /\ heard' = g /\ net' = net
    BY <1>3 DEF IpInput
  <2>2. src \in Nat /\ eth \in Nat
    BY <1>1 DEF NetType
  <2>3. g \in [net.hosts -> Nat]
    BY <1>1, <2>2
  <2>4. Cached(n, g) /\ ArpOnly(q, n)
    <3> HIDE DEF q
    <3>1. CASE is_local(q, src)
      <4>1. n = update_arp_entry(q, src, eth, TRUE)
        BY <3>1 DEF etharp_ip_input
      <4> HIDE DEF n
      <4> QED
        BY Zenon, <1>1, <1>2, <2>2, <4>1, UpdateEntry
    <3>2. CASE ~is_local(q, src)
      <4>1. n = q
        BY <3>2 DEF etharp_ip_input
      <4>2. ArpOK(q.arp, g)
        BY Zenon, <1>2, <3>2, HeardElsewhere DEF is_local, Cached
      <4> HIDE DEF n, g
      <4> QED
        BY <1>2, <4>1, <4>2 DEF Cached, ArpOnly
    <3> QED
      BY <3>1, <3>2
  <2> HIDE DEF n, g, q
  <2>5. Settled(n, g, net)
    BY <1>2, <2>4, ArpKeeps
  <2> QED
    BY <1>1, <2>1, <2>3, <2>5 DEF LinkInv
<1>4. ASSUME ArpTimer PROVE LinkInv'
  <2>1. Settled(etharp_tmr(m), heard, net)
    BY <1>1, TimerCached, ArpKeeps
  <2> QED
    BY <1>1, <1>4, <2>1 DEF ArpTimer, LinkInv
<1>5. ASSUME NEW dest \in net.dests, NEW space, NEW ok \in Mem, Output(dest, space, ok)
      PROVE  LinkInv'
  <2> DEFINE n == etharp_output(q, dest, 1, space, ok)
  <2>1. dest \in Nat /\ ok \in BOOLEAN
    BY Zenon, <1>1 DEF NetType, Mem
  <2>2. q.netif.masked
    BY Zenon, <1>2, <1>5 DEF Output, Settled, Idle, Sound, Running
  <2>3. m' = n /\ UNCHANGED <<net, heard>>
    BY <1>5 DEF Output
  <2> HIDE DEF q
  <2>4. Cached(n, heard) /\ ArpOnly(q, n)
    BY <1>2, <2>1, <2>2, OutputCached
  <2> HIDE DEF n
  <2>5. Settled(n, heard, net)
    BY <1>2, <2>4, ArpKeeps
  <2> QED
    BY <1>1, <2>3, <2>5 DEF LinkInv
<1> QED
  BY <1>3, <1>4, <1>5

\* The calls, the timers and the messages of the DHCP client.
LEMMA DhcpStep ==
  ASSUME LinkInv,
         \/ \E ok \in Mem : Start(ok)
         \/ Stop
         \/ \E ok, ok2 \in Mem : FineTimer(ok, ok2)
         \/ \E ok \in Mem : CoarseTimer(ok)
         \/ \E r \in FreshReplies \cup StaleReplies, copied, ok \in Mem : Recv(r, copied, ok)
  PROVE  LinkInv'
<1>1. /\ net \in NetType /\ heard \in [net.hosts -> Nat] /\ Settled(m, heard, net)
      /\ Mem \subseteq BOOLEAN /\ net.fails \in BOOLEAN /\ net.restarts \in BOOLEAN
      /\ \A ok \in Mem : ok \/ net.fails
  BY Zenon DEF LinkInv, Mem, NetType
<1>2. ASSUME NEW n, Settled(n, heard, net), m' = Quiet(n), UNCHANGED <<net, heard>> PROVE LinkInv'
  BY <1>1, <1>2, QuietSettled DEF LinkInv
<1>3. Attached => m.dhcp # NoClient /\ Sound(m, heard, m.pcbs, net.fails)
  BY Zenon, <1>1 DEF Attached, Settled, Idle
<1>4. m.pcbs \in Nat /\ m.pcbs \in Int /\ MEMP_NUM_UDP_PCB \in Nat
  BY <1>1, DhcpAssumption DEF Settled, Counted
<1>5. ASSUME NEW ok \in Mem, Start(ok) PROVE LinkInv'
  <2> DEFINE n == dhcp_start(m, ok)
  <2>1. Startable(m, heard, m.pcbs)
    BY Zenon, <1>1 DEF Settled, Idle, Sound, Running, Startable
  <2>2. \/ m.pcbs < MEMP_NUM_UDP_PCB /\ Sound(n, heard, m.pcbs + 1, net.fails)
        \/ Idle(n, heard, m.pcbs)
    BY Zenon, <1>1, <1>4, <2>1, StartSound
  <2>3. m.dhcp # NoClient => net.restarts
    BY Zenon, <1>5 DEF Start, Attached
  <2> HIDE DEF n
  <2>4. ASSUME m.pcbs < MEMP_NUM_UDP_PCB, Sound(n, heard, m.pcbs + 1, net.fails)
        PROVE  Settled(n, heard, net)
    <3>1. n.pcbs = m.pcbs + 1 /\ n.dhcp \in DhcpClient
      BY Zenon, <2>4 DEF Sound, Running
    <3>2. Counted(n, net.restarts)
      BY <1>1, <1>4, <2>3, <2>4, <3>1, SomeClient DEF Settled, Counted
    <3> QED
      BY Zenon, <2>4, <3>1, <3>2 DEF Settled
  <2>5. ASSUME Idle(n, heard, m.pcbs) PROVE Settled(n, heard, net)
    <3>1. n.pcbs = m.pcbs /\ n.dhcp = NoClient
      BY Zenon, <2>5 DEF Idle
    <3>2. Counted(n, net.restarts)
      BY Zenon, <1>1, <2>3, <3>1 DEF Settled, Counted
    <3> QED
      BY Zenon, <2>5, <3>1, <3>2 DEF Settled
  <2>6. Settled(n, heard, net)
    BY Zenon, <2>2, <2>4, <2>5
  <2> QED
    BY <1>2, <1>5, <2>6 DEF Start, n
<1>6. ASSUME Stop PROVE LinkInv'
  <2> DEFINE n == dhcp_stop(m)
  <2>1. Attached
    BY <1>6 DEF Stop
  <2>2. Idle(n, heard, m.pcbs - 1)
    BY Zenon, <1>1, <1>3, <1>4, <2>1, StopIdle
  <2> HIDE DEF n
  <2>3. n.pcbs = m.pcbs - 1 /\ n.dhcp = NoClient
    BY Zenon, <2>2 DEF Idle
  <2>4. Counted(n, net.restarts)
    BY <1>1, <1>3, <1>4, <2>1, <2>3 DEF Settled, Counted
  <2>5. Settled(n, heard, net)
    BY Zenon, <2>2, <2>3, <2>4 DEF Settled
  <2> QED
    BY <1>2, <1>6, <2>5 DEF Stop, n
<1>7. ASSUME NEW ok \in Mem, NEW ok2 \in Mem, FineTimer(ok, ok2) PROVE LinkInv'
  <2>1. Attached
    BY <1>7 DEF FineTimer
  <2>2. ok \in BOOLEAN /\ ok2 \in BOOLEAN /\ ((ok /\ ok2) \/ net.fails)
    BY Zenon, <1>1
  <2>3. Sound(dhcp_fine_tmr(m, ok, ok2), heard, m.pcbs, net.fails)
    BY <1>1, <1>3, <2>1, <2>2, FineSound
  <2>4. Settled(dhcp_fine_tmr(m, ok, ok2), heard, net)
    BY Zenon, <1>1, <1>3, <2>1, <2>3, SoundKeeps
  <2> QED
    BY <1>2, <1>7, <2>4 DEF FineTimer
<1>8. ASSUME NEW ok \in Mem, CoarseTimer(ok) PROVE LinkInv'
  <2>1. Attached
    BY <1>8 DEF CoarseTimer
  <2>2. Sound(dhcp_coarse_tmr(m, ok), heard, m.pcbs, net.fails)
    BY Zenon, <1>1, <1>3, <2>1, CoarseSound
  <2>3. Settled(dhcp_coarse_tmr(m, ok), heard, net)
    BY Zenon, <1>1, <1>3, <2>1, <2>2, SoundKeeps
  <2> QED
    BY <1>2, <1>8, <2>3 DEF CoarseTimer
<1>9. ASSUME NEW r \in FreshReplies \cup StaleReplies, NEW copied \in Mem, NEW ok \in Mem,
             Recv(r, copied, ok)
      PROVE  LinkInv'
  <2> DEFINE n == dhcp_recv(m, r, copied, ok)
  <2>1. Answer(m, r)
    BY Answers
  <2>2. ASSUME Attached PROVE Settled(n, heard, net)
    <3>1. ok \in BOOLEAN /\ copied \in BOOLEAN /\ Sound(m, heard, m.pcbs, net.fails)
      BY Zenon, <1>1, <1>3, <2>2
    <3>2. Sound(n, heard, m.pcbs, net.fails)
      BY <1>1, <2>1, <3>1, RecvSound
    <3> HIDE DEF n
    <3> QED
      BY Zenon, <1>1, <1>3, <2>2, <3>2, SoundKeeps
  <2>3. ASSUME ~Attached PROVE Settled(n, heard, net)
    <3>1. n = [m EXCEPT !.halted = TRUE]
      BY <2>3 DEF Attached, dhcp_recv
    <3>2. m \in LinkMemory
      BY Zenon, <1>1 DEF Settled, Idle, Sound, Running, Cached
    <3>3. n \in LinkMemory /\ n.arp = m.arp /\ n.wire = m.wire /\ ArpOnly(m, n)
      BY <3>1, <3>2 DEF LinkMemory, ArpOnly
    <3> HIDE DEF n
    <3>4. Cached(n, heard)
      BY Zenon, <1>1, <3>3 DEF Settled, Idle, Sound, Running, Cached
    <3> QED
      BY Zenon, <1>1, <3>3, <3>4, ArpKeeps
  <2>4. Settled(n, heard, net)
    BY <2>2, <2>3
  <2> QED
    BY <1>2, <1>9, <2>4 DEF Recv
<1> QED
  BY <1>5, <1>6, <1>7, <1>8, <1>9


\* An interface that was just added has no client and an empty cache.
LEMMA LinkInitially ==
  ASSUME LinkInit
  PROVE  LinkInv
<1>1. net \in NetType /\ net.fixed \in Nat /\ net.link_hlen \in Nat
  BY LinkAssumption DEF LinkInit, NetType
<1>2. heard \in [net.hosts -> Nat]
  BY DEF LinkInit, NULL
<1>3. etharp_init \in ArpTable /\ \A i \in Slots : etharp_init[i] = EmptyEntry
  BY DEF etharp_init, ArpTable, ArpEntry, EmptyEntry, IP_ADDR_ANY, NULL
<1>4. ArpOK(etharp_init, heard)
  <2>1. EmptyEntry.state = "EMPTY" /\ EmptyEntry.ctime = 0
    BY DEF EmptyEntry
  <2>2. EntryOK(EmptyEntry, heard)
    BY <2>1, EtharpAssumption DEF EntryOK
  <2> QED
    BY <1>3, <2>1, <2>2 DEF ArpOK, Unique
<1>5. /\ m.arp = etharp_init /\ m.wire = {} /\ m.dhcp = NoClient /\ m.pcbs = 0
      /\ m.netif = IF net.fixed = IP_ADDR_ANY THEN unconfigured
                   ELSE [ip |-> net.fixed, gw |-> SERVER, masked |-> TRUE]
  BY DEF LinkInit
<1>6. m.netif \in [ip : Nat, gw : {IP_ADDR_ANY, SERVER}, masked : BOOLEAN]
      /\ (m.netif.ip # IP_ADDR_ANY => m.netif.masked)
  BY <1>1, <1>5 DEF unconfigured, IP_ADDR_ANY
<1>7. NoRequest \in [kind : MsgKind, ip : Nat]
  BY DEF NoRequest, MsgKind, IP_ADDR_ANY
<1>8. m \in LinkMemory
  <2> DEFINE i == IF net.fixed = IP_ADDR_ANY THEN unconfigured
                  ELSE [ip |-> net.fixed, gw |-> SERVER, masked |-> TRUE]
  <2>1. m = [arp |-> etharp_init, wire |-> {}, halted |-> FALSE, dhcp |-> NoClient, pcbs |-> 0,
             asked |-> NoRequest, past |-> {}, acked |-> IP_ADDR_ANY, leftover |-> FALSE,
             conflict |-> FALSE, link_hlen |-> net.link_hlen, netif |-> i]
    BY Zenon DEF LinkInit
  <2>2. i \in [ip : Nat, gw : {IP_ADDR_ANY, SERVER}, masked : BOOLEAN] /\ IP_ADDR_ANY \in Nat
    BY <1>5, <1>6 DEF IP_ADDR_ANY
  <2>3. /\ {} \in SUBSET EthFrame /\ {} \in SUBSET MsgKind /\ 0 \in Int /\ FALSE \in BOOLEAN
        /\ NoClient \in {NoClient} \cup DhcpClient
    OBVIOUS
  <2> HIDE DEF i
  <2> QED
    BY Zenon, <1>1, <1>3, <1>7, <2>1, <2>2, <2>3 DEF LinkMemory
<1>9. Counted(m, net.restarts)
  BY <1>5, DhcpAssumption DEF Counted
<1> QED
  BY Zenon, <1>1, <1>2, <1>4, <1>5, <1>6, <1>8, <1>9 DEF LinkInv, Settled, Idle, Cached

\* LinkInv is an invariant of the interface.
LEMMA LinkInvariant == LinkSpec => []LinkInv
<1>1. LinkInit => LinkInv
  BY LinkInitially
<1>2. LinkInv /\ [LinkNext]_vars => LinkInv'
  <2> SUFFICES ASSUME LinkInv, [LinkNext]_vars PROVE LinkInv'
    OBVIOUS
  <2>1. ASSUME NEW op \in {"REQUEST", "REPLY"}, NEW src \in net.hosts, NEW eth \in net.eths,
               NEW dst \in {IP_ADDR_ANY, m.netif.ip}, NEW ok \in Mem,
               ArpInput(op, src, eth, dst, ok)
        PROVE  LinkInv'
    <3>1. ok \in BOOLEAN
      BY Zenon DEF Mem
    <3> QED
      BY <2>1, <3>1, ArpInputStep
  <2>2. CASE UNCHANGED vars
    BY <2>2 DEF LinkInv, vars
  <2> QED
    BY Zenon, <2>1, <2>2, ArpStep, DhcpStep DEF LinkNext
<1> QED
  BY <1>1, <1>2, PTL DEF LinkSpec

\* Whatever expired, was recycled or moved meanwhile, packets leave for the
\* host or gateway they are for, at the Ethernet address under which it was
\* last heard, and no address has two entries (etharp_query, find_entry).
THEOREM FramesReachOwner == LinkSpec => []FramesToOwner
<1>1. LinkInv => FramesToOwner
  <2> SUFFICES ASSUME LinkInv PROVE FramesToOwner
    OBVIOUS
  <2>1. Cached(m, heard)
    BY DEF LinkInv, Settled, Idle, Sound, Running
  <2> QED
    BY <2>1 DEF FramesToOwner, Cached, ArpOK, Unique, FrameOK
<1> QED
  BY <1>1, LinkInvariant, PTL

\* Lost and refused requests, failed allocations, late answers and new starts
\* never leave a waiting client without its timer or without a UDP pcb, nor, as
\* long as nobody starts a client that is there, a UDP pcb without its client;
\* only a failed allocation leaves a client in OFF (dhcp_fine_tmr, dhcp_recv,
\* dhcp_start, dhcp_stop).
THEOREM ClientAlwaysTimed == LinkSpec => []AlwaysTimed
<1>1. LinkInv => AlwaysTimed
  <2> SUFFICES ASSUME LinkInv PROVE AlwaysTimed
    OBVIOUS
  <2>1. Cached(m, heard) /\ Settled(m, heard, net) /\ Counted(m, net.restarts)
    BY Zenon DEF LinkInv, Settled, Idle, Sound, Running
  <2>2. Attached => m.dhcp \in DhcpClient /\ Waiting(m.dhcp) /\ (m.dhcp.state = "OFF" => net.fails)
    BY Zenon, <2>1 DEF Attached, Settled, Idle, Sound, Running
  <2>3. /\ Attached => m.pcbs \in 1..MEMP_NUM_UDP_PCB
        /\ ~net.restarts => m.pcbs = IF Attached THEN 1 ELSE 0
    BY <2>1, DhcpAssumption DEF Attached, Counted
  <2>4. LinkTypeOK
    <3>1. ASSUME NEW i \in Slots
          PROVE  /\ m.arp[i].state \in {"EMPTY", "PENDING", "STABLE"}
                 /\ EntryOK(m.arp[i], heard)
      BY <2>1 DEF Cached, ArpOK, ArpTable, ArpEntry
    <3>2. Attached => m.dhcp.tries \in 0..(U8_MOD - 1)
            /\ {m.dhcp.request_timeout, m.dhcp.t1_timeout, m.dhcp.t2_timeout}
                 \subseteq 0..(U16_MOD - 1)
      BY <2>2 DEF DhcpClient
    <3> QED
      BY <3>1, <3>2 DEF LinkTypeOK, EntryOK
  <2> QED
    BY <2>2, <2>3, <2>4 DEF AlwaysTimed, Waiting
<1> QED
  BY <1>1, LinkInvariant, PTL

\* A negotiation that began without an address binds the interface to the
\* acknowledged one, whatever replies were lost, late or repeated, and whatever
\* lease timers ran on from before (dhcp_bind, dhcp_t1_timeout).
THEOREM BoundIsAcked == LinkSpec => []BoundByAck
<1>1. LinkInv => BoundByAck
  BY DEF LinkInv, Settled, Idle, Sound, Negotiated, BoundByAck, Attached
<1> QED
  BY <1>1, LinkInvariant, PTL

=============================================================================
