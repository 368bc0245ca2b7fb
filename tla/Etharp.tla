------------------------------- MODULE Etharp -------------------------------
(***************************************************************************)
(* The ARP cache of lwIP (netif/etharp.c) and the addresses of the one     *)
(* Ethernet interface it serves (core/netif.c).  Every C function is an    *)
(* operator on the memory record m:                                        *)
(*   arp     the table: 1..ARP_TABLE_SIZE -> entry                         *)
(*   netif   ip and gw of the interface (0 is IP_ADDR_ANY), and masked,    *)
(*           FALSE while the netmask is 0 and every address is local       *)
(*   wire    the frames the running handler gave to netif->linkoutput      *)
(*   halted  an LWIP_ASSERT failed: assert() prints and stops the kernel   *)
(* Addresses are numbers; the ones of LocalNet share the netmask's part    *)
(* with the interface.  One address stands for broadcast and multicast,   *)
(* in IP and on Ethernet.  The ip, ethaddr and ctime of an EMPTY entry are *)
(* never read: they are erased.                                            *)
(***************************************************************************)
EXTENDS Naturals, FiniteSets, Sequences

CONSTANTS
  ARP_TABLE_SIZE, ARP_MAXAGE, ARP_MAXPENDING, \* etharp.c, opt.h
  LocalNet       \* the addresses that ip_addr_maskcmp finds local

ASSUME EtharpAssumption ==
  /\ ARP_TABLE_SIZE \in Nat /\ ARP_MAXAGE \in Nat \ {0} /\ ARP_MAXPENDING \in Nat \ {0}
  /\ LocalNet \subseteq Nat \ {0}

IP_ADDR_ANY == 0
IP_ADDR_BROADCAST == 255
ethbroadcast == 255
NULL == 0
SIZEOF_ETH_HDR == 14
NotUnicast == {IP_ADDR_ANY, IP_ADDR_BROADCAST}

Slots == 1..ARP_TABLE_SIZE
EmptyEntry == [state |-> "EMPTY", ip |-> IP_ADDR_ANY, eth |-> NULL, ctime |-> 0, p |-> <<>>]
etharp_init == [i \in Slots |-> EmptyEntry]

\* ip_addr_maskcmp(ip, netif->ip_addr, netif->netmask)
is_local(m, ip) == m.netif.masked => ip \in LocalNet

----------------------------------------------------------------------------
\* etharp_tmr: age every entry, drop the ones that are too old with their queue.
expired(e) ==
  \/ e.state = "STABLE" /\ e.ctime + 1 >= ARP_MAXAGE
  \/ e.state = "PENDING" /\ e.ctime + 1 >= ARP_MAXPENDING

aged(e) ==
  IF e.state = "EMPTY" \/ expired(e) THEN EmptyEntry ELSE [e EXCEPT !.ctime = @ + 1]

etharp_tmr(m) == [m EXCEPT !.arp = [i \in Slots |-> aged(@[i])], !.wire = {}]

----------------------------------------------------------------------------
\* The candidates of find_entry, in the order in which it sacrifices them.
empty(t) == {i \in Slots : t[i].state = "EMPTY"}
stable(t) == {i \in Slots : t[i].state = "STABLE"}
pending(t) == {i \in Slots : t[i].state = "PENDING" /\ t[i].p = <<>>}
pending_queue(t) == {i \in Slots : t[i].state = "PENDING" /\ t[i].p # <<>>}

first_of(S) == CHOOSE i \in S : \A j \in S : i <= j

\* `ctime >= age' keeps the last of the oldest entries.
oldest(t, S) ==
  CHOOSE i \in S : \A j \in S : t[j].ctime < t[i].ctime \/ (t[j].ctime = t[i].ctime /\ j <= i)

recyclable(t) ==
  CASE empty(t) # {} -> first_of(empty(t))
    [] empty(t) = {} /\ stable(t) # {} -> oldest(t, stable(t))
    [] empty(t) = {} /\ stable(t) = {} /\ pending(t) # {} -> oldest(t, pending(t))
    [] OTHER -> oldest(t, pending_queue(t))

matching(t, ip) == {i \in Slots : t[i].state # "EMPTY" /\ t[i].ip = ip}

\* find_entry: the table and the index found, NULL for ERR_MEM.
find_entry(t, ip, create) ==
  IF matching(t, ip) # {} THEN [arp |-> t, i |-> first_of(matching(t, ip))]
  ELSE IF Slots = {} \/ (~create /\ empty(t) = {}) THEN [arp |-> t, i |-> NULL]
  ELSE [arp |-> [t EXCEPT ![recyclable(t)] = [EmptyEntry EXCEPT !.ip = ip]],
        i |-> recyclable(t)]

----------------------------------------------------------------------------
\* The frames of the queue of an entry, sent to its Ethernet address.
queued_frames(e, eth) == {[type |-> "IP", hop |-> e.ip, eth |-> eth] : x \in DOMAIN e.p}

\* A bug that leaves the old Ethernet address in an entry it finds.
set_stable_kept(m, f, eth) ==
  IF f.i = NULL THEN [m EXCEPT !.arp = f.arp]
  ELSE [m EXCEPT !.arp = [f.arp EXCEPT ![f.i] =
          [@ EXCEPT !.state = "STABLE", !.eth = IF @ = NULL THEN eth ELSE @, !.ctime = 0]]]

set_stable(m, f, eth) ==
  IF f.i = NULL THEN [m EXCEPT !.arp = f.arp]
  ELSE [m EXCEPT !.arp = [f.arp EXCEPT ![f.i] =
                            [@ EXCEPT !.state = "STABLE", !.eth = eth, !.ctime = 0, !.p = <<>>]],
                 !.wire = @ \cup queued_frames(f.arp[f.i], eth)]

update_arp_entry(m, ip, eth, create) ==
  IF ip \in NotUnicast THEN m ELSE set_stable(m, find_entry(m.arp, ip, create), eth)

etharp_ip_input(m, src, eth) ==
  IF is_local(m, src) THEN update_arp_entry(m, src, eth, TRUE) ELSE m

----------------------------------------------------------------------------
etharp_request(m, ip) ==
  [m EXCEPT !.wire = @ \cup {[type |-> "REQUEST", hop |-> ip, eth |-> ethbroadcast]}]

\* pbuf_queue(arp_table[i].p, p): its assertion "p != NULL" wants a first packet.
pbuf_queue(m, i, q) ==
  IF m.arp[i].p = <<>> THEN [m EXCEPT !.halted = TRUE]
  ELSE [m EXCEPT !.arp[i].p = Append(@, q)]

fresh_pending(f) ==
  IF f.arp[f.i].state = "EMPTY" THEN [f.arp EXCEPT ![f.i].state = "PENDING"] ELSE f.arp

\* The packet goes out at once, or waits on the pending entry.
send_or_queue(m, i, ip, q) ==
  CASE q = NULL -> m
    [] q # NULL /\ m.arp[i].state = "STABLE" ->
         [m EXCEPT !.wire = @ \cup {[type |-> "IP", hop |-> ip, eth |-> m.arp[i].eth]}]
    [] OTHER -> pbuf_queue(m, i, q)

query_entry(m, i, ip, q, room) ==
  IF (m.arp[i].state = "PENDING" \/ q = NULL) /\ room
  THEN send_or_queue(etharp_request(m, ip), i, ip, q)
  ELSE send_or_queue(m, i, ip, q)

queried(m, f, ip, q, room) ==
  IF f.i = NULL THEN [m EXCEPT !.arp = f.arp]
  ELSE query_entry([m EXCEPT !.arp = fresh_pending(f)], f.i, ip, q, room)

\* etharp_query: ask for ip, or send it the packet q; room says whether the
\* pbuf of the request could be allocated.
etharp_query(m, ip, q, room) ==
  IF ip \in NotUnicast THEN m
  ELSE queried(m, find_entry(m.arp, ip, q # NULL), ip, q, room)

\* etharp_output: the packet q for ip; a host outside the local network is
\* reached through the gateway.  space is what the pbuf has in front of the IP
\* header: pbuf_header fails when the Ethernet header does not fit.
etharp_output(m, ip, q, space, room) ==
  IF space < SIZEOF_ETH_HDR THEN m
  ELSE CASE ip \in NotUnicast ->
              [m EXCEPT !.wire = @ \cup {[type |-> "IP", hop |-> IP_ADDR_BROADCAST, eth |-> ethbroadcast]}]
         [] ip \notin NotUnicast /\ is_local(m, ip) -> etharp_query(m, ip, q, room)
         [] OTHER -> IF m.netif.gw = IP_ADDR_ANY THEN m
                     ELSE etharp_query(m, m.netif.gw, q, room)
=============================================================================
