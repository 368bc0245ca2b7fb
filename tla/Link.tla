-------------------------------- MODULE Link --------------------------------
(***************************************************************************)
(* One Ethernet interface of lwIP at work: its ARP cache (module Etharp),  *)
(* its DHCP client (module Dhcp), the timers that drive them and the       *)
(* frames that arrive, in any order.  Messages of the DHCP server may be   *)
(* lost, delayed or repeated: a reply can arrive at any time, any number   *)
(* of times, or never.  The network itself is external to the code: net    *)
(* says what it may do in a behaviour, and heard is the Ethernet address   *)
(* under which each host was last heard by this interface.                 *)
(***************************************************************************)
EXTENDS Dhcp

CONSTANT Nets  \* the networks to consider, see NetType

VARIABLES net, m, heard

vars == <<net, m, heard>>

\* addrs and leases are what the server hands out; nak says whether it refuses
\* requests, fails whether allocations fail, stops whether dhcp_stop is
\* called, restarts whether dhcp_start is called for a client that is already
\* there; hosts send frames, dests get packets; link_hlen is PBUF_LINK_HLEN.
NetType ==
  [fixed: Nat, addrs: SUBSET Nat, leases: SUBSET [t0: Int, t1: Int, t2: Int],
   hosts: SUBSET Nat, eths: SUBSET Nat, dests: SUBSET Nat,
   nak: BOOLEAN, fails: BOOLEAN, stops: BOOLEAN, restarts: BOOLEAN, link_hlen: Nat]

ASSUME LinkAssumption == Nets \subseteq NetType

\* netif_add with a fixed address, or with none where DHCP is to find one.
LinkInit ==
  /\ net \in Nets
  /\ m = [arp |-> etharp_init, wire |-> {}, halted |-> FALSE, dhcp |-> NoClient, pcbs |-> 0,
          asked |-> NoRequest, past |-> {}, acked |-> IP_ADDR_ANY, leftover |-> FALSE,
          conflict |-> FALSE, link_hlen |-> net.link_hlen,
          netif |-> IF net.fixed = IP_ADDR_ANY THEN unconfigured
                    ELSE [ip |-> net.fixed, gw |-> SERVER, masked |-> TRUE]]
  /\ heard = [h \in net.hosts |-> NULL]

Mem == IF net.fails THEN BOOLEAN ELSE {TRUE}
Quiet(n) == [n EXCEPT !.wire = {}]

----------------------------------------------------------------------------
\* etharp_arp_input: update the cache, answer a request for our address, tell
\* the DHCP client of an answer that was sent to our address.
for_us(n, dst) == n.netif.ip # IP_ADDR_ANY /\ dst = n.netif.ip

act_on(n, op, src, eth, dst, ok) ==
  CASE op = "REQUEST" /\ for_us(n, dst) ->
         [n EXCEPT !.wire = @ \cup {[type |-> "REPLY", hop |-> src, eth |-> eth]}]
    [] op = "REPLY" /\ for_us(n, dst) -> dhcp_arp_reply(n, src, ok)
    [] OTHER -> n

etharp_arp_input(n, op, src, eth, dst, ok) ==
  act_on(update_arp_entry(n, src, eth, for_us(n, dst)), op, src, eth, dst, ok)

\* A host answers the question of dhcp_check.
answers_check(op, src) ==
  op = "REPLY" /\ m.dhcp.state = "CHECKING" /\ src = m.dhcp.offered

ArpInput(op, src, eth, dst, ok) ==
  /\ ~m.halted /\ m.netif.ip # src
  /\ m' = etharp_arp_input([Quiet(m) EXCEPT !.conflict = @ \/ answers_check(op, src)],
                           op, src, eth, dst, ok)
  /\ heard' = [heard EXCEPT ![src] = eth]
  /\ UNCHANGED net

IpInput(src, eth) ==
  /\ ~m.halted /\ m.netif.ip # src
  /\ m' = etharp_ip_input(Quiet(m), src, eth)
  /\ heard' = [heard EXCEPT ![src] = eth]
  /\ UNCHANGED net

ArpTimer ==
  /\ ~m.halted /\ m' = etharp_tmr(m) /\ UNCHANGED <<net, heard>>

\* The upper layers send a packet: TCP leaves PBUF_LINK_HLEN bytes in front of
\* its headers, UDP some more.
Output(dest, space, ok) ==
  /\ ~m.halted /\ m.netif.ip # IP_ADDR_ANY
  /\ m' = etharp_output(Quiet(m), dest, 1, space, ok) /\ UNCHANGED <<net, heard>>

----------------------------------------------------------------------------
\* The frames of the DHCP client are followed by asked, not by wire.
Attached == m.dhcp # NoClient

Start(ok) ==
  /\ ~m.halted /\ net.fixed = IP_ADDR_ANY /\ (Attached => net.restarts)
  /\ m' = Quiet(dhcp_start(m, ok)) /\ UNCHANGED <<net, heard>>

Stop ==
  /\ ~m.halted /\ Attached /\ net.stops
  /\ m' = Quiet(dhcp_stop(m)) /\ UNCHANGED <<net, heard>>

FineTimer(ok, ok2) ==
  /\ ~m.halted /\ Attached
  /\ m' = Quiet(dhcp_fine_tmr(m, ok, ok2)) /\ UNCHANGED <<net, heard>>

CoarseTimer(ok) ==
  /\ ~m.halted /\ Attached
  /\ m' = Quiet(dhcp_coarse_tmr(m, ok)) /\ UNCHANGED <<net, heard>>

Reply(type, ip, lease, fresh) ==
  [type |-> type, ip |-> ip, server |-> SERVER, fresh |-> fresh,
   t0 |-> lease.t0, t1 |-> lease.t1, t2 |-> lease.t2]

\* The server's answers to the request that is out, and to the earlier ones.
Offers(fresh) == {Reply("OFFER", a, l, fresh) : a \in net.addrs, l \in net.leases}
Acks(ips, fresh) == {Reply("ACK", a, l, fresh) : l \in net.leases, a \in ips}
Naks(fresh) == IF net.nak THEN {Reply("NAK", IP_ADDR_ANY, l, fresh) : l \in net.leases} ELSE {}

FreshReplies ==
  CASE m.asked.kind = "DISCOVER" -> Offers(TRUE)
    [] m.asked.kind = "REQUEST" -> Acks({m.asked.ip} \ {IP_ADDR_ANY}, TRUE) \cup Naks(TRUE)
    [] OTHER -> {}

StaleReplies ==
  (IF "DISCOVER" \in m.past THEN Offers(FALSE) ELSE {})
    \cup (IF "REQUEST" \in m.past THEN Acks(net.addrs \ {IP_ADDR_ANY}, FALSE) \cup Naks(FALSE) ELSE {})

\* udp_input finds a pcb whose callback is dhcp_recv.
Recv(r, copied, ok) ==
  /\ ~m.halted /\ m.pcbs > 0
  /\ m' = Quiet(dhcp_recv(m, r, copied, ok)) /\ UNCHANGED <<net, heard>>

----------------------------------------------------------------------------
LinkNext ==
  \/ \E op \in {"REQUEST", "REPLY"}, src \in net.hosts, eth \in net.eths,
        dst \in {IP_ADDR_ANY, m.netif.ip}, ok \in Mem : ArpInput(op, src, eth, dst, ok)
  \/ \E src \in net.hosts, eth \in net.eths : IpInput(src, eth)
  \/ ArpTimer
  \/ \E dest \in net.dests, space \in {m.link_hlen, udp_space(m)}, ok \in Mem :
       Output(dest, space, ok)
  \/ \E ok \in Mem : Start(ok)
  \/ Stop
  \/ \E ok, ok2 \in Mem : FineTimer(ok, ok2)
  \/ \E ok \in Mem : CoarseTimer(ok)
  \/ \E r \in FreshReplies \cup StaleReplies, copied, ok \in Mem : Recv(r, copied, ok)

LinkSpec == LinkInit /\ [][LinkNext]_vars

\* The timers run; and the answers of the server arrive, if they can again and
\* again, and are not always too late.
LinkFairness ==
  /\ WF_vars(FineTimer(TRUE, TRUE)) /\ WF_vars(CoarseTimer(TRUE))
  /\ WF_vars(\E r \in FreshReplies : Recv(r, TRUE, TRUE) /\ r.type = "OFFER")
  /\ SF_vars(\E r \in FreshReplies : Recv(r, TRUE, TRUE) /\ r.type = "ACK")

LinkFairSpec == LinkSpec /\ LinkFairness

----------------------------------------------------------------------------
\* Types, and the life of an entry: it is gone before it is too old.
LinkTypeOK ==
  /\ \A i \in Slots :
       /\ m.arp[i].state \in {"EMPTY", "PENDING", "STABLE"}
       /\ m.arp[i].ctime < (IF m.arp[i].state = "PENDING" THEN ARP_MAXPENDING ELSE ARP_MAXAGE)
       /\ m.arp[i].state # "EMPTY" => m.arp[i].ip \in Nat \ NotUnicast
  /\ Attached => m.dhcp.tries \in 0..(U8_MOD - 1)
                  /\ {m.dhcp.request_timeout, m.dhcp.t1_timeout, m.dhcp.t2_timeout}
                       \subseteq 0..(U16_MOD - 1)

\* A packet leaves in a frame to the host it is for, or to the gateway, at the
\* Ethernet address under which that host was heard last: whatever was recycled,
\* expired or updated meanwhile, etharp_query uses no one else's address.
\* find_entry reuses empty and old entries, yet an address never has two: with
\* two, an update would leave one of them with a stale Ethernet address.
FramesToOwner ==
  /\ \A i, j \in Slots :
       m.arp[i].state # "EMPTY" /\ m.arp[j].state # "EMPTY" /\ m.arp[i].ip = m.arp[j].ip => i = j
  /\ \A f \in m.wire :
       f.type = "IP" /\ f.hop # IP_ADDR_BROADCAST => f.hop \in LocalNet /\ f.eth = heard[f.hop]

\* A client that waits for an answer has its timer running, so dhcp_timeout will
\* come: whatever was allocated or not, refused, late, timed out or restarted.
\* The exception is the request whose count of tries has wrapped to 0: its timer
\* wraps too.  A client is left in OFF, where dhcp_timeout does nothing for it,
\* only when an allocation failed after its lease was given up.
\* It has a UDP pcb to be answered through; and unless dhcp_start was called for
\* a client that was there, which forgets its pcb, none is left behind without
\* a client for dhcp_recv to find.
AlwaysTimed ==
  /\ LinkTypeOK
  /\ Attached /\ m.dhcp.state \notin {"OFF", "BOUND"}
       /\ (m.dhcp.tries # 0 \/ m.dhcp.state \in {"CHECKING", "BACKING_OFF"})
       => m.dhcp.request_timeout \in 1..ticks(20000)
  /\ Attached /\ m.dhcp.state = "OFF" => net.fails
  /\ Attached => m.pcbs \in 1..MEMP_NUM_UDP_PCB
  /\ ~net.restarts => m.pcbs = IF Attached THEN 1 ELSE 0

\* The address of a bound interface is the one of the last acknowledgement, if
\* the negotiation began without an address: lost, late and repeated replies, and
\* timers left from an earlier lease, never bind another one.
BoundByAck ==
  Attached /\ m.dhcp.state = "BOUND" /\ ~m.leftover => m.netif.ip = m.acked

\* dhcp_check: "If no ARP reply is received within a small interval, the address
\* is assumed to be free for use by us."
NotInUse ==
  Attached /\ m.dhcp.state = "BOUND" => ~m.conflict

\* The Ethernet header fits in front of a request.
Roomy == udp_space(m) >= SIZEOF_ETH_HDR

\* Where the Ethernet header has room, allocations succeed, the server refuses
\* nothing and nobody starts the client again, it gets an address, whatever is
\* lost, late or timed out on the way.  Where the header has no room, as with the
\* PBUF_LINK_HLEN of 0 of opt.h, no request leaves and no client is ever bound.
Served ==
  /\ Roomy /\ ~net.fails /\ ~net.nak /\ ~net.restarts /\ Attached
       ~> (~Attached \/ m.dhcp.state = "BOUND" \/ m.halted)
  /\ [](~Roomy => m.dhcp.state # "BOUND")

=============================================================================
