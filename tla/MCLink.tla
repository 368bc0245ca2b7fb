------------------------------- MODULE MCLink -------------------------------
(***************************************************************************)
(* Small networks for the interface: one with a fixed address and hosts    *)
(* that change their Ethernet address, where packets are sent; one whose   *)
(* server, known to ARP, hands out two addresses; one where the client is  *)
(* stopped and started again while it is there, one where requests are     *)
(* refused, both with allocations that fail; one with the PBUF_LINK_HLEN   *)
(* of opt.h, the others with room for the Ethernet header; one with        *)
(* endless leases.  The server has address 9, host 50 is behind it.        *)
(***************************************************************************)
EXTENDS Link

Lease(t0) == [t0 |-> t0, t1 |-> ABSENT, t2 |-> ABSENT]

Base == [fixed |-> 0, addrs |-> {}, leases |-> {}, hosts |-> {}, eths |-> {}, dests |-> {},
         nak |-> FALSE, fails |-> FALSE, stops |-> FALSE, restarts |-> FALSE, link_hlen |-> 14]

Client == [Base EXCEPT !.addrs = {1}, !.leases = {Lease(240)}]

MCNets ==
  {[Base EXCEPT !.fixed = 1, !.hosts = {2, 3, 9}, !.eths = {21, 22}, !.dests = {2, 3, 50, 255}],
   [Client EXCEPT !.addrs = {1, 2}, !.hosts = {9}, !.eths = {21}],
   [Client EXCEPT !.fails = TRUE, !.stops = TRUE, !.restarts = TRUE],
   [Client EXCEPT !.nak = TRUE, !.fails = TRUE, !.stops = TRUE],
   [Client EXCEPT !.link_hlen = 0],
   [Client EXCEPT !.leases = {Lease(INFINITE), [t0 |-> ABSENT, t1 |-> INFINITE, t2 |-> INFINITE]}]}

\* A host that already uses the address the server offers.
Conflict == {[Client EXCEPT !.hosts = {1}, !.eths = {21}]}
=============================================================================
