-------------------------------- MODULE Dhcp --------------------------------
(***************************************************************************)
(* The DHCP client of lwIP (core/dhcp.c) on top of the ARP cache.  Every C *)
(* function is an operator on the memory record m of module Etharp, to     *)
(* which this module adds                                                  *)
(*   dhcp    struct dhcp of the interface, NoClient for netif->dhcp == NULL *)
(*   pcbs    how many UDP pcbs have dhcp_recv as their callback            *)
(*   link_hlen  PBUF_LINK_HLEN of the build                                *)
(*   asked   the request that carries dhcp->xid, as the network saw it     *)
(*   past    the kinds of requests sent earlier under other identifiers    *)
(*   acked, leftover, conflict                                             *)
(*           the address of the last ACK that was used, whether the        *)
(*           negotiation began with an address still on the interface, and *)
(*           whether a host answered for the address being checked         *)
(* A transaction identifier is 32 bits and is never used twice: a reply is *)
(* fresh when it answers asked, and stale otherwise.  ok says whether the  *)
(* allocation of the request, or of the copy of the reply, succeeds.       *)
(***************************************************************************)
EXTENDS Etharp, Integers

CONSTANTS
  DHCP_FINE_TIMER_MSECS, DHCP_COARSE_TIMER_SECS, \* periods of the two timers
  U8_MOD, U16_MOD,                               \* widths of tries and of the timers
  INFINITE,                                      \* 0xffffffff, the endless lease
  MEMP_NUM_UDP_PCB,
  SERVER                                         \* the DHCP server and router

ASSUME DhcpAssumption ==
  /\ DHCP_FINE_TIMER_MSECS \in Nat \ {0} /\ DHCP_COARSE_TIMER_SECS \in Nat \ {0}
  /\ U8_MOD \in Nat \ {0} /\ U16_MOD \in Nat \ {0}
  /\ SERVER \in LocalNet /\ MEMP_NUM_UDP_PCB \in Nat

NoClient == [state |-> "NONE"]
NoRequest == [kind |-> "NONE", ip |-> IP_ADDR_ANY]
ABSENT == -1  \* an option the message does not have

\* memset(dhcp, 0, sizeof(struct dhcp))
cleared == [state |-> "OFF", tries |-> 0, request_timeout |-> 0, t1_timeout |-> 0,
            t2_timeout |-> 0, server |-> IP_ADDR_ANY, offered |-> IP_ADDR_ANY,
            t0_lease |-> 0, t1_renew |-> 0, t2_rebind |-> 0]

dhcp_set_state(c, new_state) ==
  IF new_state # c.state THEN [c EXCEPT !.state = new_state, !.tries = 0] ELSE c

ticks(msecs) == ((msecs + DHCP_FINE_TIMER_MSECS) - 1) \div DHCP_FINE_TIMER_MSECS

\* The longest wait of the client, 20 seconds, fits its timer (40 of 65536).
ASSUME TimerAssumption == ticks(20000) < U16_MOD

\* dhcp->tries++, and the wait for the answer that follows every request.
tried(c) == [c EXCEPT !.tries = (@ + 1) % U8_MOD]
wait(c, msecs) == [c EXCEPT !.request_timeout = ticks(msecs) % U16_MOD]

----------------------------------------------------------------------------
\* dhcp_create_request: a new transaction identifier.
dhcp_create_request(m) ==
  [m EXCEPT !.past = @ \cup ({m.asked.kind} \ {"NONE"}), !.asked = NoRequest, !.wire = {}]

heard_on_wire(m, msg) ==
  IF \E f \in m.wire : f.type = "IP" THEN [m EXCEPT !.asked = msg] ELSE m

\* A request is a pbuf of the layer PBUF_TRANSPORT: of the 20 + 20 + PBUF_LINK_HLEN
\* bytes in front of it UDP takes 8 and IP 20.
udp_space(m) == ((20 + 20 + m.link_hlen) - 8) - 20

\* udp_send to a server: through IP to etharp_output, whose errors are ignored.
udp_send(m, dest, kind, ip) ==
  heard_on_wire(etharp_output(m, dest, 1, udp_space(m), TRUE), [kind |-> kind, ip |-> ip])

request(m, dest, kind, ip) == udp_send(dhcp_create_request(m), dest, kind, ip)

discover_wait(c) == wait(c, IF c.tries < 4 THEN (c.tries + 1) * 1000 ELSE 10 * 1000)

begun(m) == [m EXCEPT !.dhcp.offered = IP_ADDR_ANY, !.leftover = m.netif.ip # IP_ADDR_ANY]

dhcp_discover(m, ok) ==
  IF ok
  THEN [request(begun(m), IP_ADDR_BROADCAST, "DISCOVER", IP_ADDR_ANY) EXCEPT
          !.dhcp = discover_wait(tried(dhcp_set_state(@, "SELECTING")))]
  ELSE [begun(m) EXCEPT !.dhcp = discover_wait(tried(@))]

select_wait(c) == wait(c, IF c.tries < 4 THEN c.tries * 1000 ELSE 4 * 1000)

dhcp_select(m, ok) ==
  IF ok
  THEN [request(m, IP_ADDR_BROADCAST, "REQUEST", m.dhcp.offered) EXCEPT
          !.dhcp = select_wait(tried(dhcp_set_state(@, "REQUESTING")))]
  ELSE [m EXCEPT !.dhcp = select_wait(tried(@))]

renew_wait(c) == wait(c, IF c.tries < 10 THEN c.tries * 2000 ELSE 20 * 1000)

dhcp_renew(m, ok) ==
  [(IF ok THEN request(m, m.dhcp.server, "REQUEST", m.netif.ip) ELSE m) EXCEPT
     !.dhcp = renew_wait(tried(dhcp_set_state(@, "RENEWING")))]

rebind_wait(c) == wait(c, IF c.tries < 10 THEN c.tries * 1000 ELSE 10 * 1000)

dhcp_rebind(m, ok) ==
  [(IF ok THEN request(m, IP_ADDR_BROADCAST, "REQUEST", m.netif.ip) ELSE m) EXCEPT
     !.dhcp = rebind_wait(tried(dhcp_set_state(@, "REBINDING")))]

\* netif_set_ipaddr, netif_set_netmask and netif_set_gw.
unconfigured == [ip |-> IP_ADDR_ANY, gw |-> IP_ADDR_ANY, masked |-> FALSE]

forgotten(c) ==
  [dhcp_set_state(c, "OFF") EXCEPT !.server = IP_ADDR_ANY, !.offered = IP_ADDR_ANY,
                                   !.t0_lease = 0, !.t1_renew = 0, !.t2_rebind = 0]

\* dhcp_release: the server's address is cleared before the message is sent to it.
dhcp_release(m, ok) ==
  [(IF ok THEN request(m, IP_ADDR_ANY, "RELEASE", m.netif.ip) ELSE m) EXCEPT
     !.dhcp = rebind_wait(tried(forgotten(@))), !.netif = unconfigured]

dhcp_decline(m, ok) ==
  [(IF ok THEN request(m, m.dhcp.server, "DECLINE", m.dhcp.offered) ELSE m) EXCEPT
     !.dhcp = wait(tried(dhcp_set_state(@, "BACKING_OFF")), 10 * 1000)]

dhcp_arp_reply(m, addr, ok) ==
  IF m.dhcp.state = "CHECKING" /\ addr = m.dhcp.offered THEN dhcp_decline(m, ok) ELSE m

\* dhcp_check: ask who has the offered address; the state is set last.
dhcp_check(m, ok) ==
  [etharp_query(m, m.dhcp.offered, NULL, ok) EXCEPT
     !.dhcp = dhcp_set_state(wait(tried(@), 500), "CHECKING")]

\* A period in seconds as ticks of the coarse timer, in a u16_t and never 0.
coarse(secs) == ((secs + DHCP_COARSE_TIMER_SECS \div 2) \div DHCP_COARSE_TIMER_SECS) % U16_MOD
never_zero(t) == IF t = 0 THEN 1 ELSE t
lease_timer(secs, t) == IF secs = INFINITE THEN t ELSE never_zero(coarse(secs))

lease_timed(c) ==
  [c EXCEPT !.t1_timeout = lease_timer(c.t1_renew, @), !.t2_timeout = lease_timer(c.t2_rebind, @)]

dhcp_bind(m) ==
  [m EXCEPT !.dhcp = dhcp_set_state(lease_timed(@), "BOUND"),
            !.netif = [ip |-> m.dhcp.offered, gw |-> SERVER, masked |-> TRUE]]

----------------------------------------------------------------------------
\* A bug that leaves the timer stopped after a refusal.
dhcp_handle_nak_untimed(m) == [m EXCEPT !.dhcp = dhcp_set_state(@, "BACKING_OFF")]

dhcp_handle_nak(m) ==
  [m EXCEPT !.dhcp = dhcp_set_state(wait(@, 10 * 1000), "BACKING_OFF")]

\* dhcp_handle_offer does nothing about an offer without a server identifier.
dhcp_handle_offer(m, r, ok) ==
  IF r.server = IP_ADDR_ANY THEN m
  ELSE dhcp_select([m EXCEPT !.dhcp.server = r.server, !.dhcp.offered = r.ip], ok)

option(given, otherwise) == IF given = ABSENT THEN otherwise ELSE given

leased(c, r, t0) ==
  [c EXCEPT !.t0_lease = t0, !.t1_renew = option(r.t1, t0 \div 2),
            !.t2_rebind = option(r.t2, t0), !.offered = r.ip]

dhcp_handle_ack(m, r) ==
  [m EXCEPT !.dhcp = leased(@, r, option(r.t0, m.dhcp.t0_lease)),
            !.acked = r.ip, !.conflict = FALSE]

\* What dhcp_recv does about a message of this transaction; its answer stops
\* the request timer before it is handled.
stopped(m) == [m EXCEPT !.dhcp.request_timeout = 0]

handle_reply(m, r, ok) ==
  CASE r.type = "ACK" /\ m.dhcp.state = "REQUESTING" ->
         dhcp_check(stopped(dhcp_handle_ack(m, r)), ok)
    [] r.type = "ACK" /\ m.dhcp.state \in {"REBINDING", "RENEWING"} ->
         dhcp_bind([stopped(m) EXCEPT !.acked = r.ip])
    [] r.type = "NAK" /\ m.dhcp.state \in {"REQUESTING", "REBINDING", "RENEWING"} ->
         dhcp_handle_nak(stopped(m))
    [] r.type = "OFFER" /\ m.dhcp.state = "SELECTING" ->
         dhcp_handle_offer(stopped(m), r, ok)
    [] OTHER -> m

\* A bug that answers to any transaction identifier.
dhcp_recv_any(m, r, copied, ok) ==
  CASE m.dhcp = NoClient -> [m EXCEPT !.halted = TRUE]
    [] m.dhcp # NoClient /\ copied -> handle_reply(m, r, ok)
    [] OTHER -> m

\* dhcp_recv: the first thing it does is store p in netif->dhcp.  copied says
\* whether dhcp_unfold_reply could copy the message.
dhcp_recv(m, r, copied, ok) ==
  CASE m.dhcp = NoClient -> [m EXCEPT !.halted = TRUE]
    [] m.dhcp # NoClient /\ r.fresh /\ copied -> handle_reply(m, r, ok)
    [] OTHER -> m

----------------------------------------------------------------------------
\* A bug that goes on asking whether the address is in use.
dhcp_timeout_checking(m, ok, ok2) ==
  CASE m.dhcp.state \in {"BACKING_OFF", "SELECTING"} -> dhcp_discover(m, ok)
    [] m.dhcp.state = "REQUESTING" /\ m.dhcp.tries <= 5 -> dhcp_select(m, ok)
    [] m.dhcp.state = "CHECKING" -> dhcp_check(m, ok)
    [] m.dhcp.state = "RENEWING" -> dhcp_renew(m, ok)
    [] m.dhcp.state \in {"REQUESTING", "REBINDING"} -> dhcp_discover(dhcp_release(m, ok), ok2)
    [] OTHER -> m

\* dhcp_timeout: the answer did not come in time.  A second allocation is
\* made where a release is followed by a new negotiation.
dhcp_timeout(m, ok, ok2) ==
  CASE m.dhcp.state \in {"BACKING_OFF", "SELECTING"} -> dhcp_discover(m, ok)
    [] m.dhcp.state = "REQUESTING" /\ m.dhcp.tries <= 5 -> dhcp_select(m, ok)
    [] m.dhcp.state = "REQUESTING" /\ m.dhcp.tries > 5 ->
         dhcp_discover(dhcp_release(m, ok), ok2)
    [] m.dhcp.state = "CHECKING" /\ m.dhcp.tries <= 1 -> dhcp_check(m, ok)
    [] m.dhcp.state = "CHECKING" /\ m.dhcp.tries > 1 -> dhcp_bind(m)
    [] m.dhcp.state = "RENEWING" -> dhcp_renew(m, ok)
    [] m.dhcp.state = "REBINDING" /\ m.dhcp.tries <= 8 -> dhcp_rebind(m, ok)
    [] m.dhcp.state = "REBINDING" /\ m.dhcp.tries > 8 ->
         dhcp_discover(dhcp_release(m, ok), ok2)
    [] OTHER -> m

\* timeout-- == 1 in a u16_t: zero is decremented too.
one_less(t) == ((t + U16_MOD) - 1) % U16_MOD

dhcp_fine_tmr(m, ok, ok2) ==
  IF m.dhcp.request_timeout = 1
  THEN dhcp_timeout([m EXCEPT !.dhcp.request_timeout = 0], ok, ok2)
  ELSE [m EXCEPT !.dhcp.request_timeout = one_less(@)]

lease_states == {"REQUESTING", "BOUND", "RENEWING"}

dhcp_t1_timeout(m, ok) == IF m.dhcp.state \in lease_states THEN dhcp_renew(m, ok) ELSE m
dhcp_t2_timeout(m, ok) == IF m.dhcp.state \in lease_states THEN dhcp_rebind(m, ok) ELSE m

dhcp_coarse_tmr(m, ok) ==
  CASE m.dhcp.t2_timeout = 1 -> dhcp_t2_timeout([m EXCEPT !.dhcp.t2_timeout = 0], ok)
    [] m.dhcp.t2_timeout # 1 /\ m.dhcp.t1_timeout = 1 ->
         dhcp_t1_timeout([m EXCEPT !.dhcp.t2_timeout = one_less(@), !.dhcp.t1_timeout = 0], ok)
    [] OTHER -> [m EXCEPT !.dhcp.t2_timeout = one_less(@), !.dhcp.t1_timeout = one_less(@)]

----------------------------------------------------------------------------
dhcp_stop(m) ==
  IF m.dhcp = NoClient THEN m ELSE [m EXCEPT !.dhcp = NoClient, !.pcbs = @ - 1]

\* dhcp_start: the structure of a client that is already there is cleared, its
\* UDP pcb included.
dhcp_start(m, ok) ==
  CASE m.pcbs >= MEMP_NUM_UDP_PCB -> [m EXCEPT !.dhcp = NoClient]
    [] m.pcbs < MEMP_NUM_UDP_PCB /\ ok ->
         dhcp_discover([m EXCEPT !.dhcp = cleared, !.pcbs = @ + 1], TRUE)
    [] OTHER -> dhcp_stop(dhcp_discover([m EXCEPT !.dhcp = cleared, !.pcbs = @ + 1], FALSE))
=============================================================================
