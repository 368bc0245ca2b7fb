------------------------------ MODULE PppHost ------------------------------
(***************************************************************************)
(* One unit of PPP: the phases of the link and authentication (auth.c,     *)
(* pap.c, chap.c), LCP and IPCP (lcp.c, ipcp.c) on the automaton of Fsm,   *)
(* and the handlers of the tcpip thread (ppp.c).                           *)
(*                                                                         *)
(* A unit is a record s.                                                   *)
(*   fsm, timers      the automata; the handlers in the list of timeouts   *)
(*   want, got,       lcp_wantoptions, lcp_gotoptions, lcp_allowoptions,   *)
(*   allow, his       lcp_hisoptions; ipwant ... iphis the same of IPCP    *)
(*   phase            lcp_phase                                            *)
(*   pending          auth_pending                                         *)
(*   np_open, np_up   num_np_open, num_np_up                               *)
(*   outACCM, inACCM  the control characters escaped and dropped           *)
(*   echo             lcp_echos_pending and lcp_echo_timer_running         *)
(*   pap, chap        upap_state, chap_state                               *)
(*   main             the thread pppMain: "off", "new", "run", or "read"   *)
(*                    when it has found nothing to do and calls sio_read   *)
(*   woken            pppMainWakeup has been called in the current step    *)
(*   openFlag, kill_link, sig_hup, if_up, addrs     PPPControl             *)
(*   input            netif.input is set                                   *)
(*   route            default_route_set                                    *)
(*   mbox             calls that wait for the tcpip thread                 *)
(*   out              frames written in the current step                   *)
(*   failed           auth_withpeer_fail has been called                   *)
(*   starved          a timeout found the pool of sys_timeout empty        *)
(*   fault            "echo" or "memory" when an assertion failed, "input" *)
(*                    when a NULL pointer was called, "none" before        *)
(*   set              what the application and the build configure; magic  *)
(*                    is what magic() returns, 1 in this program, timeouts *)
(*                    how many entries of the pool the others leave to PPP *)
(* MRU and MTU of the device, messages and statistics are left out, and so *)
(* is check_idle: get_idle_time always fails.                              *)
(***************************************************************************)
EXTENDS Integers, Sequences, PppOptions

CONSTANTS
  ID_MOD,          \* identifiers are one byte
  MAXCONFREQS,     \* FSM_DEFMAXCONFREQS
  MAXTERMREQS,     \* FSM_DEFMAXTERMREQS
  MAXNAKLOOPS,     \* FSM_DEFMAXNAKLOOPS
  LOOPBACKFAIL,    \* DEFLOOPBACKFAIL
  MAXECHOFAILS,    \* LCP_MAXECHOFAILS
  MAXTRANSMITS     \* us_maxtransmits, CHAP_DEFTRANSMITS

Timers == {"lcp", "ipcp", "pap", "papreq", "chal", "resp", "echo", "connect"}

stop_timer(s, t) == [s EXCEPT !.timers = @ \ {t}]

set_if(c, x) == IF c THEN {x} ELSE {}

-----------------------------------------------------------------------------
(* The network interface (ppp.c).  All of it fails on a unit not open. *)

sifup(s) == [s EXCEPT !.if_up = TRUE, !.input = TRUE]

sifdown(s) == IF s.openFlag THEN [s EXCEPT !.if_up = FALSE] ELSE s

sifaddr(s, o, h) == [s EXCEPT !.addrs = <<o, h>>]

cifaddr(s) == IF s.openFlag THEN [s EXCEPT !.addrs = <<0, 0>>] ELSE s

sifdefaultroute(s) == [s EXCEPT !.route = s.openFlag]

cifdefaultroute(s) == [s EXCEPT !.route = FALSE]

np_down(s) == [s EXCEPT !.np_up = @ - 1]

ipcp_clear_addrs(s) == cifaddr(cifdefaultroute(s))

ipcp_down(s) == ipcp_clear_addrs(sifdown(np_down(s)))

(* The callbacks of IPCP that a Configure-Request of ours needs. *)
use_ipwant(s, w) == [s EXCEPT !.ipwant = w, !.ipgot = w]

ipcp_reset(s) == use_ipwant(s, ipcp_resetci(s.ipwant, s.ipallow, s.set.usepeerdns))

ipcp_length(s) == [s EXCEPT !.ipgot = ipcp_cilen(s.ipwant, s.ipgot)]

ipcp_request(s) == ipcp_addci(s.ipgot)

IC == INSTANCE FsmCore WITH F <- "ipcp", resetci <- ipcp_reset, cilen <- ipcp_length,
                            addci <- ipcp_request, down <- ipcp_down

pppWrite(s, proto, code, id, data) == IC!pppWrite(s, proto, code, id, data)

start_timer(s, t) == IC!sys_timeout(s, t)

(* The count of network protocols in use (auth.c). *)
np_up(s) ==
  [IF s.np_up = 0 /\ s.set.maxconnect THEN start_timer(s, "connect") ELSE s
     EXCEPT !.np_up = @ + 1]

-----------------------------------------------------------------------------
(* PAP: sending and starting (pap.c) *)

upap_init == [client |-> "INITIAL", server |-> "INITIAL", id |-> 0, transmits |-> 0]

upap_sauthreq(s) ==
  start_timer([pppWrite(s, "pap", "AUTHREQ", (s.pap.id + 1) % ID_MOD, s.set.cred)
                 EXCEPT !.pap.id = (@ + 1) % ID_MOD, !.pap.transmits = @ + 1,
                        !.pap.client = "AUTHREQ"], "pap")

upap_sresp(s, code, id) == pppWrite(s, "pap", code, id, 0)

upap_authwithpeer(s) ==
  IF s.pap.client \in {"INITIAL", "PENDING"}
  THEN [s EXCEPT !.pap.transmits = 0, !.pap.client = "PENDING"]
  ELSE upap_sauthreq([s EXCEPT !.pap.transmits = 0])

upap_listen(s) == start_timer([s EXCEPT !.pap.server = "LISTEN"], "papreq")

upap_authpeer(s) ==
  IF s.pap.server \in {"INITIAL", "PENDING"} THEN [s EXCEPT !.pap.server = "PENDING"]
  ELSE upap_listen(s)

upap_lowerup_client(s) ==
  CASE s.pap.client = "INITIAL" -> [s EXCEPT !.pap.client = "CLOSED"]
    [] s.pap.client = "PENDING" -> upap_sauthreq(s)
    [] OTHER -> s

upap_lowerup_server(s) ==
  CASE s.pap.server = "INITIAL" -> [s EXCEPT !.pap.server = "CLOSED"]
    [] s.pap.server = "PENDING" -> upap_listen(s)
    [] OTHER -> s

upap_lowerup(s) == upap_lowerup_server(upap_lowerup_client(s))

stop_if(s, c, t) == IF c THEN stop_timer(s, t) ELSE s

upap_lowerdown(s) ==
  [stop_if(stop_if(s, s.pap.client = "AUTHREQ", "pap"), s.pap.server = "LISTEN", "papreq")
     EXCEPT !.pap.client = "INITIAL", !.pap.server = "INITIAL"]

-----------------------------------------------------------------------------
(* CHAP: sending and starting (chap.c).  The digest of a response stands   *)
(* for the name and the secret it is made of.                              *)

ChapInit == [client |-> "INITIAL", server |-> "INITIAL", id |-> 0, chal_id |-> 0,
             transmits |-> 0, resp_id |-> 0, resp_type |-> "none"]

ChapGenChallenge(s) ==
  [s EXCEPT !.chap.id = (@ + 1) % ID_MOD, !.chap.chal_id = (s.chap.id + 1) % ID_MOD,
            !.chap.transmits = 0]

ChapSendChallenge(s) ==
  start_timer([pppWrite(s, "chap", "CHALLENGE", s.chap.chal_id, 0)
                 EXCEPT !.chap.transmits = @ + 1], "chal")

challenge(s) ==
  [ChapSendChallenge(ChapGenChallenge(s)) EXCEPT !.chap.server = "INITIAL_CHAL"]

ChapSendResponse(s) ==
  start_timer([pppWrite(s, "chap", "RESPONSE", s.chap.resp_id, s.set.cred)
                 EXCEPT !.chap.client = "RESPONSE"], "resp")

ChapSendStatus(s, code) == pppWrite(s, "chap", code, s.chap.chal_id, 0)

ChapAuthWithPeer(s) ==
  [s EXCEPT !.chap.client = IF @ \in {"INITIAL", "PENDING"} THEN "PENDING" ELSE "LISTEN",
            !.chap.resp_type = "MD5"]

ChapAuthPeer(s) ==
  IF s.chap.server \in {"INITIAL", "PENDING"} THEN [s EXCEPT !.chap.server = "PENDING"]
  ELSE challenge(s)

ChapLowerUp(s) ==
  LET c == [s EXCEPT !.chap.client = CASE @ = "INITIAL" -> "CLOSED"
                                       [] @ = "PENDING" -> "LISTEN" [] OTHER -> @]
  IN  CASE c.chap.server = "INITIAL" -> [c EXCEPT !.chap.server = "CLOSED"]
        [] c.chap.server = "PENDING" -> challenge(c)
        [] OTHER -> c

ChapLowerDown(s) ==
  [stop_if(stop_if(s, s.chap.server = "INITIAL_CHAL", "chal"),
           s.chap.client = "RESPONSE", "resp")
     EXCEPT !.chap.client = "INITIAL", !.chap.server = "INITIAL"]

-----------------------------------------------------------------------------
(* LCP goes down, and is closed (auth.c, lcp.c). *)

lcp_echo_lowerdown(s) ==
  IF s.echo.running THEN [stop_timer(s, "echo") EXCEPT !.echo.running = FALSE] ELSE s

terminating(s) == [s EXCEPT !.phase = IF @ = "DEAD" THEN @ ELSE "TERMINATE"]

pppMainWakeup(s) == [s EXCEPT !.woken = TRUE]

\* Mutant: the network protocols are closed but not told that LCP is down.
link_down_close_only(s) ==
  LET p == IF s.set.pap THEN upap_lowerdown(s) ELSE s
      c == IF s.set.chap THEN ChapLowerDown(p) ELSE p
  IN  pppMainWakeup(terminating([IC!fsm_close(c) EXCEPT !.np_open = 0, !.np_up = 0]))

(* The protocols compiled in, in the order of ppp_protocols. *)
link_down(s) ==
  LET p == IF s.set.pap THEN upap_lowerdown(s) ELSE s
      c == IF s.set.chap THEN ChapLowerDown(p) ELSE p
  IN  pppMainWakeup(terminating(
        [IC!fsm_close(IC!fsm_lowerdown(c)) EXCEPT !.np_open = 0, !.np_up = 0]))

accm(o, none) == IF "asyncmap" \in o.neg THEN o.asyncmap ELSE none

lcp_down(s) ==
  [link_down(lcp_echo_lowerdown(s)) EXCEPT !.outACCM = Ctl, !.inACCM = accm(s.got, {})]

(* auth_reset: which ways to prove who we are do we allow, and have we     *)
(* secrets to ask it of the peer.                                          *)
auth_reset(s) ==
  [s EXCEPT !.allow.neg = (@ \ {"upap", "chap"})
                          \union set_if(~s.set.refuse_pap, "upap")
                          \union set_if(~s.set.refuse_chap /\ s.set.cred # 0, "chap"),
            !.got.neg = IF s.set.secrets THEN @ ELSE @ \ {"upap", "chap"}]

lcp_resetci(s) ==
  LET w == [s.want EXCEPT !.magicnumber = s.set.magic, !.numloops = 0]
  IN  auth_reset([s EXCEPT !.want = w, !.got = w])

lcp_length(s) == s

lcp_request(s) == lcp_addci(s.got)

LC == INSTANCE FsmCore WITH F <- "lcp", resetci <- lcp_resetci, cilen <- lcp_length,
                            addci <- lcp_request, down <- lcp_down

lcp_close(s) == LC!fsm_close(terminating(s))

link_terminated(s) ==
  IF s.phase = "DEAD" THEN s ELSE pppMainWakeup([s EXCEPT !.phase = "DEAD"])

lcp_finished(s) == link_terminated(s)

-----------------------------------------------------------------------------
(* IPCP comes up; the last network protocol ends (ipcp.c, auth.c). *)

np_finished(s) ==
  LET n == [s EXCEPT !.np_open = @ - 1] IN IF n.np_open <= 0 THEN lcp_close(n) ELSE n

ipcp_finished(s) == np_finished(s)

ipcp_addresses(s) ==
  [s EXCEPT !.iphis.hisaddr = IF "neg_addr" \in s.iphis.on THEN @ ELSE s.ipwant.hisaddr]

(* A peer that had to authenticate may use no address: none are given out. *)
auth_ip_addr(s) == ~s.set.auth_required

configure(s) ==
  IF s.iphis.hisaddr = 0 \/ s.ipgot.ouraddr = 0 \/ ~auth_ip_addr(s) \/ ~s.openFlag
  THEN IC!fsm_close(s)
  ELSE sifdefaultroute(sifup(sifaddr(s, s.ipgot.ouraddr, s.iphis.hisaddr)))

ipcp_up(s) == configure(ipcp_addresses(np_up(s)))

(* What an answer of the peer does to our options: nothing once OPENED. *)
ipcp_take(s, r) ==
  [ok |-> r.ok, s |-> IF s.fsm["ipcp"].state = "OPENED" THEN s
                      ELSE [s EXCEPT !.ipgot = r.try]]

ipcp_acked(s, p) == ipcp_ackci(s.ipgot, p)

ipcp_naked(s, p) == ipcp_take(s, ipcp_nakci(s.ipgot, p))

ipcp_rejected(s, p) == ipcp_take(s, ipcp_rejci(s.ipgot, p))

ipcp_answer(s, r) == [code |-> r.code, data |-> r.data,
                      s |-> [s EXCEPT !.iphis = r.his, !.ipwant = r.want]]

ipcp_requested(s, p, reject) ==
  ipcp_answer(s, ipcp_reqci(s.ipwant, s.ipallow, p, reject))

no_extcode(s, m) == [ok |-> FALSE, s |-> s]

I == INSTANCE Fsm WITH F <- "ipcp", resetci <- ipcp_reset, cilen <- ipcp_length,
       addci <- ipcp_request, down <- ipcp_down, up <- ipcp_up, finished <- ipcp_finished,
       ackci <- ipcp_acked, nakci <- ipcp_naked, rejci <- ipcp_rejected,
       reqci <- ipcp_requested, extcode <- no_extcode

-----------------------------------------------------------------------------
(* The phases of the link (auth.c). *)

(* IPCP is the only network protocol. *)
network_phase(s) ==
  [IC!fsm_open([s EXCEPT !.phase = "NETWORK"]) EXCEPT !.np_open = @ + 1]

authenticated(s, who) ==
  IF s.pending \ {who} = {} THEN network_phase([s EXCEPT !.pending = {}])
  ELSE [s EXCEPT !.pending = @ \ {who}]

auth_peer_success(s, proto) == authenticated(s, <<proto, "peer">>)

auth_withpeer_success(s, proto) == authenticated(s, <<proto, "withpeer">>)

auth_peer_fail(s) == lcp_close(s)

auth_withpeer_fail(s) == [s EXCEPT !.failed = TRUE]

(* Both ends may have to prove who they are, CHAP before PAP. *)
authenticate(s) ==
  LET c == s.set.chap
      p == s.set.pap
      peer == IF c /\ "chap" \in s.got.neg THEN "chap"
              ELSE IF p /\ "upap" \in s.got.neg THEN "pap" ELSE "none"
      with == IF c /\ "chap" \in s.his.neg THEN "chap"
              ELSE IF p /\ "upap" \in s.his.neg THEN "pap" ELSE "none"
      s1 == CASE peer = "chap" -> ChapAuthPeer(s) [] peer = "pap" -> upap_authpeer(s)
              [] OTHER -> s
      s2 == CASE with = "chap" -> ChapAuthWithPeer(s1)
              [] with = "pap" -> upap_authwithpeer(s1) [] OTHER -> s1
      auth == set_if(peer # "none", <<peer, "peer">>)
              \union set_if(with # "none", <<with, "withpeer">>)
  IN  IF auth = {} THEN network_phase([s2 EXCEPT !.pending = {}])
      ELSE [s2 EXCEPT !.pending = auth]

link_established(s) ==
  LET p == IF s.set.pap THEN upap_lowerup(s) ELSE s
      c == IF s.set.chap THEN ChapLowerUp(p) ELSE p
      u == IC!fsm_lowerup(c)
  IN  IF s.set.auth_required /\ s.got.neg \cap {"chap", "upap"} = {} THEN lcp_close(u)
      ELSE authenticate([u EXCEPT !.phase = "AUTHENTICATE"])

-----------------------------------------------------------------------------
(* Echo requests (lcp.c): the peer is there as long as it answers. *)

LcpLinkFailure(s) == IF s.fsm["lcp"].state = "OPENED" THEN lcp_close(s) ELSE s

count_echo(s) ==
  IF s.echo.pending >= MAXECHOFAILS
  THEN [LcpLinkFailure(s) EXCEPT !.echo.pending = 0]
  ELSE [s EXCEPT !.echo.pending = @ + 1]

send_echo(s) ==
  IF s.fsm["lcp"].state = "OPENED" THEN LC!fsm_sdata(s, "ECHOREQ", 0, s.got.magicnumber)
  ELSE s

LcpSendEchoRequest(s) == send_echo(count_echo(s))

LcpEchoCheck(s) ==
  LET e == LcpSendEchoRequest(s)
  IN  [start_timer(e, "echo") EXCEPT !.echo.running = TRUE,
                                     !.fault = IF e.echo.running THEN "echo" ELSE @]

LcpEchoTimeout(s) ==
  IF s.echo.running THEN LcpEchoCheck([s EXCEPT !.echo.running = FALSE]) ELSE s

lcp_received_echo_reply(s, magic) ==
  IF "magic" \in s.got.neg /\ magic = s.got.magicnumber THEN s
  ELSE [s EXCEPT !.echo.pending = 0]

lcp_echo_lowerup(s) ==
  LET e == [s EXCEPT !.echo = [pending |-> 0, running |-> FALSE]]
  IN  IF s.set.echo THEN LcpEchoCheck(e) ELSE e

-----------------------------------------------------------------------------
(* LCP comes up; its packets (lcp.c). *)

no_magic(o) == IF "magic" \in o.neg THEN o ELSE [o EXCEPT !.magicnumber = 0]

lcp_up(s) ==
  link_established(lcp_echo_lowerup(
    [s EXCEPT !.got = no_magic(@), !.his = no_magic(@),
              !.outACCM = accm(s.his, Ctl), !.inACCM = accm(s.got, {})]))

lcp_acked(s, p) == lcp_ackci(s.got, p)

loops(r) == IF r.looped THEN r.try.numloops + 1 ELSE 0

lcp_renamed(s, r) ==
  IF ~r.ok \/ s.fsm["lcp"].state = "OPENED" THEN [ok |-> r.ok, s |-> s]
  ELSE [ok |-> TRUE,
        s  |-> [IF r.looped /\ loops(r) >= LOOPBACKFAIL THEN lcp_close(s) ELSE s
                  EXCEPT !.got = [r.try EXCEPT !.numloops = loops(r)]]]

lcp_naked(s, p) == lcp_renamed(s, lcp_nakci(s.got, s.want, p, s.set.magic))

lcp_take(s, r) ==
  [ok |-> r.ok, s |-> IF s.fsm["lcp"].state = "OPENED" THEN s
                      ELSE [s EXCEPT !.got = r.try]]

lcp_rejected(s, p) == lcp_take(s, lcp_rejci(s.got, p))

lcp_answer(s, r) == [code |-> r.code, data |-> r.data, s |-> [s EXCEPT !.his = r.his]]

lcp_requested(s, p, reject) ==
  lcp_answer(s, lcp_reqci(s.got, s.allow, p, reject, s.set.magic))

(* The peer does not know a protocol: the protocol is told. *)
upap_protrej(s) ==
  LET f == IF s.pap.client = "AUTHREQ" THEN auth_withpeer_fail(s) ELSE s
  IN  upap_lowerdown(IF f.pap.server = "LISTEN" THEN auth_peer_fail(f) ELSE f)

ChapProtocolReject(s) ==
  LET f == IF s.chap.server \notin {"INITIAL", "CLOSED"} THEN auth_peer_fail(s) ELSE s
  IN  ChapLowerDown(IF f.chap.client \notin {"INITIAL", "CLOSED"}
                    THEN auth_withpeer_fail(f) ELSE f)

(* fsm_protreject of an OPENED LCP. *)
fsm_protreject(s) == LC!go_to(LC!terminate(lcp_down(s)), "STOPPING")

lcp_rprotrej(s, proto) ==
  CASE s.fsm["lcp"].state # "OPENED" -> s
    [] proto = "pap" /\ s.set.pap    -> upap_protrej(s)
    [] proto = "chap" /\ s.set.chap  -> ChapProtocolReject(s)
    [] proto = "ipcp"                -> IC!fsm_lowerdown(s)
    [] proto = "lcp"                 -> fsm_protreject(s)
    [] OTHER -> s

lcp_extcode(s, m) ==
  [ok |-> TRUE,
   s  |-> CASE m.code = "PROTREJ" -> lcp_rprotrej(s, m.data)
            [] m.code = "ECHOREQ" /\ s.fsm["lcp"].state = "OPENED" ->
                 LC!fsm_sdata(s, "ECHOREP", m.id, s.got.magicnumber)
            [] m.code = "ECHOREP" -> lcp_received_echo_reply(s, m.data)
            [] OTHER -> s]

L == INSTANCE Fsm WITH F <- "lcp", resetci <- lcp_resetci, cilen <- lcp_length,
       addci <- lcp_request, down <- lcp_down, up <- lcp_up, finished <- lcp_finished,
       ackci <- lcp_acked, nakci <- lcp_naked, rejci <- lcp_rejected,
       reqci <- lcp_requested, extcode <- lcp_extcode

lcp_sprotrej(s, proto) ==
  LC!fsm_sdata(LC!next_id(s), "PROTREJ", (s.fsm["lcp"].id + 1) % ID_MOD, proto)

-----------------------------------------------------------------------------
(* Packets and timeouts of PAP *)

(* check_passwd accepts everybody. *)
upap_rauthreq(s, id) ==
  CASE s.pap.server \in {"INITIAL", "CLOSED", "PENDING"} -> s
    [] s.pap.server = "OPEN"    -> upap_sresp(s, "AUTHACK", id)
    [] s.pap.server = "BADAUTH" -> upap_sresp(s, "AUTHNAK", id)
    [] OTHER -> stop_timer(auth_peer_success([upap_sresp(s, "AUTHACK", id)
                                                EXCEPT !.pap.server = "OPEN"], "pap"), "papreq")

upap_rauthack(s) ==
  IF s.pap.client # "AUTHREQ" THEN s
  ELSE auth_withpeer_success([s EXCEPT !.pap.client = "OPEN"], "pap")

upap_rauthnak(s) ==
  IF s.pap.client # "AUTHREQ" THEN s
  ELSE auth_withpeer_fail([s EXCEPT !.pap.client = "BADAUTH"])

upap_input(s, m) ==
  CASE m.code = "AUTHREQ" -> upap_rauthreq(s, m.id)
    [] m.code = "AUTHACK" -> upap_rauthack(s)
    [] m.code = "AUTHNAK" -> upap_rauthnak(s)

upap_timeout(s) ==
  IF s.pap.client # "AUTHREQ" THEN s
  ELSE IF s.pap.transmits >= MAXTRANSMITS
  THEN auth_withpeer_fail([s EXCEPT !.pap.client = "BADAUTH"])
  ELSE upap_sauthreq(s)

upap_reqtimeout(s) ==
  IF s.pap.server # "LISTEN" THEN s
  ELSE [auth_peer_fail(s) EXCEPT !.pap.server = "BADAUTH"]

(* Packets and timeouts of CHAP *)

ChapReceiveChallenge(s, id) ==
  LET r == [stop_if(s, s.chap.client = "RESPONSE", "resp") EXCEPT !.chap.resp_id = id]
  IN  CASE s.chap.client \in {"CLOSED", "PENDING"} -> s
        [] s.chap.client \notin {"CLOSED", "PENDING"} /\ s.chap.resp_type = "none" -> r
        [] OTHER -> ChapSendResponse(r)

check_response(s, good) ==
  IF ~good
  THEN auth_peer_fail([ChapSendStatus(s, "FAILURE") EXCEPT !.chap.server = "BADAUTH"])
  ELSE LET o == [ChapSendStatus(s, "SUCCESS") EXCEPT !.chap.server = "OPEN"]
       IN  IF s.chap.server = "INITIAL_CHAL" THEN auth_peer_success(o, "chap") ELSE o

ChapReceiveResponse(s, id, cred) ==
  CASE s.chap.server \in {"CLOSED", "PENDING"} -> s
    [] id # s.chap.chal_id -> s
    [] s.chap.server = "OPEN"    -> ChapSendStatus(s, "SUCCESS")
    [] s.chap.server = "BADAUTH" -> ChapSendStatus(s, "FAILURE")
    [] OTHER -> check_response(stop_timer(s, "chal"), cred = s.set.cred)

ChapReceiveSuccess(s) ==
  IF s.chap.client # "RESPONSE" THEN s
  ELSE auth_withpeer_success([stop_timer(s, "resp") EXCEPT !.chap.client = "OPEN"], "chap")

ChapReceiveFailure(s) ==
  IF s.chap.client # "RESPONSE" THEN s ELSE auth_withpeer_fail(stop_timer(s, "resp"))

ChapInput(s, m) ==
  CASE m.code = "CHALLENGE" -> ChapReceiveChallenge(s, m.id)
    [] m.code = "RESPONSE"  -> ChapReceiveResponse(s, m.id, m.data)
    [] m.code = "SUCCESS"   -> ChapReceiveSuccess(s)
    [] m.code = "FAILURE"   -> ChapReceiveFailure(s)

ChapChallengeTimeout(s) ==
  IF s.chap.server # "INITIAL_CHAL" THEN s
  ELSE IF s.chap.transmits >= MAXTRANSMITS
  THEN auth_peer_fail([s EXCEPT !.chap.server = "BADAUTH"])
  ELSE ChapSendChallenge(s)

ChapResponseTimeout(s) == IF s.chap.client = "RESPONSE" THEN ChapSendResponse(s) ELSE s

connect_time_expired(s) == lcp_close(s)

-----------------------------------------------------------------------------
(* The handlers of the tcpip thread (ppp.c) *)

\* Mutant: the maps of the last connection are kept.
lcp_lowerup_maps_kept(s) == LC!fsm_lowerup(s)

lcp_lowerup(s) == LC!fsm_lowerup([s EXCEPT !.outACCM = Ctl, !.inACCM = {}])

lcp_open(s) == [LC!fsm_open(s) EXCEPT !.phase = "ESTABLISH"]

pppStartCB(s) == lcp_open(lcp_lowerup(s))

pppStopCB(s) == lcp_close(s)

pppHupCB(s) == link_terminated(LC!fsm_lowerdown(s))

(* Until we get past the authentication phase, toss all packets except     *)
(* LCP and authentication packets.                                         *)
tossed(s, m) ==
  /\ s.phase \in {"DEAD", "INITIALIZE", "ESTABLISH", "AUTHENTICATE"}
  /\ m.proto # "lcp"
  /\ m.proto \in {"pap", "chap"} => s.phase # "AUTHENTICATE"

pppInput(s, m) ==
  CASE tossed(s, m) -> s
    [] m.proto = "ip"   -> [s EXCEPT !.fault = IF s.input THEN @ ELSE "input"]
    [] m.proto = "lcp"  -> L!fsm_input(s, m)
    [] m.proto = "ipcp" -> I!fsm_input(s, m)
    [] m.proto = "pap" /\ s.set.pap   -> upap_input(s, m)
    [] m.proto = "chap" /\ s.set.chap -> ChapInput(s, m)
    [] OTHER -> lcp_sprotrej(s, m.proto)

(* A message of the tcpip thread: a call, and the frame of an input. *)
message(call, frame) == [call |-> call, frame |-> frame]

NoFrame == [proto |-> "none"]

tcpip_callback(s, m) ==
  CASE m.call = "start" -> pppStartCB(s)
    [] m.call = "stop"  -> pppStopCB(s)
    [] m.call = "hup"   -> pppHupCB(s)
    [] m.call = "input" -> pppInput(s, m.frame)

expire(s, t) ==
  CASE t = "lcp"  -> L!fsm_timeout(s)
    [] t = "ipcp" -> I!fsm_timeout(s)
    [] t = "pap"  -> upap_timeout(s)
    [] t = "papreq" -> upap_reqtimeout(s)
    [] t = "chal" -> ChapChallengeTimeout(s)
    [] t = "resp" -> ChapResponseTimeout(s)
    [] t = "echo" -> LcpEchoTimeout(s)
    [] t = "connect" -> connect_time_expired(s)

(* A handler is taken off the list before it runs. *)
timeout(s, t) == expire(stop_timer(s, t), t)

-----------------------------------------------------------------------------
(* Calls of the application, and the thread pppMain (ppp.c) *)

(* lcp_init: the automaton and the options, whatever became of the last    *)
(* connection.  asyncmap, mru and auth are set by a caller that wants them *)
(* otherwise (lcp_wantoptions is global).                                  *)
lcp_init(s) ==
  [s EXCEPT
     !.fsm["lcp"] = LC!fsm_init,
     !.want = [no_lcp_options EXCEPT
                 !.neg = {"mru", "asyncmap", "magic", "pcomp", "accomp"} \union s.set.auth,
                 !.mru = s.set.mru, !.asyncmap = s.set.asyncmap],
     !.allow = [no_lcp_options EXCEPT
                  !.neg = {"mru", "asyncmap", "magic", "pcomp", "accomp"}
                          \union set_if(s.set.chap, "chap") \union set_if(s.set.pap, "upap"),
                  !.asyncmap = s.set.escape],
     !.phase = "INITIALIZE"]

pppOpen(s) ==
  [lcp_init(s) EXCEPT !.openFlag = TRUE, !.kill_link = FALSE, !.sig_hup = FALSE,
     !.if_up = FALSE, !.failed = FALSE, !.inACCM = {}, !.outACCM = {}, !.main = "new"]

(* The unit after pppInit. *)
pppInit(set) ==
  [set |-> set, fsm |-> [f \in {"lcp", "ipcp"} |-> LC!fsm_init],
   timers |-> {},
   want |-> no_lcp_options, got |-> no_lcp_options,
   allow |-> no_lcp_options, his |-> no_lcp_options,
   ipwant |-> [no_ipcp_options EXCEPT !.on = {"neg_addr"}, !.ouraddr = set.ouraddr,
                                      !.hisaddr = set.hisaddr],
   ipgot |-> no_ipcp_options,
   ipallow |-> [no_ipcp_options EXCEPT !.on = {"neg_addr"}, !.dns = set.dns],
   iphis |-> no_ipcp_options,
   phase |-> "INITIALIZE", pending |-> {}, np_open |-> 0, np_up |-> 0,
   outACCM |-> {}, inACCM |-> {}, echo |-> [pending |-> 0, running |-> FALSE],
   pap |-> upap_init, chap |-> ChapInit, main |-> "off", openFlag |-> FALSE,
   kill_link |-> FALSE, sig_hup |-> FALSE, if_up |-> FALSE, addrs |-> <<0, 0>>,
   input |-> FALSE, route |-> FALSE, mbox |-> <<>>, out |-> <<>>, failed |-> FALSE,
   woken |-> FALSE, starved |-> FALSE, fault |-> "none"]

pppClose(s) == pppMainWakeup([s EXCEPT !.kill_link = TRUE])

pppSigHUP(s) == pppMainWakeup([s EXCEPT !.sig_hup = TRUE])

(* tcpip_callback: without memory for the message there is none. *)
post(s, call, frame, ok) ==
  IF ok THEN [s EXCEPT !.mbox = Append(@, message(call, frame))] ELSE s

(* A frame of which a raw character is in the map of characters to drop    *)
(* fails its checksum (pppInProc).                                         *)
garbled(s, f) == f.raw \cap s.inACCM # {}

pppInProc(s, f, ok) == IF garbled(s, f) THEN s ELSE post(s, "input", f, ok)

(* The tests at the top of the loop of pppMain. *)
to_do(s) == s.phase = "DEAD" \/ s.kill_link \/ s.sig_hup

look(s) == [s EXCEPT !.main = IF to_do(s) THEN "run" ELSE "read"]

(* sio_read_abort ends a read that is going on.  It comes too early when   *)
(* pppMain has looked and not yet called sio_read.                         *)
abort_read(s, early) ==
  [IF s.woken /\ s.main = "read" /\ ~early THEN look(s) ELSE s EXCEPT !.woken = FALSE]

(* What pppMain does next: it ends in phase DEAD, passes on a request to   *)
(* close or the loss of the carrier, or reads a frame.                     *)
pppMain_does(s) ==
  CASE s.main = "new"  -> "start"
    [] s.main = "read" -> "read"
    [] s.main = "run" /\ s.phase = "DEAD" -> "end"
    [] s.main = "run" /\ s.phase # "DEAD" /\ s.kill_link -> "stop"
    [] OTHER -> "hup"

(* fails is what finds no memory: the buffer of pppMain, the message it    *)
(* posts, or nothing.  Only pppInProc looks at the result of a post.       *)
pppMain(s, f, fails) ==
  LET ok == fails # "post"
  IN  CASE pppMain_does(s) = "start" ->
             IF fails = "pbuf" THEN [s EXCEPT !.fault = "memory"]
             ELSE look(post(s, "start", NoFrame, ok))
        [] pppMain_does(s) = "end"  -> [s EXCEPT !.main = "off", !.openFlag = FALSE]
        [] pppMain_does(s) = "stop" -> look([post(s, "stop", NoFrame, ok) EXCEPT !.kill_link = FALSE])
        [] pppMain_does(s) = "hup"  -> look([post(s, "hup", NoFrame, ok) EXCEPT !.sig_hup = FALSE])
        [] OTHER -> look(pppInProc(s, f, ok))
=============================================================================
