------------------------------ MODULE FsmCore ------------------------------
(***************************************************************************)
(* The option negotiation automaton of PPP (netif/ppp/fsm.c): the part     *)
(* that starts, opens and closes a protocol and sends its requests.  The   *)
(* module Fsm adds what packets and timeouts do.  The two are instantiated *)
(* once for LCP and once for IPCP; the callbacks of the protocol           *)
(* (fsm_callbacks, fsm.h) are parameters.                                  *)
(*                                                                         *)
(* A unit of PPP is a record s; s.fsm[F] is the automaton of protocol F    *)
(* and s.out the frames written and not yet on the line.  The flags of an  *)
(* automaton are left out: lcp_open and fsm_init leave them 0.             *)
(***************************************************************************)
EXTENDS Naturals, Sequences, FiniteSets

CONSTANTS
  F,              \* the protocol: "lcp" or "ipcp"
  ID_MOD,         \* packet identifiers are one byte
  MAXCONFREQS,    \* FSM_DEFMAXCONFREQS
  MAXTERMREQS,    \* FSM_DEFMAXTERMREQS
  Ctl,            \* the control characters that may be escaped
  resetci(_),     \* the callbacks
  cilen(_),
  addci(_),
  down(_)

(* States in which a request of ours is being negotiated. *)
Negotiating == {"REQSENT", "ACKRCVD", "ACKSENT"}

(* States that wait for an answer of the peer. *)
Waiting == Negotiating \union {"CLOSING", "STOPPING"}

fsm_init == [state |-> "INITIAL", id |-> 0, reqid |-> 0, seen_ack |-> FALSE,
             retransmits |-> 0, nakloops |-> 0]

go_to(s, state) == [s EXCEPT !.fsm[F].state = state]

(* The list of timeouts: s.timers is the set of the handlers in it.  The   *)
(* macro TIMEOUT takes an entry off before it adds one.  Without a free    *)
(* entry in the pool sys_timeout returns, and nobody is told.              *)
sys_timeout(s, t) ==
  IF Cardinality(s.timers \ {t}) < s.set.timeouts
  THEN [s EXCEPT !.timers = @ \union {t}]
  ELSE [s EXCEPT !.timers = @ \ {t}, !.starved = TRUE]

TIMEOUT(s) == sys_timeout(s, F)

UNTIMEOUT(s) == [s EXCEPT !.timers = @ \ {F}]

(* A packet leaves in a frame; raw are the control characters that the     *)
(* map in force does not escape (pppWrite, pppAppend).                     *)
pppWrite(s, proto, code, id, data) ==
  [s EXCEPT !.out = Append(@, [proto |-> proto, code |-> code, id |-> id,
                               data |-> data, raw |-> Ctl \ s.outACCM])]

fsm_sdata(s, code, id, data) == pppWrite(s, F, code, id, data)

next_id(s) == [s EXCEPT !.fsm[F].id = (@ + 1) % ID_MOD]

(* A request in its own name: the identifier is remembered. *)
new_reqid(s) == [s EXCEPT !.fsm[F].reqid = s.fsm[F].id]

(* fsm_sconfreq: start again from the wanted options when nothing is being *)
(* negotiated, take a new identifier unless this is a retransmission.      *)
reset_options(s) ==
  IF s.fsm[F].state \in Negotiating THEN s
  ELSE [resetci(s) EXCEPT !.fsm[F].nakloops = 0]

new_request(s) ==
  new_reqid(next_id([s EXCEPT !.fsm[F].retransmits = MAXCONFREQS]))

send_request(s) ==
  TIMEOUT([fsm_sdata(s, "CONFREQ", s.fsm[F].reqid, addci(s))
             EXCEPT !.fsm[F].retransmits = @ - 1])

fsm_sconfreq(s, retransmit) ==
  send_request(cilen([IF retransmit THEN reset_options(s)
                                    ELSE new_request(reset_options(s))
                        EXCEPT !.fsm[F].seen_ack = FALSE]))

(* A Terminate-Request and the timer that repeats it. *)
send_termreq(s) ==
  TIMEOUT([fsm_sdata(s, "TERMREQ", s.fsm[F].reqid, <<>>)
             EXCEPT !.fsm[F].retransmits = @ - 1])

terminate(s) ==
  send_termreq(new_reqid(next_id([s EXCEPT !.fsm[F].retransmits = MAXTERMREQS])))

fsm_lowerup(s) ==
  CASE s.fsm[F].state = "INITIAL"  -> go_to(s, "CLOSED")
    [] s.fsm[F].state = "STARTING" -> go_to(fsm_sconfreq(s, FALSE), "REQSENT")
    [] OTHER -> s

fsm_lowerdown(s) ==
  CASE s.fsm[F].state = "CLOSED"  -> go_to(s, "INITIAL")
    [] s.fsm[F].state = "STOPPED" -> go_to(s, "STARTING")
    [] s.fsm[F].state = "CLOSING" -> UNTIMEOUT(go_to(s, "INITIAL"))
    [] s.fsm[F].state \in Waiting \ {"CLOSING"} -> UNTIMEOUT(go_to(s, "STARTING"))
    [] s.fsm[F].state = "OPENED"  -> go_to(down(s), "STARTING")
    [] OTHER -> s

fsm_open(s) ==
  CASE s.fsm[F].state = "INITIAL" -> go_to(s, "STARTING")
    [] s.fsm[F].state = "CLOSED"  -> go_to(fsm_sconfreq(s, FALSE), "REQSENT")
    [] s.fsm[F].state = "CLOSING" -> go_to(s, "STOPPING")
    [] OTHER -> s

fsm_close(s) ==
  CASE s.fsm[F].state = "STARTING" -> go_to(s, "INITIAL")
    [] s.fsm[F].state = "STOPPED"  -> go_to(s, "CLOSED")
    [] s.fsm[F].state = "STOPPING" -> go_to(s, "CLOSING")
    [] s.fsm[F].state \in Negotiating -> go_to(terminate(UNTIMEOUT(s)), "CLOSING")
    [] s.fsm[F].state = "OPENED"   -> go_to(terminate(down(s)), "CLOSING")
    [] OTHER -> s
=============================================================================
