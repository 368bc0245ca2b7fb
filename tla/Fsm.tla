-------------------------------- MODULE Fsm --------------------------------
(***************************************************************************)
(* The option negotiation automaton of PPP: packets received and timeouts. *)
(* A callback that checks options returns a record: ok or code, the unit s *)
(* it leaves behind and, for reqci, the options data of the answer.        *)
(***************************************************************************)
EXTENDS FsmCore

CONSTANTS
  MAXNAKLOOPS,      \* FSM_DEFMAXNAKLOOPS
  up(_),            \* the callbacks
  finished(_),
  ackci(_, _),
  nakci(_, _),
  rejci(_, _),
  reqci(_, _, _),
  extcode(_, _)

finish(s, state) == finished(go_to(s, state))

\* Mutant: the protocol above is not told.
closed_silent(s) == go_to(s, IF s.fsm[F].state = "CLOSING" THEN "CLOSED" ELSE "STOPPED")

(* The peer answered the Terminate-Request, or has had time enough to. *)
closed(s) == finish(s, IF s.fsm[F].state = "CLOSING" THEN "CLOSED" ELSE "STOPPED")

(* The entry of the list has been taken off before the handler runs. *)
fsm_timeout(s) ==
  CASE s.fsm[F].state \in {"CLOSING", "STOPPING"} ->
         IF s.fsm[F].retransmits <= 0 THEN closed(s)
         ELSE send_termreq(new_reqid(next_id(s)))
    [] s.fsm[F].state \in Negotiating ->
         IF s.fsm[F].retransmits <= 0 THEN finish(s, "STOPPED")
         ELSE go_to(fsm_sconfreq(s, TRUE),
                    IF s.fsm[F].state = "ACKRCVD" THEN "REQSENT" ELSE s.fsm[F].state)
    [] OTHER -> s

(* fsm_rconfreq: negotiation starts, or starts over, on a request of the   *)
(* peer; the options are checked and answered.                             *)
restart(s) ==
  CASE s.fsm[F].state = "OPENED"  -> fsm_sconfreq(down(s), FALSE)
    [] s.fsm[F].state = "STOPPED" -> go_to(fsm_sconfreq(s, FALSE), "REQSENT")
    [] OTHER -> s

conclude(s, code) ==
  IF code = "CONFACK"
  THEN [IF s.fsm[F].state = "ACKRCVD" THEN up(go_to(UNTIMEOUT(s), "OPENED"))
                                      ELSE go_to(s, "ACKSENT")
          EXCEPT !.fsm[F].nakloops = 0]
  ELSE [s EXCEPT !.fsm[F].state = IF @ = "ACKRCVD" THEN @ ELSE "REQSENT",
                 !.fsm[F].nakloops = IF code = "CONFNAK" THEN @ + 1 ELSE @]

answer(a, id) == conclude(fsm_sdata(a.s, a.code, id, a.data), a.code)

check_request(s, id, data) ==
  answer(reqci(s, data, s.fsm[F].nakloops >= MAXNAKLOOPS), id)

fsm_rconfreq(s, id, data) ==
  CASE s.fsm[F].state = "CLOSED" -> fsm_sdata(s, "TERMACK", id, <<>>)
    [] s.fsm[F].state \in {"CLOSING", "STOPPING"} -> s
    [] OTHER -> check_request(restart(s), id, data)

(* Only the answer to the last request counts, and only the first one. *)
expected(s, id) == id = s.fsm[F].reqid /\ ~s.fsm[F].seen_ack

seen(s) == [s EXCEPT !.fsm[F].seen_ack = TRUE]

full_count(s) == [s EXCEPT !.fsm[F].retransmits = MAXCONFREQS]

renegotiate(s) == go_to(fsm_sconfreq(s, FALSE), "REQSENT")

take_ack(s, id) ==
  CASE s.fsm[F].state \in {"CLOSED", "STOPPED"} -> fsm_sdata(s, "TERMACK", id, <<>>)
    [] s.fsm[F].state = "REQSENT" -> full_count(go_to(s, "ACKRCVD"))
    [] s.fsm[F].state = "ACKRCVD" -> renegotiate(UNTIMEOUT(s))
    [] s.fsm[F].state = "ACKSENT" -> up(full_count(go_to(UNTIMEOUT(s), "OPENED")))
    [] s.fsm[F].state = "OPENED"  -> renegotiate(down(s))
    [] OTHER -> s

fsm_rconfack(s, id, data) ==
  IF expected(s, id) /\ ackci(s, data) THEN take_ack(seen(s), id) ELSE s

(* The state is looked at after nakci, which may have closed the link. *)
take_nak(s, id) ==
  CASE s.fsm[F].state \in {"CLOSED", "STOPPED"} -> fsm_sdata(s, "TERMACK", id, <<>>)
    [] s.fsm[F].state \in {"REQSENT", "ACKSENT"} -> fsm_sconfreq(UNTIMEOUT(s), FALSE)
    [] s.fsm[F].state = "ACKRCVD" -> renegotiate(UNTIMEOUT(s))
    [] s.fsm[F].state = "OPENED"  -> renegotiate(down(s))
    [] OTHER -> s

if_good(r, s, id) == IF r.ok THEN take_nak(seen(r.s), id) ELSE s

fsm_rconfnakrej(s, code, id, data) ==
  IF ~expected(s, id) THEN s
  ELSE if_good(IF code = "CONFNAK" THEN nakci(s, data) ELSE rejci(s, data), s, id)


stop_soon(s) == TIMEOUT(go_to([s EXCEPT !.fsm[F].retransmits = 0], "STOPPING"))

fsm_rtermreq(s, id) ==
  fsm_sdata(CASE s.fsm[F].state \in {"ACKRCVD", "ACKSENT"} -> go_to(s, "REQSENT")
              [] s.fsm[F].state = "OPENED" -> stop_soon(down(s))
              [] OTHER -> s,
            "TERMACK", id, <<>>)

fsm_rtermack(s) ==
  CASE s.fsm[F].state \in {"CLOSING", "STOPPING"} -> closed(UNTIMEOUT(s))
    [] s.fsm[F].state = "ACKRCVD" -> go_to(s, "REQSENT")
    [] s.fsm[F].state = "OPENED"  -> fsm_sconfreq(down(s), FALSE)
    [] OTHER -> s

fsm_rcoderej(s) == IF s.fsm[F].state = "ACKRCVD" THEN go_to(s, "REQSENT") ELSE s

(* A code the automaton does not know goes to the protocol. *)
other_code(r, m) ==
  IF r.ok THEN r.s
  ELSE fsm_sdata(next_id(r.s), "CODEREJ", (r.s.fsm[F].id + 1) % ID_MOD, m.data)

fsm_input(s, m) ==
  CASE s.fsm[F].state \in {"INITIAL", "STARTING"} -> s
    [] m.code = "CONFREQ" -> fsm_rconfreq(s, m.id, m.data)
    [] m.code = "CONFACK" -> fsm_rconfack(s, m.id, m.data)
    [] m.code \in {"CONFNAK", "CONFREJ"} -> fsm_rconfnakrej(s, m.code, m.id, m.data)
    [] m.code = "TERMREQ" -> fsm_rtermreq(s, m.id)
    [] m.code = "TERMACK" -> fsm_rtermack(s)
    [] m.code = "CODEREJ" -> fsm_rcoderej(s)
    [] OTHER -> other_code(extcode(s, m), m)
=============================================================================
