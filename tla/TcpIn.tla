------------------------------- MODULE TcpIn -------------------------------
(***************************************************************************)
(* The input half of lwIP's TCP (core/tcp_in.c) for one connection:        *)
(* tcp_receive takes the acknowledgement, the window and the data of a     *)
(* segment, tcp_process is the state machine.  A received segment s has    *)
(* the fields seqno, ackno, data, flags, wnd and mss.  The results that    *)
(* the code keeps in recv_data and recv_flags are fields of t:             *)
(*   recv_data   the bytes for the program                                 *)
(*   recv_flags  a subset of {"RESET", "CLOSED", "GOT_FIN"}                *)
(***************************************************************************)
EXTENDS TcpPcb

\* Mutant: a larger window for the same acknowledgement is not noticed.
update_window_later(p, s) ==
  IF \/ TCP_SEQ_LT(p.snd_wl1, s.seqno)
     \/ p.snd_wl1 = s.seqno /\ TCP_SEQ_LT(p.snd_wl2, s.ackno)
  THEN [p EXCEPT !.snd_wnd = s.wnd, !.snd_wl1 = s.seqno, !.snd_wl2 = s.ackno]
  ELSE p

\* A later segment, a later acknowledgement, or a larger window for the same
\* acknowledgement carries the window that counts.
update_window(p, s) ==
  IF \/ TCP_SEQ_LT(p.snd_wl1, s.seqno)
     \/ p.snd_wl1 = s.seqno /\ TCP_SEQ_LT(p.snd_wl2, s.ackno)
     \/ p.snd_wl2 = s.ackno /\ s.wnd > p.snd_wnd
  THEN [p EXCEPT !.snd_wnd = s.wnd, !.snd_wl1 = s.seqno, !.snd_wl2 = s.ackno]
  ELSE p

right_wnd_edge(p) == Plus(p.snd_wnd, p.snd_wl1)

inflated(p) == IF (p.cwnd + p.mss) % U16_MOD > p.cwnd THEN (p.cwnd + p.mss) % U16_MOD ELSE p.cwnd

fast_retransmit(t, i) ==
  LET r == tcp_rexmit(t, i)
      half == LWIP_MIN(t.pcb[i].cwnd, t.pcb[i].snd_wnd) \div 2
  IN  [r EXCEPT !.pcb[i].ssthresh = half,
                !.pcb[i].cwnd = (half + 3 * t.pcb[i].mss) % U16_MOD,
                !.pcb[i].flags = @ \cup {"INFR"}]

\* An acknowledgement of nothing new counts when the window did not move.
duplicate_ack(t, i, same_edge) ==
  LET d == (t.pcb[i].dupacks + 1) % U8_MOD
      c == [t EXCEPT !.pcb[i].acked = 0, !.pcb[i].dupacks = d]
  IN  IF ~same_edge THEN [t EXCEPT !.pcb[i].acked = 0]
      ELSE IF d < 3 \/ t.pcb[i].unacked = <<>> THEN c
      ELSE IF "INFR" \notin t.pcb[i].flags THEN fast_retransmit(c, i)
      ELSE [c EXCEPT !.pcb[i].cwnd = inflated(t.pcb[i])]

\* Slow start below ssthresh, congestion avoidance above it.
Opening == {"CLOSED", "LISTEN", "SYN_SENT", "SYN_RCVD"}
grow(t, i) ==
  LET p == t.pcb[i]
      new_cwnd == (p.cwnd + (p.mss * p.mss) \div p.cwnd) % U16_MOD
  IN  IF p.state \in Opening THEN t
      ELSE IF p.cwnd < p.ssthresh THEN [t EXCEPT !.pcb[i].cwnd = inflated(p)]
      ELSE IF p.cwnd = 0 THEN LWIP_ASSERT(t, FALSE)
      ELSE [t EXCEPT !.pcb[i].cwnd = IF new_cwnd > @ THEN new_cwnd ELSE @]

\* Mutant: a segment that begins at ackno counts as acknowledged.
acked_segments_begun(p, ackno) ==
  CHOOSE n \in 0 .. Len(p.unacked) :
    /\ \A j \in 1 .. n : TCP_SEQ_LEQ(p.unacked[j].seqno, ackno)
    /\ n < Len(p.unacked) => ~TCP_SEQ_LEQ(p.unacked[n + 1].seqno, ackno)

\* The segments at the head of unacked that end at or below ackno.
acked_segments(p, ackno) ==
  CHOOSE n \in 0 .. Len(p.unacked) :
    /\ \A j \in 1 .. n : TCP_SEQ_LEQ(End(p.unacked[j]), ackno)
    /\ n < Len(p.unacked) => ~TCP_SEQ_LEQ(End(p.unacked[n + 1]), ackno)

clens(q) == FoldSeq(LAMBDA s, sum : sum + s.clen, 0, q)

\* Mutant: the pbufs of freed segments stay in snd_queuelen.
free_acked_counted(t, i, ackno) ==
  LET p == t.pcb[i]
      n == acked_segments(p, ackno)
      q == [p EXCEPT !.unacked = SubSeq(@, n + 1, Len(@)), !.polltmr = 0]
  IN  LWIP_ASSERT([t EXCEPT !.pcb[i] = q], n > 0 => valid_queue_length(q))

free_acked(t, i, ackno) ==
  LET p == t.pcb[i]
      n == acked_segments(p, ackno)
      q == [p EXCEPT !.unacked = SubSeq(@, n + 1, Len(@)), !.polltmr = 0,
                     !.snd_queuelen = @ - clens(SubSeq(p.unacked, 1, n))]
  IN  LWIP_ASSERT([t EXCEPT !.pcb[i] = q], n > 0 => valid_queue_length(q))

leave_recovery(p) ==
  IF "INFR" \in p.flags THEN [p EXCEPT !.flags = @ \ {"INFR"}, !.cwnd = p.ssthresh] ELSE p

new_ack(t, i, ackno) ==
  LET p == leave_recovery(t.pcb[i])
      n == Minus(ackno, p.lastack)
      q == [p EXCEPT !.nrtx = 0, !.rto = (p.sa \div 8) + p.sv, !.acked = n % U16_MOD,
                     !.snd_buf = (@ + n) % U16_MOD, !.dupacks = 0, !.lastack = ackno]
  IN  free_acked(grow([t EXCEPT !.pcb[i] = q], i), i, ackno)

\* The round trip of the timed segment, after Jacobson.
estimate_rtt(p, ticks, ackno) ==
  LET m == ticks - p.rttest - (p.sa \div 8)
      sa == p.sa + m
      sv == p.sv + (IF m < 0 THEN -m ELSE m) - (p.sv \div 4)
  IN  IF p.rttest # 0 /\ TCP_SEQ_LT(p.rtseq, ackno)
      THEN [p EXCEPT !.sa = sa, !.sv = sv, !.rto = (sa \div 8) + sv, !.rttest = 0]
      ELSE p

\* Mutant: an old acknowledgement counts as a new one.
take_ack_old(t, i, s, edge) ==
  LET p == t.pcb[i]
  IN  IF p.lastack = s.ackno THEN duplicate_ack(t, i, right_wnd_edge(p) = edge)
      ELSE IF TCP_SEQ_LEQ(s.ackno, p.snd_max) THEN new_ack(t, i, s.ackno) ELSE t

take_ack(t, i, s, edge) ==
  LET p == t.pcb[i]
  IN  IF p.lastack = s.ackno THEN duplicate_ack(t, i, right_wnd_edge(p) = edge)
      ELSE IF TCP_SEQ_LT(p.lastack, s.ackno) /\ TCP_SEQ_LEQ(s.ackno, p.snd_max)
      THEN new_ack(t, i, s.ackno)
      ELSE t

acknowledge(t, i, s) ==
  IF "ACK" \notin s.flags THEN t
  ELSE LET a == take_ack([t EXCEPT !.pcb[i] = update_window(@, s)], i, s,
                         right_wnd_edge(t.pcb[i]))
       IN  [a EXCEPT !.pcb[i] = estimate_rtt(@, t.ticks, s.ackno)]

-----------------------------------------------------------------------------
\* What a segment brings below rcv_nxt is cut off.
trim_front(s, rcv_nxt) ==
  [s EXCEPT !.seqno = rcv_nxt,
            !.data = SubSeq(@, Minus(rcv_nxt, s.seqno) + 1, Len(@))]
trim_end(s, seqno) == [s EXCEPT !.data = SubSeq(@, 1, Minus(seqno, s.seqno))]

\* A segment is taken in sequence: the window shrinks by its length, but not
\* below 0.
take(t, i, s) ==
  [t EXCEPT !.pcb[i].rcv_nxt = Plus(@, TCP_TCPLEN(s)),
            !.pcb[i].rcv_wnd = IF @ < TCP_TCPLEN(s) THEN 0 ELSE @ - TCP_TCPLEN(s),
            !.recv_data = @ \o s.data,
            !.recv_flags = IF "FIN" \in s.flags THEN {"GOT_FIN"} ELSE @]

take_ooseq(t, i) ==
  LET f[n \in 0 .. Len(t.pcb[i].ooseq)] ==
        IF n = 0 THEN t
        ELSE IF f[n - 1].pcb[i].ooseq # <<>>
                /\ Head(f[n - 1].pcb[i].ooseq).seqno = f[n - 1].pcb[i].rcv_nxt
        THEN [take(f[n - 1], i, Head(f[n - 1].pcb[i].ooseq)) EXCEPT !.pcb[i].ooseq = Tail(@)]
        ELSE f[n - 1]
  IN  f[Len(t.pcb[i].ooseq)]

in_sequence(t, i, s) ==
  LET q == t.pcb[i].ooseq
      trimmed == IF q # <<>> /\ TCP_SEQ_LEQ(Head(q).seqno, Plus(s.seqno, Len(s.data)))
                 THEN trim_end(s, Head(q).seqno) ELSE s
  IN  tcp_ack(take_ooseq(take(t, i, trimmed), i), i)

\* The place of a segment on ooseq: behind those with a lower number.  It is
\* cut where the next one begins, the previous one where it begins.
Overlaps(s, seqno) == TCP_SEQ_LT(seqno, Plus(s.seqno, Len(s.data)))
below(q, seqno) == Cardinality({j \in DOMAIN q : TCP_SEQ_LT(q[j].seqno, seqno)})
insert(q, s) ==
  LET k == below(q, s.seqno)
      new == IF k < Len(q) /\ Overlaps(s, q[k + 1].seqno) THEN trim_end(s, q[k + 1].seqno) ELSE s
      prev == IF Overlaps(q[k], s.seqno) THEN trim_end(q[k], s.seqno) ELSE q[k]
      head == IF k = 0 THEN <<>> ELSE Append(SubSeq(q, 1, k - 1), prev)
  IN  head \o <<new>> \o SubSeq(q, k + 1, Len(q))

\* Of two segments with the same number the longer one stays.
queue_ooseq(t, i, s) ==
  LET q == t.pcb[i].ooseq
      same == {j \in DOMAIN q : q[j].seqno = s.seqno}
      seg == [seqno |-> s.seqno, data |-> s.data, flags |-> s.flags]
      m == malloc(t, 1)
  IN  IF \E j \in same : Len(s.data) <= Len(q[j].data) THEN t
      ELSE IF m.ret = "MEM" THEN t
      ELSE [m EXCEPT !.pcb[i].ooseq =
              IF same # {} THEN [j \in DOMAIN q |-> IF j \in same THEN seg ELSE q[j]]
              ELSE insert(q, seg)]

\* Mutant: every segment in the window counts as the next one.
take_data_early(t, i, s) ==
  LET p == t.pcb[i]
  IN  IF TCP_SEQ_LT(s.seqno, p.rcv_nxt) THEN tcp_ack_now(t, i)
      ELSE IF TCP_SEQ_LT(s.seqno, Plus(p.rcv_nxt, p.rcv_wnd)) THEN in_sequence(t, i, s)
      ELSE t

take_data(t, i, s) ==
  LET p == t.pcb[i]
      right == Plus(p.rcv_nxt, p.rcv_wnd)
  IN  IF TCP_SEQ_LT(s.seqno, p.rcv_nxt) THEN
        IF TCP_SEQ_LT(p.rcv_nxt, End(s))
        THEN IF p.rcv_wnd > 0 THEN in_sequence(t, i, trim_front(s, p.rcv_nxt)) ELSE t
        ELSE tcp_ack_now(t, i)
      ELSE IF ~TCP_SEQ_LT(s.seqno, right) THEN t
      ELSE IF s.seqno = p.rcv_nxt THEN in_sequence(t, i, s)
      ELSE queue_ooseq(tcp_ack_now(t, i), i, s)

\* A segment without data outside the window is answered.
take_empty(t, i, s) ==
  LET p == t.pcb[i]
  IN  IF \/ TCP_SEQ_LT(s.seqno, p.rcv_nxt)
         \/ TCP_SEQ_LEQ(Plus(p.rcv_nxt, p.rcv_wnd), s.seqno)
      THEN tcp_ack_now(t, i) ELSE t

receive(t, i, s) == IF TCP_TCPLEN(s) > 0 THEN take_data(t, i, s) ELSE take_empty(t, i, s)
tcp_receive(t, i, s) == receive(acknowledge(t, i, s), i, s)

-----------------------------------------------------------------------------
\* A reset must fit the window, or answer the SYN.
acceptable(p, s) ==
  IF p.state = "SYN_SENT" THEN s.ackno = p.snd_nxt
  ELSE /\ TCP_SEQ_LEQ(p.rcv_nxt, s.seqno)
       /\ TCP_SEQ_LEQ(s.seqno, Plus(p.rcv_nxt, p.rcv_wnd))

reset(t, i) ==
  [t EXCEPT !.recv_flags = {"RESET"}, !.pcb[i].flags = @ \ {"ACK_DELAY"}, !.ret = "RST"]

to_state(t, i, state) == [t EXCEPT !.pcb[i].state = state]

tcp_parseopt(p, s) == [p EXCEPT !.mss = LWIP_MIN(s.mss, TCP_MSS)]

\* The SYN is acknowledged.
process_syn_sent(t, i, s) ==
  LET p == t.pcb[i]
      c == [p EXCEPT !.rcv_nxt = Plus(s.seqno, 1), !.lastack = s.ackno, !.snd_wnd = s.wnd,
                     !.snd_wl1 = Minus(s.seqno, 1), !.state = "ESTABLISHED", !.cwnd = p.mss,
                     !.snd_queuelen = @ - 1, !.unacked = Tail(@)]
  IN  IF p.unacked = <<>> THEN LWIP_ASSERT(t, ~({"SYN", "ACK"} \subseteq s.flags))
      ELSE IF {"SYN", "ACK"} \subseteq s.flags /\ s.ackno = Plus(Head(p.unacked).seqno, 1)
      THEN tcp_ack(event([t EXCEPT !.pcb[i] = tcp_parseopt(c, s)], i, "CONNECTED", "OK"), i)
      ELSE t

\* The program may refuse the connection in its accept callback.
opened(t, i) == [t EXCEPT !.pcb[i].cwnd = t.pcb[i].mss]
process_syn_rcvd(t, i, s, accepts) ==
  LET e == to_state(t, i, "ESTABLISHED")
  IN  IF ~("ACK" \in s.flags /\ TCP_SEQ_LT(t.pcb[i].lastack, s.ackno)
           /\ TCP_SEQ_LEQ(s.ackno, t.pcb[i].snd_nxt))
      THEN t
      ELSE IF accepts THEN opened(tcp_receive(event(e, i, "ACCEPT", "OK"), i, s), i)
      ELSE [tcp_abort(e, i) EXCEPT !.ret = "ABRT"]

time_wait(t, i) ==
  TCP_REG(to_state(TCP_RMV(tcp_pcb_purge(tcp_ack_now(t, i), i), "active", i), i, "TIME_WAIT"),
          "tw", i)

\* The state machine behind tcp_receive; the FIN flag counts even when the
\* segment was not in sequence.
next_state(r, i, s) ==
  LET p == r.pcb[i]
      fin == "FIN" \in s.flags
      all_acked == "ACK" \in s.flags /\ s.ackno = p.snd_nxt
  IN  CASE p.state \in {"ESTABLISHED", "CLOSE_WAIT"} /\ fin ->
             to_state(tcp_ack_now(r, i), i, "CLOSE_WAIT")
        [] p.state = "FIN_WAIT_1" /\ fin /\ ~all_acked -> to_state(tcp_ack_now(r, i), i, "CLOSING")
        [] p.state = "FIN_WAIT_1" /\ ~fin /\ all_acked -> to_state(r, i, "FIN_WAIT_2")
        [] \/ p.state = "FIN_WAIT_1" /\ fin /\ all_acked
           \/ p.state = "FIN_WAIT_2" /\ fin
           \/ p.state = "CLOSING" /\ all_acked -> time_wait(r, i)
        [] p.state = "LAST_ACK" /\ all_acked ->
             [to_state(r, i, "CLOSED") EXCEPT !.recv_flags = {"CLOSED"}]
        [] OTHER -> r
process_data(t, i, s) == next_state(tcp_receive(t, i, s), i, s)

tcp_process(t, i, s, accepts) ==
  LET p == t.pcb[i]
      k == [t EXCEPT !.pcb[i].tmr = t.ticks]
  IN  CASE "RST" \in s.flags -> IF acceptable(p, s) THEN reset(t, i) ELSE t
        [] "RST" \notin s.flags /\ p.state = "SYN_SENT" -> process_syn_sent(k, i, s)
        [] "RST" \notin s.flags /\ p.state = "SYN_RCVD" -> process_syn_rcvd(k, i, s, accepts)
        [] OTHER -> process_data(k, i, s)

-----------------------------------------------------------------------------
\* What the callbacks of the program do: "now" calls tcp_recved from the recv
\* callback, "later" leaves that to a call of its own, "null" is
\* tcp_recv_null, which drops the data and closes at the end of the stream.
recv_callback(t, i, data, app) ==
  LET e == event([t EXCEPT !.ret = "OK"], i, "RECV", data)
  IN  IF data = <<>> THEN t
      ELSE IF app = "now" THEN [tcp_recved(e, i, Len(data)) EXCEPT !.ret = "OK"] ELSE e

eof_callback(t, i, app) ==
  IF "GOT_FIN" \notin t.recv_flags THEN t
  ELSE IF app = "null" THEN tcp_close(event(t, i, "EOF", "close"), i)
  ELSE [event(t, i, "EOF", "keep") EXCEPT !.ret = "OK"]

sent_callback(t, i) ==
  IF t.pcb[i].acked > 0 THEN event(t, i, "SENT", t.pcb[i].acked) ELSE t

callbacks(t, i, app) ==
  LET s == [sent_callback(t, i) EXCEPT !.ret = "OK"]
  IN  output_if_ok(eof_callback(recv_callback(s, i, t.recv_data, app), i, app), i)

\* A segment for an active connection.
after_process(r, i, app) ==
  CASE r.ret = "ABRT" -> r
    [] r.ret # "ABRT" /\ "RESET" \in r.recv_flags ->
         memp_free(tcp_pcb_remove(event(r, i, "ERR", "RST"), "active", i), i)
    [] r.ret # "ABRT" /\ "CLOSED" \in r.recv_flags ->
         memp_free(tcp_pcb_remove(r, "active", i), i)
    [] OTHER -> callbacks(r, i, app)
connection_input(t, i, s, app, accepts) ==
  LET front == [t EXCEPT !.active = <<i>> \o Remove(@, i), !.input = i, !.ret = "OK"]
  IN  after_process([tcp_process(front, i, s, accepts) EXCEPT !.input = NULL], i, app)

tcp_timewait_input(t, i, s) ==
  LET r == IF TCP_SEQ_LT(t.pcb[i].rcv_nxt, End(s)) THEN [t EXCEPT !.pcb[i].rcv_nxt = End(s)] ELSE t
  IN  tcp_output(IF TCP_TCPLEN(s) > 0 THEN tcp_ack_now(r, i) ELSE r, i)

\* A SYN for a listening port gets a control block and an answer, anything
\* that acknowledges a reset.
answering(t, i, s) ==
  [t EXCEPT !.pcb[i] =
     [@ EXCEPT !.local_port = s.dport, !.remote_ip = s.src, !.remote_port = s.sport,
               !.state = "SYN_RCVD", !.rcv_nxt = Plus(s.seqno, 1), !.snd_wnd = s.wnd,
               !.ssthresh = s.wnd, !.snd_wl1 = Minus(s.seqno, 1),
               !.mss = LWIP_MIN(s.mss, TCP_MSS)]]
answer(t, s) ==
  LET i == t.got
  IN  IF i = NULL THEN t
      ELSE tcp_output(tcp_enqueue(TCP_REG(answering(t, i, s), "active", i), i, <<>>,
                                  {"SYN", "ACK"}, 1), i)
passive_open(t, s, may_kill) == answer(tcp_alloc(t, may_kill), s)

tcp_listen_input(t, s, may_kill) ==
  IF "ACK" \in s.flags
  THEN tcp_rst(t, Plus(s.ackno, 1), End(s), s.dport, s.src, s.sport)
  ELSE IF "SYN" \in s.flags THEN passive_open(t, s, may_kill) ELSE t

matches(p, s) == p.remote_port = s.sport /\ p.local_port = s.dport /\ p.remote_ip = s.src
for_active(t, s) == SelectSeq(t.active, LAMBDA i : matches(t.pcb[i], s))
for_tw(t, s) == SelectSeq(t.tw, LAMBDA i : matches(t.pcb[i], s))

\* The segment s arrives: an active connection, one in TIME-WAIT, a listening
\* port, or a reset.
tcp_input(t, s, app, accepts, may_kill) ==
  LET a == LWIP_ASSERT(t, states_sane(t))
  IN  CASE for_active(t, s) # <<>> -> connection_input(a, Head(for_active(t, s)), s, app, accepts)
        [] for_active(t, s) = <<>> /\ for_tw(t, s) # <<>> ->
             tcp_timewait_input(a, Head(for_tw(t, s)), s)
        [] for_active(t, s) = <<>> /\ for_tw(t, s) = <<>> /\ s.dport \in Range(t.listen) ->
             tcp_listen_input(a, s, may_kill)
        [] OTHER -> IF "RST" \in s.flags THEN a
                    ELSE tcp_rst(a, s.ackno, End(s), s.dport, s.src, s.sport)
=============================================================================
