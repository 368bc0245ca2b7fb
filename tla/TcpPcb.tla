------------------------------- MODULE TcpPcb -------------------------------
(***************************************************************************)
(* The control blocks of lwIP's TCP (core/tcp.c): allocation, lists, close *)
(* and abort, connect, listen, and the timers.                             *)
(***************************************************************************)
EXTENDS TcpOut, SequencesExt

CONSTANTS
  TCP_MAXRTX, TCP_SYNMAXRTX, RTO,     \* RTO: 3000 / TCP_SLOW_INTERVAL
  tcp_backoff,                        \* shifts of rto, from 0 retransmissions on
  TCP_OOSEQ_TIMEOUT,
  FIN_WAIT_TICKS, SYN_RCVD_TICKS, MSL2_TICKS,   \* the time-outs in slow ticks
  POLL_INTERVAL

ASSUME TcpPcbConstants ==
  /\ {TCP_MAXRTX, TCP_SYNMAXRTX, RTO, TCP_OOSEQ_TIMEOUT, FIN_WAIT_TICKS, SYN_RCVD_TICKS,
      MSL2_TICKS, POLL_INTERVAL} \subseteq Nat
  /\ \A n \in 0 .. TCP_MAXRTX - 1 : tcp_backoff[n] \in Nat

\* A block that is not allocated.
Blank ==
  [state |-> "CLOSED", local_port |-> 0, remote_ip |-> 0, remote_port |-> 0, flags |-> {},
   rcv_nxt |-> 0, rcv_wnd |-> 0, tmr |-> 0, polltmr |-> 0, rtime |-> 0, mss |-> 0,
   rttest |-> 0, rtseq |-> 0, sa |-> 0, sv |-> 0, rto |-> 0, nrtx |-> 0,
   lastack |-> 0, dupacks |-> 0, cwnd |-> 0, ssthresh |-> 0,
   snd_nxt |-> 0, snd_max |-> 0, snd_wnd |-> 0, snd_wl1 |-> 0, snd_wl2 |-> 0, snd_lbb |-> 0,
   acked |-> 0, snd_buf |-> 0, snd_queuelen |-> 0,
   unsent |-> <<>>, unacked |-> <<>>, ooseq |-> <<>>]

event(t, i, what, arg) == [t EXCEPT !.ev = Append(@, [pcb |-> i, what |-> what, arg |-> arg])]

memp_free(t, i) ==
  event([t EXCEPT !.pcb[i] = Blank, !.used = @ \ {i}], i, "FREE", "")

\* Registering a block also starts the timer of tcpip.c (tcp_timer_needed).
TCP_REG(t, list, i) == [t EXCEPT ![list] = <<i>> \o @, !.timer_on = TRUE]
TCP_RMV(t, list, i) == [t EXCEPT ![list] = Remove(@, i)]

tcp_pcb_purge(t, i) ==
  IF t.pcb[i].state \in {"CLOSED", "TIME_WAIT"} THEN t
  ELSE [t EXCEPT !.pcb[i].ooseq = <<>>, !.pcb[i].unsent = <<>>, !.pcb[i].unacked = <<>>]

\* An acknowledgement that is due goes out first.
tcp_pcb_remove(t, list, i) ==
  LET r == tcp_pcb_purge(TCP_RMV(t, list, i), i)
      a == IF r.pcb[i].state # "TIME_WAIT" /\ "ACK_DELAY" \in r.pcb[i].flags
           THEN tcp_ack_now(r, i) ELSE r
  IN  [a EXCEPT !.pcb[i].state = "CLOSED"]

\* The error callback stands before the release, after which the program no
\* longer has the block.
tcp_abort(t, i) ==
  LET p == t.pcb[i]
  IN  IF p.state = "TIME_WAIT" THEN memp_free(tcp_pcb_remove(t, "tw", i), i)
      ELSE tcp_rst(memp_free(event(tcp_pcb_remove(t, "active", i), i, "ERR", "ABRT"), i),
                   p.snd_nxt, p.rcv_nxt, p.local_port, p.remote_ip, p.remote_port)

tcp_next_iss(t) == [t EXCEPT !.iss = Plus(@, t.ticks)]

-----------------------------------------------------------------------------
\* The block of a list that was idle longest, the last of several.
oldest(t, list) ==
  LET idle(j) == t.ticks - t.pcb[list[j]].tmr
  IN  list[CHOOSE j \in DOMAIN list :
             /\ \A k \in DOMAIN list : idle(k) <= idle(j)
             /\ \A k \in j + 1 .. Len(list) : idle(k) < idle(j)]

Spent(t) == t.used = Pcbs
tcp_kill_timewait(t) == IF Spent(t) /\ t.tw # <<>> THEN tcp_abort(t, oldest(t, t.tw)) ELSE t

\* Every block has the priority TCP_PRIO_NORMAL; may_kill says whether the
\* caller's is at least that.
tcp_kill_prio(t, may_kill) ==
  IF Spent(t) /\ t.active # <<>> /\ may_kill THEN tcp_abort(t, oldest(t, t.active)) ELSE t

fresh(t) ==
  [Blank EXCEPT !.snd_buf = TCP_SND_BUF, !.rcv_wnd = TCP_WND, !.mss = TCP_MSS, !.rto = RTO,
                !.sv = RTO, !.cwnd = 1, !.snd_wl2 = t.iss, !.snd_nxt = t.iss,
                !.snd_max = t.iss, !.lastack = t.iss, !.snd_lbb = t.iss, !.tmr = t.ticks]

\* The new block is t.got, NULL without memory.
lowest(set) == CHOOSE j \in set : \A l \in set : j <= l
allocate(t, i) == [t EXCEPT !.got = i, !.used = @ \cup {i}, !.pcb[i] = fresh(t)]
alloc_free(t) ==
  IF Spent(t) THEN [t EXCEPT !.got = NULL] ELSE allocate(tcp_next_iss(t), lowest(Pcbs \ t.used))
tcp_alloc(t, may_kill) == alloc_free(tcp_kill_prio(tcp_kill_timewait(t), may_kill))

tcp_new(t) == tcp_alloc(t, TRUE)

\* What was queued is sent, unless there was no memory for it.
output_if_ok(t, i) == IF t.ret = "OK" THEN tcp_output(t, i) ELSE t

connecting(t, i, to, port, local_port) ==
  [t EXCEPT !.pcb[i] =
     [@ EXCEPT !.remote_ip = to, !.remote_port = port, !.local_port = local_port,
               !.rcv_nxt = 0, !.snd_nxt = t.iss, !.lastack = Minus(t.iss, 1),
               !.snd_lbb = Minus(t.iss, 1), !.rcv_wnd = TCP_WND, !.snd_wnd = TCP_WND,
               !.mss = TCP_MSS, !.cwnd = 1, !.ssthresh = TCP_MSS * 10, !.state = "SYN_SENT"]]
tcp_connect(t, i, to, port, local_port) ==
  LET c == connecting(tcp_next_iss(t), i, to, port, local_port)
  IN  output_if_ok(tcp_enqueue(TCP_REG(c, "active", i), i, <<>>, {"SYN"}, 1), i)

closing(t, i, next) ==
  IF t.ret = "OK" THEN tcp_output([t EXCEPT !.pcb[i].state = next], i) ELSE t
tcp_close(t, i) ==
  LET state == t.pcb[i].state
      next == IF state = "CLOSE_WAIT" THEN "LAST_ACK" ELSE "FIN_WAIT_1"
  IN  CASE state = "CLOSED" -> memp_free([t EXCEPT !.ret = "OK"], i)
        [] state = "SYN_SENT" ->
             memp_free(tcp_pcb_remove([t EXCEPT !.ret = "OK"], "active", i), i)
        [] state \in {"SYN_RCVD", "ESTABLISHED", "CLOSE_WAIT"} ->
             closing(tcp_send_ctrl(t, i, {"FIN"}), i, next)
        [] OTHER -> [t EXCEPT !.ret = "OK"]

\* The case of a listening block, which is known by its port.
tcp_close_listen(t, port) == [TCP_RMV(t, "listen", port) EXCEPT !.ret = "OK"]

tcp_recved(t, i, len) ==
  LET p == t.pcb[i]
      w == [t EXCEPT !.pcb[i].rcv_wnd = LWIP_MIN(@ + len, TCP_WND)]
  IN  IF p.flags \cap {"ACK_DELAY", "ACK_NOW"} = {} THEN tcp_ack(w, i) ELSE w

-----------------------------------------------------------------------------
\* A retransmission by the timer: the window shrinks after the segment is
\* sent again.
rexmit_timeout(t, i) ==
  LET p == t.pcb[i]
      b == IF p.state = "SYN_SENT" THEN t
           ELSE [t EXCEPT !.pcb[i].rto =
                  (((p.sa \div 8) + p.sv) * 2 ^ tcp_backoff[p.nrtx]) % U16_MOD]
      half == LWIP_MIN(p.cwnd, p.snd_wnd) \div 2
  IN  [tcp_rexmit(b, i) EXCEPT
        !.pcb[i].ssthresh = IF half < p.mss THEN p.mss * 2 ELSE half,
        !.pcb[i].cwnd = p.mss]

spent_retries(p) ==
  \/ p.state = "SYN_SENT" /\ p.nrtx = TCP_SYNMAXRTX
  \/ p.nrtx = TCP_MAXRTX

retransmit(t, i) ==
  LET r == [t EXCEPT !.pcb[i].rtime = (@ + 1) % U16_MOD]
      p == r.pcb[i]
  IN  IF spent_retries(t.pcb[i]) THEN t
      ELSE IF p.unacked # <<>> /\ p.rtime >= p.rto THEN rexmit_timeout(r, i) ELSE r

idle_too_long(t, p) ==
  \/ p.state = "FIN_WAIT_2" /\ t.ticks - p.tmr > FIN_WAIT_TICKS
  \/ p.state = "SYN_RCVD" /\ t.ticks - p.tmr > SYN_RCVD_TICKS

drop_ooseq(t, i) ==
  IF t.ticks - t.pcb[i].tmr >= t.pcb[i].rto * TCP_OOSEQ_TIMEOUT
  THEN [t EXCEPT !.pcb[i].ooseq = <<>>] ELSE t

poll(t, i) ==
  LET n == t.pcb[i].polltmr + 1
  IN  IF n >= POLL_INTERVAL THEN tcp_output([t EXCEPT !.pcb[i].polltmr = 0], i)
      ELSE [t EXCEPT !.pcb[i].polltmr = n]

\* One round of the first loop of tcp_slowtmr.
slow_active(t, i) ==
  LET r == drop_ooseq(retransmit(t, i), i)
  IN  IF spent_retries(t.pcb[i]) \/ idle_too_long(t, t.pcb[i])
      THEN memp_free(event(TCP_RMV(tcp_pcb_purge(r, i), "active", i), i, "ERR", "ABRT"), i)
      ELSE poll(r, i)

slow_tw(t, i) ==
  IF t.ticks - t.pcb[i].tmr > MSL2_TICKS THEN memp_free(TCP_RMV(t, "tw", i), i) ELSE t

states_sane(t) ==
  /\ \A i \in Range(t.active) : t.pcb[i].state \notin {"CLOSED", "LISTEN", "TIME_WAIT"}
  /\ \A i \in Range(t.tw) : t.pcb[i].state = "TIME_WAIT"

tcp_slowtmr(t) ==
  LET tick == LWIP_ASSERT([t EXCEPT !.ticks = @ + 1], states_sane(t))
  IN  FoldLeft(slow_tw, FoldLeft(slow_active, tick, t.active), t.tw)

fast(t, i) ==
  IF "ACK_DELAY" \in t.pcb[i].flags
  THEN [tcp_ack_now(t, i) EXCEPT !.pcb[i].flags = @ \ {"ACK_DELAY", "ACK_NOW"}] ELSE t
tcp_fasttmr(t) == FoldLeft(fast, t, t.active)

\* Every other call also runs the slow timer.
tcp_tmr(t) ==
  LET f == [tcp_fasttmr(t) EXCEPT !.timer = 1 - @]
  IN  IF f.timer = 1 THEN tcp_slowtmr(f) ELSE f

\* The timer of tcpip.c stops when there is no connection left.
tcpip_tcp_timer(t) ==
  LET n == tcp_tmr(t) IN [n EXCEPT !.timer_on = n.active # <<>> \/ n.tw # <<>>]

tcp_init(addr, iss) ==
  [addr |-> addr, ticks |-> 0, timer |-> 0, timer_on |-> FALSE, iss |-> iss,
   pcb |-> [i \in Pcbs |-> Blank], used |-> {}, active |-> <<>>, tw |-> <<>>, listen |-> <<>>,
   input |-> NULL, got |-> NULL, room |-> 0, out |-> <<>>, ev |-> <<>>, ret |-> "OK",
   recv_data |-> <<>>, recv_flags |-> {}, halted |-> FALSE]
=============================================================================
