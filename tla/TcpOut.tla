------------------------------- MODULE TcpOut -------------------------------
(***************************************************************************)
(* The output half of lwIP's TCP (core/tcp_out.c): segments are queued on  *)
(* unsent by tcp_enqueue, sent as far as the windows allow by tcp_output   *)
(* and kept on unacked; tcp_rexmit moves one of them back.                 *)
(*                                                                         *)
(* The TCP of one host is a record t:                                      *)
(*   addr          the address of the host                                 *)
(*   ticks, timer  tcp_ticks and the parity of tcp_timer                   *)
(*   timer_on      tcpip_tcp_timer_active                                  *)
(*   iss           the static counter of tcp_next_iss                      *)
(*   pcb           the control blocks (MEMP_NUM_TCP_PCB of them), used the *)
(*                 allocated ones                                          *)
(*   active, tw    tcp_active_pcbs and tcp_tw_pcbs, listen the ports of    *)
(*                 tcp_listen_pcbs                                         *)
(*   input         tcp_input_pcb, 0 for NULL                               *)
(*   room          how many allocations still succeed in this step         *)
(*   out, ev       packets given to ip_output, and callbacks made and      *)
(*                 blocks freed, in this step                              *)
(*   ret           the result of the last call                             *)
(*   halted        an LWIP_ASSERT failed or the processor trapped          *)
(*                                                                         *)
(* A segment is [seqno, data, flags, clen]: data is the sequence of its    *)
(* bytes, each byte the position it had in the stream the program wrote,   *)
(* and clen the number of pbufs it occupies.                               *)
(***************************************************************************)
EXTENDS Integers, Sequences, FiniteSets

CONSTANTS
  SEQ_MOD,           \* 2^32: sequence numbers
  U16_MOD,           \* 2^16: windows, lengths, time-outs
  U8_MOD,            \* 2^8: duplicate acknowledgements
  TCP_MSS, TCP_WND, TCP_SND_BUF, TCP_SND_QUEUELEN,
  MEMP_NUM_TCP_PCB

ASSUME TcpOutConstants ==
  /\ {SEQ_MOD, U16_MOD, U8_MOD, TCP_MSS, TCP_WND, TCP_SND_BUF, TCP_SND_QUEUELEN,
      MEMP_NUM_TCP_PCB} \subseteq Nat \ {0}
  /\ SEQ_MOD % 2 = 0
  /\ 2 * TCP_WND < SEQ_MOD
  /\ TCP_SND_BUF < U16_MOD

Pcbs == 1 .. MEMP_NUM_TCP_PCB
NULL == 0

Plus(a, b) == (a + b) % SEQ_MOD
Minus(a, b) == (a + SEQ_MOD - b) % SEQ_MOD
TCP_SEQ_LT(a, b) == Minus(a, b) >= SEQ_MOD \div 2
TCP_SEQ_LEQ(a, b) == a = b \/ TCP_SEQ_LT(a, b)
LWIP_MIN(a, b) == IF a < b THEN a ELSE b

TCP_TCPLEN(s) == Len(s.data) + IF s.flags \cap {"SYN", "FIN"} # {} THEN 1 ELSE 0
End(s) == Plus(s.seqno, TCP_TCPLEN(s))

LWIP_ASSERT(t, holds) == [t EXCEPT !.halted = @ \/ ~holds]

\* The allocations of a step: n of them succeed together or not at all.
malloc(t, n) == IF t.room >= n THEN [t EXCEPT !.room = @ - n, !.ret = "OK"]
                ELSE [t EXCEPT !.ret = "MEM"]

send(t, p, seqno, flags, data, wnd) ==
  [t EXCEPT !.out = Append(@,
    [src |-> t.addr, sport |-> p.local_port, dst |-> p.remote_ip, dport |-> p.remote_port,
     seqno |-> seqno, ackno |-> p.rcv_nxt, flags |-> flags, data |-> data, wnd |-> wnd,
     mss |-> p.mss])]

\* Does the window let the segment s go out?  The sum is unsigned: a segment
\* below lastack is, for this test, far above it.
in_window(p, s) ==
  Plus(Minus(s.seqno, p.lastack), Len(s.data)) <= LWIP_MIN(p.snd_wnd, p.cwnd)

sendable(p) ==
  CHOOSE n \in 0 .. Len(p.unsent) :
    /\ \A j \in 1 .. n : in_window(p, p.unsent[j])
    /\ n < Len(p.unsent) => ~in_window(p, p.unsent[n + 1])

\* An acknowledgement without data; without memory it is not sent, and yet no
\* longer due.
send_ack(t, i) ==
  LET p == t.pcb[i]
      m == malloc([t EXCEPT !.pcb[i].flags = @ \ {"ACK_DELAY", "ACK_NOW"}], 1)
  IN  IF m.ret = "OK" THEN send(m, p, p.snd_nxt, {"ACK"}, <<>>, p.rcv_wnd) ELSE m

\* tcp_output_segment fills in the acknowledgement and the window, which is 0
\* when less than a full segment is free.
tcp_output_segment(t, i, s) ==
  LET p == t.pcb[i]
  IN  send([t EXCEPT !.pcb[i].rtime = 0,
                     !.pcb[i].rttest = IF @ = 0 THEN t.ticks ELSE @,
                     !.pcb[i].rtseq = IF p.rttest = 0 THEN s.seqno ELSE @],
           p, s.seqno, s.flags \cup (IF p.state = "SYN_SENT" THEN {} ELSE {"ACK"}),
           s.data, IF p.rcv_wnd < p.mss THEN 0 ELSE p.rcv_wnd)

\* The body of tcp_output's loop.
output_one(t, i) ==
  LET s == Head(t.pcb[i].unsent)
      sent == tcp_output_segment(t, i, s)
  IN  [sent EXCEPT
        !.pcb[i].unsent = Tail(@),
        !.pcb[i].flags = IF t.pcb[i].state = "SYN_SENT" THEN @ ELSE @ \ {"ACK_DELAY", "ACK_NOW"},
        !.pcb[i].snd_nxt = End(s),
        !.pcb[i].snd_max = IF TCP_SEQ_LT(@, End(s)) THEN End(s) ELSE @,
        !.pcb[i].unacked = IF TCP_TCPLEN(s) > 0 THEN Append(@, s) ELSE @]

output_first(t, i, n) ==
  LET f[j \in 0 .. n] == IF j = 0 THEN t ELSE output_one(f[j - 1], i) IN f[n]

\* Nothing goes out while the input code works on the same pcb.
tcp_output(t, i) ==
  LET p == t.pcb[i]
  IN  IF t.input = i THEN t
      ELSE IF "ACK_NOW" \in p.flags /\ (p.unsent = <<>> \/ ~in_window(p, Head(p.unsent)))
      THEN send_ack(t, i)
      ELSE output_first([t EXCEPT !.ret = "OK"], i, sendable(p))

tcp_ack_now(t, i) == tcp_output([t EXCEPT !.pcb[i].flags = @ \cup {"ACK_NOW"}], i)
tcp_ack(t, i) ==
  IF "ACK_DELAY" \in t.pcb[i].flags
  THEN tcp_output([t EXCEPT !.pcb[i].flags = (@ \ {"ACK_DELAY"}) \cup {"ACK_NOW"}], i)
  ELSE [t EXCEPT !.pcb[i].flags = @ \cup {"ACK_DELAY"}]

tcp_rst(t, seqno, ackno, sport, to, dport) ==
  LET m == malloc(t, 1)
  IN  IF m.ret = "OK"
      THEN send(m, [local_port |-> sport, remote_ip |-> to, remote_port |-> dport,
                    rcv_nxt |-> ackno, mss |-> 0],
                seqno, {"RST", "ACK"}, <<>>, TCP_WND)
      ELSE m

\* Mutant: the retransmitted segment is not linked to the rest of unsent.
tcp_rexmit_unlinked(t, i) ==
  LET p == t.pcb[i]
  IN  IF p.unacked = <<>> THEN t
      ELSE tcp_output([t EXCEPT !.pcb[i] =
             [p EXCEPT !.unsent = <<Head(p.unacked)>>, !.unacked = Tail(@),
                       !.snd_nxt = Head(p.unacked).seqno, !.nrtx = @ + 1, !.rttest = 0]], i)

\* The first unacknowledged segment goes to the front of unsent.
tcp_rexmit(t, i) ==
  LET p == t.pcb[i]
  IN  IF p.unacked = <<>> THEN t
      ELSE tcp_output([t EXCEPT !.pcb[i] =
             [p EXCEPT !.unsent = <<Head(p.unacked)>> \o @, !.unacked = Tail(@),
                       !.snd_nxt = Head(p.unacked).seqno, !.nrtx = @ + 1, !.rttest = 0]], i)

-----------------------------------------------------------------------------
\* tcp_enqueue cuts the data into segments of at most mss bytes (one empty
\* segment when there is no data), each of `per' pbufs.
pieces(p, data, flags, per) ==
  LET n == IF data = <<>> THEN 1 ELSE (Len(data) + p.mss - 1) \div p.mss
  IN  [j \in 1 .. n |->
        [seqno |-> Plus(p.snd_lbb, (j - 1) * p.mss),
         data |-> SubSeq(data, (j - 1) * p.mss + 1, LWIP_MIN(j * p.mss, Len(data))),
         flags |-> flags, clen |-> per]]

\* The first new segment is chained to the last unsent one when both fit into
\* one segment and neither opens or closes the connection.
chained(u, q, flags, mss) ==
  /\ TCP_TCPLEN(u) # 0
  /\ (u.flags \cup flags) \cap {"SYN", "FIN"} = {}
  /\ Len(u.data) + Len(q.data) <= mss

queued(unsent, queue, flags, mss) ==
  LET u == unsent[Len(unsent)]
  IN  IF unsent # <<>> /\ chained(u, Head(queue), flags, mss)
      THEN SubSeq(unsent, 1, Len(unsent) - 1)
           \o <<[u EXCEPT !.data = @ \o Head(queue).data, !.clen = @ + Head(queue).clen]>>
           \o Tail(queue)
      ELSE unsent \o queue

valid_queue_length(p) == p.snd_queuelen # 0 => p.unacked # <<>> \/ p.unsent # <<>>

enqueue_all(t, i, queue, data, flags) ==
  LET p == t.pcb[i]
      n == Len(data) + IF flags \cap {"SYN", "FIN"} # {} THEN 1 ELSE 0
      q == [p EXCEPT !.unsent = queued(@, queue, flags, p.mss),
                     !.snd_lbb = Plus(@, n),
                     !.snd_buf = (@ - n) % U16_MOD,
                     !.snd_queuelen = @ + Len(queue) * queue[1].clen]
  IN  LWIP_ASSERT([t EXCEPT !.pcb[i] = q], valid_queue_length(q))

tcp_enqueue(t, i, data, flags, per) ==
  LET p == t.pcb[i]
      queue == pieces(p, data, flags, per)
      m == malloc(t, Len(queue) * (1 + per))
  IN  IF Len(data) > p.snd_buf THEN [t EXCEPT !.ret = "MEM"]
      ELSE IF \/ p.snd_queuelen >= TCP_SND_QUEUELEN \/ m.ret = "MEM"
              \/ p.snd_queuelen + Len(queue) * per > TCP_SND_QUEUELEN
      THEN LWIP_ASSERT([t EXCEPT !.ret = "MEM"], valid_queue_length(p))
      ELSE enqueue_all(LWIP_ASSERT(m, valid_queue_length(p)), i, queue, data, flags)

tcp_send_ctrl(t, i, flags) == tcp_enqueue(t, i, <<>>, flags, 1)

tcp_write(t, i, data, copy) ==
  IF t.pcb[i].state \notin {"SYN_SENT", "SYN_RCVD", "ESTABLISHED", "CLOSE_WAIT"}
  THEN [t EXCEPT !.ret = "CONN"]
  ELSE IF data = <<>> THEN [t EXCEPT !.ret = "OK"]
  ELSE tcp_enqueue(t, i, data, {}, IF copy THEN 1 ELSE 2)
=============================================================================
