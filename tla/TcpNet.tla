------------------------------- MODULE TcpNet -------------------------------
(***************************************************************************)
(* Two hosts with lwIP's TCP, a program on each of them, and a network in  *)
(* between that loses, repeats, delays and reorders packets.  The program  *)
(* of host 1 connects to the one of host 2, which listens.                 *)
(***************************************************************************)
EXTENDS TcpIn

CONSTANTS
  Nets,          \* the settings to explore, see Setting
  ISS,           \* the first sequence number of each host
  CLIENT_PORT, SERVER_PORT

VARIABLES
  tcp,    \* the TCP of each host
  app,    \* its program
  wire,   \* the packets under way
  env     \* the setting, and what is left of its budgets

vars == <<tcp, app, wire, env>>
Hosts == {1, 2}
Peer(h) == 3 - h

\* A setting:
\*   loss, dup    how many packets may be lost or delivered twice
\*   ticks        how often the timers of the hosts run
\*   bytes        bytes each program writes at most, sizes in one call
\*   app          what its callbacks do (recv_callback)
\*   close        hosts whose program may close on its own
\*   unlisten     the program of host 2 may stop listening
\*   abort        hosts whose program may abort
\*   nodelay      hosts whose program calls tcp_output after every write
\*   room         allocations that succeed in a step
\*   late         the clock may run while packets are under way
\*   merge        programs may write while a segment sent before is on unsent
\*   old          packets under way at the start: leftovers of an earlier
\*                connection, or of a host that is gone

Idle == [conn |-> NULL, written |-> 0, got |-> <<>>, unread |-> 0,
         eof |-> FALSE, closed |-> FALSE, over |-> "no"]

Init ==
  /\ env \in Nets
  /\ tcp = [h \in Hosts |-> [tcp_init(h, ISS[h]) EXCEPT
              !.listen = IF h = 2 THEN <<SERVER_PORT>> ELSE <<>>]]
  /\ app = [h \in Hosts |-> Idle]
  /\ wire = env.old

-----------------------------------------------------------------------------
\* What the callbacks of a step tell the program.
told(e, a, mode) ==
  CASE e.what = "RECV" -> [a EXCEPT !.got = @ \o e.arg,
                             !.unread = IF mode = "later" THEN @ + Len(e.arg) ELSE @]
    [] e.what = "EOF" -> [a EXCEPT !.eof = TRUE, !.closed = @ \/ e.arg = "close"]
    [] e.what = "ACCEPT" -> [a EXCEPT !.conn = e.pcb]
    [] e.what = "ERR" /\ e.pcb = a.conn -> [a EXCEPT !.over = "error"]
    [] e.what = "FREE" /\ e.pcb = a.conn ->
         [a EXCEPT !.conn = NULL, !.over = IF @ = "no" THEN "closed" ELSE @]
    [] OTHER -> a

all_told(ev, a, mode) == FoldLeft(LAMBDA b, e : told(e, b, mode), a, ev)

quiet(t) == [t EXCEPT !.out = <<>>, !.ev = <<>>, !.room = 0, !.ret = "OK", !.got = NULL,
                      !.recv_data = <<>>, !.recv_flags = {}]

\* A step of host h ends with TCP in state t and its program in state a.
step(h, t, a) ==
  /\ tcp' = [tcp EXCEPT ![h] = quiet(t)]
  /\ app' = [app EXCEPT ![h] = all_told(t.ev, a, env.app[h])]

\* Packets for hosts that are gone vanish.
sent(t) == {s \in Range(t.out) : s.dst \in Hosts}

with_room(h, n) == [tcp[h] EXCEPT !.room = n]
Running == \A h \in Hosts : ~tcp[h].halted

\* A packet arrives, and may arrive again.
arrive(h, s, t, again) ==
  /\ step(h, t, app[h])
  /\ wire' = (IF again THEN wire ELSE wire \ {s}) \cup sent(t)
  /\ env' = IF again THEN [env EXCEPT !.dup = @ - 1] ELSE env

Deliver(h) ==
  \E s \in wire, again \in BOOLEAN, n \in env.room, may_kill \in BOOLEAN :
    /\ Running
    /\ s.dst = h
    /\ again => env.dup > 0
    /\ may_kill => Spent(tcp[h])
    /\ \E t \in {tcp_input(with_room(h, n), s, env.app[h],
                           app[h].conn = NULL /\ app[h].over = "no", may_kill)} :
         arrive(h, s, t, again)

Lose ==
  /\ Running
  /\ env.loss > 0
  /\ \E s \in wire : wire' = wire \ {s}
  /\ env' = [env EXCEPT !.loss = @ - 1]
  /\ UNCHANGED <<tcp, app>>

\* A step of host h that is not the arrival of a packet.
act(h, t, a) ==
  /\ Running
  /\ step(h, t, a)
  /\ wire' = wire \cup sent(t)

\* The clocks of the hosts run alike: both timers fire.
timers(n) == [h \in Hosts |-> IF tcp[h].timer_on THEN tcpip_tcp_timer(with_room(h, n)) ELSE tcp[h]]

Timer ==
  \E n \in env.room :
    /\ Running
    /\ env.ticks > 0
    /\ env.late \/ wire = {}
    /\ \E h \in Hosts : tcp[h].timer_on
    /\ \E t \in {timers(n)} :
         /\ tcp' = [h \in Hosts |-> quiet(t[h])]
         /\ app' = [h \in Hosts |-> all_told(t[h].ev, app[h], env.app[h])]
         /\ wire' = wire \cup sent(t[1]) \cup sent(t[2])
    /\ env' = [env EXCEPT !.ticks = @ - 1]

Connect ==
  \E n \in env.room :
    /\ app[1].conn = NULL /\ app[1].over = "no"
    /\ \E t \in {tcp_new(with_room(1, n))} :
         /\ t.got # NULL
         /\ \E c \in {tcp_connect(t, t.got, 2, SERVER_PORT, CLIENT_PORT)} :
              act(1, c, [app[1] EXCEPT !.conn = t.got])
    /\ UNCHANGED env

\* Bytes a to b of the stream of a program.
Bytes(a, b) == [n \in 1 .. b - a + 1 |-> a + n - 1]

\* A program may write unless the last segment on unsent was sent before.
never_sent(p) == p.unsent # <<>> => ~TCP_SEQ_LT(Last(p.unsent).seqno, p.snd_max)

\* do_write of api_msg.c: tcp_output only if nothing is unacknowledged or
\* TF_NODELAY is set.
do_write(t, i, nodelay) ==
  IF t.ret = "OK" /\ (nodelay \/ t.pcb[i].unacked = <<>>) THEN tcp_output(t, i) ELSE t

Write(h) ==
  \E len \in env.sizes, n \in env.room :
    LET a == app[h]
        i == a.conn
    IN  /\ a.conn # NULL /\ ~a.closed
        /\ a.written + len <= env.bytes[h]
        /\ env.merge \/ never_sent(tcp[h].pcb[i])
        /\ \E t \in {tcp_write(with_room(h, n), i, Bytes(a.written + 1, a.written + len), TRUE)} :
             act(h, do_write(t, i, h \in env.nodelay),
                 IF t.ret = "OK" THEN [a EXCEPT !.written = @ + len] ELSE a)
        /\ UNCHANGED env

Recved(h) ==
  \E n \in env.room :
    /\ app[h].conn # NULL /\ app[h].unread > 0 /\ ~app[h].closed
    /\ act(h, tcp_recved(with_room(h, n), app[h].conn, app[h].unread),
           [app[h] EXCEPT !.unread = 0])
    /\ UNCHANGED env

Close(h) ==
  \E n \in env.room :
    /\ app[h].conn # NULL /\ ~app[h].closed
    /\ h \in env.close \/ app[h].eof
    /\ \E t \in {tcp_close(with_room(h, n), app[h].conn)} :
         act(h, t, [app[h] EXCEPT !.closed = t.ret = "OK"])
    /\ UNCHANGED env

Unlisten ==
  /\ env.unlisten /\ tcp[2].listen # <<>>
  /\ act(2, tcp_close_listen(tcp[2], SERVER_PORT), app[2])
  /\ UNCHANGED env

Abort(h) ==
  \E n \in env.room :
    /\ h \in env.abort
    /\ app[h].conn # NULL /\ ~app[h].closed
    /\ act(h, tcp_abort(with_room(h, n), app[h].conn), app[h])
    /\ UNCHANGED env

Next ==
  \/ Connect \/ Lose \/ Timer \/ Unlisten
  \/ \E h \in Hosts : Deliver(h) \/ Write(h) \/ Recved(h) \/ Close(h) \/ Abort(h)

Spec == Init /\ [][Next]_vars

-----------------------------------------------------------------------------
\* The control blocks of both hosts and the packets keep their types: 16 and 32
\* bit numbers in range, the window at most TCP_WND, the queues at most
\* TCP_SND_QUEUELEN.
SeqNos == 0 .. SEQ_MOD - 1
U16 == 0 .. U16_MOD - 1
States == {"CLOSED", "SYN_SENT", "SYN_RCVD", "ESTABLISHED", "FIN_WAIT_1", "FIN_WAIT_2",
           "CLOSE_WAIT", "CLOSING", "LAST_ACK", "TIME_WAIT"}
SegmentOK(s) == s.seqno \in SeqNos /\ Len(s.data) <= TCP_MSS
PcbOK(p) ==
  /\ p.state \in States
  /\ {p.rcv_nxt, p.snd_nxt, p.snd_max, p.lastack, p.snd_lbb, p.rtseq, p.snd_wl1, p.snd_wl2}
       \subseteq SeqNos
  /\ {p.rto, p.rtime, p.cwnd, p.ssthresh, p.snd_wnd, p.acked} \subseteq U16
  /\ p.rcv_wnd \in 0 .. TCP_WND
  /\ p.snd_queuelen \in 0 .. TCP_SND_QUEUELEN
  /\ p.dupacks \in 0 .. U8_MOD - 1 /\ p.nrtx \in Nat
  /\ p.flags \subseteq {"ACK_DELAY", "ACK_NOW", "INFR"}
  /\ \A s \in Range(p.unsent) \cup Range(p.unacked) \cup Range(p.ooseq) : SegmentOK(s)
TcpTypeOK ==
  /\ \A h \in Hosts, i \in Pcbs : PcbOK(tcp[h].pcb[i])
  /\ \A s \in wire : SegmentOK(s) /\ s.ackno \in SeqNos /\ s.wnd \in 0 .. TCP_WND

\* No LWIP_ASSERT of tcp.c, tcp_in.c and tcp_out.c fails, and congestion
\* avoidance does not divide by a window of 0.  "Axioms about the above lists"
\* (tcp.h): a block is on one list at most, the one its state asks for, and
\* every allocated block is on a list.
NeverHalts ==
  Running /\ \A h \in Hosts :
    LET t == tcp[h]
    IN  /\ t.used = Range(t.active) \cup Range(t.tw)
        /\ Cardinality(t.used) = Len(t.active) + Len(t.tw)
        /\ states_sane(t)

Live(h) == app[h].conn # NULL
Pcb(h) == tcp[h].pcb[app[h].conn]
Queued(p) == p.unacked \o p.unsent
Numbers(s) == {Plus(s.seqno, n) : n \in 0 .. TCP_TCPLEN(s) - 1}

\* The queues hold every number that was accepted (snd_lbb) and is not yet
\* acknowledged (lastack), through retransmissions, time-outs and lost
\* allocations, and snd_queuelen counts their pbufs.  The segments that wait on
\* ooseq are above rcv_nxt, in order, and do not overlap.
QueuesCover ==
  TcpTypeOK /\ \A h \in Hosts : \A i \in Range(tcp[h].active) :
    LET p == tcp[h].pcb[i]
        q == Queued(p)
        o == p.ooseq
    IN  /\ o # <<>> => TCP_SEQ_LT(p.rcv_nxt, o[1].seqno)
        /\ \A j \in 1 .. Len(o) - 1 :
             /\ TCP_SEQ_LT(o[j].seqno, o[j + 1].seqno)
             /\ TCP_SEQ_LEQ(Plus(o[j].seqno, Len(o[j].data)), o[j + 1].seqno)
        /\ {Plus(p.lastack, n) : n \in 0 .. Minus(p.snd_lbb, p.lastack) - 1}
             \subseteq UNION {Numbers(q[j]) : j \in DOMAIN q}
        /\ p.snd_queuelen = clens(q)

\* The window that is offered and what the program was given and has not yet
\* returned with tcp_recved make up TCP_WND; the end of the stream takes one.
\* (tcp_recv_null returns nothing.)
WindowAccount(h) ==
  Live(h) /\ env.app[h] # "null"
    /\ Pcb(h).state \in {"ESTABLISHED", "FIN_WAIT_1", "FIN_WAIT_2", "CLOSE_WAIT", "LAST_ACK"} =>
      Pcb(h).rcv_wnd + app[h].unread + (IF app[h].eof THEN 1 ELSE 0) = TCP_WND

BytesOf(q) == UNION {Range(q[j].data) : j \in DOMAIN q}
\* A byte that tcp_write accepted is given to the other program or is still on
\* a queue of its sender, as long as the other program has not closed.
NoByteLost ==
  \A h \in Hosts :
    Live(h) /\ ~app[Peer(h)].closed =>
      \A b \in Len(app[Peer(h)].got) + 1 .. app[h].written : b \in BytesOf(Queued(Pcb(h)))

\* A sender is never left waiting: with no packet or acknowledgement on its way,
\* nothing unacknowledged that the timer would repeat, and a reader that has
\* read everything, the windows let the next segment go.  The windows add up.
NoStall ==
  \A h \in Hosts :
    /\ WindowAccount(h)
    /\ Live(h) /\ wire = {} /\ Pcb(h).unsent # <<>> /\ Pcb(h).unacked = <<>>
         /\ app[Peer(h)].unread = 0
         /\ (Live(Peer(h)) => "ACK_DELAY" \notin Pcb(Peer(h)).flags)
       => in_window(Pcb(h), Head(Pcb(h).unsent))

\* "The pcb is deallocated by the TCP code after a call to tcp_close()"
\* (rawapi.txt): once both programs have closed, and everything they wrote is
\* acknowledged and no packet under way, nobody waits for an acknowledgement
\* any more.  FIN_WAIT_2 and TIME_WAIT have a time-out, these states do not.
Acknowledged == \A h \in Hosts : Live(h) => Queued(Pcb(h)) = <<>>
Deallocated ==
  (\A h \in Hosts : app[h].closed) /\ wire = {} /\ Acknowledged =>
    \A h \in Hosts : Live(h) => Pcb(h).state \notin {"FIN_WAIT_1", "CLOSING", "LAST_ACK"}

\* Whatever old, repeated or reordered segments arrive, lastack, snd_max and
\* rcv_nxt never go back, and lastack never passes what was sent.
Same(h, i) ==
  /\ i \in Range(tcp[h].active) /\ i \in Range(tcp'[h].active)
  /\ tcp[h].pcb[i].remote_port = tcp'[h].pcb[i].remote_port
NeverBack ==
  [][\A h \in Hosts, i \in Pcbs :
       Same(h, i) /\ tcp[h].pcb[i].state \notin {"SYN_SENT"} =>
         LET p == tcp[h].pcb[i]
             q == tcp'[h].pcb[i]
         IN  /\ TCP_SEQ_LEQ(p.lastack, q.lastack) /\ TCP_SEQ_LEQ(q.lastack, q.snd_max)
             /\ TCP_SEQ_LEQ(p.rcv_nxt, q.rcv_nxt)
             /\ TCP_SEQ_LEQ(p.snd_max, q.snd_max)]_vars

\* The connection implements two streams of bytes (Stream): tcp_receive gives
\* each program the other one's bytes in order, once and unchanged, and the end
\* of the stream after the last of them.
S == INSTANCE Stream WITH
       written <- [h \in Hosts |-> app[h].written], closed <- [h \in Hosts |-> app[h].closed],
       got <- [h \in Hosts |-> app[h].got], eof <- [h \in Hosts |-> app[h].eof]
Streams == S!Spec
=============================================================================
