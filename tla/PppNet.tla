------------------------------- MODULE PppNet -------------------------------
(***************************************************************************)
(* Two units of PPP on a serial line that may lose frames.  A is this      *)
(* program; B is the peer, modelled by the same code with settings of its  *)
(* own: PPP is symmetric, and what differs is configuration.               *)
(*                                                                         *)
(* In every unit three things happen: the thread pppMain reads the line    *)
(* and queues messages, the tcpip thread takes them and runs the timeouts, *)
(* the application opens, closes and sends.  The line (sio_read,           *)
(* sio_write) is external: it keeps order, and what arrives while nobody   *)
(* reads is lost.                                                          *)
(*                                                                         *)
(* left counts what may still happen: frames lost, timers that run out     *)
(* while an answer is on its way, calls of the application, allocations    *)
(* that fail and aborts of a read that come too early; past is what of it  *)
(* has happened.  A failed assertion and a NULL pointer end the run.       *)
(***************************************************************************)
EXTENDS PppHost

CONSTANT Nets     \* settings: the two configurations and the budgets

VARIABLES host, line, left, past

vars == <<host, line, left, past>>

Hosts == {"A", "B"}

peer(h) == IF h = "A" THEN "B" ELSE "A"

Init == \E n \in Nets :
  /\ host = [h \in Hosts |-> pppInit(n[h])]
  /\ line = [h \in Hosts |-> <<>>]
  /\ left = n.left /\ past = {}

spend(what) ==
  /\ \A w \in what : left[w] > 0
  /\ left' = [w \in DOMAIN left |-> IF w \in what THEN left[w] - 1 ELSE left[w]]
  /\ past' = past \union what

(* The unit s after a step, in which an abort of its read may be early. *)
after(s, early) == [abort_read(s, early) EXCEPT !.out = <<>>]

missable(s) == s.woken /\ s.main = "read" /\ to_do(s)

(* The unit of h becomes s at this cost; what it wrote goes to the peer if *)
(* that reads.                                                             *)
become(h, s, rest, cost) ==
  \E early \in BOOLEAN :
    /\ early => missable(s)
    /\ spend(cost \union set_if(early, "missed"))
    /\ host' = [host EXCEPT ![h] = after(s, early)]
    /\ line' = [line EXCEPT
                  ![h] = IF s.main = "off" THEN <<>> ELSE rest,
                  ![peer(h)] = IF host[peer(h)].main = "off" THEN @ ELSE @ \o s.out]

Faulted == \E h \in Hosts : host[h].fault # "none"

-----------------------------------------------------------------------------
Open(h) ==
  /\ ~host[h].openFlag
  /\ become(h, pppOpen(host[h]), line[h], {"open"})

Close(h) ==
  /\ host[h].openFlag
  /\ become(h, pppClose(host[h]), line[h], {"close"})

SigHUP(h) ==
  /\ host[h].openFlag
  /\ become(h, pppSigHUP(host[h]), line[h], {"hup"})

(* A frame without memory for its message is lost, as one on the line is. *)
Main(h) ==
  /\ host[h].main # "off"
  /\ \E fails \in {"none", "post", "pbuf"} :
       /\ fails = "pbuf" => pppMain_does(host[h]) = "start"
       /\ IF pppMain_does(host[h]) = "read"
          THEN /\ line[h] # <<>>
               /\ become(h, pppMain(host[h], Head(line[h]), fails), Tail(line[h]),
                         set_if(fails # "none", "loss"))
          ELSE become(h, pppMain(host[h], NoFrame, fails), line[h],
                      set_if(fails # "none", IF fails = "post" THEN "call" ELSE "pbuf"))

Tcpip(h) ==
  /\ host[h].mbox # <<>>
  /\ become(h, tcpip_callback([host[h] EXCEPT !.mbox = Tail(@)], Head(host[h].mbox)),
            line[h], {})

Lose(h) ==
  /\ line[h] # <<>>
  /\ spend({"loss"})
  /\ line' = [line EXCEPT ![h] = Tail(@)]
  /\ UNCHANGED host

(* Frames and messages take no time beside the timeouts of six seconds and *)
(* more, unless the line is slow.                                          *)
Short == {"lcp", "ipcp", "pap", "chal", "resp"}

idle(h) ==
  /\ line[h] = <<>> /\ host[h].mbox = <<>>
  /\ host[h].main \in {"off", "read"}

Quiet == \A h \in Hosts : idle(h)

NoneShort == \A h \in Hosts : host[h].timers \cap Short = {}

(* Six seconds pass: the timers of that length that are pending run out. *)
run_out(s) ==
  FoldLeft(LAMBDA u, t : IF t \in u.timers THEN timeout(u, t) ELSE u, s,
           <<"lcp", "ipcp", "pap", "chal", "resp">>)

Pass(a, b) ==
  /\ \E early \in SUBSET Hosts :
       /\ "A" \in early => missable(a)
       /\ "B" \in early => missable(b)
       /\ spend(set_if(early # {}, "missed"))
       /\ host' = [A |-> after(a, "A" \in early), B |-> after(b, "B" \in early)]
  /\ line' = [A |-> IF a.main = "off" THEN <<>> ELSE b.out,
              B |-> IF b.main = "off" THEN <<>> ELSE a.out]

Tick ==
  /\ Quiet /\ ~NoneShort
  /\ Pass(run_out(host["A"]), run_out(host["B"]))

(* The longer ones run out later. *)
LongTimer(h, t) ==
  /\ Quiet /\ NoneShort
  /\ t \in host[h].timers
  /\ become(h, timeout(host[h], t), line[h], {})

(* A timer runs out while an answer is still on its way. *)
EarlyTimer(h, t) ==
  /\ t \in host[h].timers
  /\ become(h, timeout(host[h], t), line[h], {"early"})

(* pppifOutput: a packet of the application. *)
SendIp(h) ==
  /\ host[h].if_up /\ host[h].openFlag /\ host[h].phase # "DEAD"
  /\ become(h, pppWrite(host[h], "ip", "data", 0, 0), line[h], {"ip"})

Next ==
  /\ ~Faulted
  /\ \/ Tick
     \/ \E h \in Hosts :
          \/ Open(h) \/ Close(h) \/ SigHUP(h) \/ Main(h) \/ Tcpip(h) \/ Lose(h)
          \/ SendIp(h)
          \/ \E t \in Timers : LongTimer(h, t) \/ EarlyTimer(h, t)

(* Something is under way: a frame, a message, a decision of pppMain, or a  *)
(* timer other than the one that limits the time of a connection.          *)
Ready ==
  /\ ~Faulted
  /\ \/ ~Quiet \/ ~NoneShort
     \/ \E h \in Hosts : host[h].timers \cap {"papreq", "echo"} # {}

(* The threads run and time passes: what is under way goes on. *)
Fairness == []<>(~Ready) \/ []<><<TRUE>>_vars

Spec == Init /\ [][Next]_vars /\ Fairness

-----------------------------------------------------------------------------
lcp(h) == host[h].fsm["lcp"].state
ipcp(h) == host[h].fsm["ipcp"].state
Waiting == {"REQSENT", "ACKRCVD", "ACKSENT", "CLOSING", "STOPPING"}


(* The layers follow each other: IPCP negotiates only on an open LCP and   *)
(* after the authentications, the interface is up and has addresses        *)
(* exactly while IPCP is open (ipcp_up, ipcp_down, np_finished), and no    *)
(* step fails the assertion of LcpEchoCheck.  A packet reaches an          *)
(* interface without an input function (pppInput) only when the peer came  *)
(* up first: because a frame was lost that would have brought this end up  *)
(* before, or because this end is terminating.                             *)
Layers == \A h \in Hosts :
  /\ host[h].fault # "echo"
  /\ host[h].fault = "input" =>
       \/ host[h].phase = "NETWORK" /\ ipcp(h) \in Waiting /\ "loss" \in past
       \/ host[h].phase = "TERMINATE" /\ past \cap {"close", "hup", "loss"} # {}
  /\ host[h].if_up <=> ipcp(h) = "OPENED"
  /\ host[h].if_up <=> host[h].addrs # <<0, 0>>
  /\ ipcp(h) \in Waiting \union {"OPENED"} => lcp(h) = "OPENED" /\ host[h].phase = "NETWORK"

(* The two ends agree: a frame on the line never holds a raw control       *)
(* character that its receiver drops (outACCM, inACCM: lcp_up, lcp_down),  *)
(* and once the line is quiet with both interfaces up, the address of each *)
(* is the one the other end sends to (ipcp_reqci, ipcp_nakci).             *)
Agree ==
  /\ \A h \in Hosts : \A i \in DOMAIN line[h] : ~garbled(host[h], line[h][i])
  /\ Quiet /\ host["A"].if_up /\ host["B"].if_up =>
       host["A"].addrs = <<host["B"].addrs[2], host["B"].addrs[1]>>

Off(h) == host[h].main = "off"

(* Both ends are up or both have ended.  An end whose peer has gone and    *)
(* that sends no echo requests cannot know.                                *)
Settled ==
  \/ host["A"].if_up /\ host["B"].if_up
  \/ \A h \in Hosts : Off(h) \/ (Off(peer(h)) /\ ~host[h].set.echo)

(* Negotiation ends: after the last loss and the last call of the          *)
(* application the link is up for good or ended for good, and a request to *)
(* close it (kill_link) ends pppMain: retransmissions are counted,         *)
(* nakloops stops options from being refused in turn for ever, loops are   *)
(* detected.  Three things are excepted: a timeout without an entry in the *)
(* pool, a call that pppMain posts without memory for the message (the     *)
(* result is not looked at and kill_link cleared), and an abort of sio_read *)
(* that comes before the read.                                             *)
Abandoned == Faulted \/ \E h \in Hosts : host[h].starved

Settles ==
  /\ <>[](Settled \/ Abandoned)
  /\ \A h \in Hosts :
       host[h].kill_link ~> Off(h) \/ Abandoned \/ past \cap {"call", "missed"} # {}

(* "Toss all non-LCP packets unless LCP is OPEN" (pppInput): a packet of   *)
(* another protocol that arrives while LCP is not open changes nothing.    *)
TossedUnlessOpen == [][
  \A h \in Hosts :
    (/\ host[h].mbox # <<>> /\ host'[h].mbox = Tail(host[h].mbox)
     /\ Head(host[h].mbox).frame.proto \notin {"none", "lcp"}
     /\ lcp(h) # "OPENED")
      => host'[h] = [host[h] EXCEPT !.mbox = Tail(@)]]_vars
=============================================================================
