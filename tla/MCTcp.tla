------------------------------- MODULE MCTcp -------------------------------
(***************************************************************************)
(* TcpNet for TLC.  Sequence numbers count modulo 32, and the stream of    *)
(* host 1 passes from 31 to 0 after its first byte; a segment holds two    *)
(* bytes and the window two segments, so that slow start, full windows and *)
(* segments that wait on ooseq all occur.                                  *)
(***************************************************************************)
EXTENDS TcpNet

MCBackoff == [n \in 0 .. 20 |-> 0]
MCISS == <<31, 3>>

Base == [loss |-> 0, dup |-> 0, ticks |-> 0, bytes |-> <<0, 0>>, sizes |-> {1},
         app |-> <<"now", "now">>, close |-> {}, unlisten |-> FALSE, abort |-> {}, nodelay |-> {}, room |-> {9},
         merge |-> FALSE, old |-> {}, late |-> FALSE]

\* The SYN of a host that is gone, and a segment of an earlier connection.
Syn(port) == [src |-> 3, sport |-> port, dst |-> 2, dport |-> SERVER_PORT, seqno |-> 0,
              ackno |-> 0, flags |-> {"SYN"}, data |-> <<>>, wnd |-> TCP_WND, mss |-> TCP_MSS]
Data(h, seqno, ackno) ==
  [src |-> h, sport |-> IF h = 1 THEN CLIENT_PORT ELSE SERVER_PORT, dst |-> Peer(h),
   dport |-> IF h = 1 THEN SERVER_PORT ELSE CLIENT_PORT, seqno |-> seqno, ackno |-> ackno,
   flags |-> {"ACK"}, data |-> <<9>>, wnd |-> TCP_WND, mss |-> TCP_MSS]

Lossy == [Base EXCEPT !.bytes = <<2, 0>>, !.loss = 1, !.ticks = 4, !.close = {1}]
Reorder == [Base EXCEPT !.bytes = <<3, 0>>, !.sizes = {3}, !.dup = 1, !.ticks = 2, !.close = {1},
                        !.nodelay = {1}]
Both == [Base EXCEPT !.bytes = <<1, 1>>, !.close = {1, 2}, !.unlisten = TRUE, !.ticks = 2]
Later == [Base EXCEPT !.bytes = <<6, 0>>, !.sizes = {2}, !.app = <<"now", "later">>, !.ticks = 4]
Aborts == [Base EXCEPT !.bytes = <<1, 0>>, !.abort = {1, 2}, !.ticks = 2]
Short == [Base EXCEPT !.bytes = <<1, 0>>, !.room = {0, 9}, !.ticks = 2, !.close = {1}]
Null == [Base EXCEPT !.bytes = <<1, 0>>, !.app = <<"now", "null">>, !.close = {1}, !.ticks = 2]
Ghosts == [Base EXCEPT !.old = {Syn(1), Syn(2)}, !.bytes = <<1, 0>>, !.ticks = 8]
Old == [Base EXCEPT !.old = {Data(1, 10, 18), Data(2, 25, 13)}, !.bytes = <<1, 0>>, !.ticks = 2]
Late == [Base EXCEPT !.bytes = <<1, 0>>, !.ticks = 2, !.close = {1}, !.late = TRUE]
Dead == [Base EXCEPT !.bytes = <<1, 0>>, !.loss = 5, !.ticks = 9]
Bulk == [Base EXCEPT !.bytes = <<6, 0>>, !.sizes = {3}, !.loss = 1, !.ticks = 6]
MCNets == {Lossy, Reorder, Both, Later, Aborts, Short, Null, Ghosts, Old, Late, Dead, Bulk}
Closing == {Lossy}
=============================================================================
