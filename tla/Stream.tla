------------------------------- MODULE Stream -------------------------------
(***************************************************************************)
(* What TCP promises two programs: two streams of bytes, one in each       *)
(* direction.  Byte n of a stream is the n-th one its writer was allowed   *)
(* to write.  The reader gets the bytes in that order, without loss,       *)
(* repetition or change, and the end of the stream after the last of them  *)
(* only.                                                                   *)
(***************************************************************************)
EXTENDS Integers, Sequences

VARIABLES
  written,   \* bytes accepted from the program of each host
  closed,    \* the program of the host has closed its stream
  got,       \* bytes the program of each host was given
  eof        \* it was told the end of the other one's stream
vars == <<written, closed, got, eof>>

Hosts == {1, 2}
Peer(h) == 3 - h

Init ==
  /\ written = [h \in Hosts |-> 0]
  /\ closed = [h \in Hosts |-> FALSE]
  /\ got = [h \in Hosts |-> <<>>]
  /\ eof = [h \in Hosts |-> FALSE]

Write(h) ==
  /\ ~closed[h]
  /\ written'[h] >= written[h]
  /\ written' = [written EXCEPT ![h] = written'[h]]
  /\ UNCHANGED <<closed, got, eof>>

Close(h) == closed' = [closed EXCEPT ![h] = TRUE] /\ UNCHANGED <<written, got, eof>>

\* The next n bytes, perhaps with the end of the stream behind them; the
\* program may close its own stream when it is told.
Receive(h) ==
  LET len == Len(got'[h])
  IN  /\ ~eof[h]
      /\ got' = [got EXCEPT ![h] = [n \in 1 .. len |-> n]]
      /\ Len(got[h]) <= len
      /\ len <= written[Peer(h)]
      /\ \/ UNCHANGED eof
         \/ /\ closed[Peer(h)]
            /\ len = written[Peer(h)]
            /\ eof' = [eof EXCEPT ![h] = TRUE]
      /\ closed' \in {closed, [closed EXCEPT ![h] = TRUE]}
      /\ UNCHANGED written

Next == \E h \in Hosts : Write(h) \/ Close(h) \/ Receive(h)
Spec == Init /\ [][Next]_vars
=============================================================================
