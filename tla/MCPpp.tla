------------------------------- MODULE MCPpp -------------------------------
(***************************************************************************)
(* Instances of module PppNet.  Addresses are small numbers, 0 is none;    *)
(* the one control character of Ctl stands for all of them.  A setting     *)
(* gives the configurations of the two units and what may happen to them.  *)
(***************************************************************************)
EXTENDS PppNet

\* This program as a client: no address, no secrets of its own to check.
Client ==
  [magic |-> 1, auth |-> {}, auth_required |-> FALSE, secrets |-> FALSE,
   pap |-> FALSE, chap |-> TRUE, refuse_pap |-> FALSE, refuse_chap |-> FALSE, cred |-> 7,
   usepeerdns |-> TRUE, dns |-> <<0, 0>>, ouraddr |-> 0, hisaddr |-> 0,
   mru |-> PPP_DEFMRU, asyncmap |-> {}, escape |-> {}, echo |-> FALSE, maxconnect |-> FALSE,
   timeouts |-> 3]

\* A peer that gives out addresses and one name server.
Server ==
  [Client EXCEPT !.magic = 2, !.secrets = TRUE, !.dns = <<8, 0>>, !.ouraddr = 2,
                 !.hisaddr = 1, !.usepeerdns = FALSE]

ChapServer == [Server EXCEPT !.auth = {"chap"}]
PapClient == [Client EXCEPT !.pap = TRUE]
PapServer == [Server EXCEPT !.pap = TRUE, !.auth = {"upap"}]
AnyServer == [PapServer EXCEPT !.auth = {"upap", "chap"}]

Once == [open |-> 2, close |-> 0, hup |-> 0, loss |-> 0, early |-> 0, ip |-> 0,
         call |-> 0, missed |-> 0, pbuf |-> 0]
Lossy == [Once EXCEPT !.loss = 1]

Net(a, b, l) == [A |-> a, B |-> b, left |-> l]

\* Closing, losing the carrier, opening again, packets that cross; memory
\* that runs out and a read that is aborted too early.
Calls ==
  {Net(Client, Server, [Lossy EXCEPT !.close = 1, !.ip = 1]),
   Net(Client, Server, [Once EXCEPT !.open = 3, !.hup = 1, !.ip = 1]),
   Net(Client, Server, [Once EXCEPT !.early = 1, !.ip = 1]),
   Net(Client, Server, [Once EXCEPT !.loss = 2, !.ip = 1]),
   Net(Client, Server, [Lossy EXCEPT !.early = 1, !.ip = 1]),
   Net(Client, Server, [Once EXCEPT !.close = 1, !.call = 1, !.pbuf = 1]),
   Net(Client, Server, [Once EXCEPT !.close = 1, !.missed = 1])}

\* Who proves what to whom.
Authentication ==
  {Net(Client, ChapServer, [Lossy EXCEPT !.close = 1]),
   Net([Client EXCEPT !.secrets = TRUE, !.auth = {"chap"}, !.echo = TRUE], ChapServer, Lossy),
   Net([Client EXCEPT !.cred = 5], ChapServer, Lossy),
   Net(Client, [ChapServer EXCEPT !.auth_required = TRUE], Lossy),
   Net(PapClient, PapServer, [Once EXCEPT !.early = 1]),
   Net(PapClient, PapServer, [Once EXCEPT !.loss = 2]),
   Net(Client, PapServer, Lossy),
   Net([PapClient EXCEPT !.refuse_chap = TRUE], AnyServer, Lossy),
   Net([PapClient EXCEPT !.refuse_chap = TRUE, !.refuse_pap = TRUE], AnyServer, Lossy)}

\* What is negotiated: addresses, sizes, characters, and a line that loops.
Options ==
  {Net([Client EXCEPT !.ouraddr = 1], [Server EXCEPT !.hisaddr = 0], Lossy),
   Net(Client, [Server EXCEPT !.hisaddr = 0], Lossy),
   Net([Client EXCEPT !.asyncmap = {1}], Server, [Once EXCEPT !.open = 3, !.hup = 1]),
   Net([Client EXCEPT !.mru = 2], [Server EXCEPT !.mru = 1, !.escape = {1}], Lossy),
   Net(Client, [Server EXCEPT !.magic = 1], Lossy)}

\* Timers that watch an open link, the last time with one entry in the pool.
Watched ==
  {Net([Client EXCEPT !.echo = TRUE], [Server EXCEPT !.echo = TRUE], [Once EXCEPT !.loss = 2]),
   Net([Client EXCEPT !.echo = TRUE], [Server EXCEPT !.echo = TRUE], [Once EXCEPT !.hup = 1]),
   Net([Client EXCEPT !.maxconnect = TRUE], Server, Lossy),
   Net([Client EXCEPT !.echo = TRUE, !.timeouts = 1], Server, Lossy)}

MCNets == Calls \union Authentication \union Options \union Watched

\* A frame is lost and a timer runs out while answers are on their way.
SlowLine == {Net(Client, ChapServer, [Lossy EXCEPT !.early = 1])}
=============================================================================
