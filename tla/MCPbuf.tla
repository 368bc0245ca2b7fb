------------------------------- MODULE MCPbuf -------------------------------
(***************************************************************************)
(* The packet buffers on small memories: one where the heap runs out and   *)
(* is cut up, one where the length of a packet is as large as 16 bits      *)
(* allow, one where headers are added and removed, one of PBUF_ROM         *)
(* pbufs with headers, one where packets are queued and one where the      *)
(* PBUF_REF pbufs of a packet are replaced.                                *)
(***************************************************************************)
EXTENDS Pbuf

Base == [MEM_SIZE |-> 5, POOL |-> 0, MEMP |-> 0, limit |-> 3, lengths |-> {1, 3},
         headers |-> {}, flags |-> {}, layers |-> {"RAW"}, queueing |-> FALSE]

MCNets ==
  {[Base EXCEPT !.MEM_SIZE = 14, !.flags = {"RAM"}, !.lengths = {1, 4}],
   [Base EXCEPT !.MEM_SIZE = 8, !.flags = {"RAM"}, !.layers = {"IP", "TRANSPORT"},
                !.lengths = {1, U16_MOD - 1}],
   [Base EXCEPT !.MEM_SIZE = 7, !.POOL = 2, !.flags = {"RAM", "POOL"},
                !.layers = {"IP"}, !.headers = {1, -1}, !.limit = 2],
   [Base EXCEPT !.MEM_SIZE = 7, !.MEMP = 1, !.flags = {"RAM", "ROM"},
                !.layers = {"TRANSPORT"}, !.lengths = {1, 2},
                !.headers = {1, -1}, !.limit = 2],
   [Base EXCEPT !.POOL = 3, !.flags = {"POOL"}, !.queueing = TRUE],
   [Base EXCEPT !.POOL = 1, !.MEMP = 2, !.flags = {"REF"}, !.layers = {"LINK"},
                !.lengths = {1, 2}]}
=============================================================================
