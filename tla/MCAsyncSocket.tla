---------------------------- MODULE MCAsyncSocket ----------------------------
(***************************************************************************)
(* AsyncSocket for TLC: two operations of kinds that meet on one thread.   *)
(* write_some, send_to and receive_from have one row of the table, and     *)
(* schedule uses no socket.                                                *)
(***************************************************************************)
EXTENDS AsyncSocket

CONSTANTS o1, o2

MCKinds == DOMAIN Operation

Pairs ==
    { <<"connect", "accept">>, <<"read_some", "accept">>, <<"accept", "accept">>,
      <<"write_some", "read_some">>, <<"send_to", "receive_from">>,
      <<"schedule", "read_some">>, <<"read_nothing", "schedule">>, <<"schedule", "schedule">> }

MCInit == SocketInit /\ <<kind[o1], kind[o2]>> \in Pairs

MCSpec == MCInit /\ [][SocketNext]_socketVars /\ SocketFairness
=============================================================================
