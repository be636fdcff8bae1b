---------------------------- MODULE MCZyreClients -----------------------------
(***************************************************************************)
(* One run for all the programs: a behaviour picks one of them.            *)
(***************************************************************************)
EXTENDS ZyreClients

MCNode == 1 .. 3
MCTests == {"zyre", "event", "beacon", "gossip"}

MCPrograms ==
    { <<"local", "remote", "remote">>, <<"pinger", "pinger", "none">>,
      <<"chat", "chat", "none">>, <<"minimal", "minimal", "none">>,
      <<"tester", "tester", "tester">>, <<"tested", "tested", "none">> }

=============================================================================
