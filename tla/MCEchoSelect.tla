---------------------------- MODULE MCEchoSelect ----------------------------
(***************************************************************************)
(* A small instance of EchoSelect for TLC: the three programs with whole   *)
(* messages and with messages in two parts, and what may fail in each.     *)
(***************************************************************************)
EXTENDS EchoSelect

Round(client, parts, faults) ==
    [client |-> client, parts |-> parts, faults |-> faults]

MCSetups ==
    {Round("cpp_epoll", 1, {}),
     Round("cpp_epoll", 1, {"bind"}),
     Round("cpp_epoll", 2, {"giveup", "reset", "accept", "wait"}),
     Round("cpp_poll", 1, {}),
     Round("cpp_poll", 2, {"reset", "accept"}),
     Round("selector", 1, {}),
     Round("selector", 2, {"reset", "bind", "accept", "wait"})}
=============================================================================
