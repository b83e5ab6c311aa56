--------------------------- MODULE MCEchoThreads ----------------------------
(***************************************************************************)
(* A small instance of EchoThreads for TLC: each program with whole        *)
(* messages and a bind that may fail, and with messages in two parts,      *)
(* resets and failing binds and accepts; the three of asyncio with a       *)
(* loader that gives up.                                                   *)
(***************************************************************************)
EXTENDS EchoThreads

MCSetups ==
    {[client |-> c, parts |-> 1, faults |-> {"bind"}] : c \in Clients}
        \cup {[client |-> c, parts |-> 2, faults |-> {"reset", "bind", "accept"}] : c \in Clients}
        \cup {[client |-> c, parts |-> 1, faults |-> {"giveup"}] :
                c \in {"asyncio_sock", "asyncio", "asyncio_proto"}}
=============================================================================
