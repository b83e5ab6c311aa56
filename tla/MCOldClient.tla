---------------------------- MODULE MCOldClient -----------------------------
(***************************************************************************)
(* A small instance of OldClient for TLC: each of the three tests with     *)
(* whole messages, and with messages in two parts and what may fail.       *)
(***************************************************************************)
EXTENDS OldClient

MCSetups ==
    {[client |-> c, parts |-> 1, faults |-> {}] : c \in {"epoll", "poll", "th"}}
        \cup {[client |-> c, parts |-> 2, faults |-> {"connect", "epoll", "reset"}] :
                c \in {"epoll", "poll", "th"}}
=============================================================================
