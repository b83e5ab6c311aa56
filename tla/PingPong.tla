------------------------------ MODULE PingPong ------------------------------
(***************************************************************************)
(* What one worker of the load generator promises, seen from its           *)
(* connections: on every connection exactly one message goes back and      *)
(* forth, the worker answers only a connection whose whole message has     *)
(* come back, and once the run is stopped at most one answer that was      *)
(* already being given is still completed.  PingWorker implements this.    *)
(***************************************************************************)
EXTENDS Naturals

CONSTANT Socks              \* the connections of the worker

VARIABLES
    turn,       \* "client": the message is away; "server": it is back;
                \* "gone": the connection can carry no more messages
    served,     \* answers given on each connection
    stopped,    \* the run was told to stop
    mayServe    \* an answer may (still) be given

ppvars == <<turn, served, stopped, mayServe>>

Init ==
    /\ turn = [s \in Socks |-> "client"]
    /\ served = [s \in Socks |-> 0]
    /\ stopped = FALSE
    /\ mayServe = TRUE

\* The message of s comes back to the worker.
Return(s) ==
    /\ turn[s] = "client"
    /\ turn' = [turn EXCEPT ![s] = "server"]
    /\ UNCHANGED <<served, stopped, mayServe>>

\* The worker answers s; after the stop this can happen once.
Serve(s) ==
    /\ mayServe
    /\ turn[s] = "server"
    /\ \E t \in {"client", "gone"} : turn' = [turn EXCEPT ![s] = t]
    /\ served' = [served EXCEPT ![s] = @ + 1]
    /\ mayServe' = ~stopped
    /\ UNCHANGED stopped

\* The peer of s goes away.
Lose(s) ==
    /\ turn' = [turn EXCEPT ![s] = "gone"]
    /\ UNCHANGED <<served, stopped, mayServe>>

\* The stop arrives before or during an answer.
Stop ==
    /\ ~stopped
    /\ stopped' = TRUE
    /\ mayServe' \in BOOLEAN
    /\ UNCHANGED <<turn, served>>

\* An answer is begun and not completed: its message may be lost by it.
Abandon(s) ==
    /\ mayServe
    /\ \E t \in {turn[s], "gone"} : turn' = [turn EXCEPT ![s] = t]
    /\ mayServe' = ~stopped
    /\ UNCHANGED <<served, stopped>>

Next ==
    \/ \E s \in Socks : Return(s) \/ Serve(s) \/ Lose(s) \/ Abandon(s)
    \/ Stop

Spec == Init /\ [][Next]_ppvars
=============================================================================
