----------------------------- MODULE WorkerLoop -----------------------------
(***************************************************************************)
(* What one worker of the load generator promises, seen from run_test:     *)
(* the worker counts a message before it answers it, answers no more than  *)
(* it has counted, does neither once it has left, and leaves only when it  *)
(* was told to or when something is wrong with a connection or a call.     *)
(* PingWorker implements this; CountBatch, Serve and Leave of RunTest are  *)
(* these steps for each worker of a run.                                   *)
(***************************************************************************)
EXTENDS Naturals

CONSTANT NumSocks           \* how many connections the worker has

VARIABLES
    working,    \* the worker is in its loop
    told,       \* it was told to stop
    wrong,      \* a connection is lost, or a call may have failed
    counted,    \* messages that came back
    answered    \* answers given

loopvars == <<working, told, wrong, counted, answered>>

Init ==
    /\ working = TRUE
    /\ told = FALSE
    /\ wrong \in BOOLEAN
    /\ counted = 0
    /\ answered = 0

Tell ==
    /\ ~told
    /\ told' = TRUE
    /\ UNCHANGED <<working, wrong, counted, answered>>

GoWrong ==
    /\ wrong' = TRUE
    /\ UNCHANGED <<working, told, counted, answered>>

\* A batch has every connection at most once.
CountBatch ==
    /\ working
    /\ \E n \in 1..NumSocks : counted' = counted + n
    /\ UNCHANGED <<working, told, wrong, answered>>

Answer ==
    /\ working
    /\ answered < counted
    /\ answered' = answered + 1
    /\ UNCHANGED <<working, told, wrong, counted>>

Leave ==
    /\ working
    /\ told \/ wrong
    /\ working' = FALSE
    /\ UNCHANGED <<told, wrong, counted, answered>>

Next == Tell \/ GoWrong \/ CountBatch \/ Answer \/ Leave

Spec == Init /\ [][Next]_loopvars
=============================================================================
