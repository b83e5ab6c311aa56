----------------------------- MODULE TestRounds -----------------------------
(***************************************************************************)
(* What a loader and its clients promise each other: every round a client  *)
(* asks for is tested at most once, one round at a time, and judged once;  *)
(* it succeeds only with an answer of its own.  A client asks for one      *)
(* round after the other.  A loader may end its service, and with it every *)
(* round asked for.                                                        *)
(***************************************************************************)
EXTENDS Integers, FiniteSets

CONSTANTS Clients, Rounds

VARIABLES
    up,         \* the loader is at work
    asked,      \* rounds asked for
    serving,    \* the round under test, if any
    finished,   \* rounds the loader is done with
    answered,   \* those it gave an answer to
    verdict     \* what each round came to: "none", "ok" or "err"

vars == <<up, asked, serving, finished, answered, verdict>>

Rnds == Clients \X (1..Rounds)

Init ==
    /\ up = TRUE
    /\ asked = {} /\ serving = {} /\ finished = {} /\ answered = {}
    /\ verdict = [r \in Rnds |-> "none"]

Ask(r) ==
    /\ up
    /\ r \notin asked
    /\ verdict[r] = "none"
    /\ \A i \in 1..(r[2] - 1) : verdict[<<r[1], i>>] # "none"
    /\ asked' = asked \cup {r}
    /\ UNCHANGED <<up, serving, finished, answered, verdict>>

Serve(r) ==
    /\ up
    /\ serving = {}
    /\ r \in asked \ finished
    /\ serving' = {r}
    /\ UNCHANGED <<up, asked, finished, answered, verdict>>

Finish(r) ==
    /\ serving = {r}
    /\ serving' = {}
    /\ answered' \in {answered, answered \cup {r}}
    /\ \/ finished' = finished \cup {r} /\ UNCHANGED up
       \/ finished' = asked /\ up' = FALSE
    /\ UNCHANGED <<asked, verdict>>

\* Nobody is there to be asked when the loader has ended.
Judge(r) ==
    /\ verdict[r] = "none"
    /\ r \in asked \/ ~up
    /\ \E how \in {"ok", "err"} :
        /\ how = "ok" => r \in answered
        /\ verdict' = [verdict EXCEPT ![r] = how]
    /\ UNCHANGED <<up, asked, serving, finished, answered>>

Next == \E r \in Rnds : Ask(r) \/ Serve(r) \/ Finish(r) \/ Judge(r)

Spec == Init /\ [][Next]_vars
=============================================================================
