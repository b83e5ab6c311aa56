----------------------------- MODULE ConnectAll -----------------------------
(***************************************************************************)
(* How the load generator opens its connections (server.cpp: connect_all   *)
(* and check_socket_ready): non-blocking connects, at most conn_q_size of  *)
(* them under way at a time, watched by an epoll set of their own.         *)
(*                                                                         *)
(* Sockets are numbered in the order of their creation, so `sockets' is    *)
(* how many the vector holds.  Time passes in the waits only.              *)
(***************************************************************************)
EXTENDS Integers, FiniteSets

CONSTANTS
    SockCount,      \* sock_count
    ConnQSize,      \* conn_q_size
    ConnTimeoutMs,  \* conn_timeout_ms
    NsPerMs,        \* nanoseconds in a millisecond
    Faults          \* what may fail: "socket", "connect", "epoll" (a call of
                    \* this process), "refuse", "reset" (the other end)

ASSUME CountAssumption == SockCount \in Nat
ASSUME QueueAssumption == ConnQSize \in Nat \ {0}
ASSUME UnitsAssumption == ConnTimeoutMs \in Nat \ {0} /\ NsPerMs \in Nat \ {0}
ASSUME ConnectFaultsAssumption ==
    Faults \subseteq {"socket", "connect", "epoll", "refuse", "reset"}

Ids == 1..SockCount

VARIABLES
    cpc,        \* where connect_all is, see CPCs
    sockets,    \* sockets.size()
    left,       \* rounds left of the loop that opens max_connect sockets
    waiting,    \* waiting_to_connect
    state,      \* what the kernel knows of each socket
    watched,    \* sockets in the epoll set
    edges,      \* of those, the ones with an edge not yet reported
    batch,      \* reported sockets still to be looked at
    checked,    \* sockets check_socket_ready was content with
    waited,     \* how long the current wait has lasted, in ns
    pollEnd,    \* how long it lasts before epoll_wait comes back with nothing
    result      \* "none", "connected", "timeout" or "error"

kernel == <<state, edges>>
vars == <<cpc, sockets, left, waiting, kernel, watched, batch, checked, waited,
          pollEnd, result>>

CPCs == {"start", "top", "open", "wait", "polled", "check", "returned"}
States == {"none", "connecting", "established", "refused", "reset"}

Init ==
    /\ cpc = "start"
    /\ sockets = 0
    /\ left = 0
    /\ waiting = 0
    /\ state = [i \in Ids |-> "none"]
    /\ watched = {}
    /\ edges = {}
    /\ batch = {}
    /\ checked = {}
    /\ waited = 0
    /\ pollEnd = 0
    /\ result = "none"

Return(value) ==
    /\ cpc' = "returned"
    /\ result' = value

\* gethostbyname and the epoll set.
Start ==
    /\ cpc = "start"
    /\ \/ cpc' = "top" /\ UNCHANGED result
       \/ Faults \cap {"connect", "epoll"} # {} /\ Return("error")
    /\ UNCHANGED <<sockets, left, waiting, kernel, watched, batch, checked, waited, pollEnd>>

Lesser(a, b) == IF a < b THEN a ELSE b

\* conn_q_size - waiting_to_connect
Room == ConnQSize - waiting

AllDone == sockets = SockCount /\ waiting = 0

\* The head of the loop.
Top ==
    /\ cpc = "top"
    /\ IF AllDone
       THEN Return("connected") /\ UNCHANGED left
       ELSE /\ left' = Lesser(SockCount - sockets, Room)
            /\ cpc' = "open"
            /\ UNCHANGED result
    /\ UNCHANGED <<sockets, waiting, kernel, watched, batch, checked, waited, pollEnd>>

\* socket, bind, connect and add_fd for one more connection.  It may be
\* established before epoll is told of it, which then reports it at once.
OpenOne ==
    /\ cpc = "open" /\ left > 0
    /\ sockets' = sockets + 1
    /\ \E s \in {"connecting", "established"} :
        /\ state' = [state EXCEPT ![sockets + 1] = s]
        /\ edges' = IF s = "established" THEN edges \cup {sockets + 1} ELSE edges
    /\ watched' = watched \cup {sockets + 1}
    /\ waiting' = waiting + 1
    /\ left' = left - 1
    /\ UNCHANGED <<cpc, batch, checked, waited, pollEnd, result>>

\* No socket to be had: nothing was added to the vector.
SocketFails ==
    /\ cpc = "open" /\ left > 0
    /\ "socket" \in Faults
    /\ Return("error")
    /\ UNCHANGED <<sockets, left, waiting, kernel, watched, batch, checked, waited, pollEnd>>

\* bind, connect or add_fd fails: the socket is in the vector already.
OpenFails ==
    /\ cpc = "open" /\ left > 0
    /\ "connect" \in Faults
    /\ sockets' = sockets + 1
    /\ state' = [state EXCEPT ![sockets + 1] = "refused"]
    /\ Return("error")
    /\ UNCHANGED <<left, waiting, edges, watched, batch, checked, waited, pollEnd>>

\* sel.wait(conn_timeout_ms): the parameter of wait is in nanoseconds.
WaitTimeoutNs == ConnTimeoutMs

\* epoll_wait_ex asks for what is left of the timeout, in whole milliseconds,
\* and polls once more for what is left of that.
PollEnd(now) == now + ((WaitTimeoutNs - now) \div NsPerMs) * NsPerMs

OpenEnds ==
    /\ cpc = "open" /\ left = 0
    /\ cpc' = "wait"
    /\ waited' = 0
    /\ pollEnd' = PollEnd(0)
    /\ UNCHANGED <<sockets, left, waiting, kernel, watched, batch, checked, result>>

WaitTick ==
    /\ cpc \in {"wait", "polled"}
    /\ waited < WaitTimeoutNs
    /\ waited' = waited + 1
    /\ UNCHANGED <<pollEnd, cpc, sockets, left, waiting, kernel, watched, batch, checked, result>>

WaitReports ==
    /\ cpc = "wait"
    /\ edges # {}
    /\ batch' = edges
    /\ edges' = {}
    /\ cpc' = "check"
    /\ UNCHANGED <<sockets, left, waiting, state, watched, checked, waited, pollEnd, result>>

\* epoll_wait reports nothing, or EINTR; the clock is read only afterwards.
PollEmpty ==
    /\ cpc = "wait"
    /\ edges = {}
    /\ waited >= pollEnd \/ "epoll" \in Faults
    /\ cpc' = "polled"
    /\ UNCHANGED <<sockets, left, waiting, kernel, watched, batch, checked, waited, pollEnd, result>>

PollAgain ==
    /\ cpc = "polled"
    /\ waited < WaitTimeoutNs
    /\ cpc' = "wait"
    /\ pollEnd' = PollEnd(waited)
    /\ UNCHANGED <<sockets, left, waiting, kernel, watched, batch, checked, waited, result>>

\* With another round instead of the return.
WaitTimesOutRetries ==
    /\ cpc = "polled"
    /\ waited >= WaitTimeoutNs
    /\ cpc' = "top"
    /\ UNCHANGED <<sockets, left, waiting, kernel, watched, batch, checked, waited, pollEnd, result>>

\* Nothing reported in the whole wait: "Socket failed to connect".
WaitTimesOut ==
    /\ cpc = "polled"
    /\ waited >= WaitTimeoutNs
    /\ Return("timeout")
    /\ UNCHANGED <<sockets, left, waiting, kernel, watched, batch, checked, waited, pollEnd>>

WaitFails ==
    /\ cpc = "wait"
    /\ "epoll" \in Faults
    /\ Return("error")
    /\ UNCHANGED <<sockets, left, waiting, kernel, watched, batch, checked, waited, pollEnd>>

\* With SO_ERROR not asked for.
AnyState(i) == TRUE

\* check_socket_ready: SO_ERROR of the socket is 0.
SocketReady(i) == state[i] = "established"

\* With the socket left in the epoll set.
StillWatched(i) == watched

\* remove_current_ready
Unwatched(i) == watched \ {i}

CheckOne(i) ==
    /\ cpc = "check"
    /\ i \in batch
    /\ IF SocketReady(i)
       THEN /\ waiting' = waiting - 1
            /\ checked' = checked \cup {i}
            /\ watched' = Unwatched(i)
            /\ edges' = edges \cap Unwatched(i)
            /\ batch' = batch \ {i}
            /\ UNCHANGED <<cpc, result>>
       ELSE /\ Return("error")
            /\ UNCHANGED <<waiting, checked, watched, edges, batch>>
    /\ UNCHANGED <<sockets, left, state, waited, pollEnd>>

CheckEnds ==
    /\ cpc = "check"
    /\ batch = {}
    /\ cpc' = "top"
    /\ UNCHANGED <<sockets, left, waiting, kernel, watched, batch, checked, waited, pollEnd, result>>

-----------------------------------------------------------------------------
(* The other end; every change of a watched socket is an edge. *)

Becomes(i, s) ==
    /\ state' = [state EXCEPT ![i] = s]
    /\ edges' = edges \cup ({i} \cap watched)
    /\ UNCHANGED <<cpc, sockets, left, waiting, watched, batch, checked, waited, pollEnd, result>>

Accept(i) == state[i] = "connecting" /\ Becomes(i, "established")
Refuse(i) == "refuse" \in Faults /\ state[i] = "connecting" /\ Becomes(i, "refused")
Reset(i) == "reset" \in Faults /\ state[i] = "established" /\ Becomes(i, "reset")

-----------------------------------------------------------------------------
Code ==
    \/ Start \/ Top \/ OpenOne \/ SocketFails \/ OpenFails \/ OpenEnds
    \/ WaitTick \/ WaitReports \/ PollEmpty \/ PollAgain \/ WaitTimesOut \/ WaitFails
    \/ \E i \in Ids : CheckOne(i)
    \/ CheckEnds

Next == Code \/ \E i \in Ids : Accept(i) \/ Refuse(i) \/ Reset(i)

Spec == Init /\ [][Next]_vars

\* The thread runs and time passes; nothing is asked of the other end.
FairSpec == Spec /\ WF_vars(Code) /\ WF_vars(WaitTick)

-----------------------------------------------------------------------------
(* Properties. *)

TypeOK ==
    /\ cpc \in CPCs
    /\ sockets \in 0..SockCount
    /\ left \in Nat
    /\ waiting \in Nat
    /\ state \in [Ids -> States]
    /\ watched \subseteq Ids
    /\ edges \subseteq watched
    /\ batch \subseteq Ids
    /\ checked \subseteq Ids
    /\ waited \in Nat
    /\ pollEnd \in 0..WaitTimeoutNs
    /\ result \in {"none", "connected", "timeout", "error"}

\* waiting_to_connect is the number of sockets in the epoll set, never more
\* than conn_q_size, the room in the event list: no socket is counted twice,
\* whatever epoll reports of it after it was connected, and none is lost.
WaitingIsWatched ==
    cpc # "returned" => waiting = Cardinality(watched) /\ waiting <= ConnQSize

\* perf_report.md:19: no message before all requested connections are there.
\* True is returned only with all of them, each seen connected once.
SuccessMeansAllConnected ==
    result = "connected" =>
        /\ sockets = SockCount
        /\ checked = Ids
        /\ \A i \in Ids : state[i] \in {"established", "reset"}

\* connect_all waits only while a connect is under way: with nothing to wait
\* for every wait would end the test as timed out.
WaitsForSomething == cpc \in {"wait", "polled"} => waiting > 0

\* connect_all gives up on the other end only after conn_timeout_ms (the name
\* of the parameter, server.cpp:198) without any news.
PatienceIsMilliseconds == result = "timeout" => waited >= ConnTimeoutMs * NsPerMs

\* connect_all returns whatever the other end does or does not do.
ConnectReturns == <>(cpc = "returned")
=============================================================================
