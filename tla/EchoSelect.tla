----------------------------- MODULE EchoSelect -----------------------------
(***************************************************************************)
(* The echoing clients that serve all their connections from one loop:     *)
(* run_test of client.cpp over epoll and over poll, and selector_test of   *)
(* main.py.  The connections and the loader at their other end are         *)
(* EchoNet.                                                                *)
(*                                                                         *)
(* Grain: a step is what happens up to the next system call on a socket.   *)
(***************************************************************************)
EXTENDS EchoNet

\* Of the client's calls bind (or socket), accept and the wait may fail.
ASSUME SelectSetupsAssumption ==
    Setups \subseteq [client: {"cpp_epoll", "cpp_poll", "selector"},
                      parts: Nat \ {0},
                      faults: SUBSET {"giveup", "reset", "bind", "accept", "wait"}]

VARIABLES
    cpc,        \* where the client is, see CPCs
    watched,    \* the sockets in the selector
    fdLeft,     \* fd_left; len(sockets) in selector_test
    batch,      \* events of the current wait still to be handled
    current,    \* the socket at hand, or None
    stamps,     \* calls of preparation_done and test_done so far
    rc          \* what the function returned: "none", "ok" or "error"

clientVars == <<cpc, watched, fdLeft, batch, current, stamps, rc>>
vars == <<netVars, clientVars>>

CPCs == {"bind", "accept", "head", "wait", "next", "recv", "write", "returned"}
None == "none"
EdgeTriggered == Client = "cpp_epoll"

Init ==
    /\ NetInit
    /\ cpc = "bind"
    /\ watched = {}
    /\ fdLeft = Cardinality(Socks)
    /\ batch = {}
    /\ current = None
    /\ stamps = 0
    /\ rc = "none"

Return(value) ==
    /\ cpc' = "returned"
    /\ rc' = value

-----------------------------------------------------------------------------
(* Getting the connections: wait_for_conn, add_fd, preparation_done. *)

\* bind, listen and ready_for_connect, which has the loader connect.
Bind ==
    /\ cpc = "bind"
    /\ cpc' = "accept"
    /\ UNCHANGED <<netVars, watched, fdLeft, batch, current, stamps, rc>>

\* With the first stamp forgotten.
NoStamp == stamps

\* preparation_done
FirstStamp == stamps + 1

\* `return 1' in a function whose true means success: client.cpp goes on
\* without a connection, and without having told the loader to connect.  When
\* there is no socket to bind it returns 1, and selector_test raises.
BindFails ==
    /\ "bind" \in Faults
    /\ cpc = "bind"
    /\ \/ Return("error") /\ UNCHANGED stamps
       \/ Client # "selector" /\ cpc' = "head" /\ stamps' = FirstStamp /\ UNCHANGED rc
    /\ UNCHANGED <<netVars, watched, fdLeft, batch, current>>

AcceptOne(s) ==
    /\ cpc = "accept"
    /\ conn[s] = "queued"
    /\ conn' = [conn EXCEPT ![s] = "open"]
    /\ UNCHANGED <<loaderVars, wire, arrived, clientVars>>

AcceptFails ==
    /\ "accept" \in Faults
    /\ cpc = "accept"
    /\ Return("error")
    /\ UNCHANGED <<netVars, watched, fdLeft, batch, current, stamps>>

Connected == \A s \in Socks : conn[s] = "open"

\* All are there: put them into the selector and take the first stamp.  What
\* has arrived by then is reported by the first wait.
AcceptEnds ==
    /\ cpc = "accept"
    /\ Connected
    /\ watched' = Socks
    /\ stamps' = FirstStamp
    /\ cpc' = "head"
    /\ UNCHANGED <<netVars, fdLeft, batch, current, rc>>

-----------------------------------------------------------------------------
(* The loop. *)

\* With >= for > in the loop's condition, and with one connection forgotten.
OneMore == fdLeft >= 0
OneLess == fdLeft > 1

\* while(fd_left > 0)
MoreLeft == fdLeft > 0

\* The head of the loop; test_done after it.
Head ==
    /\ cpc = "head"
    /\ IF MoreLeft
       THEN cpc' = "wait" /\ UNCHANGED <<stamps, rc>>
       ELSE stamps' = stamps + 1 /\ Return("ok")
    /\ UNCHANGED <<netVars, watched, fdLeft, batch, current>>

\* The events poll and epoll report of s: error or hang-up after a reset,
\* else input when there is data or the end of the stream.
Flag(s) ==
    IF peer[s] = "reset" THEN "err"
    ELSE IF rx[s] > 0 \/ peer[s] = "fin" THEN "in" ELSE "none"

\* With edge-triggered events: only sockets on which something arrived.
Reportable ==
    {s \in watched : Flag(s) # "none" /\ (EdgeTriggered => s \in news)}

WaitReturns ==
    /\ cpc = "wait"
    /\ Reportable # {}
    /\ batch' = {<<s, Flag(s)>> : s \in Reportable}
    /\ news' = {}
    /\ cpc' = "next"
    /\ UNCHANGED <<loaderVars, wire, rx, peer, conn, watched, fdLeft, current,
                   stamps, rc>>

WaitFails ==
    /\ "wait" \in Faults
    /\ cpc = "wait"
    /\ Return("error")
    /\ UNCHANGED <<netVars, watched, fdLeft, batch, current, stamps>>

\* With the socket left in the selector.
RemoveCountOnly(s) ==
    /\ fdLeft' = fdLeft - 1
    /\ UNCHANGED watched

\* remove_current_ready and --fd_left; selector_test closes the socket too.
Remove(s) ==
    /\ watched' = watched \ {s}
    /\ fdLeft' = fdLeft - 1

\* client.cpp gives a connection with POLLHUP or POLLERR up unread;
\* selector_test reads whatever the event was.
GivesUp(flag) == flag = "err" /\ Client # "selector"

\* The next event of the batch.
Next1(s, flag) ==
    /\ cpc = "next"
    /\ <<s, flag>> \in batch
    /\ batch' = batch \ {<<s, flag>>}
    /\ IF GivesUp(flag)
       THEN Remove(s) /\ UNCHANGED <<cpc, current>>
       ELSE cpc' = "recv" /\ current' = s /\ UNCHANGED <<watched, fdLeft>>
    /\ UNCHANGED <<netVars, stamps, rc>>

\* With the last event of a batch left out.
BatchDoneEarly == Cardinality(batch) < 2

BatchDone == batch = {}

NextEnds ==
    /\ cpc = "next"
    /\ BatchDone
    /\ batch' = {}
    /\ cpc' = "head"
    /\ UNCHANGED <<netVars, watched, fdLeft, current, stamps, rc>>

Taken(s) == IF rx[s] > MsgLen THEN MsgLen ELSE rx[s]

\* recv of at most one message.  On a socket with neither data nor an end
\* client.cpp would block here, selector_test raise an exception.
Recv(s) ==
    /\ cpc = "recv" /\ current = s
    /\ rx[s] > 0 \/ peer[s] # "open"
    /\ rx' = [rx EXCEPT ![s] = @ - Taken(s)]
    /\ \/ /\ Taken(s) = MsgLen
          /\ cpc' = "write"
          /\ UNCHANGED <<watched, fdLeft, current, rc>>
       \/ /\ Taken(s) < MsgLen
          /\ current' = None
          /\ IF Taken(s) > 0 /\ Client = "selector"
             THEN Return("error") /\ UNCHANGED <<watched, fdLeft>>    \* RuntimeError
             ELSE Remove(s) /\ cpc' = "next" /\ UNCHANGED rc
    /\ UNCHANGED <<loaderVars, wire, peer, news, conn, batch, stamps>>

\* With another recv after the answer, as edge-triggered loops do.
AfterAnswerReadOn == "recv"

AfterAnswer == "next"

\* write of the answer.
Write(s) ==
    /\ cpc = "write" /\ current = s
    /\ IF peer[s] = "reset"
       THEN Remove(s) /\ cpc' = "next" /\ current' = None /\ UNCHANGED wire
       ELSE /\ answered' = [answered EXCEPT ![s] = TRUE]
            /\ UNCHANGED <<coming, ending, watched, fdLeft>>
            /\ cpc' = AfterAnswer
            /\ current' = IF AfterAnswer = "recv" THEN s ELSE None
    /\ UNCHANGED <<loaderVars, arrived, conn, batch, stamps, rc>>

-----------------------------------------------------------------------------
Loop ==
    \/ Bind \/ AcceptEnds \/ Head \/ WaitReturns \/ NextEnds
    \/ \E s \in Socks :
        \/ AcceptOne(s) \/ Recv(s) \/ Write(s)
        \/ \E flag \in {"in", "err"} : Next1(s, flag)

\* The loader connects only to a client that listens.
Loader ==
    /\ \/ \E s \in Socks : Net(s) /\ (loader[s] = "none" => cpc = "accept")
       \/ End /\ cpc # "bind"
    /\ UNCHANGED clientVars

Fails == BindFails \/ AcceptFails \/ WaitFails

Next == Loop \/ Fails \/ Loader

Spec == Init /\ [][Next]_vars

\* The client is scheduled; the loader connects, ends its run and closes, and
\* what was sent arrives.  (All of it is finitely many steps, so one weak
\* fairness condition is enough.)  No call has to fail.  (A loader that hangs
\* in run_test ends nothing: RunTest.)
FairSpec == Spec /\ WF_vars(Loop) /\ WF_vars(Loader)

-----------------------------------------------------------------------------
(* Properties. *)

TypeOK ==
    /\ NetTypeOK
    /\ cpc \in CPCs
    /\ watched \subseteq Socks
    /\ fdLeft \in Nat
    /\ batch \subseteq Socks \X {"in", "err"}
    /\ current \in Socks \cup {None}
    /\ stamps \in 0..2
    /\ rc \in {"none", "ok", "error"}

\* fd_left counts the sockets in the selector: none is given up twice, by an
\* error and by the end of its stream, and none is forgotten.  (Without any
\* connection, after a bind that failed, it counts what was asked for.)
FdLeftIsWatched ==
    cpc \notin {"bind", "accept", "returned"} =>
        IF Connected THEN fdLeft = Cardinality(watched) ELSE watched = {}

\* The sockets of client.cpp block: a recv with nothing to receive would stop
\* every other connection.  It is called only with data or an end to report,
\* although the event it acts on may be old by then.
RecvNeverBlocks ==
    cpc = "recv" => rx[current] > 0 \/ peer[current] # "open"

\* The second stamp, the end of what get_run_stats measures, is taken only
\* when the loader's run is over and every connection was seen to end.
MeasuresToTheEnd ==
    MsgLen = 1 /\ stamps = 2 => ended /\ \A s \in Socks : peer[s] # "open"

\* No answer is written outside of the interval between the stamps.
AnswersAreMeasured ==
    [][\A s \in Socks : answered[s]' /\ ~answered[s] => stamps = 1]_vars

\* The two ways in which client.cpp waits for ever: in an empty selector
\* after a bind that failed, and in accept for a loader that gave up.
Hangs == ("bind" \in Faults /\ Client # "selector") \/ "giveup" \in Faults

\* But for these the client returns when the loader's run is over: no end of a
\* connection is missed, not even one that comes together with the last
\* message and is announced by one edge with it.
ClientReturns == ~Hangs => <>(cpc = "returned")

\* A message that has arrived is read, although its edge comes only once and
\* the end of its connection may come with it; only a reset may lose it.
MessageIsRead ==
    \A s \in Socks :
        rx[s] = MsgLen /\ s \in watched
            ~> rx[s] = 0 \/ peer[s] = "reset" \/ cpc = "returned"
=============================================================================
