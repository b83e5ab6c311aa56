---------------------------- MODULE EchoThreads -----------------------------
(***************************************************************************)
(* The echoing clients with a worker for each connection: run_test_th of   *)
(* client.cpp, thread_test, gevent_test, asyncio_sock_test, asyncio_test   *)
(* and asyncio_proto_test of main.py, and client.go.  They differ in when  *)
(* a worker starts, when the first stamp is taken, what a partial message  *)
(* does and how the main thread waits for the end.                         *)
(*                                                                         *)
(* Grain: a step is what a thread does up to its next system call on a     *)
(* socket.                                                                 *)
(***************************************************************************)
EXTENDS EchoNet

Clients == {"cpp_th", "thread", "gevent", "asyncio_sock", "asyncio",
            "asyncio_proto", "go"}

\* The two that listen until a connection ends.
IsServer == Client \in {"asyncio", "asyncio_proto"}

\* Of the client's calls bind (or socket) and accept may fail.
ASSUME ThreadsSetupsAssumption ==
    Setups \subseteq [client: Clients, parts: Nat \ {0},
                      faults: SUBSET {"giveup", "reset", "bind", "accept"}]

VARIABLES
    mpc,        \* the main thread: "listen", "accept", "yield" (gevent only,
                \* waiting in accept), "join" or "returned"
    wpc,        \* the workers: "none", "recv", "write", "raised" or "gone"
    stamps,     \* calls of before_test and after_test so far
    rc          \* "none", "ok", "error" or, when the process died, "abort"

clientVars == <<mpc, wpc, stamps, rc>>
vars == <<netVars, clientVars>>

Accepted == {s \in Socks : conn[s] = "open"}

Init ==
    /\ NetInit
    /\ mpc = "listen"
    /\ wpc = [s \in Socks |-> "none"]
    /\ stamps = 0
    /\ rc = "none"

Return(value) ==
    /\ mpc' = "returned"
    /\ rc' = value

-----------------------------------------------------------------------------
(* The main thread. *)

\* bind, listen and the call that has the loader connect.
Listen ==
    /\ mpc = "listen"
    /\ mpc' = "accept"
    /\ UNCHANGED <<netVars, wpc, stamps, rc>>

\* `return 1' in a function whose true means success: run_test_th goes on with
\* no connection, without having told the loader to connect, takes both stamps
\* and returns 0.  It returns 1 when there is no socket to bind, a Python
\* client raises; client.go starts a worker on no connection.
BindFails ==
    /\ "bind" \in Faults
    /\ mpc = "listen"
    /\ \/ Client = "cpp_th" /\ mpc' = "join" /\ stamps' = 1 /\ UNCHANGED rc
       \/ Return(IF Client = "go" THEN "abort" ELSE "error") /\ UNCHANGED stamps
    /\ UNCHANGED <<netVars, wpc>>

\* thread_test takes its first stamp while the last connections, those that
\* fit into the queue, are still to be accepted.
StampDue ==
    /\ Client = "thread"
    /\ stamps = 0
    /\ Cardinality(Accepted) >= Cardinality(Socks) - Backlog - 1

StampEarly ==
    /\ mpc = "accept"
    /\ StampDue
    /\ Accepted # Socks
    /\ stamps' = 1
    /\ UNCHANGED <<netVars, mpc, wpc, rc>>

\* The tasks of asyncio_sock_test start when all connections are there.
FirstState == IF Client = "asyncio_sock" THEN "none" ELSE "recv"

\* accept, and the start of the worker.
AcceptOne(s) ==
    /\ mpc \in {"accept", "yield"}
    /\ ~StampDue
    /\ conn[s] = "queued"
    /\ conn' = [conn EXCEPT ![s] = "open"]
    /\ wpc' = [wpc EXCEPT ![s] = FirstState]
    /\ mpc' = "accept"
    /\ UNCHANGED <<loaderVars, wire, arrived, stamps, rc>>

\* gevent's accept lets the greenlets run while there is nothing to accept.
AcceptYields ==
    /\ Client = "gevent"
    /\ mpc = "accept"
    /\ Queued = {} /\ Accepted # Socks
    /\ mpc' = "yield"
    /\ UNCHANGED <<netVars, wpc, stamps, rc>>

\* run_test_th returns 1 and with that destroys a vector of threads nobody
\* joined; client.go starts a worker on no connection.
AcceptAborts == Client = "go" \/ (Client = "cpp_th" /\ Accepted # {})

AcceptFails ==
    /\ "accept" \in Faults
    /\ mpc = "accept"
    /\ ~IsServer
    /\ Return(IF AcceptAborts THEN "abort" ELSE "error")
    /\ UNCHANGED <<netVars, wpc, stamps>>

\* With a call forgotten.
NoStamp == stamps

\* before_test, unless it was called already.
StampOnce == IF stamps = 0 THEN 1 ELSE stamps

\* All are accepted.
AcceptEnds ==
    /\ mpc = "accept"
    /\ ~IsServer
    /\ Accepted = Socks
    /\ stamps' = StampOnce
    /\ wpc' = IF Client = "asyncio_sock" THEN [s \in Socks |-> "recv"] ELSE wpc
    /\ mpc' = "join"
    /\ UNCHANGED <<netVars, rc>>

Finished(s) == wpc[s] \in {"gone", "raised"}

\* With a join that forgets one worker.
AllButOneJoined == Cardinality({s \in Accepted : ~Finished(s)}) < 2

\* join of every thread, joinall, gather, wait_closed, config.Wait
AllJoined == \A s \in Accepted : Finished(s)

\* after_test and the end.  gather passes a task's exception on.
Join ==
    /\ mpc = "join"
    /\ AllJoined
    /\ Client = "asyncio_sock" => \A s \in Accepted : wpc[s] = "gone"
    /\ stamps' = stamps + 1
    /\ Return("ok")
    /\ UNCHANGED <<netVars, wpc>>

GatherRaises ==
    /\ mpc = "join"
    /\ Client = "asyncio_sock"
    /\ \E s \in Accepted : wpc[s] = "raised"
    /\ Return("error")
    /\ UNCHANGED <<netVars, wpc, stamps>>

-----------------------------------------------------------------------------
(* The workers. *)

\* A greenlet or a coroutine runs while the main one waits, a thread at any
\* time until the process is gone.
MayRun ==
    CASE Client = "gevent" -> mpc \in {"yield", "join"}
      [] Client = "asyncio_sock" -> mpc = "join"
      [] IsServer -> mpc \in {"accept", "join"}
      [] OTHER -> rc # "abort"

\* With the server left open.
EndsAlone(s, how) ==
    /\ wpc' = [wpc EXCEPT ![s] = how]
    /\ UNCHANGED mpc

\* The first worker that ends closes the server.
Ends(s, how) ==
    /\ wpc' = [wpc EXCEPT ![s] = how]
    /\ mpc' = IF IsServer /\ mpc = "accept" THEN "join" ELSE mpc

\* What a read that reported no error leads to.  In client.go always to a
\* panic: `err.(*net.OpError)' holds neither for nil nor for io.EOF.
Goes(s, how) ==
    IF Client = "go"
    THEN Return("abort") /\ UNCHANGED wpc
    ELSE Ends(s, how) /\ UNCHANGED rc

\* A server takes the first stamp when its first read is over.
ReadStamp == IF IsServer THEN StampOnce ELSE stamps

\* The read reports a reset.  A stream does so without giving its data out.
RecvReset(s) ==
    /\ MayRun
    /\ wpc[s] = "recv"
    /\ peer[s] = "reset"
    /\ rx[s] = 0 \/ Client = "asyncio"
    /\ Ends(s, "gone")
    /\ UNCHANGED <<netVars, stamps, rc>>

\* The read reports the end of the stream; to a protocol this is not data.
RecvEnd(s) ==
    /\ MayRun
    /\ wpc[s] = "recv"
    /\ peer[s] = "fin" /\ rx[s] = 0
    /\ stamps' = IF Client = "asyncio_proto" THEN stamps ELSE ReadStamp
    /\ Goes(s, "gone")
    /\ UNCHANGED netVars

\* A worker ends with a partial message, by an exception in Python.
RecvPartial(s) ==
    /\ MayRun
    /\ wpc[s] = "recv"
    /\ rx[s] \in 1..(MsgLen - 1)
    /\ rx' = [rx EXCEPT ![s] = 0]
    /\ stamps' = ReadStamp
    /\ Goes(s, IF Client = "cpp_th" THEN "gone" ELSE "raised")
    /\ UNCHANGED <<loaderVars, wire, conn, peer, news>>

Whole(s) == rx[s] >= MsgLen

RecvMessage(s) ==
    /\ MayRun
    /\ wpc[s] = "recv"
    /\ Whole(s)
    /\ rx' = [rx EXCEPT ![s] = @ - MsgLen]
    /\ stamps' = ReadStamp
    /\ IF Client = "go"
       THEN Return("abort") /\ UNCHANGED wpc
       ELSE wpc' = [wpc EXCEPT ![s] = "write"] /\ UNCHANGED <<mpc, rc>>
    /\ UNCHANGED <<loaderVars, wire, conn, peer, news>>

WriteAnswer(s) ==
    /\ MayRun
    /\ wpc[s] = "write"
    /\ peer[s] # "reset"
    /\ wpc' = [wpc EXCEPT ![s] = "recv"]
    /\ answered' = [answered EXCEPT ![s] = TRUE]
    /\ UNCHANGED <<loaderVars, coming, ending, conn, arrived, mpc, stamps, rc>>

WriteFails(s) ==
    /\ MayRun
    /\ wpc[s] = "write"
    /\ peer[s] = "reset"
    /\ Ends(s, "gone")
    /\ UNCHANGED <<netVars, stamps, rc>>

-----------------------------------------------------------------------------
Worker(s) ==
    \/ RecvReset(s) \/ RecvEnd(s) \/ RecvPartial(s) \/ RecvMessage(s)
    \/ WriteAnswer(s) \/ WriteFails(s)

Works ==
    \/ Listen \/ StampEarly \/ AcceptYields \/ AcceptEnds \/ Join \/ GatherRaises
    \/ \E s \in Socks : AcceptOne(s) \/ Worker(s)

\* The loader connects only to a client that listens.
Loader ==
    /\ \/ \E s \in Socks : Net(s) /\ (loader[s] = "none" => mpc \in {"accept", "yield"})
       \/ End /\ mpc # "listen"
    /\ UNCHANGED clientVars

Next == Works \/ BindFails \/ AcceptFails \/ Loader

Spec == Init /\ [][Next]_vars

\* The threads of the client are scheduled; the loader connects, ends its run
\* and closes, and what was sent arrives.  All of it is finitely many steps,
\* so that one weak fairness condition for each side is enough.  No call has to
\* fail.  (A loader that hangs in run_test ends nothing: RunTest.)
FairSpec == Spec /\ WF_vars(Works) /\ WF_vars(Loader)

-----------------------------------------------------------------------------
(* Properties. *)

TypeOK ==
    /\ NetTypeOK
    /\ mpc \in {"listen", "accept", "yield", "join", "returned"}
    /\ wpc \in [Socks -> {"none", "recv", "write", "raised", "gone"}]
    /\ stamps \in 0..2
    /\ rc \in {"none", "ok", "error", "abort"}

\* get_run_stats takes the difference of times[1] and times[0]: a client that
\* returns has taken both stamps, once each, it had all the connections (a
\* server may lose some), no worker is left on one, and the second was taken
\* only when the loader's run was over and every connection that was accepted
\* had ended.  (A message read in part makes a
\* worker leave sooner.  A server whose connections are lost, or closed by a
\* loader that gave up, before anything was read closes without its first
\* stamp.  run_test_th measures nothing at all after a bind that failed.)
NeverRan ==
    Client = "cpp_th" /\ "bind" \in Faults /\ \A s \in Socks : loader[s] = "none"

MeasuresToTheEnd ==
    rc = "ok" =>
        /\ (IsServer /\ Faults \cap {"giveup", "reset"} # {}) \/ stamps = 2
        /\ \A s \in Accepted : Finished(s)
        /\ ~IsServer => Accepted = Socks \/ NeverRan
        /\ MsgLen = 1 => NeverRan \/ (ended /\ \A s \in Accepted : peer[s] # "open")

\* The clients that answer nothing before their first stamp: their tasks start
\* after it, or take it with the first read.
StampsFirst == Client \in {"asyncio_sock", "asyncio", "asyncio_proto"}

\* The messages the loader counts are answered between the two stamps.
AnswersAreMeasured ==
    [][StampsFirst => \A s \in Socks : answered[s]' /\ ~answered[s] => stamps = 1]_vars

\* The client returns when the run of the loader is over, however its workers
\* ended; a server needs one that ends to close it.
ClientReturns == "giveup" \notin Faults => <>(mpc = "returned")
=============================================================================
