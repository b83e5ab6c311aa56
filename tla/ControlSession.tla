--------------------------- MODULE ControlSession ---------------------------
(***************************************************************************)
(* Rounds of tests of several clients with one loader: main and            *)
(* get_run_stats of main.py, which open a control connection for every     *)
(* round, and main_loop_thread and process_client of server.cpp, which     *)
(* serve one control connection after the other.  A round's test           *)
(* connections go to the listening socket of its client, which has the     *)
(* same address in every round.  That the two agree about it is            *)
(* TestRounds, which this module implements.                               *)
(*                                                                         *)
(* Left out: the exchange of messages (EchoSelect, EchoThreads,            *)
(* PingWorker, RunTest), but for the first write, which may keep the       *)
(* loader for ever.  A request is one segment, a result may be more.  An   *)
(* accept that fails is repeated: it changes nothing.                      *)
(***************************************************************************)
EXTENDS Options, FiniteSets, Sequences

CONSTANTS
    Clients,        \* runs of main.py, with one address to listen at each
    Rounds,         \* rounds of a client, over all of its tests
    RespLen,        \* segments of a result
    ListenQueue,    \* the argument of the loader's listen: 3
    Setups          \* see setup

ASSUME ClientsAssumption == Clients # {}
ASSUME RoundsAssumption == Rounds \in Nat \ {0}
ASSUME RespLenAssumption == RespLen \in Nat \ {0}
ASSUME ListenQueueAssumption == ListenQueue \in Nat

\* A session is the control connection of a round.
Sessions == Clients \X (1..Rounds)

\* See setup.
Unusual == {"client", "slow", "once", "connect", "write"}

ASSUME SetupsAssumption ==
    \A s \in Setups : /\ s.faults \subseteq Unusual
                      /\ s.few \subseteq Sessions
                      /\ s.opts \in [Clients -> OptionRecords]

VARIABLES
    setup,      \* now as ever: the options of each client (opts); the rounds
                \* whose result has fewer messages than get_lats asks for (few);
                \* and what is out of the ordinary (faults): "client": the
                \* function of a test raises, the program dies, or a bind that
                \* failed is taken for success; "slow": the loader waits in vain
                \* for a request; "once": it was started with -s; "connect": it
                \* is out of sockets or selectors, or its wait for a handshake
                \* ends too early; "write": a first message cannot be written
    cpc,        \* each client: see CPCs
    round,      \* its round
    links,      \* the test connections of its round, <<session, number>>
    recorded,   \* what is in results_struct: "none", "ok" or "err"
    spc,        \* the loader: see SPCs
    serving,    \* the session it serves
    queue,      \* control connections it has not accepted
    opened,     \* test connections it has made in this session
    over,       \* sessions whose test connections it has closed
    closed,     \* sessions whose control connection it has closed
    request,    \* sessions whose request was sent
    left,       \* sessions whose control connection the client has closed
    coming,     \* segments of a result on their way
    got         \* segments of a result at the client

clientVars == <<cpc, round, links, recorded, request, left>>
serverVars == <<spc, serving, opened, over, closed>>
vars == <<setup, clientVars, serverVars, queue, coming, got>>

\* "hung": in an empty selector.  "stuck": in the joins of run_test.
CPCs == {"connect", "prepare", "accept", "test", "recv", "done", "hung"}
SPCs == {"accept", "poll", "connect", "run", "stuck", "write", "gone"}

Current(c) == <<c, round[c]>>
Count(c) == setup.opts[c].count
Waiting == {queue[i] : i \in DOMAIN queue}
Active == IF spc \in {"accept", "gone"} THEN {} ELSE {serving}

\* A client whose options main rejects ends before its first round.
Init ==
    /\ setup \in Setups
    /\ cpc = [c \in Clients |-> IF Accepted(setup.opts[c]) THEN "connect" ELSE "done"]
    /\ round = [c \in Clients |-> 1]
    /\ links = [c \in Clients |-> {}]
    /\ recorded = [s \in Sessions |-> "none"]
    /\ spc = "accept"
    /\ serving = CHOOSE s \in Sessions : TRUE
    /\ queue = <<>>
    /\ opened = 0
    /\ over = {} /\ closed = {} /\ request = {} /\ left = {}
    /\ coming = [s \in Sessions |-> 0]
    /\ got = [s \in Sessions |-> 0]

-----------------------------------------------------------------------------
(* The client. *)

Goto(c, pc) == cpc' = [cpc EXCEPT ![c] = pc]

\* The round is recorded, its sockets are closed, the next one is begun.
EndRound(c, how) ==
    /\ recorded' = [recorded EXCEPT ![Current(c)] = how]
    /\ left' = left \cup {Current(c)}
    /\ links' = [links EXCEPT ![c] = {}]
    /\ IF round[c] < Rounds
       THEN round' = [round EXCEPT ![c] = @ + 1] /\ Goto(c, "connect")
       ELSE Goto(c, "done") /\ UNCHANGED round

\* s.connect(params.loader_addr), which the loader's listen queue may delay.
ConnectControl(c) ==
    /\ cpc[c] = "connect"
    /\ spc # "gone"
    /\ Len(queue) <= ListenQueue
    /\ queue' = Append(queue, Current(c))
    /\ Goto(c, "prepare")
    /\ UNCHANGED <<setup, round, links, recorded, request, left, serverVars, coming, got>>

\* Nobody listens any more.
ConnectRefused(c) ==
    /\ cpc[c] = "connect"
    /\ spc = "gone"
    /\ EndRound(c, "err")
    /\ UNCHANGED <<setup, request, serverVars, queue, coming, got>>

\* The client listens for the test connections and sends its request.
ReadyToConnect(c) ==
    /\ cpc[c] = "prepare"
    /\ request' = request \cup {Current(c)}
    /\ Goto(c, "accept")
    /\ UNCHANGED <<setup, round, links, recorded, left, serverVars, queue, coming, got>>

\* The loader has closed the connection; send may or may not notice.
SendFails(c) ==
    /\ cpc[c] = "prepare"
    /\ Current(c) \in closed
    /\ EndRound(c, "err")
    /\ UNCHANGED <<setup, request, serverVars, queue, coming, got>>

\* All are accepted; the listening socket is closed.
AcceptEnds(c) ==
    /\ cpc[c] = "accept"
    /\ Cardinality(links[c]) = Count(c)
    /\ Goto(c, "test")
    /\ UNCHANGED <<setup, round, links, recorded, request, left, serverVars, queue,
                   coming, got>>

\* func returns when every test connection has ended.
TestEnds(c) ==
    /\ cpc[c] = "test"
    /\ \A link \in links[c] : link[1] \in over
    /\ Goto(c, "recv")
    /\ UNCHANGED <<setup, round, links, recorded, request, left, serverVars, queue,
                   coming, got>>

\* With a result taken for granted.
ReadableAtOnce(s) == TRUE

\* A recv has something to return: data, or the end of the stream.
Readable(s) == got[s] > 0 \/ (s \in closed /\ coming[s] = 0)

\* Less than all of a result does not parse.  get_lats compares counts of
\* messages with a sum of something else: with few of them lat_50 or lat_95
\* stays None, which ns_to_readable cannot write.
Reports(s) == got[s] = RespLen /\ s \notin setup.few

\* The one recv of the result, and what main makes of it.
RecvResult(c) ==
    /\ cpc[c] = "recv"
    /\ Readable(Current(c))
    /\ EndRound(c, IF Reports(Current(c)) THEN "ok" ELSE "err")
    /\ UNCHANGED <<setup, request, serverVars, queue, coming, got>>

\* An exception in the function of the test; the sockets are closed.
FuncRaises(c) ==
    /\ "client" \in setup.faults
    /\ cpc[c] \in {"prepare", "accept", "test"}
    /\ EndRound(c, "err")
    /\ UNCHANGED <<setup, request, serverVars, queue, coming, got>>

\* client.cpp takes a bind that failed for success and does not send the
\* request: run_test_th returns, run_test waits in an empty selector.
BindIgnored(c) ==
    /\ "client" \in setup.faults
    /\ cpc[c] = "prepare"
    /\ Goto(c, "recv") \/ Goto(c, "hung")
    /\ UNCHANGED <<setup, round, links, recorded, request, left, serverVars, queue,
                   coming, got>>

\* The client's process dies, by an abort in client.cpp or from outside.
Dies(c) ==
    /\ "client" \in setup.faults
    /\ cpc[c] # "done"
    /\ Goto(c, "done")
    /\ links' = [links EXCEPT ![c] = {}]
    /\ left' = left \cup {Current(c)}
    /\ UNCHANGED <<setup, round, recorded, request, serverVars, queue, coming, got>>

-----------------------------------------------------------------------------
(* The loader. *)

AcceptControl ==
    /\ spc = "accept"
    /\ queue # <<>>
    /\ serving' = Head(queue)
    /\ queue' = Tail(queue)
    /\ opened' = 0
    /\ spc' = "poll"
    /\ UNCHANGED <<setup, clientVars, over, closed, coming, got>>

\* The loader's process ends: by itself with -s, or by a division by zero.  The
\* kernel closes all it had, the connections it had not accepted as well.
ProcessEnds ==
    /\ over' = over \cup {serving}
    /\ closed' = closed \cup {serving} \cup Waiting
    /\ queue' = <<>>
    /\ spc' = "gone"
    /\ UNCHANGED <<serving, opened>>

\* With the control connection left open.
EndSessionUnclosed ==
    /\ over' = over \cup {serving}
    /\ spc' = "accept"
    /\ UNCHANGED <<serving, opened, closed, queue>>

\* process_client returns: ~FDList and ~FDCloser.  The loop goes on but for -s.
EndSession ==
    IF "once" \in setup.faults
    THEN ProcessEnds
    ELSE /\ over' = over \cup {serving}
         /\ closed' = closed \cup {serving}
         /\ spc' = "accept"
         /\ UNCHANGED <<serving, opened, queue>>

\* A recv of process_client finds the request.
GetRequest ==
    /\ spc = "poll"
    /\ serving \in request
    /\ LoadFromStr(Request(setup.opts[serving[1]]))
    /\ spc' = "connect"
    /\ UNCHANGED <<setup, clientVars, serving, queue, opened, over, closed, coming, got>>

RefuseRequest ==
    /\ spc = "poll"
    /\ serving \in request
    /\ ~LoadFromStr(Request(setup.opts[serving[1]]))
    /\ EndSession
    /\ UNCHANGED <<setup, clientVars, coming, got>>

\* With a server that polls until there is something.
NoPatience == FALSE

Preparing(s) == cpc[s[1]] = "prepare" /\ Current(s[1]) = s

\* All the polls, 51 of them, came back without data: nobody is about to send
\* a request any more, or he is slow.
PollsOver == "slow" \in setup.faults \/ ~Preparing(serving)

\* `Client communication timeout'
RequestTimesOut ==
    /\ spc = "poll"
    /\ serving \notin request
    /\ PollsOver
    /\ EndSession
    /\ UNCHANGED <<setup, clientVars, coming, got>>

\* With a run that starts one connection too early.
OneShort == opened + 1 >= Count(serving[1])

MoreToLink == opened < Count(serving[1])
AllLinked == opened = Count(serving[1])

\* Whoever listens at the client's address takes the connection, up to the
\* number he accepts; one more may be left in his queue.
Link ==
    /\ spc = "connect"
    /\ MoreToLink
    /\ LET c == serving[1] IN
        /\ cpc[c] = "accept"
        /\ opened' = opened + 1
        /\ links' = [links EXCEPT ![c] =
                        IF Cardinality(@) < Count(c)
                        THEN @ \cup {<<serving, opened'>>} ELSE @]
    /\ UNCHANGED <<setup, cpc, round, recorded, request, left, spc, serving,
                   over, closed, queue, coming, got>>

\* Nobody listens: connect_all fails.
LinkRefused ==
    /\ spc = "connect"
    /\ MoreToLink
    /\ cpc[serving[1]] # "accept"
    /\ EndSession
    /\ UNCHANGED <<setup, clientVars, coming, got>>

\* connect_all fails or run_test's selectors do, whatever the client does.
ConnectFails ==
    /\ "connect" \in setup.faults
    /\ spc = "connect"
    /\ EndSession
    /\ UNCHANGED <<setup, clientVars, coming, got>>

\* num_conn / worker_threads, with a worker for no more than each connection.
StartRun ==
    /\ spc = "connect"
    /\ AllLinked
    /\ IF Count(serving[1]) = 0
       THEN ProcessEnds
       ELSE spc' = "run" /\ UNCHANGED <<serving, queue, opened, over, closed>>
    /\ UNCHANGED <<setup, clientVars, coming, got>>

\* run_test returns: its sockets are closed.  Then mcount / runtime is printed.
RunEnds ==
    /\ spc = "run"
    /\ IF setup.opts[serving[1]].runtime = 0
       THEN ProcessEnds
       ELSE /\ spc' = "write"
            /\ over' = over \cup {serving}
            /\ UNCHANGED <<serving, queue, opened, closed>>
    /\ UNCHANGED <<setup, clientVars, coming, got>>

\* The first write to a connection fails, as it does when the client has reset
\* it: run_test joins workers that wait for a mutex it holds.
RunHangs ==
    /\ spc = "run"
    /\ serving \in left \/ "write" \in setup.faults
    /\ spc' = "stuck"
    /\ UNCHANGED <<setup, clientVars, serving, queue, opened, over, closed, coming, got>>

\* The result, and the end of the session; also to a client that has left.
WriteResult ==
    /\ spc = "write"
    /\ coming' = [coming EXCEPT ![serving] = RespLen]
    /\ EndSession
    /\ UNCHANGED <<setup, clientVars, got>>

\* TCP brings a part of a result to a client that is still there.
DeliverResult(s) ==
    /\ s \notin left
    /\ \E n \in 1..coming[s] :
        /\ coming' = [coming EXCEPT ![s] = @ - n]
        /\ got' = [got EXCEPT ![s] = @ + n]
    /\ UNCHANGED <<setup, clientVars, serverVars, queue>>

-----------------------------------------------------------------------------
\* What the client does by itself; that a call fails is not asked for.
Client(c) ==
    \/ ConnectControl(c) \/ ConnectRefused(c) \/ ReadyToConnect(c)
    \/ AcceptEnds(c) \/ TestEnds(c) \/ RecvResult(c)

Server ==
    \/ AcceptControl \/ GetRequest \/ RefuseRequest \/ RequestTimesOut
    \/ Link \/ LinkRefused \/ StartRun \/ RunEnds \/ WriteResult

Next ==
    \/ Server \/ ConnectFails \/ RunHangs
    \/ \E c \in Clients :
        Client(c) \/ SendFails(c) \/ FuncRaises(c) \/ BindIgnored(c) \/ Dies(c)
    \/ \E s \in Sessions : DeliverResult(s)

Spec == Init /\ [][Next]_vars

\* The loader and the clients are processes of their own; TCP delivers.
FairSpec ==
    /\ Spec
    /\ WF_vars(Server)
    /\ \A c \in Clients : WF_vars(Client(c))
    /\ \A s \in Sessions : WF_vars(DeliverResult(s))

-----------------------------------------------------------------------------
(* Properties. *)

TypeOK ==
    /\ setup \in Setups
    /\ cpc \in [Clients -> CPCs]
    /\ round \in [Clients -> 1..Rounds]
    /\ links \in [Clients -> SUBSET (Sessions \X Nat)]
    /\ recorded \in [Sessions -> {"none", "ok", "err"}]
    /\ spc \in SPCs
    /\ serving \in Sessions
    /\ queue \in Seq(Sessions)
    /\ opened \in 0..Count(serving[1])
    /\ over \subseteq Sessions /\ closed \subseteq Sessions
    /\ request \subseteq Sessions /\ left \subseteq Sessions
    /\ coming \in [Sessions -> 0..RespLen]
    /\ got \in [Sessions -> 0..RespLen]

Up == spc # "gone"
Asked == Waiting \cup closed \cup Active
Answered == {s \in Sessions : coming[s] + got[s] > 0}

Promise == INSTANCE TestRounds WITH
    up <- Up, asked <- Asked, serving <- Active, finished <- closed,
    answered <- Answered, verdict <- recorded

\* The loader and its clients keep what TestRounds says, in whatever order
\* clients come, fail and go: every control connection is served at most once
\* and by itself, and a round recorded with a result had a result of its own.
ImplementsRounds == Promise!Spec

\* When nothing fails a round is recorded with its result, unless the one recv
\* got a part of it only, or the result is of too few messages for get_lats.
NothingFails ==
    /\ setup.faults = {}
    /\ \A c \in Clients :
        Accepted(setup.opts[c]) => Count(c) > 0 /\ setup.opts[c].runtime > 0
RoundsSucceed ==
    NothingFails =>
        \A s \in Sessions :
            recorded[s] = "err" => s \in setup.few \/ got[s] \in 1..(RespLen - 1)

\* What a client may be left alone with, for good: the loader lost its patience
\* before the request came, could not connect or gave a handshake up, is gone,
\* or refused a pause below zero.
Negative(o) == o.timeout < 0 \/ (o.min # Absent /\ o.min < 0)
Forsaken(c) ==
    setup.faults \cap {"slow", "connect"} # {} \/ spc = "gone" \/ Negative(setup.opts[c])

\* A client accepts with its session over and connections missing.
Alone(c) ==
    cpc[c] = "accept" /\ Current(c) \in closed /\ Cardinality(links[c]) < Count(c)

\* A request that main lets pass is one the loader accepts and comes to an end
\* with: nobody is left waiting for connections that will not come, whoever
\* else fails, but for the reasons given.
AcceptedIsServed == \A c \in Clients : Alone(c) => Forsaken(c)

\* The loader comes back to its accept, or ends, whatever a client does, but
\* for one thing: with a client that has left before the first messages were
\* written, or when a write fails for another reason, it is stuck in run_test.
LoaderIsFreed ==
    spc # "accept" ~>
        \/ spc \in {"accept", "gone"}
        \/ spc = "stuck" /\ (serving \in left \/ "write" \in setup.faults)

\* Every client comes to the end of its rounds, however many of them fail, his
\* or those of another client, unless it is left alone, or waits for nothing
\* after a bind that failed.  When the loader is stuck the others wait with it.
EveryRoundEnds ==
    <>[](\/ spc = "stuck"
         \/ \A c \in Clients : cpc[c] \in {"done", "hung"} \/ (Alone(c) /\ Forsaken(c)))
=============================================================================
