----------------------------- MODULE PingWorker -----------------------------
(***************************************************************************)
(* One worker thread of the load generator (server.cpp: worker_thread and  *)
(* ping) over its edge-triggered epoll set (common.cpp: EPollRSelector and *)
(* epoll_wait_ex), with the echoing client (client.cpp: process_message)   *)
(* and the network as its environment, from the moment the start barrier   *)
(* has been passed to the return of the thread.                            *)
(*                                                                         *)
(* Grain: a step is what happens between two points where another actor    *)
(* can be noticed, that is between two reads of `done', two epoll_waits or *)
(* two system calls on a socket.  The clock is read where the code reads   *)
(* it; two adjacent readings are one.                                      *)
(***************************************************************************)
EXTENDS Integers, Sequences, FiniteSets, Bags

CONSTANTS
    Socks,          \* the connections this worker was given
    MsgLen,         \* segments in which a message of message_len bytes arrives
    MinTimeout,     \* timeout_ns_min
    MaxTimeout,     \* timeout_ns_max
    IdleWait,       \* the 100 ms wait when no connection is being paced
    StartTime,      \* the clock when the run starts
    MaxTime,        \* bound: the clock is not advanced past it for its own sake
    MaxMsgs,        \* bound: messages the peer returns on one connection
    Faults          \* what may go wrong: "close", "reset", "write", "epoll"

ASSUME SocksAssumption == IsFiniteSet(Socks)
ASSUME MsgLenAssumption == MsgLen \in Nat \ {0}
\* load_from_str refuses min > max.
ASSUME TimeoutAssumption ==
    MinTimeout \in Nat /\ MaxTimeout \in Nat /\ MinTimeout <= MaxTimeout
ASSUME IdleAssumption == IdleWait \in Nat \ {0}
\* CLOCK_REALTIME counts from 1970 and is far above every timeout.
ASSUME ClockAssumption ==
    /\ StartTime \in Nat /\ StartTime > MaxTimeout
    /\ MaxTime \in Nat /\ StartTime <= MaxTime
ASSUME BoundAssumption == MaxMsgs \in Nat
ASSUME FaultsAssumption == Faults \subseteq {"close", "reset", "write", "epoll"}

VARIABLES
    pc,         \* where the worker is, see PCs
    done,       \* Sync::done, set by run_test
    now,        \* the clock get_fast_time reads
    rx,         \* segments in the receive buffer of each socket
    echo,       \* segments on their way back from the client
    atPeer,     \* the message is at the client, or on its way there
    peer,       \* "open", "shut" (FIN received) or "reset" (RST received)
    armed,      \* sockets with an edge that epoll has not reported yet
    events,     \* sockets of the current batch still to be drained by next()
    readyFds,   \* ready_fds: the sockets to ping in this round, in order
    waitQueue,  \* wait_queue: bag of <<socket, ready_time>>
    deadline,   \* return_time of the running epoll_wait_ex
    currTime,   \* curr_time of the round
    lastTime,   \* last_time_for_socket; Unseen when the map has no entry
    mcount,     \* TestResult::mcount
    latCount,   \* samples in TestResult::lat_map
    messCount   \* TestResult::mess_count_for_sock

net == <<rx, echo, atPeer, peer>>
result == <<mcount, latCount, messCount>>
queues == <<events, readyFds, waitQueue>>
vars == <<pc, done, now, net, armed, queues, deadline, currTime, lastTime, result>>

Unseen == -1
PCs == {"top", "wait", "polled", "expire", "check", "drain", "send", "ping", "exited"}
Waits == {"wait", "polled"}
HasTimeout == MinTimeout # 0 \/ MaxTimeout # 0

Init ==
    /\ pc = "top"
    /\ done = FALSE
    /\ now = StartTime
    /\ rx = [s \in Socks |-> 0]
    /\ echo = [s \in Socks |-> 0]
    /\ atPeer = [s \in Socks |-> TRUE]      \* run_test wrote every first message
    /\ peer = [s \in Socks |-> "open"]
    /\ armed = {}
    /\ events = {}
    /\ readyFds = <<>>
    /\ waitQueue = EmptyBag
    /\ deadline = 0
    /\ currTime = 0
    /\ lastTime = [s \in Socks |-> Unseen]
    /\ mcount = 0
    /\ latCount = 0
    /\ messCount = [s \in Socks |-> 0]

-----------------------------------------------------------------------------
(* The environment: the clock, the main thread, the client and the network. *)

\* Past MaxTime the clock moves only for a worker that waits for it.
Tick ==
    /\ \/ now < MaxTime
       \/ pc \in Waits /\ now < deadline /\ (done \/ DOMAIN waitQueue # {})
    /\ now' = now + 1
    /\ UNCHANGED <<pc, done, net, armed, queues, deadline, currTime, lastTime, result>>

\* run_test: sync.done.store(true)
StopRun ==
    /\ ~done
    /\ done' = TRUE
    /\ UNCHANGED <<pc, now, net, armed, queues, deadline, currTime, lastTime, result>>

\* process_message: the client reads one message and writes one back.
ClientEcho(s) ==
    /\ peer[s] = "open"
    /\ atPeer[s]
    /\ messCount[s] < MaxMsgs
    /\ atPeer' = [atPeer EXCEPT ![s] = FALSE]
    /\ echo' = [echo EXCEPT ![s] = MsgLen]
    /\ UNCHANGED <<pc, done, now, rx, peer, armed, queues, deadline, currTime,
                   lastTime, result>>

\* Some segments arrive together: one edge for epoll.
Deliver(s) ==
    /\ \E n \in 1..echo[s] :
        /\ echo' = [echo EXCEPT ![s] = @ - n]
        /\ rx' = [rx EXCEPT ![s] = @ + n]
    /\ armed' = armed \cup {s}
    /\ UNCHANGED <<pc, done, now, atPeer, peer, queues, deadline, currTime,
                   lastTime, result>>

\* The client closes after all it sent has arrived.
ClientClose(s) ==
    /\ "close" \in Faults
    /\ peer[s] = "open"
    /\ echo[s] = 0
    /\ peer' = [peer EXCEPT ![s] = "shut"]
    /\ atPeer' = [atPeer EXCEPT ![s] = FALSE]
    /\ armed' = armed \cup {s}
    /\ UNCHANGED <<pc, done, now, rx, echo, queues, deadline, currTime,
                   lastTime, result>>

\* A reset: what is on its way back is lost; what has arrived can still be
\* read, but not answered.
ClientReset(s) ==
    /\ "reset" \in Faults
    /\ peer[s] # "reset"
    /\ peer' = [peer EXCEPT ![s] = "reset"]
    /\ atPeer' = [atPeer EXCEPT ![s] = FALSE]
    /\ echo' = [echo EXCEPT ![s] = 0]
    /\ armed' = armed \cup {s}
    /\ UNCHANGED <<pc, done, now, rx, queues, deadline, currTime, lastTime, result>>

-----------------------------------------------------------------------------
(* The worker. *)

Later(a, b) == IF a < b THEN b ELSE a

\* With operator< of FdTimout turned round.
TopReversed ==
    {e \in DOMAIN waitQueue : \A f \in DOMAIN waitQueue : f[2] <= e[2]}

\* wait_queue.top(): an entry with the least ready_time.
Top == {e \in DOMAIN waitQueue : \A f \in DOMAIN waitQueue : e[2] <= f[2]}

\* When this round's wait gives up: at the first ready_time, or after IdleWait.
RoundDeadlines ==
    IF DOMAIN waitQueue = {} THEN {now + IdleWait}
    ELSE {Later(e[2], now) : e \in Top}

\* ready_fds.clear(), and how long to wait.
LoopTop ==
    /\ pc = "top"
    /\ readyFds' = <<>>
    /\ deadline' \in RoundDeadlines
    /\ pc' = "wait"
    /\ UNCHANGED <<done, now, net, armed, events, waitQueue, currTime, lastTime, result>>

\* epoll_wait looks again at each socket that had an edge.
Reportable == {s \in armed : rx[s] > 0 \/ peer[s] # "open"}

AfterWait == IF DOMAIN waitQueue = {} THEN "check" ELSE "expire"

\* Without EPOLLET a socket with unread data is reported again.
StillArmedByLevel(batch) == batch

\* EPOLLET: what was reported, or had nothing to report, waits for a new edge.
StillArmed(batch) == {}

\* With the clock read before the wait only.
RoundTimeStale == currTime

\* curr_time is read after the wait.
RoundTime == now

WaitReturns(batch) ==
    /\ events' = batch
    /\ currTime' = RoundTime
    /\ pc' = AfterWait
    /\ UNCHANGED <<done, now, net, readyFds, waitQueue, deadline, lastTime, result>>

WaitEvents ==
    /\ pc = "wait"
    /\ Reportable # {}
    /\ armed' = StillArmed(Reportable)
    /\ WaitReturns(Reportable)

\* epoll_wait reports nothing, at its own timeout or for EINTR; the clock is
\* read only afterwards, and an event that comes between waits for its round.
PollEmpty ==
    /\ pc = "wait"
    /\ Reportable = {}
    /\ armed' = {}
    /\ pc' = "polled"
    /\ UNCHANGED <<done, now, net, queues, deadline, currTime, lastTime, result>>

\* With wait() called without its timeout when no connection is paced.
WaitTimesOutIfPaced ==
    /\ pc = "polled"
    /\ DOMAIN waitQueue # {}
    /\ now >= deadline
    /\ WaitReturns({})
    /\ UNCHANGED armed

WaitTimesOut ==
    /\ pc = "polled"
    /\ now >= deadline
    /\ WaitReturns({})
    /\ UNCHANGED armed

PollAgain ==
    /\ pc = "polled"
    /\ now < deadline
    /\ pc' = "wait"
    /\ UNCHANGED <<done, now, net, armed, queues, deadline, currTime, lastTime, result>>

\* epoll_wait fails with something other than EINTR: the thread returns.
WaitFails ==
    /\ "epoll" \in Faults
    /\ pc = "wait"
    /\ pc' = "exited"
    /\ UNCHANGED <<done, now, net, armed, queues, deadline, currTime, lastTime, result>>

\* With the comparison of ready_time and curr_time left out.
ExpiredOrNot == Top

\* The next entry that may leave wait_queue.
Expired == {e \in Top : e[2] <= currTime}

\* Move one expired entry, the earliest first, to ready_fds.
Expire ==
    /\ pc = "expire"
    /\ \/ \E e \in Expired :
            /\ readyFds' = Append(readyFds, e[1])
            /\ waitQueue' = waitQueue (-) SetToBag({e})
            /\ UNCHANGED pc
       \/ /\ Expired = {}
          /\ pc' = "check"
          /\ UNCHANGED <<readyFds, waitQueue>>
    /\ UNCHANGED <<done, now, net, armed, events, deadline, currTime, lastTime, result>>

\* With the batch counted after next() has gone through it.
BatchSizeTooLate == 0

\* With the ends of the batch swapped.
BatchSizeSwapped == 0 - Cardinality(events)

\* ready_count()
BatchSize == Cardinality(events)

\* The stop is looked at before the batch is counted.
CheckDone ==
    /\ pc = "check"
    /\ IF done
       THEN pc' = "exited" /\ UNCHANGED mcount
       ELSE pc' = "drain" /\ mcount' = mcount + BatchSize
    /\ UNCHANGED <<done, now, net, armed, queues, deadline, currTime, lastTime,
                   latCount, messCount>>

\* lastTime of s after emplace(fd, 0).
KnownTime(s) == IF lastTime[s] = Unseen THEN 0 ELSE lastTime[s]

\* The timeouts a socket may draw; none at all when both bounds are zero.
Pauses == IF HasTimeout THEN MinTimeout..MaxTimeout ELSE {0}

\* One socket of the batch: sample its latency, then pace it or make it ready.
\* A socket made ready is followed by a look at `done'.
Drain(s) ==
    /\ pc = "drain"
    /\ s \in events
    /\ events' = events \ {s}
    /\ latCount' = IF lastTime[s] = Unseen THEN latCount ELSE latCount + 1
    /\ lastTime' = [lastTime EXCEPT ![s] = KnownTime(s)]
    /\ \E p \in Pauses :
        IF HasTimeout /\ KnownTime(s) + p > currTime
        THEN /\ waitQueue' = waitQueue (+) SetToBag({<<s, KnownTime(s) + p>>})
             /\ UNCHANGED <<readyFds, pc>>
        ELSE /\ readyFds' = Append(readyFds, s)
             /\ pc' = IF done THEN "exited" ELSE pc
             /\ UNCHANGED waitQueue
    /\ UNCHANGED <<done, now, net, armed, deadline, currTime, mcount, messCount>>

\* next() has no more sockets.
DrainEnds ==
    /\ pc = "drain"
    /\ events = {}
    /\ pc' = "send"
    /\ UNCHANGED <<done, now, net, armed, queues, deadline, currTime, lastTime, result>>

\* With the look at `done' left out, and with the loop ending one socket early.
SendCheckDeaf ==
    /\ pc = "send"
    /\ pc' = IF readyFds = <<>> THEN "top" ELSE "ping"
    /\ UNCHANGED <<done, now, net, armed, queues, deadline, currTime, lastTime, result>>

SendCheckShort ==
    /\ pc = "send"
    /\ pc' = IF Len(readyFds) < 2 THEN "top" ELSE IF done THEN "exited" ELSE "ping"
    /\ UNCHANGED <<done, now, net, armed, queues, deadline, currTime, lastTime, result>>

\* The head of the send loop.
SendCheck ==
    /\ pc = "send"
    /\ pc' = IF readyFds = <<>> THEN "top" ELSE IF done THEN "exited" ELSE "ping"
    /\ UNCHANGED <<done, now, net, armed, queues, deadline, currTime, lastTime, result>>

\* With the length of what was read not compared with the message's.
AnyPartRead(s) == rx[s] > 0

\* recv gave the whole message.
WholeMessage(s) == rx[s] >= MsgLen

\* recv takes at most one message.
Unread(s) == IF rx[s] > MsgLen THEN rx[s] - MsgLen ELSE 0

\* ping succeeds: the whole message is read with one recv and written back.
\* A peer that has shut down takes the bytes and answers nothing.
PingOk(s) ==
    /\ WholeMessage(s)
    /\ peer[s] # "reset"
    /\ rx' = [rx EXCEPT ![s] = Unread(s)]
    /\ atPeer' = [atPeer EXCEPT ![s] = peer[s] = "open"]
    /\ lastTime' = [lastTime EXCEPT ![s] = now]
    /\ messCount' = [messCount EXCEPT ![s] = @ + 1]
    /\ readyFds' = Tail(readyFds)
    /\ pc' = "send"

\* ping fails: nothing to read, a part of a message, or the write fails.
\* Whatever the reason, the thread returns.
PingFails(s) ==
    /\ ~WholeMessage(s) \/ peer[s] = "reset" \/ "write" \in Faults
    /\ rx' = [rx EXCEPT ![s] = Unread(s)]
    /\ pc' = "exited"
    /\ UNCHANGED <<atPeer, lastTime, messCount, readyFds>>

Ping ==
    /\ pc = "ping"
    /\ PingOk(Head(readyFds)) \/ PingFails(Head(readyFds))
    /\ UNCHANGED <<done, now, echo, peer, armed, events, waitQueue, deadline,
                   currTime, mcount, latCount>>

-----------------------------------------------------------------------------
Worker ==
    \/ LoopTop \/ WaitEvents \/ PollEmpty \/ PollAgain \/ WaitTimesOut \/ WaitFails
    \/ Expire \/ CheckDone
    \/ \E s \in Socks : Drain(s)
    \/ DrainEnds \/ SendCheck \/ Ping

Client == \E s \in Socks :
    ClientEcho(s) \/ Deliver(s) \/ ClientClose(s) \/ ClientReset(s)

Next == Tick \/ StopRun \/ Client \/ Worker

Spec == Init /\ [][Next]_vars

\* The thread is scheduled and the clock advances; nothing is asked of the
\* client, the network or the main thread.
FairSpec == Spec /\ WF_vars(Worker) /\ WF_vars(Tick)

-----------------------------------------------------------------------------
(* Properties. *)

Ticks == Nat
Entries == Socks \X Ticks

TypeOK ==
    /\ pc \in PCs
    /\ done \in BOOLEAN
    /\ now \in Ticks
    /\ rx \in [Socks -> Nat]
    /\ echo \in [Socks -> Nat]
    /\ atPeer \in [Socks -> BOOLEAN]
    /\ peer \in [Socks -> {"open", "shut", "reset"}]
    /\ armed \subseteq Socks
    /\ events \subseteq Socks
    /\ readyFds \in Seq(Socks)
    /\ DOMAIN waitQueue \subseteq Entries
    /\ waitQueue \in [DOMAIN waitQueue -> Nat \ {0}]
    /\ deadline \in Ticks
    /\ currTime \in Ticks
    /\ lastTime \in [Socks -> Ticks \cup {Unseen}]
    /\ mcount \in Nat
    /\ latCount \in Nat
    /\ messCount \in [Socks -> Nat]

\* Segments of the one message of s that the worker has not read yet.
InFlight(s) == rx[s] + echo[s] + (IF atPeer[s] THEN MsgLen ELSE 0)

\* There is never more than one message on a connection: ping and
\* process_message each write only after reading a whole message, so neither
\* can find two messages, or one and a half, in a receive buffer.
OneMessageInFlight == \A s \in Socks : InFlight(s) <= MsgLen

\* What a function to numbers counts, one by one: <<x, 1>> to <<x, f[x]>> for x.
Copies(f) == UNION {{x} \X (1..f[x]) : x \in DOMAIN f}
Waiting == Copies(waitQueue)

InReady(s) == Cardinality({i \in DOMAIN readyFds : readyFds[i] = s})
InWait(s) == Cardinality({c \in Waiting : c[1][1] = s})
InBatch(s) == IF s \in events THEN 1 ELSE 0
Signalled(s) == IF s \in armed /\ rx[s] > 0 THEN 1 ELSE 0

\* With edge-triggered events a message is announced once.  From its arrival to
\* its answer the socket is in exactly one place: signalled to epoll, in the
\* batch, in ready_fds or in wait_queue; a socket with nothing to read is in
\* none.  (Nowhere: the connection starves for ever.  Twice: the second ping
\* finds an empty buffer and ends the thread.)  For messages that arrive whole.
EveryArrivalQueuedOnce ==
    MsgLen = 1 /\ pc # "exited" =>
        \A s \in Socks : peer[s] = "open" =>
            Signalled(s) + InBatch(s) + InReady(s) + InWait(s) = rx[s]

Served == Cardinality(Copies(messCount))
Queued == Len(readyFds) + Cardinality(Waiting)
Seen == {s \in Socks : lastTime[s] # Unseen}
Uncounted == IF pc \in {"expire", "check"} THEN Cardinality(events) ELSE 0

\* mcount counts reported sockets, messCount answers, latCount samples: while
\* the worker runs every counted report is an answer given or a socket still
\* queued, and every drained one is a socket's first or a latency sample.
CountersAgree ==
    pc # "exited" =>
        /\ mcount + Uncounted = Served + Queued + Cardinality(events)
        /\ mcount + Uncounted = latCount + Cardinality(Seen) + Cardinality(events)

\* A latency sample is the difference of two readings of which the second is
\* not earlier, of a socket that was really pinged: curr_time - ltime, both
\* unsigned, neither underflows nor measures from 1970.
LatencyIsADifference ==
    pc = "drain" =>
        \A s \in events \cap Seen : 0 < lastTime[s] /\ lastTime[s] <= currTime

\* The worker never sleeps past the moment at which the first paced socket
\* may be pinged, nor longer than a pause or the idle wait: the bound on how
\* long run_test can be kept in join after it set done.
SleepIsBounded ==
    pc \in Waits =>
        /\ deadline <= now + Later(IdleWait, MaxTimeout)
        /\ \A e \in DOMAIN waitQueue : deadline <= Later(e[2], now)

\* No connection is pinged sooner than timeout_ns_min after its last ping.
\* (A message that arrives in two parts may be queued twice, so this too is
\* about messages that arrive whole.)
PacingRespected ==
    [][MsgLen = 1 =>
        \A s \in Socks :
            messCount'[s] # messCount[s] /\ lastTime[s] > 0 =>
                now >= lastTime[s] + MinTimeout]_vars

\* Once run_test has set done the thread returns, whatever it was doing and
\* whatever its connections do: run_test's join cannot hang on it.
StopsWhenTold == done ~> pc = "exited"

\* A message that has come back whole is answered, unless the run ends: with
\* edge-triggered events nothing would ever announce it again.
ServedEventually ==
    \A s \in Socks :
        rx[s] = MsgLen ~> (rx[s] = 0 \/ done \/ pc = "exited")

-----------------------------------------------------------------------------
(* The worker implements PingPong. *)

\* Where the message of s is, as PingPong sees it.
Turn(s) ==
    IF rx[s] >= MsgLen /\ peer[s] # "reset" THEN "server"
    ELSE IF peer[s] = "reset" \/ InFlight(s) < MsgLen THEN "gone"
    ELSE "client"

\* The ping that had passed its look at `done' when the stop came.
MayServe == IF done THEN pc = "ping" ELSE TRUE

PP == INSTANCE PingPong WITH
    turn <- [s \in Socks |-> Turn(s)],
    served <- messCount,
    stopped <- done,
    mayServe <- MayServe

\* Each connection sees PingPong: only whole messages are answered, each once,
\* and after the stop at most the one answer already begun is completed.
ImplementsPingPong == PP!Spec

-----------------------------------------------------------------------------
(* The worker implements WorkerLoop. *)

\* A worker may leave of itself: a message may come in parts, a call may fail,
\* or a peer has gone.
Wrong ==
    \/ MsgLen > 1
    \/ Faults \cap {"write", "epoll"} # {}
    \/ \E s \in Socks : peer[s] # "open"

WL == INSTANCE WorkerLoop WITH
    NumSocks <- Cardinality(Socks),
    working <- pc # "exited",
    told <- done,
    wrong <- Wrong,
    counted <- mcount,
    answered <- Served

\* run_test sees WorkerLoop: no message is answered that was not counted, and
\* while messages are whole, no call fails and every peer is there, a worker
\* never gives up its connections by mistake (one recv on an empty buffer would
\* do): it leaves when it is told to.
ImplementsLoop == WL!Spec
=============================================================================
