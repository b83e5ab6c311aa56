------------------------------ MODULE OldClient ------------------------------
(***************************************************************************)
(* The earlier version of the benchmark: run_test over epoll and over poll *)
(* and run_test_th of old/client.cpp, which connect to the server old/     *)
(* srv.go, answer each of its messages and count them until it closes.     *)
(*                                                                         *)
(* Grain: a step is what a thread does up to its next system call on a     *)
(* socket or its next look at what the threads share.                      *)
(***************************************************************************)
EXTENDS Integers, FiniteSets

CONSTANTS
    Socks,          \* the connections: th_count of them
    MaxMsgs,        \* bound: messages the server writes on one connection
    Setups          \* the tests, see setup

ASSUME OldSocksAssumption == IsFiniteSet(Socks)
ASSUME OldBoundAssumption == MaxMsgs \in Nat \ {0}
ASSUME OldSetupsAssumption ==
    Setups \subseteq [client: {"epoll", "poll", "th"}, parts: Nat \ {0},
                      faults: SUBSET {"connect", "epoll", "reset"}]

VARIABLES
    setup,      \* the test: [client, parts, faults]: the function, the
                \* segments of a message of msize bytes, and what may fail
    srv,        \* handleRequest: "none", "accepted", "reading" or "closed"
    sent,       \* messages it wrote on each connection
    toServer,   \* segments of answers it has not read
    toClient,   \* segments of messages on their way
    ending,     \* "fin" or "reset" when one is on its way to the client
    rx,         \* segments in the client's receive buffer
    peer,       \* what the client's end has received: "open", "fin", "reset"
    news,       \* connections on which something arrived since the last look
    cpc,        \* the main thread: see CPCs
    wpc,        \* what is done with each socket, by its thread or by the loop
    watched,    \* the sockets in the selector
    fdLeft,     \* fd_left
    batch,      \* events of the current wait still to be handled
    started,    \* the threads' counter
    go,         \* run_lola_run
    answers,    \* messages answered on each socket: counter of its thread
    counter,    \* what of it was added to counter of run_test_th
    stamps,     \* calls of preparation_done and test_done so far
    processed,  \* *msg_processed, by socket
    rc          \* "none", "ok" or "error"

serverVars == <<srv, sent>>
wire == <<toServer, toClient, ending>>
arrived == <<rx, peer, news>>
loop == <<watched, fdLeft, batch>>
threads == <<started, go, counter>>
outcome == <<stamps, processed, rc>>
net == <<setup, serverVars, wire, arrived>>
vars == <<net, cpc, wpc, loop, threads, answers, outcome>>

Threads == setup.client = "th"
MsgLen == setup.parts
Faults == setup.faults
None == [s \in Socks |-> 0]
CPCs == {"connect", "prepare", "barrier", "loop", "wait", "next", "join", "returned"}
WPCs == {"idle", "new", "ready", "recv", "write", "ending", "gone"}

Init ==
    /\ setup \in Setups
    /\ srv = [s \in Socks |-> "none"]
    /\ sent = None /\ toServer = None /\ toClient = None /\ rx = None
    /\ ending = [s \in Socks |-> "none"]
    /\ peer = [s \in Socks |-> "open"]
    /\ news = {} /\ watched = {} /\ batch = {}
    /\ cpc = "connect"
    /\ wpc = [s \in Socks |-> "idle"]
    /\ fdLeft = Cardinality(Socks)
    /\ started = 0 /\ go = FALSE
    /\ answers = None /\ counter = None /\ processed = None
    /\ stamps = 0
    /\ rc = "none"

-----------------------------------------------------------------------------
(* The server and the network. *)

\* The first message, before anything was read.
FirstMessage(s) ==
    /\ srv[s] = "accepted"
    /\ srv' = [srv EXCEPT ![s] = "reading"]
    /\ sent' = [sent EXCEPT ![s] = 1]
    /\ toClient' = [toClient EXCEPT ![s] = MsgLen]
    /\ UNCHANGED <<toServer, ending, arrived>>

Lesser(a, b) == IF a < b THEN a ELSE b

\* Read, which takes any part of an answer for an answer, and, while its time
\* is not over, the next message.
AnotherMessage(s) ==
    /\ srv[s] = "reading"
    /\ sent[s] < MaxMsgs
    /\ \E n \in 1..Lesser(toServer[s], MsgLen) :
        toServer' = [toServer EXCEPT ![s] = @ - n]
    /\ sent' = [sent EXCEPT ![s] = @ + 1]
    /\ toClient' = [toClient EXCEPT ![s] = @ + MsgLen]
    /\ UNCHANGED <<srv, ending, arrived>>

\* The time is over after a Read: close, with a reset when there is more that
\* was not read.
LastRead(s) ==
    /\ srv[s] = "reading"
    /\ srv' = [srv EXCEPT ![s] = "closed"]
    /\ \E n \in 1..Lesser(toServer[s], MsgLen) :
        \/ /\ ending' = [ending EXCEPT ![s] = "fin"]
           /\ toServer' = [toServer EXCEPT ![s] = @ - n]
        \/ /\ n < toServer[s]
           /\ ending' = [ending EXCEPT ![s] = "reset"]
           /\ toServer' = [toServer EXCEPT ![s] = 0]
    /\ UNCHANGED <<sent, toClient, arrived>>

\* What comes to a closed connection is answered by a reset.
TooLate(s) ==
    /\ srv[s] = "closed" /\ toServer[s] > 0 /\ ending[s] = "none"
    /\ toServer' = [toServer EXCEPT ![s] = 0]
    /\ ending' = [ending EXCEPT ![s] = "reset"]
    /\ UNCHANGED <<serverVars, toClient, arrived>>

\* The server goes away.
ServerLost(s) ==
    /\ "reset" \in Faults
    /\ srv[s] \in {"accepted", "reading"}
    /\ srv' = [srv EXCEPT ![s] = "closed"]
    /\ ending' = [ending EXCEPT ![s] = "reset"]
    /\ toServer' = [toServer EXCEPT ![s] = 0]
    /\ UNCHANGED <<sent, toClient, arrived>>

Deliver(s) ==
    /\ \E n \in 1..toClient[s] :
        /\ toClient' = [toClient EXCEPT ![s] = @ - n]
        /\ rx' = [rx EXCEPT ![s] = @ + n]
    /\ news' = news \cup {s}
    /\ UNCHANGED <<serverVars, toServer, ending, peer>>

\* A FIN comes after the data, a reset need not.
DeliverEnd(s) ==
    /\ ending[s] # "none"
    /\ ending[s] = "fin" => toClient[s] = 0
    /\ peer' = [peer EXCEPT ![s] = ending[s]]
    /\ ending' = [ending EXCEPT ![s] = "none"]
    /\ toClient' = [toClient EXCEPT ![s] = 0]
    /\ news' = news \cup {s}
    /\ UNCHANGED <<serverVars, toServer, rx>>

Server ==
    /\ \E s \in Socks :
        \/ FirstMessage(s) \/ AnotherMessage(s) \/ LastRead(s) \/ TooLate(s)
        \/ ServerLost(s) \/ Deliver(s) \/ DeliverEnd(s)
    /\ UNCHANGED <<setup, cpc, wpc, loop, threads, answers, outcome>>

-----------------------------------------------------------------------------
(* Connecting, and process_message. *)

Return(value) == cpc' = "returned" /\ rc' = value

\* connect_all: one socket after the other, each connect waited for.
Connect(s) ==
    /\ cpc = "connect"
    /\ srv[s] = "none"
    /\ srv' = [srv EXCEPT ![s] = "accepted"]
    /\ UNCHANGED <<setup, sent, wire, arrived, cpc, wpc, loop, threads, answers, outcome>>

ConnectEnds ==
    /\ cpc = "connect"
    /\ \A s \in Socks : srv[s] # "none"
    /\ cpc' = "prepare"
    /\ UNCHANGED <<net, wpc, loop, threads, answers, outcome>>

ConnectFails ==
    /\ cpc = "connect"
    /\ "connect" \in Faults
    /\ Return("error")
    /\ UNCHANGED <<net, wpc, loop, threads, answers,
                   stamps, processed>>

\* process_message succeeded: a thread goes on with the next message, the
\* loop with the next event.
Succeeds(s) ==
    /\ answers' = [answers EXCEPT ![s] = @ + 1]
    /\ wpc' = [wpc EXCEPT ![s] = IF Threads THEN "recv" ELSE "idle"]
    /\ UNCHANGED loop

\* remove_current_ready and --fd_left
GivesUp(s) ==
    /\ watched' = watched \ {s}
    /\ fdLeft' = fdLeft - 1
    /\ UNCHANGED batch

\* It failed: the thread ends, the loop gives the socket up.
FailsOn(s) ==
    IF Threads THEN wpc' = [wpc EXCEPT ![s] = "ending"] /\ UNCHANGED loop
    ELSE wpc' = [wpc EXCEPT ![s] = "idle"] /\ GivesUp(s)

Whole(s) == rx[s] >= MsgLen

\* recv: a whole message, or a part of one, the end or an error; the loop's
\* sockets do not block when there is nothing at all.
Recv(s) ==
    /\ wpc[s] = "recv"
    /\ \/ /\ Whole(s)
          /\ rx' = [rx EXCEPT ![s] = @ - Lesser(@, MsgLen)]
          /\ wpc' = [wpc EXCEPT ![s] = "write"]
          /\ UNCHANGED loop
       \/ /\ ~Whole(s)
          /\ Threads => rx[s] > 0 \/ peer[s] # "open"
          /\ rx' = [rx EXCEPT ![s] = 0]
          /\ FailsOn(s)
    /\ UNCHANGED <<setup, serverVars, wire, peer, news, cpc, threads, answers, outcome>>

Write(s) ==
    /\ wpc[s] = "write"
    /\ IF peer[s] = "reset"
       THEN FailsOn(s) /\ UNCHANGED <<wire, answers>>
       ELSE /\ Succeeds(s)
            /\ toServer' = [toServer EXCEPT ![s] = @ + MsgLen]
            /\ UNCHANGED <<toClient, ending>>
    /\ UNCHANGED <<setup, serverVars, arrived, cpc, threads, outcome>>

-----------------------------------------------------------------------------
(* run_test: the loop over a selector. *)

\* preparation_done, and add_fd for every socket.
Prepare ==
    /\ cpc = "prepare" /\ ~Threads
    /\ stamps' = 1
    /\ watched' = Socks
    /\ cpc' = "loop"
    /\ UNCHANGED <<net, wpc, fdLeft, batch, threads,
                   answers, processed, rc>>

\* add_fd of epoll, or the wait, fails.
SelectorFails ==
    /\ (cpc = "prepare" /\ setup.client = "epoll") \/ cpc = "wait"
    /\ "epoll" \in Faults
    /\ stamps' = 1
    /\ Return("error")
    /\ UNCHANGED <<net, wpc, loop, threads, answers, processed>>

\* With one socket forgotten, and with one round too many.
OneLess == fdLeft > 1
OneMore == fdLeft >= 0

\* while(fd_left > 0)
MoreLeft == fdLeft > 0

\* The head of the loop; after it test_done and the number of messages.
Head ==
    /\ cpc = "loop"
    /\ IF MoreLeft
       THEN cpc' = "wait" /\ UNCHANGED outcome
       ELSE stamps' = 2 /\ processed' = answers /\ Return("ok")
    /\ UNCHANGED <<net, wpc, loop, threads, answers>>

\* The events of s: error or hang-up after a reset, else input when there is
\* data or the end of the stream.
Flag(s) ==
    IF peer[s] = "reset" THEN "err"
    ELSE IF rx[s] > 0 \/ peer[s] = "fin" THEN "in" ELSE "none"

\* PollRSelector: every socket not given up, an fd of -1 is passed over.
PollReady == {s \in watched : Flag(s) # "none"}

\* EPollRSelector, with EPOLLET: only what arrived since the last wait.
EPollReady == {s \in watched : Flag(s) # "none" /\ s \in news}

Wait ==
    /\ cpc = "wait"
    /\ LET ready == IF setup.client = "poll" THEN PollReady ELSE EPollReady IN
        /\ ready # {}
        /\ batch' = {<<s, Flag(s)>> : s \in ready}
    /\ news' = {}
    /\ cpc' = "next"
    /\ UNCHANGED <<setup, serverVars, wire, rx, peer, wpc, watched, fdLeft, threads,
                   answers, outcome>>

Busy == \E s \in Socks : wpc[s] # "idle"

\* The next event of the batch.
NextEvent(s, flag) ==
    /\ cpc = "next" /\ ~Busy
    /\ <<s, flag>> \in batch
    /\ batch' = batch \ {<<s, flag>>}
    /\ IF flag = "err"
       THEN /\ watched' = watched \ {s}
            /\ fdLeft' = fdLeft - 1
            /\ UNCHANGED wpc
       ELSE /\ wpc' = [wpc EXCEPT ![s] = "recv"]
            /\ UNCHANGED <<watched, fdLeft>>
    /\ UNCHANGED <<net, cpc, threads, answers, outcome>>

BatchEnds ==
    /\ cpc = "next" /\ ~Busy
    /\ batch = {}
    /\ cpc' = "loop"
    /\ UNCHANGED <<net, wpc, loop, threads, answers, outcome>>

-----------------------------------------------------------------------------
(* run_test_th and th_func: a thread for each connection. *)

Spawn ==
    /\ cpc = "prepare" /\ Threads
    /\ wpc' = [s \in Socks |-> "new"]
    /\ cpc' = "barrier"
    /\ UNCHANGED <<net, loop, threads, answers, outcome>>

\* (*started) += 1
Started(s) ==
    /\ wpc[s] = "new"
    /\ wpc' = [wpc EXCEPT ![s] = "ready"]
    /\ started' = started + 1
    /\ UNCHANGED <<net, cpc, loop, go, counter, answers, outcome>>

\* With a wait that is over when the first thread has started.
SomeStarted == started > 0

AllStarted == started = Cardinality(Socks)

\* All have started: preparation_done, then run_lola_run.
Release ==
    /\ cpc = "barrier"
    /\ AllStarted
    /\ stamps' = 1
    /\ go' = TRUE
    /\ cpc' = "join"
    /\ UNCHANGED <<net, wpc, loop, started, counter, answers,
                   processed, rc>>

\* run_lola_run->load()
Begin(s) ==
    /\ wpc[s] = "ready"
    /\ go
    /\ wpc' = [wpc EXCEPT ![s] = "recv"]
    /\ UNCHANGED <<net, cpc, loop, threads, answers, outcome>>

\* (*msg_processed_a) += counter, and the end of the thread.
ThreadEnds(s) ==
    /\ wpc[s] = "ending"
    /\ counter' = [counter EXCEPT ![s] = answers[s]]
    /\ wpc' = [wpc EXCEPT ![s] = "gone"]
    /\ UNCHANGED <<net, cpc, loop, started, go, answers, outcome>>

\* With a join that forgets one thread.
AllButOneGone == Cardinality({s \in Socks : wpc[s] # "gone"}) < 2

AllGone == \A s \in Socks : wpc[s] = "gone"

\* All are joined: test_done and the number of messages.
Join ==
    /\ cpc = "join"
    /\ AllGone
    /\ stamps' = 2
    /\ processed' = counter
    /\ Return("ok")
    /\ UNCHANGED <<net, wpc, loop, threads, answers>>

-----------------------------------------------------------------------------
Works ==
    \/ ConnectEnds \/ Prepare \/ Head \/ Wait \/ BatchEnds \/ Spawn \/ Release \/ Join
    \/ \E s \in Socks :
        \/ Connect(s) \/ Recv(s) \/ Write(s)
        \/ \E flag \in {"in", "err"} : NextEvent(s, flag)
        \/ Started(s) \/ Begin(s) \/ ThreadEnds(s)

Next == Works \/ ConnectFails \/ SelectorFails \/ Server

Spec == Init /\ [][Next]_vars

\* The threads of the client are scheduled; the server's time ends and what
\* was sent arrives.  All of it is finitely many steps.
FairSpec == Spec /\ WF_vars(Works) /\ WF_vars(Server)

-----------------------------------------------------------------------------
(* Properties. *)

TypeOK ==
    /\ setup \in Setups
    /\ srv \in [Socks -> {"none", "accepted", "reading", "closed"}]
    /\ sent \in [Socks -> 0..MaxMsgs]
    /\ toServer \in [Socks -> Nat] /\ toClient \in [Socks -> Nat] /\ rx \in [Socks -> Nat]
    /\ ending \in [Socks -> {"none", "fin", "reset"}]
    /\ peer \in [Socks -> {"open", "fin", "reset"}]
    /\ news \subseteq Socks /\ watched \subseteq Socks
    /\ batch \subseteq Socks \X {"in", "err"}
    /\ cpc \in CPCs
    /\ wpc \in [Socks -> WPCs]
    /\ fdLeft \in Nat
    /\ started \in 0..Cardinality(Socks)
    /\ go \in BOOLEAN
    /\ answers \in [Socks -> Nat] /\ counter \in [Socks -> Nat] /\ processed \in [Socks -> Nat]
    /\ stamps \in 0..2
    /\ rc \in {"none", "ok", "error"}

\* The messages reported are those that were answered, on every connection: no
\* thread adds its count after it was read, and none is left that answers.
CountIsAnswers == rc = "ok" => processed = answers

\* Messages are answered between the two stamps only and when every thread has
\* started, although the server writes as soon as a connection is there and the
\* threads are started one by one: what old/main.py measures is all of the work
\* and nothing else.
AnswersAreMeasured ==
    [][\A s \in Socks : answers'[s] # answers[s] =>
            stamps = 1 /\ \A th \in Socks : wpc[th] # "new"]_vars

\* When the messages come whole, a test that succeeds was over: every
\* connection was seen to end, by an event, a recv or a write.
MeasuresToTheEnd == rc = "ok" /\ MsgLen = 1 => \A s \in Socks : peer[s] # "open"

\* The test ends when the server has closed every connection, also with the
\* one edge of a message and of the end that came after it.
ClientReturns == <>(cpc = "returned")
=============================================================================
