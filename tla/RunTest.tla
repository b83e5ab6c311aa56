------------------------------- MODULE RunTest ------------------------------
(***************************************************************************)
(* One run of the load generator (server.cpp: run_test): the main thread   *)
(* connects, gives the connections to its workers, starts the workers      *)
(* together with a mutex and a counter, lets them work for the requested   *)
(* time, stops and joins them and gathers their results.                   *)
(*                                                                         *)
(* The workers appear here as the main thread can notice them: the         *)
(* counter, the mutex, the return of the thread and its results.  What     *)
(* they do between is PingWorker, what connect_all does is ConnectAll.     *)
(***************************************************************************)
EXTENDS Integers, FiniteSets, Functions

CONSTANTS
    NumWorkers,     \* min(num_conn, 3)
    NumConn,        \* params.num_conn
    Sleeps,         \* runtime * 10, the 100 ms slices of the run
    NumPerc,        \* res.percentiles.size(); 19 in the code
    MaxServed,      \* bound: messages and answers on one connection
    Faults          \* what may go wrong: "connect", "epoll", "write", "worker"

ASSUME WorkersAssumption == NumWorkers \in Nat \ {0}
\* worker_threads = min(num_conn, worker_threads); no run without connections.
ASSUME ConnAssumption == NumConn \in Nat /\ NumWorkers <= NumConn
ASSUME SleepsAssumption == Sleeps \in Nat
ASSUME PercAssumption == NumPerc \in Nat
ASSUME ServedAssumption == MaxServed \in Nat
ASSUME RunFaultsAssumption == Faults \subseteq {"connect", "epoll", "write", "worker"}

Workers == 0..(NumWorkers - 1)
Conns == 0..(NumConn - 1)
Percs == 1..NumPerc

\* sockets.fds are dealt out in turn: selectors[idx % worker_threads].
Owner(c) == c % NumWorkers
Nobody == -1        \* the holder of a free mutex
MainThread == -2

VARIABLES
    mpc,            \* where run_test is, see MainPCs
    wpc,            \* where each worker is, see WorkerPCs
    activeCount,    \* Sync::active_count
    mutex,          \* the holder of Sync::run_lola_run
    done,           \* Sync::done
    failed,         \* a first message could not be written
    written,        \* how many connections have their first message
    sleepsLeft,     \* slices of the run that are left
    joined,         \* how many workers were joined
    mcount,         \* mcount of each tresults: messages that came back
    served,         \* their mess_count_for_sock: answers on each connection
    res,            \* res.mcount
    percentiles,    \* res.percentiles
    outcome         \* what run_test returned

shared == <<activeCount, mutex, done>>
tresults == <<mcount, served>>
results == <<res, percentiles, outcome>>
mainVars == <<mpc, failed, written, sleepsLeft, joined>>
vars == <<mainVars, wpc, shared, tresults, results>>

MainPCs == {"connect", "selectors", "spawn", "write", "barrier", "run", "join",
            "aggregate", "returned"}
WorkerPCs == {"none", "new", "counted", "locked", "running", "leaving", "ending",
              "exited"}
Unset == -1         \* a percentile nobody computed
Garbage == -2       \* read past the end of mps

Init ==
    /\ mpc = "connect"
    /\ wpc = [w \in Workers |-> "none"]
    /\ activeCount = 0
    /\ mutex = MainThread               \* locked before any worker exists
    /\ done = FALSE
    /\ failed = FALSE
    /\ written = 0
    /\ sleepsLeft = Sleeps
    /\ joined = 0
    /\ mcount = [w \in Workers |-> 0]
    /\ served = [c \in Conns |-> 0]
    /\ res = 0
    /\ percentiles = [i \in Percs |-> Unset]
    /\ outcome = "none"

-----------------------------------------------------------------------------
(* The main thread. *)

Return(value) ==
    /\ mpc' = "returned"
    /\ outcome' = value

\* connect_all, seen from its caller.
Connect ==
    /\ mpc = "connect"
    /\ \/ mpc' = "selectors" /\ UNCHANGED outcome
       \/ "connect" \in Faults /\ Return("failure")
    /\ UNCHANGED <<wpc, shared, failed, written, sleepsLeft, joined, tresults, res,
                   percentiles>>

\* Make the epoll sets and put every connection into its worker's.
MakeSelectors ==
    /\ mpc = "selectors"
    /\ \/ mpc' = "spawn" /\ UNCHANGED outcome
       \/ "epoll" \in Faults /\ Return("failure")
    /\ UNCHANGED <<wpc, shared, failed, written, sleepsLeft, joined, tresults, res,
                   percentiles>>

\* Create the next worker, in order.
Spawn ==
    /\ mpc = "spawn"
    /\ \E w \in Workers :
        /\ wpc[w] = "none"
        /\ \A v \in Workers : v < w => wpc[v] # "none"
        /\ wpc' = [wpc EXCEPT ![w] = "new"]
        /\ mpc' = IF w = NumWorkers - 1 THEN "write" ELSE "spawn"
    /\ UNCHANGED <<shared, failed, written, sleepsLeft, joined, tresults, results>>

\* With one round too many.
MoreToWriteOrEqual == written <= NumConn

MoreToWrite == written < NumConn

\* Write the first message of the next connection; the first failure ends it,
\* and done is set at once.
WriteFirst ==
    /\ mpc = "write"
    /\ \/ /\ MoreToWrite
          /\ written' = written + 1
          /\ UNCHANGED <<mpc, failed, done>>
       \/ /\ ~MoreToWrite
          /\ mpc' = "barrier"
          /\ UNCHANGED <<written, failed, done>>
       \/ /\ MoreToWrite
          /\ "write" \in Faults
          /\ failed' = TRUE
          /\ done' = TRUE
          /\ mpc' = "join"
          /\ UNCHANGED written
    /\ UNCHANGED <<wpc, activeCount, mutex, sleepsLeft, joined, tresults, results>>

\* With the wait for active_count left out.
NobodyMissing == TRUE

AllCounted == activeCount = NumWorkers

\* All workers have counted themselves: let them go.
PassBarrier ==
    /\ mpc = "barrier"
    /\ AllCounted
    /\ mutex' = Nobody
    /\ mpc' = "run"
    /\ UNCHANGED <<wpc, activeCount, done, failed, written, sleepsLeft, joined,
                   tresults, results>>

\* One slice has passed: stop early when every worker has left.
RunSlice ==
    /\ mpc = "run"
    /\ sleepsLeft > 0
    /\ activeCount # 0
    /\ sleepsLeft' = sleepsLeft - 1
    /\ UNCHANGED <<mpc, failed, written, joined, wpc, shared, tresults, results>>

\* With the end of any worker taken for the end of all.
RunEndsWithFirst == sleepsLeft = 0 \/ activeCount # NumWorkers

RunEnds == sleepsLeft = 0 \/ activeCount = 0

\* With the store to done forgotten.
StopRunForgets ==
    /\ mpc = "run"
    /\ RunEnds
    /\ mpc' = "join"
    /\ UNCHANGED <<failed, written, sleepsLeft, joined, wpc, shared, tresults, results>>

StopRun ==
    /\ mpc = "run"
    /\ RunEnds
    /\ done' = TRUE
    /\ mpc' = "join"
    /\ UNCHANGED <<failed, written, sleepsLeft, joined, wpc, activeCount, mutex,
                   tresults, results>>

\* With a thread detached instead of joined.
GoneOrGoing(w) == wpc[w] \in {"running", "leaving", "ending", "exited"}

\* join returns when the thread has ended.
Gone(w) == wpc[w] = "exited"

Join ==
    /\ mpc = "join"
    /\ IF joined = NumWorkers
       THEN mpc' = "aggregate" /\ UNCHANGED joined
       ELSE Gone(joined) /\ joined' = joined + 1 /\ UNCHANGED mpc
    /\ UNCHANGED <<failed, written, sleepsLeft, wpc, shared, tresults, results>>

\* mess_count_for_sock has an entry for a connection that was answered.
Counted(counts) == {c \in Conns : counts[c] > 0}

\* mps[k] after the sort: more than k of the counts are not above it.
Mps(counts, k) ==
    CHOOSE n \in {counts[c] : c \in Counted(counts)} :
        /\ Cardinality({c \in Counted(counts) : counts[c] < n}) <= k
        /\ Cardinality({c \in Counted(counts) : counts[c] <= n}) > k

\* With the percentiles spread up to the last connection itself.
PercIndexPastEnd(i) == (NumConn * i) \div NumPerc

\* idx of the i-th percentile, of all connections, counted or not.
PercIndex(i) == (NumConn * i) \div (NumPerc + 1)

\* The percentiles of the answers on a connection.
Percentiles(counts) ==
    [i \in Percs |->
        IF PercIndex(i) < Cardinality(Counted(counts)) THEN Mps(counts, PercIndex(i))
        ELSE Garbage]

\* The messages of all workers together.
Messages(counts) == SumFunctionOnSet(counts, Workers)

Aggregate ==
    /\ mpc = "aggregate"
    /\ res' = Messages(mcount)
    /\ percentiles' = Percentiles(served)
    /\ Return(IF failed THEN "failure" ELSE "success")
    /\ UNCHANGED <<failed, written, sleepsLeft, joined, wpc, shared, tresults>>

-----------------------------------------------------------------------------
(* The workers. *)

\* sync->active_count++
Count(w) ==
    /\ wpc[w] = "new"
    /\ wpc' = [wpc EXCEPT ![w] = "counted"]
    /\ activeCount' = activeCount + 1
    /\ UNCHANGED <<mainVars, mutex, done, tresults, results>>

\* run_lola_run.lock()
Lock(w) ==
    /\ wpc[w] = "counted"
    /\ mutex = Nobody
    /\ wpc' = [wpc EXCEPT ![w] = "locked"]
    /\ mutex' = w
    /\ UNCHANGED <<mainVars, activeCount, done, tresults, results>>

\* run_lola_run.unlock()
Unlock(w) ==
    /\ wpc[w] = "locked"
    /\ wpc' = [wpc EXCEPT ![w] = "running"]
    /\ mutex' = Nobody
    /\ UNCHANGED <<mainVars, activeCount, done, tresults, results>>

Owned(w) == {c \in Conns : Owner(c) = w}

\* PingWorker's CheckDone: a batch of messages that came back is counted.
CountBatch(w) ==
    /\ wpc[w] = "running"
    /\ \E n \in 1..Cardinality(Owned(w)) :
        /\ mcount[w] + n <= MaxServed * Cardinality(Owned(w))
        /\ mcount' = [mcount EXCEPT ![w] = @ + n]
    /\ UNCHANGED <<mainVars, wpc, shared, served, results>>

\* PingWorker's Ping on one of the worker's own connections, for a message
\* that was counted.
Serve(w) ==
    /\ wpc[w] = "running"
    /\ SumFunctionOnSet(served, Owned(w)) < mcount[w]
    /\ \E c \in Owned(w) :
        /\ served[c] < MaxServed
        /\ served' = [served EXCEPT ![c] = @ + 1]
    /\ UNCHANGED <<mainVars, wpc, shared, mcount, results>>

\* The loop of the worker ends: it saw done, or one of its early returns.
Leave(w) ==
    /\ wpc[w] = "running"
    /\ done \/ "worker" \in Faults
    /\ wpc' = [wpc EXCEPT ![w] = "leaving"]
    /\ UNCHANGED <<mainVars, shared, tresults, results>>

\* The destructor of DecOnExit, the first of the worker's destructors.
Uncount(w) ==
    /\ wpc[w] = "leaving"
    /\ wpc' = [wpc EXCEPT ![w] = "ending"]
    /\ activeCount' = activeCount - 1
    /\ UNCHANGED <<mainVars, mutex, done, tresults, results>>

\* The thread ends.
Exit(w) ==
    /\ wpc[w] = "ending"
    /\ wpc' = [wpc EXCEPT ![w] = "exited"]
    /\ UNCHANGED <<mainVars, shared, tresults, results>>

-----------------------------------------------------------------------------
Main ==
    \/ Connect \/ MakeSelectors \/ Spawn \/ WriteFirst \/ PassBarrier
    \/ RunSlice \/ StopRun \/ Join \/ Aggregate

Worker(w) ==
    \/ Count(w) \/ Lock(w) \/ Unlock(w) \/ CountBatch(w) \/ Serve(w)
    \/ Leave(w) \/ Uncount(w) \/ Exit(w)

Next == Main \/ \E w \in Workers : Worker(w)

Spec == Init /\ [][Next]_vars

\* Threads are scheduled, and a worker told to stop leaves its loop:
\* StopsWhenTold of PingWorker.  (Each worker locks the mutex once, so that it
\* is free for good in the end.)
FairSpec ==
    /\ Spec
    /\ WF_vars(Main)
    /\ \A w \in Workers :
        /\ WF_vars(Count(w)) /\ WF_vars(Lock(w)) /\ WF_vars(Unlock(w))
        /\ WF_vars(done /\ Leave(w)) /\ WF_vars(Uncount(w)) /\ WF_vars(Exit(w))

-----------------------------------------------------------------------------
(* Properties. *)

ThreadsTypeOK ==
    /\ mpc \in MainPCs
    /\ wpc \in [Workers -> WorkerPCs]
    /\ activeCount \in 0..NumWorkers
    /\ mutex \in Workers \cup {Nobody, MainThread}
    /\ done \in BOOLEAN
    /\ failed \in BOOLEAN
    /\ written \in 0..NumConn
    /\ sleepsLeft \in 0..Sleeps
    /\ joined \in 0..NumWorkers

TypeOK ==
    /\ ThreadsTypeOK
    /\ mcount \in [Workers -> Nat]
    /\ served \in [Conns -> 0..MaxServed]
    /\ res \in Nat
    /\ percentiles \in [Percs -> Nat \cup {Unset, Garbage}]
    /\ outcome \in {"none", "failure", "success"}

Started == {w \in Workers : wpc[w] \notin {"none", "new", "counted"}}

\* perf_report.md:19: nothing is exchanged before everything is ready.  While
\* one worker is past the barrier every worker has reached it and every
\* connection has its first message.
NobodyStartsEarly ==
    Started # {} =>
        /\ \A w \in Workers : wpc[w] \notin {"none", "new"}
        /\ written = NumConn

\* run_test's Sync, epoll sets, tresults and sockets are locals its workers
\* hold pointers to: from the moment it reads the results no thread is left
\* that could write them, and when it has returned none that could use them.
NoThreadOutlivesTheRun ==
    mpc \in {"aggregate", "returned"} =>
        \A w \in Workers : wpc[w] \in {"none", "exited"}

\* The run is cut short only when every worker is past its last answer: the
\* counter that let them start together also says truly that none is left.
EarlyEndIsTrue ==
    mpc = "join" /\ ~failed /\ sleepsLeft > 0 =>
        \A w \in Workers : wpc[w] \in {"ending", "exited"}

\* What run_test returns are the numbers its workers ended with: every message
\* they counted and every answer they gave.
EveryAnswerReported ==
    outcome = "success" => res = Messages(mcount) /\ percentiles = Percentiles(served)

\* When every connection was answered no percentile is read past the end of mps:
\* each is the count of a connection, and none is below the one before it.
\* (Their index is a share of num_conn: a connection without an answer has no
\* count, and the highest indices may then be past the end.)
PercentilesAreCounts ==
    outcome = "success" /\ Counted(served) = Conns =>
        /\ \A i \in Percs : percentiles[i] \in {served[c] : c \in Conns}
        /\ \A i, j \in Percs : i <= j => percentiles[i] <= percentiles[j]

\* A run that was begun ends: perf_report.md:23, the statistics are sent at
\* the end of the test, and server.cpp:612 has a value for the failed run.
RunReturns == <>(mpc = "returned")

\* It does, unless a first message could not be written.
RunReturnsUnlessFailed == <>(mpc = "returned" \/ failed)
=============================================================================
