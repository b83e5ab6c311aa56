# TLA+ model of network_ping_test

network_ping_test measures how fast different programs can answer messages on
many TCP connections at once. The *loader* (`src/server.cpp`) opens the
connections and plays ping-pong on each; the *client* (`src/main.py`, with the
functions of `src/client.cpp` loaded as a library, or `src/client.go`) accepts
them and sends every message back. One run of `main.py` asks the loader for a
number of such rounds over a control connection each and collects the numbers.

This directory holds TLA+ modules translated from that source, TLC
configurations that check them on small instances, and TLAPS proofs of the main
safety properties for all values of the constants.

Contents: [Inventory](#inventory) · [Modules](#modules) ·
[Correspondence](#correspondence) · [Runs](#runs) · [Bounds](#bounds) ·
[Fairness](#fairness) · [Proofs](#proofs) · [Findings](#findings) ·
[Divergences](#divergences-met-while-modelling) · [Not modelled](#not-modelled) ·
[Plan](#plan) · [Running it](#running-it)

## Inventory

    main.py (client)                         server.cpp (loader)
    ----------------                         -------------------
    main: options, rounds                    main_loop_thread: accept, one
      get_run_stats  ---- control conn ---->   session after the other
        prepare: listen   <address, count,     process_client
        ready_for_connect  pauses, runtime>      load_from_str
        func: accept <---- test conns --------   run_test
              echo loop <== messages ==>           connect_all (EPollRSelector)
              stamps                               worker_thread x min(3, conns)
        recv result  <---- text --------------   serialize_to_str, write
      get_lats, report

| Component | State it keeps | Operations | What is hard about it |
|---|---|---|---|
| worker thread of the loader (`worker_thread`, `ping`) | edge-triggered epoll set, `ready_fds`, the priority queue `wait_queue` of paced sockets, `last_time_for_socket`, counters of its `TestResult`, the shared `done` | wait with a deadline, move expired sockets, drain a batch, ping | an edge comes once; a wait bounded by the top of a queue; a stop at any moment; partial messages; three counters of one thing |
| `run_test` | `Sync` (`active_count`, `run_lola_run`, `done`), the threads, `tresults`, `res` | connect, deal out, spawn, write first messages, barrier, sleep, stop, join, aggregate | start barrier made of a mutex and a counter that also counts leaving threads; threads using locals of the main thread; early returns |
| `connect_all` | sockets opened, `waiting_to_connect`, an epoll set | open as many as fit, wait with a timeout, `check_socket_ready` | the counter against the set; refusals, resets, immediate connects; a time limit in the wrong unit |
| `EPollRSelector`, `epoll_wait_ex` | the ready batch, the epoll descriptor | wait, next, remove_current_ready, ready_count | edges; a deadline in nanoseconds met with polls in milliseconds; `EINTR` |
| control sessions (`main_loop_thread`, `process_client`) | the session served, listen queue of 3 | accept, poll for a request 51 times, run, write the result | several clients, one server; a client that is late, gone or left with the loader; a loader that ends (`-s`, a division by zero) or hangs in a run |
| test parameters | options, request text, `TestParams` | checks and defaults of `main`, `load_from_str` | two parsers that must agree; signed and unsigned |
| rounds and results in `main.py` | `results_struct`, the bytes of a result | get_run_stats, parse, get_lats | one `recv`; connections of an earlier round; percentiles |
| event-loop echo clients (`client.cpp: run_test` over epoll and poll, `main.py: selector_test`) | the selector, `fd_left`, a batch, stamps | wait_for_conn, the loop, process_message | one `recv` for an edge on a blocking socket; several ways to give a socket up |
| worker-per-connection echo clients (`run_test_th`, `thread_test`, `gevent_test`, `asyncio_sock_test`, `asyncio_test`, `asyncio_proto_test`, `client.go`) | a worker for each connection, stamps | accept, read, write, join | accepts race with messages; a server closed by the first worker that ends; an exception in one worker |
| earlier version (`old/client.cpp`: `run_test` over epoll and poll, `run_test_th`; `old/srv.go`: `handleRequest`) | a selector and `fd_left`, or threads with `started`, `run_lola_run` and `counter`; stamps | connect_all, the loop or the threads, process_message; the server's write and read | threads that start one by one, a sum added to by threads that end, one `recv` for an edge, a server that takes any part for an answer |

What makes each correct:

* worker: at most one message on a connection, every message that arrives is
  answered exactly once and not before its pause is over, latencies are real
  differences, a wait ends in time for the next pause and a stop ends it;
* run_test: nobody starts before everybody is ready, no thread outlives the
  function, the run is cut short only when no worker is left, no answer is lost
  on its way into the result, the function returns;
* connect_all: true means connected, all of it; the count of connects under way
  is right; it returns;
* control sessions: each control connection is served at most once and by
  itself, a round succeeds only with a result of its own, no client keeps the
  loader (but through the hang of finding 1), every round ends and, if nothing
  fails, has its result;
* options and results: the loader accepts what the client accepts; the client
  parses what the loader measured and notices what is missing;
* echo clients: every message answered is answered within the two stamps, the
  second stamp comes after the last connection has ended, no recv blocks a loop
  that serves others, the function returns;
* earlier version: the same, and the messages reported are those answered.

The hazards, each at its source line and with the properties that watch it, are
in `PROJECT.json`.

## Modules

| Module | Models | Used by |
|---|---|---|
| `PingPong` | abstract: what a worker promises its connections | refined by `PingWorker` |
| `WorkerLoop` | abstract: what a worker promises `run_test` | refined by `PingWorker` |
| `PingWorker` | `worker_thread`, `ping`, `FdTimout`, its `EPollRSelector`, with the echoing client and TCP as environment | `MCPingWorker`, `PingWorker_proofs` |
| `RunTest` | `run_test` and its threads | `MCRunTest`, `RunTest_proofs` |
| `ConnectAll` | `connect_all`, `check_socket_ready` and the other end's kernel | `MCConnectAll`, `ConnectAll_proofs` |
| `TestRounds` | abstract: what a loader and its clients promise each other | refined by `ControlSession` |
| `Options` | the options the control flow depends on, from the command line to `load_from_str` | extended by `ControlSession` |
| `ControlSession` | rounds of several clients with one loader | `MCControlSession`, `ControlSession_proofs` |
| `Report` | the result from `serialize_to_str` to the report | `MCReport`, `Report_proofs` |
| `EchoNet` | the loader and TCP as a client sees them | extended by the next two |
| `EchoSelect` | the three event-loop clients | `MCEchoSelect`, `EchoSelect_proofs` |
| `EchoThreads` | the seven worker-per-connection clients | `MCEchoThreads`, `EchoThreads_proofs` |
| `OldClient` | the three tests of the earlier version and their server | `MCOldClient`, `OldClient_proofs` |

The modules join where the code does. `RunTest` sees `connect_all` through its
result, which `ConnectAll` works out, and its workers through the counter, the
mutex, the return and their results. What it takes a worker for is `WorkerLoop`:
its `CountBatch`, `Serve` and `Leave` are the steps of that module, for each
worker, and `PingWorker` implements it (`ImplementsLoop`), so that nothing is
assumed there of a worker that `worker_thread` does not do. In particular a
worker leaves without being told (`"worker"` among the faults) only when a call
failed, a peer has gone or a message came in parts. `StopsWhenTold` is the
reason for the fairness of `Leave`. `ControlSession` sees a round as connect,
run, write and, on the other side, accept, test, recv; `EchoSelect` and
`EchoThreads` are the middle of the client's side and `Report` its end.
`EchoNet` is `EXTENDS`-ed by both kinds of clients, which add their own
variables and conjoin their steps with the loader's. `OldClient` stands by
itself, as the earlier version does: there the tested program connects and the
other end, `srv.go`, accepts.

## Correspondence

`PROJECT.json` maps every definition to its lines. The main choices:

**PingWorker.** One action for each stretch of code between two points at which
another actor can be noticed: `LoopTop` (the head of the loop, up to the wait),
`WaitEvents`/`PollEmpty`/`PollAgain`/`WaitTimesOut`/`WaitFails` (the loop of
`epoll_wait_ex`, whose clock is read only after an empty `epoll_wait`),
`Expire` (one entry of `wait_queue`), `CheckDone`, `Drain` (one socket of the
batch), `SendCheck`, `Ping`. `wait_queue` is a bag of `<<socket, ready_time>>`
because a socket can be in it twice when a message comes in two parts. `armed`
is the kernel's list of edges not reported yet: an arrival arms a socket, a
report disarms it, read or not. A message is a number of segments (`MsgLen`).
A latency sample is counted (`latCount`), its size is the difference of
`currTime` and `lastTime`.

**RunTest.** The main thread goes through `connect`, `selectors`, `spawn`,
`write`, `barrier`, `run`, `join`, `aggregate`. A worker's `Count`, `Lock`,
`Unlock` are the three statements before its loop; `Uncount` is the destructor
of `DecOnExit`, which runs before the thread has ended (`Exit`). Between them a
worker counts messages that came back (`CountBatch`) and answers some of those
(`Serve`), so that `mcount` may be ahead of the answers. Dealing out in
turn (`Owner`), the percentile index and the sort (`Mps`) are translated; an
index past the end of `mps` gives `Garbage`. `PercentilesAreCounts` says that
this does not happen when every connection was answered.

**ConnectAll.** A socket is `none`, `connecting`, `established`, `refused` or `reset`;
`OpenOne` covers the connect that succeeds at once as the code does, by adding
it to the set all the same. The time waited is counted in ticks of which a
millisecond has `NsPerMs`. `pollEnd` is the end of the current `epoll_wait`,
which takes whole milliseconds of what is left; `PollAgain` is the next round of
the loop of `epoll_wait_ex`, also after `EINTR` (an empty return at any time).

**EchoNet, EchoSelect, EchoThreads.** `setup` is chosen in the initial state:
which program runs, in how many segments a message comes and what may fail. The
programs differ in few steps, and the conditions on `Client` show where. `news`
is the edge of an edge-triggered set. The loader closes with a FIN, or with a
reset if an answer was left unread (with `"reset"` in `faults` in any case, as
when its host goes away); an answer to a closed end draws a reset. `BindFails`
differs by program: the functions of `client.cpp` take a bind that failed for
success (line 130) and never tell the loader to connect. An event loop then
waits in an empty selector; `run_test_th` takes both stamps and returns 0.
The Python clients raise, and `client.go` aborts.

**ControlSession.** A session is a pair of client and round. `links` are the
test connections a client accepted, each with the session it was made for,
which need not be the current one: every round listens at the same address.
`setup`, chosen initially, has the options of each client and what is out of the
ordinary. `"client"`: a client's function may raise (`FuncRaises`), its process
die (`Dies`) or its bind fail unnoticed (`BindIgnored`, after which it is in
`recv` like one of `run_test_th`, or `"hung"` in an empty selector). `"slow"`:
the loader may wait in vain for a request. `"once"`: it was started with `-s`.
`"connect"`: `connect_all` fails for a reason of its own, its wait for the
handshakes among them, or the selectors of `run_test` do, also when the client
is accepting (`ConnectFails`; `LinkRefused` is the client that does not listen).
`"write"`: a first message cannot be written. That, or a client that has left by
then and so resets its connections, takes the loader from `"run"` to `"stuck"`
(`RunHangs`, finding 1), where it remains. `setup.few` are the rounds with too
few messages for `get_lats`: a whole result is then recorded as `err`
(`Reports`, used by `RecvResult`). A loader that
ends (`ProcessEnds`: by `-s`, or by a division by zero) takes the connections
in its queue with it, and connects are refused from then on. In `TestRounds` a
round is asked for when its control connection is there, served while
`process_client` runs, finished when it has been closed, and judged when
`results_struct` gets its entry.

**OldClient.** One module for both ways to work: `wpc` of a socket says what
its thread, or the loop on its behalf, does with it. `Succeeds` and `FailsOn`
are what the two make of the result of `process_message`. Read and write of
`handleRequest` come as one step (`AnotherMessage`) because nothing is shared
between them. `MaxMsgs` stands for the end of the server's time.

**Options, Report.** Pure data on a short path. `Options` keeps `None` and zero
apart where Python's truth does not; the text of the request makes a number
unsigned. It has no variables: `ControlSession` uses its operators. `Report`
builds the text as a sequence of numbers, the map as key, value, key, value
(`Pairs`) in any order an unordered map has, cuts it anywhere, also within a number, and parses it with the
slices of `get_run_stats`.

## Runs

Nine runs pass and three show a finding. Every property of a passing run is
broken by the mutant of a mapped definition that `PROJECT.json` names: a small
bug of the kind this code could have.

| Run | Instance | Shows |
|---|---|---|
| `worker_whole` | 2 connections, pauses 1..2, whole messages, peers may close; `FairSpec` | `EveryArrivalQueuedOnce`, `SleepIsBounded`, `PacingRespected`, `ImplementsLoop` (refinement), `StopsWhenTold`, `ServedEventually` |
| `worker_split` | the same with messages in two parts, closes, resets, failing writes and waits; symmetry, safety only | `TypeOK`, `OneMessageInFlight`, `CountersAgree`, `LatencyIsADifference`, `ImplementsPingPong` (refinement) |
| `run_all` | 2 workers, 3 connections, 2 slices, all failures | `TypeOK`, `NobodyStartsEarly`, `NoThreadOutlivesTheRun`, `EarlyEndIsTrue`, `EveryAnswerReported`, `PercentilesAreCounts`, `RunReturnsUnlessFailed` |
| `run_write_fails` | violation | `RunReturns` |
| `connect_all` | 4 connections through a queue of 2, all failures | `WaitingIsWatched`, `SuccessMeansAllConnected`, `ConnectReturns` |
| `connect_patience` | violation | `PatienceIsMilliseconds` |
| `select_all` | 2 connections, 2 messages each, 7 setups of the 3 programs | `FdLeftIsWatched`, `RecvNeverBlocks`, `MeasuresToTheEnd`, `AnswersAreMeasured`, `ClientReturns`, `MessageIsRead` |
| `threads_all` | 2 connections, 2 messages each, 17 setups of the 7 programs, binds and accepts that fail, resets | `MeasuresToTheEnd`, `AnswersAreMeasured`, `ClientReturns` |
| `session_all` | 2 clients, 2 rounds, 2 connections, a result of 2 segments; no faults; functions that fail, clients that die and a slow loader; `-s`; connects and first writes that fail; a result of few messages; and six kinds of options for one client | `RoundsSucceed`, `AcceptedIsServed`, `ImplementsRounds` (refinement), `LoaderIsFreed`, `EveryRoundEnds` |
| `old_all` | 2 connections, 2 messages each, the 3 tests, with and without faults | `CountIsAnswers`, `MeasuresToTheEnd`, `AnswersAreMeasured`, `ClientReturns` |
| `report_all` | every map over 4 latencies, whole and cut texts | `ParsedIsMeasured` |
| `report_percentiles` | violation | `LatsArePercentiles` |

The type invariants of `PingWorker` and `RunTest` are checked by a run and
proved; those of the other state machines are proved and not part of a run
(`Report`, pure data, has none). `CHECK_DEADLOCK FALSE` stands in every
configuration because every program here ends: the worker returns, the run is
over, the result is reported.

## Bounds

* Two connections are enough for a worker or a client to have one socket in a
  batch while another is queued, paced, lost or being written to; all its state
  is per socket or counts sockets. `Drain` takes the sockets of a batch in any
  order, so that symmetry is sound where no liveness is checked.
* Two messages on a connection give a first answer, a sample of the latency and
  a pause; later messages repeat the second.
* `MaxTime` stops the clock only for a worker that has nothing to wait for;
  a wait can always run out (`Tick`). Pauses 1..2 with an idle wait of 2 give
  entries that expire together, one after the other, and during a round.
* A message in two segments is the least that can be cut. More segments add no
  new branch: every comparison is with the whole.
* Two workers and three connections: one worker has two connections, one has
  one, so that "first", "last" and "all" differ. Three percentiles give indices
  at both ends.
* Four connections through a queue of two: the queue fills, empties and fills
  again.
* Two clients with two rounds: a session can wait in the loader's queue while
  another is served, and a round can follow one that failed. `ListenQueue = 0`
  (one place) is what two clients can fill; the code's 3 would never be full.
* One connection in `MCReport` (its first message is counted without a latency);
  buckets 0, 1, 4, 9 and counts 1, 3, 12: key zero, neighbours, gaps, and a
  number with two digits that can be cut.
* `Word = 16`, pauses from -1 to 5: a negative number is distinct from every
  positive one also without its sign.
* `ConnTimeoutMs = 4`, `NsPerMs = 3`: a wait polls for one whole millisecond,
  then for what is left with polls of zero.
* `OldClient`: two threads make "some" and "all" differ for the start barrier
  and for the join. In all modules one connection more repeats what the second
  does.

## Fairness

* Worker: `WF_vars(Worker)` (the thread is scheduled) and `WF_vars(Tick)` (time
  passes). Nothing is asked of the client, the network or the main thread.
* Run: weak fairness of the main thread and of each of a worker's steps.
  Every worker locks the mutex once, so that it is free for good after finitely
  many steps and weak fairness of `Lock` is enough. A worker told to stop leaves
  its loop: that is `StopsWhenTold` of `PingWorker`, without which the model
  would only assume it. It need not serve or fail.
* connect_all: the code runs and time passes. The other end may never answer.
* Echo clients: one weak fairness condition for the client's steps together, one
  for the loader and TCP together. Either side alone can make only finitely many
  steps, so each action continuously possible does happen. The loader's run
  ends, because its runtime does; a client of a loader that hangs in `run_test`
  waits with it, which is left to `ControlSession`.
* Control sessions: the loader's process, each client's process, the delivery of
  each result. `ConnectFails`, `RunHangs`, `FuncRaises`, `SendFails`,
  `BindIgnored` and `Dies` are outside of the fair steps. That a run ends is
  `RunReturnsUnlessFailed` of `RunTest`; the failed write it excepts is
  `RunHangs`.
* Earlier version: the client's threads, and the server together with TCP: its
  time ends, and what was sent arrives.

No failing call is ever fair: it may happen, it need not.

## Proofs

All proofs are for arbitrary constants that satisfy the named assumptions of
the module (finite set of connections, at least one worker and no more workers
than connections, ordered pauses, a clock that starts above every pause, any
setup of the kind the module names). `EndOfTheTest` of `EchoSelect` and
`EchoThreads` assumes in addition that there is a connection: a round of none is
over before the loader's is.

| Module | Theorems | Argument |
|---|---|---|
| `PingWorker_proofs` | `TypeCorrect` (`TypeOK`), `OneMessage` (`OneMessageInFlight`), `Refinement` (`ImplementsPingPong`), `LatencyIsSound` (`LatencyIsADifference`), `SleepIsShort` (`SleepIsBounded`), `ArrivalsAreQueuedOnce` (`EveryArrivalQueuedOnce`), `CountersAlwaysAgree` (`CountersAgree`), `PacingHolds` (`PacingRespected`), `LoopRefinement` (`ImplementsLoop`) | `IInv` = `TypeOK`, `PingHasTarget` (in `ping` there is a socket at the head of `ready_fds`), `OneMessageInFlight`. The refinement takes `IInv` as given and maps every step: `Deliver` of the last segment is `Return`, `PingOk` is `Serve`, `PingFails` is `Abandon`, close and reset are `Lose` on one connection, `StopRun` is `Stop`, all others stutter. `OneMessageInFlight` is needed: with two messages on a connection an answer would not leave it to the client. The two about the clock need `TimeInv`: no time the worker keeps is ahead of the clock, an entry of `wait_queue` by a pause at most, `currTime` is not behind a `lastTime` while a round is made, and a socket that was never pinged is in `ready_fds` until the round is over. The rest is about the queues. Numbers of things are sizes of sets: a bag, or the answers on each connection, counts its `Copies`, and one more or one less is one element more or less. `QueuesInv`: the worker empties its queues in order (`Phases`), and what is queued was drained before. With it `CountersAgree` and `EveryArrivalQueuedOnce` are inductive as they stand. `PaceInv` adds `Paced`: of a socket with something to read, an entry of `wait_queue` is not before its pause is over, and one in `ready_fds` is past it; that needs to know that a peer that has gone sends nothing more. `LoopRefinement` puts the two together: in `ping` the head of `ready_fds` is counted and not yet answered (`CountersAgree`), and there is a message to read for it (`EveryArrivalQueuedOnce`), so that a failing ping has another reason. |
| `RunTest_proofs` | `Together` (`NobodyStartsEarly`), `AllJoined` (`NoThreadOutlivesTheRun`), `EarlyEndIsRight` (`EarlyEndIsTrue`), `NoAnswerLost` (`EveryAnswerReported`), `TypeCorrect` (`TypeOK`), `PercentilesAreRight` (`PercentilesAreCounts`) | `IInv` = `ThreadsTypeOK`, `Barrier`, `Joins`, `EarlyEndIsTrue`. `Barrier` says that `active_count` is the number of threads that have arrived and not left, that the main thread has the mutex until the barrier, and that afterwards everyone has arrived. The counter alone would not do: it goes down again. `NoAnswerLost` rests on `AllJoined`: the numbers read are final because nobody is left to change them. `TypeCorrect` needs that the sum of the messages is a number: a sum over a set is the size of the set of its `Copies` (`SumCounts`), shown by a smallest subset for which it is not. `PercentilesAreRight`: the index of a percentile is below the number of connections (`ShareIsBelow`), a sorted sequence has a least number with more than that many not above it (`MpsExists`), and a higher index never has a lower one (`MpsInOrder`). |
| `ConnectAll_proofs` | `TypeCorrect` (`TypeOK`), `CountIsRight` (`WaitingIsWatched`), `WaitsAreUseful`, `SuccessIsComplete` (`SuccessMeansAllConnected`) | `IInv` = `TypeOK`, `Bookkeeping` (every opened socket is either watched or was checked, the count is the size of the set and fits the queue), `SuccessMeansAllConnected`. |
| `EchoSelect_proofs` | `CountIsRight` (`FdLeftIsWatched`), `TypeCorrect` (`TypeOK`), `MeasuredWork` (`AnswersAreMeasured`), `NeverBlocks` (`RecvNeverBlocks`), `EndOfTheTest` (`MeasuresToTheEnd`) | `IInv`: the batch is about watched sockets, one event for each, and the socket at hand is watched and no longer in the batch. So a socket given up was still counted. `ClosedAfterTheRun`, about `EchoNet`: the end of a connection is on its way, or has arrived, only when the loader is done with its run or gave it up. `StampInv` adds the stamps, `ReadInv` that an event in the batch is still true when it is handled: what it announced was read by nobody else, and an end is for good. |
| `EchoThreads_proofs` | `TypeCorrect` (`TypeOK`), `MeasuredWork` (`AnswersAreMeasured`), `EndOfTheTest` (`MeasuresToTheEnd`) | `IInv`: a worker has a connection, and the stamp is taken before the first answer where a program does so. `EndInv`: `ClosedAfterTheRun` as above, a client past its accepts has every connection unless its bind failed, and then nobody has connected (`NeverRan`), a worker that has finished saw the end of its connection, and a server without its first stamp still has something to read on every connection (`Unstamped`), so that it cannot end without one. |
| `ControlSession_proofs` | `TypeCorrect` (`TypeOK`), `Refinement` (`ImplementsRounds`), `NobodyLeftAlone` (`AcceptedIsServed`), `NothingIsLost` (`RoundsSucceed`) | `RoundsInv`: a session is in one place (queue, at work or closed), a client is at one round with those before it judged, and a result comes with the end of its session and is read by it alone. `ServedInv` adds what was sent (`Requests`), that a client accepting in the session at work has every connection made for it (`Linked`), and that `main` and the loader agree about pauses (`OptionsAgree`, arithmetic modulo any word). `ServedInv` also covers a client whose loader could not connect: the session is closed with connections missing only for a reason of `Forsaken`. `FlowInv` says, under `NothingFails`, how far a client is when the loader has not begun, is at, or is done with its session (`Fine`), and that no segment of a result is lost: what has been written is coming or got. |
| `OldClient_proofs` | `TypeCorrect` (`TypeOK`), `EveryAnswerCounted` (`CountIsAnswers`), `MeasuredWork` (`AnswersAreMeasured`), `EndOfTheTest` (`MeasuresToTheEnd`) | `IInv` is `Looping` (as for `EchoSelect`: `fd_left` is the size of the selector) or `Threading` (`started` is the number of threads past their first statement, nobody is past the barrier before all are, a thread that has gone has added what it answered). `EndInv`: what was given up has ended. |
| `Report_proofs` | `ParsingIsRight` (`ParsedIsMeasured`) | `ReportInv`: on the wire is the whole text for some order of the map, and the client has a beginning of it, its last number possibly cut (`Begins`). `SerializedParts` says what is in which place of a whole text. What passes the assertion (`Complete`) then reaches to its last place (`CompleteIsWhole`): a text that ends before the percentiles has nothing where their number should be, one that ends with that number has not a number of percentiles, and from there on the assertion compares the lengths. A whole text is parsed to the result it was made from (`WholeIsParsed`, `MapIsParsed`), whatever the order. |

Each temporal theorem combines `Init => IInv`, `IInv /\ [Next]_vars => IInv'`
and `IInv => ...` with the prover's temporal backend; each inductive step has
one case for each action.

Every safety invariant and action property of the passing runs, and both kinds of
refinement, are proved. Where a definition is a sum over a set, which the
induction theorems of the library would be for, the proof takes a smallest
subset for which the lemma fails (`WFMin` on the subsets of a finite set) and
contradicts it.

Only model-checked: everything that is a leads-to or an "eventually"
(`StopsWhenTold`, `ServedEventually`, `RunReturnsUnlessFailed`, `ConnectReturns`,
`ClientReturns`, `MessageIsRead`, `LoaderIsFreed`, `EveryRoundEnds`), since
liveness under fairness and `ENABLED` are out of the prover's reach; and the
operators of `Report` that no proved property speaks of, those of `get_lats`,
whose property the code violates.

## Findings

Three runs end in a counterexample, each a place where the code disagrees with
what the repository says of it.

1. `run_write_fails`: when a first message cannot be written (`server.cpp:550`)
   the block that unlocks `run_lola_run` is skipped and the main thread joins
   workers that wait for this mutex (`server.cpp:385`). `run_test` never
   returns, although line 612 has a value for that case. This is also why
   `RunReturnsUnlessFailed` excepts `failed`. A client that resets its
   connections in time brings this about from outside, and every other client
   then waits for the loader: `"stuck"` in `ControlSession`, which
   `LoaderIsFreed` and `EveryRoundEnds` except.
2. `connect_patience`: `connect_all` hands `conn_timeout_ms` = 1000 to a
   parameter in nanoseconds (`server.cpp:265`, `common.h:50`): the handshakes
   get a microsecond, not a second. The client, which is accepting, is left
   alone (`"connect"` in `Forsaken`).
3. `report_percentiles`: `get_lats` sums the keys of a dict where it needs the
   counts (`main.py:443`): the latency percentiles of the report are not those
   of the measured latencies.

## Divergences met while modelling

What the code does at these places is what the models do; the property named
excepts it, by the condition named.

* `server.cpp:593`: the percentile index is a share of all connections, `mps`
  has those that were answered: past its end when some were not (`Garbage`).
  `PercentilesAreCounts` is about a run with all of them answered.
* `server.cpp:565`: a run whose workers have all left early is returned as a
  success. `EarlyEndIsTrue` says only that it was cut short rightly.
* `client.cpp:130`: a failing bind returns 1, true, from a bool function. The
  event loops then wait in an empty selector (`Hangs`, `FdLeftIsWatched`;
  `"hung"` in `ControlSession`). `run_test_th` takes both stamps and returns 0
  without a run: `MeasuresToTheEnd` of `EchoThreads` excepts it (`NeverRan`) and
  no other client.
* `client.cpp:140`, `main.py` accepts: no timeout. A client whose loader gave up
  waits for ever (`Hangs`, `"giveup"`, `Forsaken`). A loader gives up when it
  runs out of sockets, when a handshake takes too long or when it is refused.
* `main.py:504` against `server.cpp:130`: a pause from a negative to a positive
  number passes `main`; the loader reads the lower end as a very large number,
  refuses the request and does not tell. The client waits for ever (`Negative`
  in `AcceptedIsServed`).
* `server.cpp:508` and 659: a test of no connections or of no time divides by
  zero. The loader's process ends (`ProcessEnds`), and with it every session;
  the clients' rounds fail, but for one that is already accepting.
* `server.cpp:737`: with `-s` the loader ends after one session; the clients in
  its queue are reset, as above.
* `main.py:500`: zero is taken for an option that is absent.
* `server.cpp:633`: a loader that lost its patience does not tell the client.
* `main.py:416`: one `recv` for the result: one that comes in several segments
  fails the round (`RoundsSucceed`), one cut within its last number passes for a
  whole one (`ParsedIsMeasured`).
* `main.py:69`: connections made for a round that failed are accepted by the
  client's next round. Its rounds still end (`EveryRoundEnds`).
* `main.py:448`: with few messages a percentile stays `None` and the round is
  recorded as failed (`Fail` in `Report`; `few` in `RoundsSucceed`).
* `client.cpp:160` and 208, `main.py:324`, `client.go:150`: workers answer
  before the first stamp is taken; `main.py:277` takes it in the middle of the
  accepts. `AnswersAreMeasured` is about the clients named by `StampsFirst`.
* `main.py:169` and 203: a server closes with its first lost connection and
  takes its first stamp with its first read: when connections are reset or given
  up before anything was read the second stamp comes without a first, and
  `times[1]` is missing (`MeasuresToTheEnd` excepts `IsServer` with `"reset"` or
  `"giveup"`).
* `client.cpp:219`: an accept that fails after the first destroys joinable
  threads, which ends the process (`rc = "abort"`; `Dies` in `ControlSession`).
* `client.go:162`: a type assertion that panics on the first read without an
  error (`rc = "abort"`).

## Not modelled

* `worker_thread_fast`: nothing calls it. `set_rr_prio`: unused. `log2_64`:
  64-bit multiplication beyond TLC's integers, compiled only with `LOG2_LAT`;
  so the bucket of a latency is left out too, and `avg_lat_ns`.
* Of the earlier version: the tests in Python of `old/main.py`, the command
  lines, the raised priority around the start (`pthread_setschedparam`), the
  control and statistics processes of `srv.go`, which have no effect yet, and
  `GIL_lock_test.py`.
* A request split in segments (it is one small write) and malformed requests,
  which `main.py` does not send. A number of connections below zero.
* What `num_conn` and message length do to the memory: `resize`, arrays on the
  stack.
* `plot_tests_results.py`, `pretty_yaml.py`: formatting. `Makefile`,
  `run_tests.sh`, `lecture/`, `results/`: build rules, scripts and data.
* That the clock is never set back is assumed (`CLOCK_REALTIME` may be).

## Plan

Written first, because all measurements rest on it: `PingPong` and `PingWorker`,
then `RunTest` and `ConnectAll` around it, then the echo clients, sessions,
options and results; then `TestRounds` with its refinement, the earlier version,
and the proofs of what the runs of all these check. What is left, in order:

1. Proofs: that `EchoSelect` and `EchoThreads` implement one abstract echoing
   client, as `PingWorker` implements `PingPong` for the other end.
2. The Python tests of `old/main.py`, as further clients of `OldClient`, with
   their counters that are not atomic.
3. `EchoThreads`: the parts of asyncio its clients rely on, in more detail.

## Running it

    tlc -config MCRunTest_all.cfg MCRunTest.tla
    tlapm RunTest_proofs.tla

The longest passing runs (`worker_split`, `session_all`) take about two minutes.
