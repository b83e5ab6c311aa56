--------------------------- MODULE RunTest_proofs ---------------------------
(***************************************************************************)
(* Proofs about RunTest for every number of workers, of connections and of *)
(* slices: the counter and the mutex start the workers together, the joins *)
(* end them all.                                                           *)
(***************************************************************************)
EXTENDS RunTest, FiniteSetTheorems, WellFoundedInduction, TLAPS

\* The workers that have counted themselves in and not out.
Arrived == {w \in Workers : wpc[w] \in {"counted", "locked", "running", "leaving"}}

\* The main thread holds the mutex until all are counted; from then on every
\* worker is past its count.
Barrier ==
    /\ activeCount = Cardinality(Arrived)
    /\ mpc \in {"connect", "selectors"} => \A w \in Workers : wpc[w] = "none"
    /\ mpc \in {"connect", "selectors", "spawn", "write", "barrier"} => mutex = MainThread
    /\ mpc = "barrier" => written = NumConn
    /\ mpc = "run" => mutex # MainThread
    /\ mutex = MainThread => \A w \in Workers : wpc[w] \in {"none", "new", "counted"}
    /\ mutex # MainThread =>
          written = NumConn /\ \A w \in Workers : wpc[w] \notin {"none", "new"}

\* The workers joined so far have ended.
Joins ==
    /\ \A w \in Workers : w < joined => wpc[w] = "exited"
    /\ mpc = "aggregate" => joined = NumWorkers
    /\ mpc = "returned" => joined = NumWorkers \/ \A w \in Workers : wpc[w] = "none"

IInv == ThreadsTypeOK /\ Barrier /\ Joins /\ EarlyEndIsTrue

LEMMA WorkersFinite == IsFiniteSet(Workers) /\ Cardinality(Workers) = NumWorkers
<1>1. 0 \in Int /\ NumWorkers - 1 \in Int /\ NumWorkers \in Nat \ {0}
    BY WorkersAssumption
<1>2. IsFiniteSet(0..(NumWorkers - 1))
      /\ Cardinality(0..(NumWorkers - 1)) = IF 0 > NumWorkers - 1 THEN 0
                                            ELSE (NumWorkers - 1) - 0 + 1
    BY <1>1, FS_Interval
<1> QED BY <1>1, <1>2 DEF Workers

LEMMA ArrivedFinite ==
    /\ IsFiniteSet(Arrived)
    /\ Cardinality(Arrived) \in 0..NumWorkers
    /\ Cardinality(Arrived) = NumWorkers => Arrived = Workers
    /\ Cardinality(Arrived) = 0 => Arrived = {}
<1>1. Arrived \subseteq Workers
    BY DEF Arrived
<1>2. /\ IsFiniteSet(Arrived)
      /\ Cardinality(Arrived) <= Cardinality(Workers)
      /\ Cardinality(Arrived) = Cardinality(Workers) => Arrived = Workers
    BY <1>1, WorkersFinite, FS_Subset
<1>3. Cardinality(Arrived) \in Nat
    BY <1>2, FS_CardinalityType
<1>4. Cardinality(Arrived) = 0 => Arrived = {}
    BY <1>2, FS_EmptySet
<1> QED BY <1>2, <1>3, <1>4, WorkersFinite

LEMMA InitIInv == Init => IInv
<1> SUFFICES ASSUME Init PROVE IInv
    OBVIOUS
<1>1. ThreadsTypeOK
  <2>1. mpc \in MainPCs /\ wpc \in [Workers -> WorkerPCs]
    BY DEF Init, MainPCs, WorkerPCs
  <2>2. /\ activeCount \in 0..NumWorkers /\ joined \in 0..NumWorkers
        /\ written \in 0..NumConn /\ sleepsLeft \in 0..Sleeps
    BY WorkersAssumption, ConnAssumption, SleepsAssumption DEF Init
  <2>3. mutex \in {Nobody, MainThread} /\ done \in BOOLEAN /\ failed \in BOOLEAN
    BY DEF Init
  <2> QED BY <2>1, <2>2, <2>3 DEF ThreadsTypeOK
<1>2. Arrived = {}
    BY DEF Init, Arrived
<1>3. Barrier
    BY <1>2, FS_EmptySet DEF Init, Barrier
<1>4. Joins /\ EarlyEndIsTrue
    BY DEF Init, Joins, EarlyEndIsTrue, Workers
<1> QED BY <1>1, <1>3, <1>4 DEF IInv

\* A step that leaves the workers where they are leaves the count of them.
LEMMA SameArrived == UNCHANGED wpc => UNCHANGED Arrived
BY DEF Arrived

LEMMA MainStep == IInv /\ Main => IInv'
<1> SUFFICES ASSUME IInv, Main PROVE IInv'
    OBVIOUS
<1>t. ThreadsTypeOK
    BY DEF IInv
<1>n. NumWorkers \in Nat \ {0} /\ NumConn \in Nat /\ Sleeps \in Nat
    BY WorkersAssumption, ConnAssumption, SleepsAssumption
<1>1. CASE Connect
  <2>1. ThreadsTypeOK'
    BY <1>1, <1>t DEF Connect, Return, shared, ThreadsTypeOK, MainPCs
  <2>2. Barrier'
    BY <1>1, SameArrived DEF Connect, Return, shared, IInv, Barrier
  <2>3. Joins' /\ EarlyEndIsTrue'
    BY <1>1 DEF Connect, Return, IInv, Barrier, Joins, EarlyEndIsTrue
  <2> QED BY <2>1, <2>2, <2>3 DEF IInv
<1>2. CASE MakeSelectors
  <2>1. ThreadsTypeOK'
    BY <1>2, <1>t DEF MakeSelectors, Return, shared, ThreadsTypeOK, MainPCs
  <2>2. Barrier'
    BY <1>2, SameArrived DEF MakeSelectors, Return, shared, IInv, Barrier
  <2>3. Joins' /\ EarlyEndIsTrue'
    BY <1>2 DEF MakeSelectors, Return, IInv, Barrier, Joins, EarlyEndIsTrue
  <2> QED BY <2>1, <2>2, <2>3 DEF IInv
<1>3. CASE Spawn
  <2>1. PICK w \in Workers :
          /\ wpc[w] = "none"
          /\ wpc' = [wpc EXCEPT ![w] = "new"]
          /\ mpc' = IF w = NumWorkers - 1 THEN "write" ELSE "spawn"
    BY <1>3 DEF Spawn
  <2>2. /\ mpc = "spawn" /\ mpc' \in {"spawn", "write"}
        /\ UNCHANGED <<activeCount, mutex, done, failed, written, sleepsLeft, joined>>
    BY <1>3, <2>1 DEF Spawn, shared
  <2>3. ThreadsTypeOK'
    BY <2>1, <2>2, <1>t DEF ThreadsTypeOK, MainPCs, WorkerPCs
  <2>4. UNCHANGED Arrived
    BY <2>1, <1>t DEF Arrived, ThreadsTypeOK
  <2>5. Barrier'
    BY <2>1, <2>2, <2>4, <1>t DEF IInv, Barrier, ThreadsTypeOK
  <2>6. Joins' /\ EarlyEndIsTrue'
    BY <2>1, <2>2, <1>t DEF IInv, Joins, EarlyEndIsTrue, ThreadsTypeOK
  <2> QED BY <2>3, <2>5, <2>6 DEF IInv
<1>4. CASE WriteFirst
  <2>1. mpc = "write" /\ UNCHANGED <<wpc, activeCount, mutex, sleepsLeft, joined>>
    BY <1>4 DEF WriteFirst
  <2>2. \/ /\ mpc' = "write" /\ written < NumConn /\ written' = written + 1
           /\ UNCHANGED <<failed, done>>
        \/ /\ mpc' = "barrier" /\ written = NumConn /\ written' = written
           /\ UNCHANGED <<failed, done>>
        \/ /\ mpc' = "join" /\ written' = written
           /\ failed' = TRUE /\ done' = TRUE
    <3>1. written \in 0..NumConn
      BY <1>t DEF ThreadsTypeOK
    <3>2. ~MoreToWrite => written = NumConn
      BY <3>1, <1>n DEF MoreToWrite
    <3> QED BY <1>4, <2>1, <3>2 DEF WriteFirst, MoreToWrite
  <2>3. ThreadsTypeOK'
    <3>1. written' \in 0..NumConn
      BY <2>2, <1>t, <1>n DEF ThreadsTypeOK
    <3> QED BY <2>1, <2>2, <3>1, <1>t DEF ThreadsTypeOK, MainPCs
  <2>4. Barrier'
    BY <2>1, <2>2, SameArrived DEF IInv, Barrier
  <2>5. Joins' /\ EarlyEndIsTrue'
    BY <2>1, <2>2 DEF IInv, Joins, EarlyEndIsTrue
  <2> QED BY <2>3, <2>4, <2>5 DEF IInv
<1>5. CASE PassBarrier
  <2>1. /\ mpc = "barrier" /\ activeCount = NumWorkers /\ mutex' = Nobody /\ mpc' = "run"
        /\ UNCHANGED <<wpc, activeCount, done, failed, written, sleepsLeft, joined>>
    BY <1>5 DEF PassBarrier, AllCounted
  <2>2. ThreadsTypeOK'
    BY <2>1, <1>t DEF ThreadsTypeOK, MainPCs
  <2>3. Arrived = Workers
    BY <2>1, ArrivedFinite DEF IInv, Barrier
  <2>4. \A w \in Workers : wpc[w] \notin {"none", "new"}
    BY <2>3 DEF Arrived
  <2>5. Barrier'
    <3>1. activeCount' = Cardinality(Arrived')
      BY <2>1, SameArrived DEF IInv, Barrier
    <3>2. mutex' # MainThread
      BY <2>1 DEF Nobody, MainThread
    <3>3. written' = NumConn /\ \A w \in Workers : wpc'[w] \notin {"none", "new"}
      BY <2>1, <2>4 DEF IInv, Barrier
    <3> QED BY <2>1, <3>1, <3>2, <3>3 DEF Barrier
  <2>6. Joins' /\ EarlyEndIsTrue'
    BY <2>1 DEF IInv, Joins, EarlyEndIsTrue
  <2> QED BY <2>2, <2>5, <2>6 DEF IInv
<1>6. CASE RunSlice
  <2>1. ThreadsTypeOK'
    BY <1>6, <1>t, <1>n DEF RunSlice, shared, ThreadsTypeOK
  <2>2. Barrier'
    BY <1>6, SameArrived DEF RunSlice, shared, IInv, Barrier
  <2>3. Joins' /\ EarlyEndIsTrue'
    BY <1>6 DEF RunSlice, IInv, Joins, EarlyEndIsTrue
  <2> QED BY <2>1, <2>2, <2>3 DEF IInv
<1>7. CASE StopRun
  <2>1. /\ mpc = "run" /\ mpc' = "join" /\ RunEnds
        /\ UNCHANGED <<failed, written, sleepsLeft, joined, wpc, activeCount, mutex>>
    BY <1>7 DEF StopRun
  <2>2. ThreadsTypeOK'
    BY <1>7, <1>t DEF StopRun, ThreadsTypeOK, MainPCs
  <2>3. Barrier'
    BY <2>1, SameArrived DEF IInv, Barrier
  <2>4. Joins'
    BY <2>1 DEF IInv, Joins
  <2>5. EarlyEndIsTrue'
    <3>1. CASE sleepsLeft = 0
      BY <3>1, <2>1 DEF EarlyEndIsTrue
    <3>2. CASE activeCount = 0
      <4>1. Arrived = {}
        BY <3>2, ArrivedFinite DEF IInv, Barrier
      <4>2. \A w \in Workers : wpc[w] \notin {"none", "new"}
        BY <2>1 DEF IInv, Barrier
      <4>3. \A w \in Workers : wpc[w] \in {"ending", "exited"}
        BY <4>1, <4>2, <1>t DEF Arrived, ThreadsTypeOK, WorkerPCs
      <4> QED BY <4>3, <2>1 DEF EarlyEndIsTrue
    <3> QED BY <3>1, <3>2, <2>1 DEF RunEnds
  <2> QED BY <2>2, <2>3, <2>4, <2>5 DEF IInv
<1>8. CASE Join
  <2>1. /\ mpc = "join" /\ mpc' \in {"join", "aggregate"}
        /\ UNCHANGED <<failed, written, sleepsLeft, wpc, activeCount, mutex, done>>
        /\ \/ joined = NumWorkers /\ joined' = joined
           \/ wpc[joined] = "exited" /\ joined' = joined + 1 /\ mpc' = "join"
              /\ joined # NumWorkers
    BY <1>8 DEF Join, Gone, shared
  <2>2. ThreadsTypeOK'
    BY <2>1, <1>t, <1>n DEF ThreadsTypeOK, MainPCs
  <2>3. Barrier'
    BY <2>1, SameArrived DEF IInv, Barrier
  <2>4. \A w \in Workers : w < joined' => wpc'[w] = "exited"
    <3> SUFFICES ASSUME NEW w \in Workers, w < joined' PROVE wpc[w] = "exited"
        BY <2>1
    <3>1. w \in Int /\ joined \in Int
        BY <1>t, <1>n DEF ThreadsTypeOK, Workers
    <3>2. CASE w < joined
        BY <3>2 DEF IInv, Joins
    <3>3. CASE ~(w < joined)
      <4>1. w = joined /\ wpc[joined] = "exited"
        BY <3>1, <3>3, <2>1
      <4> QED BY <4>1
    <3> QED BY <3>2, <3>3
  <2>5. Joins'
    BY <2>1, <2>4 DEF Joins
  <2>6. EarlyEndIsTrue'
    BY <2>1 DEF IInv, EarlyEndIsTrue
  <2> QED BY <2>2, <2>3, <2>5, <2>6 DEF IInv
<1>9. CASE Aggregate
  <2>1. /\ mpc = "aggregate" /\ mpc' = "returned"
        /\ UNCHANGED <<failed, written, sleepsLeft, joined, wpc, activeCount, mutex, done>>
    BY <1>9 DEF Aggregate, Return, shared
  <2>2. ThreadsTypeOK'
    BY <2>1, <1>t DEF ThreadsTypeOK, MainPCs
  <2>3. Barrier'
    BY <2>1, SameArrived DEF IInv, Barrier
  <2>4. Joins' /\ EarlyEndIsTrue'
    BY <2>1 DEF IInv, Joins, EarlyEndIsTrue
  <2> QED BY <2>2, <2>3, <2>4 DEF IInv
<1> QED BY <1>1, <1>2, <1>3, <1>4, <1>5, <1>6, <1>7, <1>8, <1>9 DEF Main

\* A worker that goes from one place to another, the counter following.
LEMMA WorkerMoves ==
    ASSUME IInv, NEW w \in Workers, NEW pc \in WorkerPCs,
           wpc' = [wpc EXCEPT ![w] = pc],
           UNCHANGED <<mpc, failed, done, written, sleepsLeft, joined>>,
           mutex' \in Workers \cup {Nobody, MainThread},
           mutex' = MainThread <=> mutex = MainThread,
           wpc[w] \notin {"none", "exited"},
           pc \notin {"none", "new"},
           mutex = MainThread => pc = "counted",
           wpc[w] = "ending" => pc = "exited",
           activeCount' = Cardinality(Arrived')
    PROVE  IInv'
<1>t. ThreadsTypeOK
    BY DEF IInv
<1>n. NumWorkers \in Nat \ {0}
    BY WorkersAssumption
<1>1. ThreadsTypeOK'
  <2>1. activeCount' \in 0..NumWorkers
    <3>1. Arrived' \subseteq Workers
      BY DEF Arrived
    <3>2. IsFiniteSet(Arrived') /\ Cardinality(Arrived') <= NumWorkers
      BY <3>1, WorkersFinite, FS_Subset
    <3>3. Cardinality(Arrived') \in Nat
      BY <3>2, FS_CardinalityType
    <3> QED BY <3>2, <3>3, <1>n
  <2>2. wpc' \in [Workers -> WorkerPCs]
    BY <1>t DEF ThreadsTypeOK
  <2> QED BY <2>1, <2>2, <1>t DEF ThreadsTypeOK
<1>2. \A v \in Workers : wpc'[v] = IF v = w THEN pc ELSE wpc[v]
    BY <1>t DEF ThreadsTypeOK
<1>3. Barrier'
    BY <1>2 DEF IInv, Barrier
<1>4. Joins'
  <2>1. ~(w < joined)
    BY DEF IInv, Joins
  <2> QED BY <1>2, <2>1, <1>n DEF IInv, Joins, Workers
<1>5. EarlyEndIsTrue'
    BY <1>2 DEF IInv, EarlyEndIsTrue
<1> QED BY <1>1, <1>3, <1>4, <1>5 DEF IInv

LEMMA WorkerStep == ASSUME NEW w \in Workers PROVE IInv /\ Worker(w) => IInv'
<1> SUFFICES ASSUME IInv, Worker(w) PROVE IInv'
    OBVIOUS
<1>t. ThreadsTypeOK
    BY DEF IInv
<1>f. /\ wpc \in [Workers -> WorkerPCs] /\ activeCount = Cardinality(Arrived)
      /\ mutex \in Workers \cup {Nobody, MainThread}
      /\ IsFiniteSet(Arrived) /\ Cardinality(Arrived) \in Nat
    BY ArrivedFinite DEF IInv, Barrier, ThreadsTypeOK
<1>m. mutex = MainThread => wpc[w] \in {"none", "new", "counted"}
    BY DEF IInv, Barrier
<1>w. w # MainThread /\ Nobody # MainThread
    BY WorkersAssumption DEF Workers, MainThread, Nobody
<1>1. CASE Count(w)
  <2>1. /\ wpc[w] = "new" /\ wpc' = [wpc EXCEPT ![w] = "counted"]
        /\ activeCount' = activeCount + 1
        /\ UNCHANGED <<mpc, failed, done, written, sleepsLeft, joined, mutex>>
    BY <1>1 DEF Count, mainVars
  <2>2. Arrived' = Arrived \cup {w} /\ w \notin Arrived
    BY <2>1, <1>f DEF Arrived
  <2>3. activeCount' = Cardinality(Arrived')
    BY <2>1, <2>2, <1>f, FS_AddElement
  <2> QED BY <2>1, <2>3, <1>f, WorkerMoves DEF WorkerPCs
<1>2. CASE Lock(w)
  <2>1. /\ wpc[w] = "counted" /\ wpc' = [wpc EXCEPT ![w] = "locked"]
        /\ mutex = Nobody /\ mutex' = w
        /\ UNCHANGED <<mpc, failed, done, written, sleepsLeft, joined, activeCount>>
    BY <1>2 DEF Lock, mainVars
  <2>2. Arrived' = Arrived
    BY <2>1, <1>f DEF Arrived
  <2> QED BY <2>1, <2>2, <1>f, <1>w, WorkerMoves DEF WorkerPCs
<1>3. CASE Unlock(w)
  <2>1. /\ wpc[w] = "locked" /\ wpc' = [wpc EXCEPT ![w] = "running"] /\ mutex' = Nobody
        /\ UNCHANGED <<mpc, failed, done, written, sleepsLeft, joined, activeCount>>
    BY <1>3 DEF Unlock, mainVars
  <2>2. Arrived' = Arrived
    BY <2>1, <1>f DEF Arrived
  <2> QED BY <2>1, <2>2, <1>f, <1>w, <1>m, WorkerMoves DEF WorkerPCs
<1>4. CASE Serve(w)
  <2>1. UNCHANGED <<mpc, wpc, failed, done, written, sleepsLeft, joined, activeCount, mutex>>
    BY <1>4 DEF Serve, mainVars, shared
  <2>2. ThreadsTypeOK'
    BY <2>1, <1>t DEF ThreadsTypeOK
  <2>3. Barrier'
    BY <2>1, SameArrived DEF IInv, Barrier
  <2>4. Joins' /\ EarlyEndIsTrue'
    BY <2>1 DEF IInv, Joins, EarlyEndIsTrue
  <2> QED BY <2>2, <2>3, <2>4 DEF IInv
<1>8. CASE CountBatch(w)
  <2>1. UNCHANGED <<mpc, wpc, failed, done, written, sleepsLeft, joined, activeCount, mutex>>
    BY <1>8 DEF CountBatch, mainVars, shared
  <2>2. ThreadsTypeOK'
    BY <2>1, <1>t DEF ThreadsTypeOK
  <2>3. Barrier'
    BY <2>1, SameArrived DEF IInv, Barrier
  <2>4. Joins' /\ EarlyEndIsTrue'
    BY <2>1 DEF IInv, Joins, EarlyEndIsTrue
  <2> QED BY <2>2, <2>3, <2>4 DEF IInv
<1>5. CASE Leave(w)
  <2>1. /\ wpc[w] = "running" /\ wpc' = [wpc EXCEPT ![w] = "leaving"]
        /\ UNCHANGED <<mpc, failed, done, written, sleepsLeft, joined, mutex, activeCount>>
    BY <1>5 DEF Leave, mainVars, shared
  <2>2. Arrived' = Arrived
    BY <2>1, <1>f DEF Arrived
  <2> QED BY <2>1, <2>2, <1>f, <1>m, WorkerMoves DEF WorkerPCs
<1>6. CASE Uncount(w)
  <2>1. /\ wpc[w] = "leaving" /\ wpc' = [wpc EXCEPT ![w] = "ending"]
        /\ activeCount' = activeCount - 1
        /\ UNCHANGED <<mpc, failed, done, written, sleepsLeft, joined, mutex>>
    BY <1>6 DEF Uncount, mainVars
  <2>2. Arrived' = Arrived \ {w} /\ w \in Arrived
    BY <2>1, <1>f DEF Arrived
  <2>3. activeCount' = Cardinality(Arrived')
    BY <2>1, <2>2, <1>f, FS_RemoveElement
  <2> QED BY <2>1, <2>3, <1>f, <1>m, WorkerMoves DEF WorkerPCs
<1>7. CASE Exit(w)
  <2>1. /\ wpc[w] = "ending" /\ wpc' = [wpc EXCEPT ![w] = "exited"]
        /\ UNCHANGED <<mpc, failed, done, written, sleepsLeft, joined, mutex, activeCount>>
    BY <1>7 DEF Exit, mainVars, shared
  <2>2. Arrived' = Arrived
    BY <2>1, <1>f DEF Arrived
  <2> QED BY <2>1, <2>2, <1>f, <1>m, WorkerMoves DEF WorkerPCs
<1> QED BY <1>1, <1>2, <1>3, <1>4, <1>5, <1>6, <1>7, <1>8 DEF Worker

LEMMA IInvStep == ASSUME IInv, [Next]_vars PROVE IInv'
<1>1. CASE Main
  BY <1>1, MainStep
<1>2. CASE \E w \in Workers : Worker(w)
  BY <1>2, WorkerStep
<1>3. CASE UNCHANGED vars
  <2>1. UNCHANGED <<mpc, wpc, failed, done, written, sleepsLeft, joined, activeCount, mutex>>
    BY <1>3 DEF vars, mainVars, shared
  <2>2. ThreadsTypeOK'
    BY <2>1 DEF IInv, ThreadsTypeOK
  <2>3. Barrier'
    BY <2>1, SameArrived DEF IInv, Barrier
  <2>4. Joins' /\ EarlyEndIsTrue'
    BY <2>1 DEF IInv, Joins, EarlyEndIsTrue
  <2> QED BY <2>2, <2>3, <2>4 DEF IInv
<1> QED BY <1>1, <1>2, <1>3 DEF Next

LEMMA IInvHolds == Spec => []IInv
<1>1. IInv /\ [Next]_vars => IInv'
  BY IInvStep
<1> QED BY <1>1, InitIInv, PTL DEF Spec

\* No worker is past the barrier before all have reached it and every
\* connection has its first message, however many workers there are.
THEOREM Together == Spec => []NobodyStartsEarly
<1>1. IInv => NobodyStartsEarly
    BY DEF IInv, Barrier, NobodyStartsEarly, Started
<1> QED BY <1>1, IInvHolds, PTL

\* When run_test reads the results, and from then on, no worker is left.
THEOREM AllJoined == Spec => []NoThreadOutlivesTheRun
<1>1. ASSUME IInv PROVE NoThreadOutlivesTheRun
    BY <1>1, WorkersAssumption
    DEF IInv, Joins, NoThreadOutlivesTheRun, Workers
<1> QED BY <1>1, IInvHolds, PTL

\* A run cut short has no worker left that could still answer.
THEOREM EarlyEndIsRight == Spec => []EarlyEndIsTrue
<1>1. IInv => EarlyEndIsTrue
    BY DEF IInv
<1> QED BY <1>1, IInvHolds, PTL

\* A result is returned once and stays true, because nobody is left to answer.
Reported ==
    outcome = "success" => mpc = "returned" /\ EveryAnswerReported

LEMMA ReportedStep ==
    ASSUME Reported, NoThreadOutlivesTheRun, [Next]_vars
    PROVE  Reported'
<1>1. CASE Main
  <2>1. CASE Aggregate
    <3>1. /\ mpc' = "returned"
          /\ res' = Messages(mcount) /\ percentiles' = Percentiles(served)
          /\ UNCHANGED <<mcount, served>>
      BY <2>1 DEF Aggregate, Return, tresults
    <3> QED BY <3>1 DEF Reported, EveryAnswerReported
  <2>2. CASE Main /\ ~Aggregate
    <3>1. mpc # "returned"
      BY <2>2 DEF Main, Connect, MakeSelectors, Spawn, WriteFirst, PassBarrier,
                  RunSlice, StopRun, Join
    <3>2. outcome # "success"
      BY <3>1 DEF Reported
    <3>3. outcome' = outcome \/ outcome' = "failure"
      BY <2>2 DEF Main, Connect, MakeSelectors, Spawn, WriteFirst, PassBarrier,
                  RunSlice, StopRun, Join, Return, results
    <3> QED BY <3>2, <3>3 DEF Reported
  <2> QED BY <1>1, <2>1, <2>2
<1>2. ASSUME NEW w \in Workers, Worker(w) PROVE Reported'
  <2>1. UNCHANGED <<mpc, res, percentiles, outcome>>
    BY <1>2 DEF Worker, Count, Lock, Unlock, CountBatch, Serve, Leave, Uncount, Exit,
                mainVars, results
  <2>2. CASE outcome # "success"
    BY <2>1, <2>2 DEF Reported
  <2>3. CASE outcome = "success"
    <3>1. /\ mpc = "returned"
          /\ res = Messages(mcount) /\ percentiles = Percentiles(served)
      BY <2>3 DEF Reported, EveryAnswerReported
    <3>2. wpc[w] \in {"none", "exited"}
      BY <3>1 DEF NoThreadOutlivesTheRun
    <3> QED
      BY <1>2, <3>2 DEF Worker, Count, Lock, Unlock, CountBatch, Serve, Leave, Uncount, Exit
  <2> QED BY <2>2, <2>3
<1>3. CASE UNCHANGED vars
  <2>1. UNCHANGED <<mpc, results, tresults>>
    BY <1>3 DEF vars, mainVars
  <2> QED BY <2>1 DEF Reported, EveryAnswerReported, results, tresults
<1> QED BY <1>1, <1>2, <1>3 DEF Next

\* What run_test returns are the numbers its workers ended with, however many
\* they are and however late they stop.
THEOREM NoAnswerLost == Spec => []EveryAnswerReported
<1>1. Init => Reported
    BY DEF Init, Reported
<1>2. Reported /\ NoThreadOutlivesTheRun /\ [Next]_vars => Reported'
    BY ReportedStep
<1>3. Reported => EveryAnswerReported
    BY DEF Reported, EveryAnswerReported
<1> QED BY <1>1, <1>2, <1>3, AllJoined, PTL DEF Spec

-----------------------------------------------------------------------------
(* Sums: what SumFunctionOnSet computes for every finite set.  A sum over  *)
(* the smallest subset for which it went wrong would be right.             *)

\* What f counts on s, one by one.
CopiesOn(f, s) == UNION {{x} \X (1..f[x]) : x \in s}

\* Of the subsets of a finite set that fail a test, a smallest one.
LEMMA SmallestSubset ==
    ASSUME NEW S, IsFiniteSet(S), NEW T, T \subseteq SUBSET S, T # {}
    PROVE  \E s \in T : \A r \in T : ~(r \subseteq s /\ r # s)
<1>1. IsWellFoundedOn(StrictSubsetOrdering(S), SUBSET S)
  BY FS_StrictSubsetOrderingWellFounded, FS_FiniteSubsetsOfFinite
<1>2. PICK s \in T : \A r \in T : <<r, s>> \notin StrictSubsetOrdering(S)
  BY <1>1, WFMin
<1> QED
  BY <1>2 DEF StrictSubsetOrdering

LEMMA FiniteColumn ==
    ASSUME NEW x, NEW n \in Nat
    PROVE  IsFiniteSet({x} \X (1..n)) /\ Cardinality({x} \X (1..n)) = n
<1> DEFINE f == [k \in 1..n |-> <<x, k>>]
<1>1. IsFiniteSet(1..n) /\ Cardinality(1..n) = n
  BY FS_Interval
<1>2. f \in Bijection(1..n, {x} \X (1..n))
  BY DEF Bijection, Injection, Surjection, IsInjective
<1> QED
  BY <1>1, <1>2, FS_Bijection DEF ExistsBijection

LEMMA CopiesSplit ==
    ASSUME NEW f, NEW s, NEW x \in s
    PROVE  /\ CopiesOn(f, s) = CopiesOn(f, s \ {x}) \cup ({x} \X (1..f[x]))
           /\ CopiesOn(f, s \ {x}) \cap ({x} \X (1..f[x])) = {}
BY DEF CopiesOn

LEMMA CopiesFinite ==
    ASSUME NEW S, IsFiniteSet(S), NEW f, \A x \in S : f[x] \in Nat
    PROVE  \A s \in SUBSET S : IsFiniteSet(CopiesOn(f, s))
<1> DEFINE T == {s \in SUBSET S : ~IsFiniteSet(CopiesOn(f, s))}
<1> SUFFICES ASSUME T # {} PROVE FALSE
  OBVIOUS
<1>1. PICK s \in T : \A r \in T : ~(r \subseteq s /\ r # s)
  <2> HIDE DEF T
  <2>1. T \subseteq SUBSET S
    BY DEF T
  <2> QED
    BY <2>1, SmallestSubset
<1>2. s # {}
  BY FS_EmptySet DEF CopiesOn
<1>3. PICK x \in s : TRUE
  BY <1>2
<1>4. IsFiniteSet(CopiesOn(f, s \ {x}))
  BY <1>1, <1>3
<1>5. IsFiniteSet({x} \X (1..f[x]))
  BY FiniteColumn
<1>6. CopiesOn(f, s) = CopiesOn(f, s \ {x}) \cup ({x} \X (1..f[x]))
  BY <1>3, CopiesSplit
<1>7. \A A, B : IsFiniteSet(A) /\ IsFiniteSet(B) => IsFiniteSet(A \cup B)
  BY FS_Union
<1> QED
  BY <1>4, <1>5, <1>6, <1>7

LEMMA CopiesSize ==
    ASSUME NEW S, IsFiniteSet(S), NEW f, \A x \in S : f[x] \in Nat, NEW s \in SUBSET S, NEW x \in s
    PROVE  Cardinality(CopiesOn(f, s)) = f[x] + Cardinality(CopiesOn(f, s \ {x}))
<1> DEFINE A == CopiesOn(f, s \ {x})
           B == {x} \X (1..f[x])
<1>1. IsFiniteSet(A) /\ Cardinality(A) \in Nat
  BY CopiesFinite, FS_CardinalityType
<1>2. IsFiniteSet(B) /\ Cardinality(B) = f[x] /\ f[x] \in Nat
  BY FiniteColumn
<1>3. CopiesOn(f, s) = A \cup B /\ A \cap B = {}
  BY CopiesSplit
<1> HIDE DEF A, B
<1>4. Cardinality(A \cup B) = Cardinality(A) + Cardinality(B) - Cardinality(A \cap B)
  BY <1>1, <1>2, FS_Union
<1>5. Cardinality(A \cap B) = 0
  BY <1>3, FS_EmptySet
<1>6. Cardinality(CopiesOn(f, s)) = Cardinality(B) + Cardinality(A)
  BY <1>1, <1>2, <1>3, <1>4, <1>5
<1> QED
  BY <1>2, <1>6 DEF A

IsSum(g, f, S) ==
  g = [s \in SUBSET S |->
        IF s = {} THEN 0
        ELSE f[CHOOSE x \in s : TRUE] + g[s \ {CHOOSE x \in s : TRUE}]]

\* The fold over a finite set, in whatever order it is done, is what f counts.
LEMMA SumIsCount ==
    ASSUME NEW S, IsFiniteSet(S), NEW f, \A x \in S : f[x] \in Nat
    PROVE  /\ SumFunctionOnSet(f, S) = Cardinality(CopiesOn(f, S))
           /\ SumFunctionOnSet(f, S) \in Nat
<1> DEFINE size == [s \in SUBSET S |-> Cardinality(CopiesOn(f, s))]
           i == CHOOSE g : IsSum(g, f, S)
<1>1. \A s \in SUBSET S : CopiesOn(f, {}) = {} /\ (s # {} => (CHOOSE x \in s : TRUE) \in s)
  BY DEF CopiesOn
<1>2. IsSum(size, f, S)
  <2>1. ASSUME NEW s \in SUBSET S, s # {}
        PROVE  size[s] = f[CHOOSE x \in s : TRUE] + size[s \ {CHOOSE x \in s : TRUE}]
    <3> DEFINE x == CHOOSE x \in s : TRUE
    <3>1. x \in s /\ s \ {x} \in SUBSET S
      BY <1>1, <2>1
    <3> HIDE DEF x
    <3>2. Cardinality(CopiesOn(f, s)) = f[x] + Cardinality(CopiesOn(f, s \ {x}))
      BY <3>1, CopiesSize
    <3>3. size[s] = f[x] + size[s \ {x}]
      BY <3>1, <3>2
    <3> QED
      BY <3>3 DEF x
  <2>2. size[{}] = 0
    BY <1>1, FS_EmptySet
  <2> HIDE DEF size
  <2>3. size = [s \in SUBSET S |-> size[s]]
    BY DEF size
  <2> QED
    BY <2>1, <2>2, <2>3 DEF IsSum
<1>3. IsSum(i, f, S)
  BY <1>2
<1>4. \A s \in SUBSET S : i[s] = size[s]
  <2> DEFINE T == {s \in SUBSET S : i[s] # size[s]}
  <2> SUFFICES ASSUME T # {} PROVE FALSE
    OBVIOUS
  <2>1. PICK s \in T : \A r \in T : ~(r \subseteq s /\ r # s)
    <3> HIDE DEF T
    <3>1. T \subseteq SUBSET S
      BY DEF T
    <3> QED
      BY <3>1, SmallestSubset
  <2> DEFINE x == CHOOSE x \in s : TRUE
  <2> HIDE DEF i, size
  <2>2. /\ i[s] = IF s = {} THEN 0 ELSE f[x] + i[s \ {x}]
        /\ size[s] = IF s = {} THEN 0 ELSE f[x] + size[s \ {x}]
    BY <1>2, <1>3 DEF IsSum
  <2>3. s # {} => i[s \ {x}] = size[s \ {x}]
    BY <1>1, <2>1
  <2> QED
    BY <2>2, <2>3
<1>5. SumFunctionOnSet(f, S) = i[S]
  BY DEF SumFunctionOnSet, FoldFunctionOnSet, MapThenFoldSet, IsSum
<1>6. IsFiniteSet(CopiesOn(f, S))
  BY CopiesFinite
<1> QED
  BY <1>4, <1>5, <1>6, FS_CardinalityType

\* One more of x is one more in the sum.
LEMMA SumCounts ==
    ASSUME NEW S, IsFiniteSet(S), NEW f, \A y \in S : f[y] \in Nat, NEW x \in S,
           NEW n \in Nat, NEW g, g[x] = f[x] + n, \A y \in S \ {x} : g[y] = f[y]
    PROVE  SumFunctionOnSet(g, S) = SumFunctionOnSet(f, S) + n
<1>1. \A y \in S : g[y] \in Nat
  OBVIOUS
<1>2. CopiesOn(f, S \ {x}) = CopiesOn(g, S \ {x})
  BY DEF CopiesOn
<1>3. Cardinality(CopiesOn(f, S)) = f[x] + Cardinality(CopiesOn(f, S \ {x}))
  BY CopiesSize
<1>4. Cardinality(CopiesOn(g, S)) = g[x] + Cardinality(CopiesOn(g, S \ {x}))
  BY <1>1, CopiesSize
<1>5. IsFiniteSet(CopiesOn(f, S \ {x})) /\ Cardinality(CopiesOn(f, S \ {x})) \in Nat
  BY CopiesFinite, FS_CardinalityType
<1>6. SumFunctionOnSet(f, S) = Cardinality(CopiesOn(f, S))
      /\ SumFunctionOnSet(g, S) = Cardinality(CopiesOn(g, S))
  BY <1>1, SumIsCount
<1> QED
  BY <1>2, <1>3, <1>4, <1>5, <1>6

-----------------------------------------------------------------------------
(* The results: every index below the number of counts has a count.        *)

\* Of a non-empty set of numbers, the least one.
LEMMA Least ==
    ASSUME NEW M, M \subseteq Nat, M # {}
    PROVE  \E m \in M : \A n \in M : m <= n
<1>1. PICK m \in M : \A n \in M : <<n, m>> \notin OpToRel(<, Nat)
  BY NatLessThanWellFounded, WFMin
<1>2. \A n \in M : ~(n < m)
  BY <1>1 DEF OpToRel
<1> QED
  BY <1>2

Below(counts, n) == {c \in Counted(counts) : counts[c] < n}
UpTo(counts, n) == {c \in Counted(counts) : counts[c] <= n}

LEMMA CountedFinite ==
    ASSUME NEW counts
    PROVE  /\ IsFiniteSet(Counted(counts)) /\ Cardinality(Counted(counts)) \in Nat
           /\ \A n : /\ IsFiniteSet(Below(counts, n)) /\ Cardinality(Below(counts, n)) \in Nat
                     /\ IsFiniteSet(UpTo(counts, n)) /\ Cardinality(UpTo(counts, n)) \in Nat
<1>1. IsFiniteSet(Conns)
  BY ConnAssumption, FS_Interval DEF Conns
<1>2. Counted(counts) \subseteq Conns
  BY DEF Counted
<1>3. IsFiniteSet(Counted(counts))
  BY <1>1, <1>2, FS_Subset
<1>4. \A n : IsFiniteSet(Below(counts, n)) /\ IsFiniteSet(UpTo(counts, n))
  <2> TAKE n
  <2>1. Below(counts, n) \subseteq Counted(counts) /\ UpTo(counts, n) \subseteq Counted(counts)
    BY DEF Below, UpTo
  <2> QED
    BY <1>3, <2>1, FS_Subset
<1> QED
  BY <1>3, <1>4, FS_CardinalityType

\* Every index below the number of counts has a count that belongs there: mps[k]
\* after the sort exists.
LEMMA MpsExists ==
    ASSUME NEW counts \in [Conns -> 0..MaxServed], NEW k \in Nat,
           k < Cardinality(Counted(counts))
    PROVE  /\ Mps(counts, k) \in {counts[c] : c \in Counted(counts)}
           /\ Cardinality(Below(counts, Mps(counts, k))) <= k
           /\ Cardinality(UpTo(counts, Mps(counts, k))) > k
<1> DEFINE M == {m \in Nat : Cardinality(UpTo(counts, m)) > k}
<1>1. MaxServed \in M
  <2>1. UpTo(counts, MaxServed) = Counted(counts)
    BY ServedAssumption DEF UpTo, Counted
  <2> QED
    BY <2>1, CountedFinite, ServedAssumption
<1>2. PICK m \in M : \A n \in M : m <= n
  <2> HIDE DEF M
  <2>1. M \subseteq Nat
    BY DEF M
  <2> QED
    BY <1>1, <2>1, Least
<1>3. \A c \in Counted(counts) : counts[c] \in Nat /\ counts[c] > 0
  BY ServedAssumption DEF Counted
<1>4. m # 0
  <2> SUFFICES ASSUME m = 0 PROVE FALSE
    OBVIOUS
  <2>1. UpTo(counts, m) = {}
    BY <1>3 DEF UpTo
  <2> QED
    BY <2>1, FS_EmptySet
<1>5. m - 1 \in Nat /\ ~(Cardinality(UpTo(counts, m - 1)) > k)
  BY <1>2, <1>4
<1>6. UpTo(counts, m - 1) = Below(counts, m)
  BY <1>3 DEF UpTo, Below
<1>7. Cardinality(Below(counts, m)) <= k
  BY <1>5, <1>6, CountedFinite
<1>8. m \in {counts[c] : c \in Counted(counts)}
  <2> SUFFICES ASSUME \A c \in Counted(counts) : counts[c] # m PROVE FALSE
    OBVIOUS
  <2>1. UpTo(counts, m) = Below(counts, m)
    BY <1>3 DEF UpTo, Below
  <2> QED
    BY <1>7, <2>1, CountedFinite
<1>9. \E n \in {counts[c] : c \in Counted(counts)} :
         Cardinality(Below(counts, n)) <= k /\ Cardinality(UpTo(counts, n)) > k
  BY <1>7, <1>8
<1>10. Mps(counts, k) = CHOOSE n \in {counts[c] : c \in Counted(counts)} :
          Cardinality(Below(counts, n)) <= k /\ Cardinality(UpTo(counts, n)) > k
  BY DEF Mps, Below, UpTo
<1> QED
  BY <1>9, <1>10

\* Every percentile is a count of answers, or read past the end.
LEMMA PercentilesType ==
    ASSUME NEW counts \in [Conns -> 0..MaxServed]
    PROVE  Percentiles(counts) \in [Percs -> Nat \cup {Garbage}]
<1> SUFFICES ASSUME NEW i \in Percs, PercIndex(i) < Cardinality(Counted(counts))
             PROVE  Mps(counts, PercIndex(i)) \in Nat
  BY DEF Percentiles
<1>1. PercIndex(i) \in Nat
  <2>1. i \in Nat /\ NumConn \in Nat /\ NumPerc + 1 \in Nat \ {0}
    BY PercAssumption, ConnAssumption DEF Percs
  <2>2. NumConn * i \in Nat
    BY <2>1
  <2>3. \A a \in Nat, b \in Nat \ {0} : a \div b \in Nat
    OBVIOUS
  <2> QED
    BY <2>1, <2>2, <2>3 DEF PercIndex
<1>2. Mps(counts, PercIndex(i)) \in {counts[c] : c \in Counted(counts)}
  BY <1>1, MpsExists
<1> QED
  BY <1>2, ServedAssumption DEF Counted

LEMMA MessagesType == ASSUME NEW counts \in [Workers -> Nat] PROVE Messages(counts) \in Nat
BY WorkersFinite, SumIsCount DEF Messages

LEMMA InitTypeOK == Init => TypeOK
<1> SUFFICES ASSUME Init PROVE TypeOK
  OBVIOUS
<1>1. ThreadsTypeOK
  BY InitIInv DEF IInv
<1> QED
  BY <1>1, ServedAssumption DEF Init, TypeOK

LEMMA NextTypeOK == ASSUME TypeOK, IInv, [Next]_vars PROVE TypeOK'
<1>1. ThreadsTypeOK'
  BY IInvStep DEF IInv
<1> SUFFICES /\ mcount' \in [Workers -> Nat] /\ served' \in [Conns -> 0..MaxServed]
             /\ res' \in Nat /\ percentiles' \in [Percs -> Nat \cup {Unset, Garbage}]
             /\ outcome' \in {"none", "failure", "success"}
  BY <1>1 DEF TypeOK
<1>2. CASE UNCHANGED <<tresults, res, percentiles>> /\ outcome' \in {outcome, "failure"}
  BY <1>2 DEF TypeOK, tresults
<1>3. CASE Connect \/ MakeSelectors \/ Spawn \/ WriteFirst \/ PassBarrier \/ RunSlice
           \/ StopRun \/ Join \/ UNCHANGED vars
  BY <1>2, <1>3 DEF Connect, MakeSelectors, Spawn, WriteFirst, PassBarrier, RunSlice, StopRun,
                    Join, Return, results, vars
<1>4. CASE Aggregate
  <2>1. mcount \in [Workers -> Nat] /\ served \in [Conns -> 0..MaxServed]
    BY DEF TypeOK
  <2>2. UNCHANGED <<mcount, served>> /\ outcome' \in {"failure", "success"}
    BY <1>4 DEF Aggregate, Return, tresults
  <2>3. res' \in Nat
    BY <1>4, <2>1, MessagesType DEF Aggregate
  <2>4. percentiles' \in [Percs -> Nat \cup {Garbage}]
    BY <1>4, <2>1, PercentilesType DEF Aggregate
  <2> QED
    BY <2>1, <2>2, <2>3, <2>4
<1>5. ASSUME NEW w \in Workers,
             Count(w) \/ Lock(w) \/ Unlock(w) \/ Leave(w) \/ Uncount(w) \/ Exit(w)
      PROVE  UNCHANGED <<tresults, res, percentiles>> /\ outcome' \in {outcome, "failure"}
  BY <1>5 DEF Count, Lock, Unlock, Leave, Uncount, Exit, results
<1>6. ASSUME NEW w \in Workers, CountBatch(w)
      PROVE  mcount' \in [Workers -> Nat] /\ UNCHANGED <<served, results>>
  <2>1. PICK n \in 1..Cardinality(Owned(w)) : mcount' = [mcount EXCEPT ![w] = @ + n]
    BY <1>6 DEF CountBatch
  <2> QED
    BY <1>6, <2>1 DEF CountBatch, TypeOK
<1>7. ASSUME NEW w \in Workers, Serve(w)
      PROVE  served' \in [Conns -> 0..MaxServed] /\ UNCHANGED <<mcount, results>>
  <2>1. PICK c \in Owned(w) : served[c] < MaxServed /\ served' = [served EXCEPT ![c] = @ + 1]
    BY <1>7 DEF Serve
  <2> QED
    BY <1>7, <2>1, ServedAssumption DEF Serve, TypeOK, Owned
<1> QED
  BY <1>2, <1>3, <1>4, <1>5, <1>6, <1>7 DEF Next, Main, Worker, TypeOK, results

\* Whatever the counts, run_test's results have their types: the sum is a
\* number, and every percentile a count of answers or read past the end.
THEOREM TypeCorrect == Spec => []TypeOK
<1>1. IInv /\ TypeOK /\ [Next]_vars => TypeOK'
  BY NextTypeOK
<1> QED
  BY InitTypeOK, IInvHolds, <1>1, PTL DEF Spec

\* Division keeps the order, and a share of a number is below it.
LEMMA DivisionIsMonotone ==
    ASSUME NEW a \in Nat, NEW b \in Nat, a <= b, NEW d \in Nat \ {0}
    PROVE  a \div d <= b \div d /\ a \div d \in Nat /\ b \div d \in Nat
<1> DEFINE p == a \div d
           q == b \div d
<1>1. /\ p \in Nat /\ d * p <= a /\ a < d * (p + 1)
      /\ q \in Nat /\ d * q <= b /\ b < d * (q + 1)
  OBVIOUS
<1> HIDE DEF p, q
<1>2. ASSUME q < p PROVE FALSE
  <2>1. q + 1 <= p
    BY <1>1, <1>2
  <2>2. d * (q + 1) <= d * p
    BY <1>1, <2>1
  <2> QED
    BY <1>1, <2>2
<1>3. p <= q
  BY <1>1, <1>2
<1> QED
  BY <1>1, <1>3 DEF p, q

LEMMA ShareIsBelow ==
    ASSUME NEW n \in Nat \ {0}, NEW i \in Nat, NEW d \in Nat \ {0}, i < d
    PROVE  (n * i) \div d < n
<1> DEFINE p == (n * i) \div d
<1>0. n * i \in Nat
  OBVIOUS
<1>1. p \in Nat /\ d * p <= n * i
  BY <1>0
<1> HIDE DEF p
<1>2. ASSUME n <= p PROVE FALSE
  <2>1. d * n <= d * p
    BY <1>1, <1>2
  <2>2. n * i < n * d
    <3>1. i + 1 <= d
      OBVIOUS
    <3>2. n * (i + 1) <= n * d
      BY <3>1
    <3>3. n * (i + 1) = n * i + n
      OBVIOUS
    <3> QED
      BY <1>0, <3>2, <3>3
  <2>3. n * d = d * n
    OBVIOUS
  <2> QED
    BY <1>0, <1>1, <2>1, <2>2, <2>3
<1>3. p < n
  BY <1>1, <1>2
<1> QED
  BY <1>3 DEF p

LEMMA MpsInOrder ==
    ASSUME NEW counts \in [Conns -> 0..MaxServed], NEW k \in Nat, NEW l \in Nat,
           k <= l, l < Cardinality(Counted(counts))
    PROVE  Mps(counts, k) <= Mps(counts, l)
<1> DEFINE m == Mps(counts, k)
           n == Mps(counts, l)
<1>1. Cardinality(Counted(counts)) \in Nat
  BY CountedFinite
<1>2. m \in {counts[c] : c \in Counted(counts)} /\ Cardinality(Below(counts, m)) <= k
  BY <1>1, MpsExists
<1>3. n \in {counts[c] : c \in Counted(counts)} /\ Cardinality(UpTo(counts, n)) > l
  BY <1>1, MpsExists
<1>4. /\ m \in Nat /\ n \in Nat
      /\ \A c \in Counted(counts) : counts[c] \in Nat
  BY <1>2, <1>3, ServedAssumption DEF Counted
<1> HIDE DEF m, n
<1>5. ASSUME n < m PROVE FALSE
  <2>1. UpTo(counts, n) \subseteq Below(counts, m)
    BY <1>4, <1>5 DEF UpTo, Below
  <2>2. Cardinality(UpTo(counts, n)) <= Cardinality(Below(counts, m))
    BY <2>1, CountedFinite, FS_Subset
  <2>3. Cardinality(UpTo(counts, n)) \in Nat /\ Cardinality(Below(counts, m)) \in Nat
    BY CountedFinite
  <2> QED
    BY <1>2, <1>3, <2>2, <2>3
<1> QED
  BY <1>4, <1>5 DEF m, n

\* For every number of connections and of percentiles: no percentile is read
\* past the end of mps when every connection was answered, and they are sorted.
THEOREM PercentilesAreRight == Spec => []PercentilesAreCounts
<1>1. TypeOK /\ EveryAnswerReported => PercentilesAreCounts
  <2> SUFFICES ASSUME TypeOK, percentiles = Percentiles(served), Counted(served) = Conns
               PROVE  /\ \A i \in Percs : percentiles[i] \in {served[c] : c \in Conns}
                      /\ \A i, j \in Percs : i <= j => percentiles[i] <= percentiles[j]
    BY DEF EveryAnswerReported, PercentilesAreCounts
  <2>1. served \in [Conns -> 0..MaxServed] /\ NumConn \in Nat \ {0} /\ NumPerc \in Nat
    BY WorkersAssumption, ConnAssumption, PercAssumption DEF TypeOK
  <2>2. Cardinality(Counted(served)) = NumConn
    BY <2>1, FS_Interval DEF Conns
  <2>3. \A i \in Percs : PercIndex(i) \in Nat /\ PercIndex(i) < NumConn
    <3> TAKE i \in Percs
    <3>1. i \in Nat /\ i < NumPerc + 1 /\ NumPerc + 1 \in Nat \ {0} /\ NumConn * i \in Nat
      BY <2>1 DEF Percs
    <3> QED
      BY <2>1, <3>1, ShareIsBelow, DivisionIsMonotone DEF PercIndex
  <2>4. \A i \in Percs : percentiles[i] = Mps(served, PercIndex(i))
    BY <2>2, <2>3 DEF Percentiles
  <2>5. \A i \in Percs : percentiles[i] \in {served[c] : c \in Conns}
    BY <2>1, <2>2, <2>3, <2>4, MpsExists
  <2>6. ASSUME NEW i \in Percs, NEW j \in Percs, i <= j PROVE percentiles[i] <= percentiles[j]
    <3>1. PercIndex(i) <= PercIndex(j)
      <4>1. /\ i \in Nat /\ j \in Nat /\ NumPerc + 1 \in Nat \ {0}
            /\ NumConn * i \in Nat /\ NumConn * j \in Nat
        BY <2>1 DEF Percs
      <4>2. NumConn * i <= NumConn * j
        BY <2>1, <2>6, <4>1
      <4> QED
        BY <4>1, <4>2, DivisionIsMonotone DEF PercIndex
    <3> QED
      BY <2>1, <2>2, <2>3, <2>4, <3>1, MpsInOrder
  <2> QED
    BY <2>5, <2>6
<1> QED
  BY <1>1, TypeCorrect, NoAnswerLost, PTL
=============================================================================
