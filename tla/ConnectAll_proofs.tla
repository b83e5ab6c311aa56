-------------------------- MODULE ConnectAll_proofs -------------------------
(***************************************************************************)
(* Proofs about ConnectAll for every number of connections and every size  *)
(* of the connect queue.                                                   *)
(***************************************************************************)
EXTENDS ConnectAll, FiniteSetTheorems, TLAPS

\* The sockets connect_all has opened so far.
Opened == 1..sockets

\* The sockets under way and those found connected are the ones opened; the
\* counter is the size of the epoll set; a round never opens more than fit.
Bookkeeping ==
    cpc # "returned" =>
        /\ watched \cup checked = Opened
        /\ watched \cap checked = {}
        /\ batch \subseteq watched
        /\ IsFiniteSet(watched)
        /\ waiting = Cardinality(watched)
        /\ waiting <= ConnQSize
        /\ \A i \in checked : state[i] \in {"established", "reset"}
        /\ cpc = "open" =>
              /\ left <= ConnQSize - waiting
              /\ left <= SockCount - sockets
              /\ left > 0 \/ waiting > 0
        /\ WaitsForSomething

IInv == TypeOK /\ Bookkeeping /\ SuccessMeansAllConnected

USE CountAssumption, QueueAssumption

\* No epoll_wait is asked to last longer than the wait it is part of.
LEMMA PollEndType ==
    ASSUME NEW now \in Nat, now <= WaitTimeoutNs
    PROVE  PollEnd(now) \in 0..WaitTimeoutNs
<1> DEFINE rest == WaitTimeoutNs - now
           ms == rest \div NsPerMs
<1>1. rest \in Nat /\ NsPerMs \in Nat \ {0} /\ WaitTimeoutNs \in Nat
    BY UnitsAssumption DEF WaitTimeoutNs
<1>2. ms \in Nat
    BY <1>1
<1>3. rest = ms * NsPerMs + (rest % NsPerMs) /\ rest % NsPerMs \in Nat
    BY <1>1
<1>4. ms * NsPerMs \in Nat
    BY <1>1, <1>2
<1>5. PollEnd(now) = now + ms * NsPerMs
    BY DEF PollEnd
<1> HIDE DEF ms
<1> QED BY <1>1, <1>3, <1>4, <1>5

LEMMA InitIInv == Init => IInv
<1> SUFFICES ASSUME Init PROVE IInv
    OBVIOUS
<1>1. TypeOK
    BY UnitsAssumption DEF Init, TypeOK, CPCs, States, WaitTimeoutNs
<1>2. IsFiniteSet({}) /\ Cardinality({}) = 0
    BY FS_EmptySet
<1>3. Bookkeeping
    BY <1>2 DEF Init, Bookkeeping, Opened, WaitsForSomething
<1>4. SuccessMeansAllConnected
    BY DEF Init, SuccessMeansAllConnected
<1> QED BY <1>1, <1>3, <1>4 DEF IInv

\* Opening one more connection keeps the books.
LEMMA OpenOneStep == IInv /\ OpenOne => IInv'
<1> SUFFICES ASSUME IInv, OpenOne PROVE IInv'
    OBVIOUS
<1> DEFINE new == sockets + 1
<1>1. PICK s \in {"connecting", "established"} :
        /\ state' = [state EXCEPT ![new] = s]
        /\ edges' = IF s = "established" THEN edges \cup {new} ELSE edges
    BY DEF OpenOne
<1>2. /\ cpc = "open" /\ cpc' = "open" /\ left > 0 /\ left' = left - 1
      /\ sockets' = new /\ waiting' = waiting + 1
      /\ watched' = watched \cup {new}
      /\ UNCHANGED <<batch, checked, waited, pollEnd, result>>
    BY DEF OpenOne
<1>t. /\ sockets \in 0..SockCount /\ left \in Nat /\ waiting \in Nat
      /\ state \in [Ids -> States] /\ watched \subseteq Ids /\ edges \subseteq watched
      /\ batch \subseteq Ids /\ checked \subseteq Ids /\ waited \in Nat
      /\ pollEnd \in 0..WaitTimeoutNs
      /\ result \in {"none", "connected", "timeout", "error"}
    BY DEF IInv, TypeOK
<1>b. /\ watched \cup checked = Opened /\ watched \cap checked = {}
      /\ batch \subseteq watched
      /\ IsFiniteSet(watched) /\ waiting = Cardinality(watched)
      /\ \A i \in checked : state[i] \in {"established", "reset"}
      /\ left <= ConnQSize - waiting /\ left <= SockCount - sockets
    BY <1>2 DEF IInv, Bookkeeping
<1>3. new \in Ids /\ new \notin Opened
    BY <1>2, <1>t, <1>b DEF Ids, Opened
<1>4. IsFiniteSet(watched') /\ Cardinality(watched') = Cardinality(watched) + 1
    BY <1>2, <1>3, <1>b, FS_AddElement
<1>5. TypeOK'
  <2>1. state' \in [Ids -> States]
    BY <1>1, <1>t DEF States
  <2>2. sockets' \in 0..SockCount /\ left' \in Nat /\ waiting' \in Nat
    BY <1>2, <1>t, <1>3 DEF Ids
  <2>3. watched' \subseteq Ids /\ edges' \subseteq watched'
    BY <1>1, <1>2, <1>3, <1>t
  <2> QED BY <1>2, <1>t, <2>1, <2>2, <2>3 DEF TypeOK, CPCs
<1>6. Bookkeeping'
  <2>1. Opened' = Opened \cup {new}
    BY <1>2, <1>t DEF Opened
  <2>2. watched' \cup checked' = Opened' /\ watched' \cap checked' = {}
    BY <1>2, <1>3, <1>b, <2>1
  <2>3. \A i \in checked' : state'[i] \in {"established", "reset"}
    BY <1>1, <1>2, <1>3, <1>b, <1>t
  <2>4. waiting' = Cardinality(watched') /\ waiting' <= ConnQSize
    BY <1>2, <1>4, <1>b, <1>t
  <2>5. left' <= ConnQSize - waiting' /\ left' <= SockCount - sockets'
    BY <1>2, <1>b, <1>t
  <2>6. waiting' > 0
    BY <1>2, <1>t
  <2> QED BY <1>2, <1>4, <1>b, <2>2, <2>3, <2>4, <2>5, <2>6
          DEF Bookkeeping, WaitsForSomething
<1>7. SuccessMeansAllConnected'
  <2>1. result # "connected"
    BY <1>2, <1>3, <1>b, <1>t DEF IInv, SuccessMeansAllConnected, Ids, Opened
  <2> QED BY <2>1, <1>2 DEF SuccessMeansAllConnected
<1> QED BY <1>5, <1>6, <1>7 DEF IInv

\* A socket found connected leaves the epoll set and the count together.
LEMMA CheckOneStep == ASSUME NEW i \in Ids PROVE IInv /\ CheckOne(i) => IInv'
<1> SUFFICES ASSUME IInv, CheckOne(i) PROVE IInv'
    OBVIOUS
<1>1. cpc = "check" /\ i \in batch /\ UNCHANGED <<sockets, left, state, waited, pollEnd>>
    BY DEF CheckOne
<1>t. /\ waiting \in Nat /\ state \in [Ids -> States] /\ watched \subseteq Ids
      /\ edges \subseteq watched /\ batch \subseteq Ids /\ checked \subseteq Ids
    BY DEF IInv, TypeOK
<1>b. /\ watched \cup checked = Opened /\ watched \cap checked = {}
      /\ batch \subseteq watched
      /\ IsFiniteSet(watched) /\ waiting = Cardinality(watched)
      /\ waiting <= ConnQSize
      /\ \A j \in checked : state[j] \in {"established", "reset"}
    BY <1>1 DEF IInv, Bookkeeping
<1>r. result # "connected" \/ (sockets = SockCount /\ checked = Ids)
    BY DEF IInv, SuccessMeansAllConnected
<1>2. CASE SocketReady(i)
  <2>1. /\ waiting' = waiting - 1 /\ checked' = checked \cup {i}
        /\ watched' = watched \ {i} /\ edges' = edges \cap (watched \ {i})
        /\ batch' = batch \ {i} /\ UNCHANGED <<cpc, result>>
    BY <1>2 DEF CheckOne, Unwatched
  <2>2. IsFiniteSet(watched') /\ Cardinality(watched') = Cardinality(watched) - 1
    BY <2>1, <1>1, <1>b, FS_RemoveElement
  <2>3. Cardinality(watched') \in Nat
    BY <2>2, FS_CardinalityType
  <2>4. TypeOK'
    BY <2>1, <2>2, <2>3, <1>1, <1>t, <1>b DEF IInv, TypeOK
  <2>5. i \in watched /\ state[i] = "established"
    BY <1>1, <1>2, <1>b DEF SocketReady
  <2>6. /\ watched' \cup checked' = Opened' /\ watched' \cap checked' = {}
        /\ batch' \subseteq watched'
    BY <2>1, <2>5, <1>1, <1>b DEF Opened
  <2>7. waiting' = Cardinality(watched') /\ waiting' <= ConnQSize
    BY <2>1, <2>2, <1>b, <1>t
  <2>8. \A j \in checked' : state'[j] \in {"established", "reset"}
    BY <2>1, <2>5, <1>1, <1>b
  <2>9. Bookkeeping'
    BY <2>1, <2>2, <2>6, <2>7, <2>8, <1>1 DEF Bookkeeping, WaitsForSomething
  <2>10. SuccessMeansAllConnected'
    <3>1. result # "connected"
      BY <1>r, <2>5, <1>b, <1>t
    <3> QED BY <3>1, <2>1 DEF SuccessMeansAllConnected
  <2> QED BY <2>4, <2>9, <2>10 DEF IInv
<1>3. CASE ~SocketReady(i)
  <2>1. /\ cpc' = "returned" /\ result' = "error"
        /\ UNCHANGED <<waiting, checked, watched, edges, batch>>
    BY <1>3 DEF CheckOne, Return
  <2>2. TypeOK'
    BY <2>1, <1>1, <1>t DEF IInv, TypeOK, CPCs
  <2> QED BY <2>1, <2>2 DEF IInv, Bookkeeping, SuccessMeansAllConnected
<1> QED BY <1>2, <1>3

\* The head of the loop: what it opens fits, and it is done only with all.
LEMMA TopStep == IInv /\ Top => IInv'
<1> SUFFICES ASSUME IInv, Top PROVE IInv'
    OBVIOUS
<1>1. /\ cpc = "top"
      /\ UNCHANGED <<sockets, waiting, state, edges, watched, batch, checked, waited, pollEnd>>
    BY DEF Top, kernel
<1>t. /\ sockets \in 0..SockCount /\ waiting \in Nat /\ left \in Nat
      /\ watched \subseteq Ids /\ checked \subseteq Ids
    BY DEF IInv, TypeOK
<1>b. /\ watched \cup checked = Opened /\ IsFiniteSet(watched)
      /\ watched \cap checked = {} /\ batch \subseteq watched
      /\ waiting = Cardinality(watched) /\ waiting <= ConnQSize
      /\ \A j \in checked : state[j] \in {"established", "reset"}
    BY <1>1 DEF IInv, Bookkeeping
<1>2. CASE AllDone
  <2>1. cpc' = "returned" /\ result' = "connected" /\ left' = left
    BY <1>2 DEF Top, Return
  <2>2. watched = {}
    BY <1>2, <1>b, FS_EmptySet DEF AllDone
  <2>3. checked = Ids /\ sockets = SockCount
    BY <1>2, <1>b, <2>2 DEF AllDone, Opened, Ids
  <2>4. TypeOK'
    BY <1>1, <2>1 DEF IInv, TypeOK, CPCs
  <2>5. SuccessMeansAllConnected'
    BY <1>1, <1>b, <2>3 DEF SuccessMeansAllConnected, Ids
  <2> QED BY <2>1, <2>4, <2>5 DEF IInv, Bookkeeping
<1>3. CASE ~AllDone
  <2>1. /\ cpc' = "open" /\ UNCHANGED result
        /\ left' = Lesser(SockCount - sockets, ConnQSize - waiting)
    BY <1>3 DEF Top, Room
  <2>2. left' \in Nat /\ left' <= ConnQSize - waiting /\ left' <= SockCount - sockets
    BY <2>1, <1>t, <1>b DEF Lesser
  <2>s. left' > 0 \/ waiting > 0
    BY <1>3, <2>1, <1>t DEF AllDone, Lesser
  <2>3. TypeOK'
    BY <1>1, <2>1, <2>2 DEF IInv, TypeOK, CPCs
  <2>4. Bookkeeping'
    BY <1>1, <1>b, <2>1, <2>2, <2>s DEF Bookkeeping, Opened, WaitsForSomething
  <2>5. SuccessMeansAllConnected'
    BY <1>1, <2>1 DEF IInv, SuccessMeansAllConnected, Ids
  <2> QED BY <2>3, <2>4, <2>5 DEF IInv
<1> QED BY <1>2, <1>3

\* A return with a failure leaves nothing to show.
LEMMA FailureStep ==
    ASSUME IInv, result' \in {"timeout", "error"}, cpc' = "returned", TypeOK'
    PROVE  IInv'
BY DEF IInv, Bookkeeping, SuccessMeansAllConnected

\* What the other end does touches no book, and makes no socket unconnected.
LEMMA OtherEndStep ==
    ASSUME NEW i \in Ids, IInv, Accept(i) \/ Refuse(i) \/ Reset(i)
    PROVE  IInv'
<1>1. PICK s \in States :
        /\ Becomes(i, s)
        /\ state[i] \in {"established", "reset"} => s \in {"established", "reset"}
    BY DEF Accept, Refuse, Reset, States
<1>2. /\ state' = [state EXCEPT ![i] = s] /\ edges' = edges \cup ({i} \cap watched)
      /\ UNCHANGED <<cpc, sockets, left, waiting, watched, batch, checked, waited, pollEnd, result>>
    BY <1>1 DEF Becomes
<1>3. state \in [Ids -> States] /\ checked \subseteq Ids
    BY DEF IInv, TypeOK
<1>4. TypeOK'
    BY <1>2, <1>3 DEF IInv, TypeOK
<1>5. \A j \in Ids : state[j] \in {"established", "reset"}
                        => state'[j] \in {"established", "reset"}
    BY <1>1, <1>2, <1>3
<1>6. Bookkeeping'
    BY <1>2, <1>3, <1>5 DEF IInv, Bookkeeping, Opened, WaitsForSomething
<1>7. SuccessMeansAllConnected'
    BY <1>2, <1>5 DEF IInv, SuccessMeansAllConnected, Ids
<1> QED BY <1>4, <1>6, <1>7 DEF IInv

LEMMA NextIInv == IInv /\ [Next]_vars => IInv'
<1> SUFFICES ASSUME IInv, [Next]_vars PROVE IInv'
    OBVIOUS
<1>1. CASE Start
  <2>1. UNCHANGED <<sockets, left, waiting, state, edges, watched, batch, checked, waited, pollEnd>>
    BY <1>1 DEF Start, kernel
  <2>2. /\ cpc = "start"
        /\ \/ cpc' = "top" /\ UNCHANGED result
           \/ cpc' = "returned" /\ result' = "error"
    BY <1>1 DEF Start, Return
  <2>3. TypeOK'
    BY <2>1, <2>2 DEF IInv, TypeOK, CPCs
  <2> QED BY <2>1, <2>2, <2>3 DEF IInv, Bookkeeping, SuccessMeansAllConnected, Opened,
                                  Ids, WaitsForSomething
<1>2. CASE Top
    BY <1>2, TopStep
<1>3. CASE OpenOne
    BY <1>3, OpenOneStep
<1>4. CASE SocketFails
  <2>1. TypeOK'
    BY <1>4 DEF SocketFails, Return, kernel, IInv, TypeOK, CPCs
  <2> QED BY <1>4, <2>1, FailureStep DEF SocketFails, Return
<1>5. CASE OpenFails
  <2>1. sockets + 1 \in 0..SockCount
    BY <1>5 DEF OpenFails, IInv, TypeOK, Bookkeeping
  <2>2. TypeOK'
    BY <1>5, <2>1 DEF OpenFails, Return, IInv, TypeOK, CPCs, States, Ids
  <2> QED BY <1>5, <2>2, FailureStep DEF OpenFails, Return
<1>6. CASE OpenEnds
  <2>p. pollEnd' \in 0..WaitTimeoutNs
    BY <1>6, PollEndType, UnitsAssumption DEF OpenEnds, WaitTimeoutNs
  <2>1. TypeOK'
    BY <1>6, <2>p DEF OpenEnds, kernel, IInv, TypeOK, CPCs, WaitTimeoutNs
  <2> QED BY <1>6, <2>1 DEF OpenEnds, kernel, IInv, Bookkeeping, Opened,
                             SuccessMeansAllConnected, Ids, WaitsForSomething
<1>7. CASE WaitTick
  <2>1. WaitTimeoutNs \in Nat
    BY UnitsAssumption DEF WaitTimeoutNs
  <2>2. TypeOK'
    BY <1>7, <2>1 DEF WaitTick, kernel, IInv, TypeOK, CPCs
  <2> QED BY <1>7, <2>2 DEF WaitTick, kernel, IInv, Bookkeeping, Opened,
                             SuccessMeansAllConnected, Ids, WaitsForSomething
<1>p. CASE PollEmpty \/ PollAgain
  <2>p. pollEnd' \in 0..WaitTimeoutNs
    <3>1. CASE PollEmpty
      BY <3>1 DEF PollEmpty, IInv, TypeOK
    <3>2. CASE PollAgain
      <4>1. waited \in Nat /\ waited <= WaitTimeoutNs
        BY <3>2, UnitsAssumption DEF PollAgain, IInv, TypeOK, WaitTimeoutNs
      <4> QED BY <3>2, <4>1, PollEndType DEF PollAgain
    <3> QED BY <1>p, <3>1, <3>2
  <2>1. TypeOK'
    BY <1>p, <2>p DEF PollEmpty, PollAgain, kernel, IInv, TypeOK, CPCs, WaitTimeoutNs
  <2> QED BY <1>p, <2>1 DEF PollEmpty, PollAgain, kernel, IInv, Bookkeeping, Opened,
                             SuccessMeansAllConnected, Ids, WaitsForSomething
<1>8. CASE WaitReports
  <2>1. TypeOK'
    BY <1>8 DEF WaitReports, IInv, TypeOK, CPCs
  <2>2. edges \subseteq watched
    BY DEF IInv, TypeOK
  <2> QED BY <1>8, <2>1, <2>2 DEF WaitReports, IInv, Bookkeeping, Opened,
                             SuccessMeansAllConnected, Ids, WaitsForSomething
<1>9. CASE WaitTimesOut
  <2>1. TypeOK'
    BY <1>9 DEF WaitTimesOut, Return, kernel, IInv, TypeOK, CPCs
  <2> QED BY <1>9, <2>1, FailureStep DEF WaitTimesOut, Return
<1>10. CASE WaitFails
  <2>1. TypeOK'
    BY <1>10 DEF WaitFails, Return, kernel, IInv, TypeOK, CPCs
  <2> QED BY <1>10, <2>1, FailureStep DEF WaitFails, Return
<1>11. CASE \E i \in Ids : CheckOne(i)
    BY <1>11, CheckOneStep
<1>12. CASE CheckEnds
  <2>1. TypeOK'
    BY <1>12 DEF CheckEnds, kernel, IInv, TypeOK, CPCs
  <2> QED BY <1>12, <2>1 DEF CheckEnds, kernel, IInv, Bookkeeping, Opened,
                             SuccessMeansAllConnected, Ids, WaitsForSomething
<1>13. CASE \E i \in Ids : Accept(i) \/ Refuse(i) \/ Reset(i)
    BY <1>13, OtherEndStep
<1>14. CASE UNCHANGED vars
  <2>1. UNCHANGED <<cpc, sockets, left, waiting, state, edges, watched, batch, checked,
                    waited, pollEnd, result>>
    BY <1>14 DEF vars, kernel
  <2>2. TypeOK'
    BY <2>1 DEF IInv, TypeOK
  <2>3. Bookkeeping'
    BY <2>1 DEF IInv, Bookkeeping, Opened, WaitsForSomething
  <2>4. SuccessMeansAllConnected'
    BY <2>1 DEF IInv, SuccessMeansAllConnected, Ids
  <2> QED BY <2>2, <2>3, <2>4 DEF IInv
<1> QED BY <1>1, <1>2, <1>3, <1>4, <1>5, <1>6, <1>7, <1>8, <1>9, <1>10, <1>11, <1>12,
           <1>13, <1>14, <1>p DEF Next, Code

LEMMA IInvHolds == Spec => []IInv
BY InitIInv, NextIInv, PTL DEF Spec

\* The variables of connect_all keep their types.
THEOREM TypeCorrect == Spec => []TypeOK
<1>1. IInv => TypeOK
    BY DEF IInv
<1> QED BY <1>1, IInvHolds, PTL

\* waiting_to_connect is the size of the epoll set and at most conn_q_size,
\* for every number of connections and every size of the queue.
THEOREM CountIsRight == Spec => []WaitingIsWatched
<1>1. IInv => WaitingIsWatched
    BY DEF IInv, Bookkeeping, WaitingIsWatched
<1> QED BY <1>1, IInvHolds, PTL

\* Every wait of connect_all has a connect under way to wait for.
THEOREM WaitsAreUseful == Spec => []WaitsForSomething
<1>1. IInv => WaitsForSomething
    BY DEF IInv, Bookkeeping, WaitsForSomething
<1> QED BY <1>1, IInvHolds, PTL

\* connect_all returns true only with every connection established.
THEOREM SuccessIsComplete == Spec => []SuccessMeansAllConnected
<1>1. IInv => SuccessMeansAllConnected
    BY DEF IInv
<1> QED BY <1>1, IInvHolds, PTL
=============================================================================
