-------------------------- MODULE OldClient_proofs --------------------------
(***************************************************************************)
(* What is proved about OldClient, for every set of connections, number    *)
(* and length of messages, client and fault.                               *)
(***************************************************************************)
EXTENDS OldClient, FiniteSetTheorems, TLAPS

Running == {s \in Socks : wpc[s] \notin {"idle", "new"}}
Flags == {"in", "err"}

\* The loop over a selector: fd_left is the number of sockets in it; what is
\* at hand, or still to come in the batch, is in it and comes once.
Looping ==
    /\ started = 0 /\ ~go
    /\ cpc \notin {"barrier", "join"}
    /\ cpc \in {"connect", "prepare"} => fdLeft = Cardinality(Socks)
    /\ cpc \in {"loop", "wait", "next"} => stamps = 1 /\ fdLeft = Cardinality(watched)
    /\ cpc # "next" => batch = {}
    /\ batch \subseteq watched \X Flags
    /\ \A s \in Socks : ~(<<s, "in">> \in batch /\ <<s, "err">> \in batch)
    /\ \A s \in Socks :
        wpc[s] # "idle" =>
            /\ cpc = "next" /\ wpc[s] \in {"recv", "write"}
            /\ s \in watched /\ \A flag \in Flags : <<s, flag>> \notin batch

\* The threads: none is past the barrier before all have started and the first
\* stamp is taken, and the second is taken when all are gone.
Threading ==
    /\ cpc \notin {"loop", "wait", "next"}
    /\ cpc \in {"connect", "prepare"} => \A s \in Socks : wpc[s] = "idle"
    /\ started = Cardinality(Running)
    /\ \A s \in Socks : wpc[s] \in {"recv", "write", "ending", "gone"} => go
    /\ cpc \in {"connect", "prepare", "barrier"} => ~go
    /\ cpc = "join" => go /\ stamps = 1
    /\ go => \A s \in Socks : wpc[s] \notin {"idle", "new"}
    /\ go /\ cpc # "join" => \A s \in Socks : wpc[s] = "gone"
    /\ rc = "ok" => go
    /\ \A s \in Socks : wpc[s] = "gone" => counter[s] = answers[s]

IInv ==
    /\ TypeOK
    /\ IF Threads THEN Threading ELSE Looping
    /\ cpc # "returned" => rc = "none"
    /\ rc = "ok" => processed = answers

LEMMA SocksCounted ==
    /\ IsFiniteSet(Socks)
    /\ Cardinality(Socks) \in Nat
    /\ IsFiniteSet(Running) /\ Cardinality(Running) \in 0..Cardinality(Socks)
    /\ Cardinality(Running) = Cardinality(Socks) => Running = Socks
<1>1. Running \subseteq Socks
  BY DEF Running
<1> QED
  BY <1>1, OldSocksAssumption, FS_CardinalityType, FS_Subset

LEMMA InitInv == Init => IInv
<1> SUFFICES ASSUME Init PROVE IInv
  OBVIOUS
<1>1. TypeOK
  <2>1. None \in [Socks -> 0..MaxMsgs] /\ None \in [Socks -> Nat]
    BY OldBoundAssumption DEF None
  <2>2. started \in 0..Cardinality(Socks) /\ fdLeft \in Nat
    BY SocksCounted DEF Init
  <2>3. /\ srv \in [Socks -> {"none", "accepted", "reading", "closed"}]
        /\ ending \in [Socks -> {"none", "fin", "reset"}]
        /\ peer \in [Socks -> {"open", "fin", "reset"}]
        /\ wpc \in [Socks -> WPCs]
    BY DEF Init, WPCs
  <2>4. /\ sent \in [Socks -> 0..MaxMsgs]
        /\ toServer \in [Socks -> Nat] /\ toClient \in [Socks -> Nat] /\ rx \in [Socks -> Nat]
        /\ answers \in [Socks -> Nat] /\ counter \in [Socks -> Nat]
        /\ processed \in [Socks -> Nat]
    BY <2>1 DEF Init
  <2>5. /\ setup \in Setups
        /\ news \subseteq Socks /\ watched \subseteq Socks
        /\ batch \subseteq Socks \X {"in", "err"}
    BY DEF Init
  <2>6. cpc \in CPCs /\ stamps \in 0..2 /\ rc \in {"none", "ok", "error"}
    BY DEF Init, CPCs
  <2>7. go \in BOOLEAN
    BY DEF Init
  <2> QED
    BY <2>2, <2>3, <2>4, <2>5, <2>6, <2>7 DEF TypeOK
<1>2. Running = {} /\ Cardinality(Running) = 0
  <2>1. Running = {}
    BY DEF Init, Running
  <2> QED
    BY <2>1, FS_EmptySet
<1>3. Threading /\ Looping
  BY <1>2 DEF Init, Threading, Looping
<1> QED
  BY <1>1, <1>3 DEF Init, IInv

\* Nothing the server and the network do changes what the client holds.
LEMMA ServerStep == ASSUME IInv, Server PROVE IInv'
<1>1. UNCHANGED <<setup, cpc, wpc, loop, threads, answers, outcome>>
  BY DEF Server
<1>2. MsgLen \in Nat
  BY OldSetupsAssumption DEF IInv, TypeOK, MsgLen
<1>3. TypeOK'
  <2> USE <1>1, <1>2, OldBoundAssumption DEF IInv, TypeOK, loop, threads, outcome
  <2>1. ASSUME NEW s \in Socks, FirstMessage(s) PROVE TypeOK'
    BY <2>1 DEF FirstMessage, arrived
  <2>2. ASSUME NEW s \in Socks, AnotherMessage(s) PROVE TypeOK'
    BY <2>2 DEF AnotherMessage, arrived, Lesser
  <2>3. ASSUME NEW s \in Socks, LastRead(s) PROVE TypeOK'
    BY <2>3 DEF LastRead, arrived, Lesser
  <2>4. ASSUME NEW s \in Socks, TooLate(s) \/ ServerLost(s) PROVE TypeOK'
    BY <2>4 DEF TooLate, ServerLost, arrived, serverVars
  <2>5. ASSUME NEW s \in Socks, Deliver(s) PROVE TypeOK'
    BY <2>5 DEF Deliver, serverVars
  <2>6. ASSUME NEW s \in Socks, DeliverEnd(s) PROVE TypeOK'
    BY <2>6 DEF DeliverEnd, serverVars
  <2> QED
    BY <2>1, <2>2, <2>3, <2>4, <2>5, <2>6 DEF Server
<1>4. Threading' = Threading /\ Looping' = Looping /\ Threads' = Threads
  BY <1>1 DEF Threading, Looping, Running, Threads, loop, threads, outcome
<1> QED
  BY <1>1, <1>3, <1>4 DEF IInv, outcome, threads

\* A socket that is given up was in the selector.
LEMMA GivingUpCounts ==
    ASSUME NEW s \in watched, watched \subseteq Socks,
           fdLeft = Cardinality(watched),
           watched' = watched \ {s}, fdLeft' = fdLeft - 1
    PROVE  fdLeft' = Cardinality(watched') /\ fdLeft' \in Nat
<1>1. IsFiniteSet(watched) /\ IsFiniteSet(watched \ {s})
  BY SocksCounted, FS_Subset
<1>2. Cardinality(watched \ {s}) = Cardinality(watched) - 1
  BY <1>1, FS_RemoveElement
<1>3. Cardinality(watched) \in Nat /\ Cardinality(watched \ {s}) \in Nat
  BY <1>1, FS_CardinalityType
<1> QED
  BY <1>2, <1>3

\* The steps both kinds of test take.
LEMMA Connecting ==
    ASSUME IInv, ConnectEnds \/ ConnectFails \/ \E s \in Socks : Connect(s)
    PROVE  IInv'
<1>1. ASSUME NEW s \in Socks, Connect(s) PROVE IInv'
  BY <1>1 DEF IInv, TypeOK, Threading, Looping, Running, Threads, Connect,
              wire, arrived, loop, threads, outcome
<1>2. CASE ConnectEnds
  BY <1>2 DEF IInv, TypeOK, CPCs, Threading, Looping, Running, Threads, ConnectEnds,
              net, serverVars, wire, arrived, loop, threads, outcome
<1>3. CASE ConnectFails
  BY <1>3 DEF IInv, TypeOK, CPCs, Threading, Looping, Running, Threads, ConnectFails,
              Return, net, serverVars, wire, arrived, loop, threads
<1> QED
  BY <1>1, <1>2, <1>3

LEMMA LoopSteps ==
    ASSUME IInv, ~Threads, Prepare \/ SelectorFails \/ Head \/ Wait \/ BatchEnds
    PROVE  IInv'
<1> USE DEF IInv, TypeOK, CPCs, Looping, Threads,
            net, serverVars, wire, arrived, loop, threads, outcome
<1>1. CASE Prepare
  BY <1>1 DEF Prepare
<1>2. CASE SelectorFails
  BY <1>2 DEF SelectorFails, Return
<1>3. CASE Head
  BY <1>3 DEF Head, Return
<1>4. CASE Wait
  <2>1. \A s \in PollReady \cup EPollReady : s \in watched /\ Flag(s) \in Flags
    BY DEF PollReady, EPollReady, Flag, Flags
  <2>2. PICK ready \in SUBSET (PollReady \cup EPollReady) :
            batch' = {<<s, Flag(s)>> : s \in ready}
    BY <1>4 DEF Wait
  <2>3. batch' \subseteq watched \X Flags
    BY <2>1, <2>2
  <2>4. \A s \in Socks : ~(<<s, "in">> \in batch' /\ <<s, "err">> \in batch')
    BY <2>2
  <2> QED
    BY <1>4, <2>3, <2>4 DEF Wait, Flags
<1>5. CASE BatchEnds
  BY <1>5 DEF BatchEnds, Busy
<1> QED
  BY <1>1, <1>2, <1>3, <1>4, <1>5

LEMMA NextEventStep ==
    ASSUME NEW s \in Socks, NEW flag \in Flags, IInv, ~Threads, NextEvent(s, flag)
    PROVE  IInv'
<1>1. /\ cpc = "next" /\ <<s, flag>> \in batch /\ batch' = batch \ {<<s, flag>>}
      /\ UNCHANGED <<net, cpc, threads, answers, outcome>>
  BY DEF NextEvent
<1>2. s \in watched /\ watched \subseteq Socks /\ fdLeft = Cardinality(watched)
  BY <1>1 DEF IInv, TypeOK, Looping
<1>3. \A f \in Flags : <<s, f>> \notin batch'
  BY <1>1 DEF IInv, Looping, Flags
<1>4. CASE flag = "err"
  <2>1. watched' = watched \ {s} /\ fdLeft' = fdLeft - 1 /\ UNCHANGED wpc
    BY <1>4 DEF NextEvent
  <2>2. fdLeft' = Cardinality(watched') /\ fdLeft' \in Nat
    BY <1>2, <2>1, GivingUpCounts
  <2>3. batch' \subseteq watched' \X Flags
    BY <1>1, <1>3, <2>1 DEF IInv, Looping
  <2>4. \A t \in Socks : wpc[t] = "idle"
    BY DEF NextEvent, Busy
  <2> QED
    BY <1>1, <2>1, <2>2, <2>3, <2>4 DEF IInv, TypeOK, Looping, Threads, CPCs, Flags,
       net, serverVars, wire, arrived, threads, outcome
<1>5. CASE flag # "err"
  <2>1. wpc' = [wpc EXCEPT ![s] = "recv"] /\ UNCHANGED <<watched, fdLeft>>
    BY <1>5 DEF NextEvent
  <2> QED
    BY <1>1, <1>2, <1>3, <2>1 DEF IInv, TypeOK, Looping, Threads, CPCs, WPCs, Flags,
       net, serverVars, wire, arrived, threads, outcome
<1> QED
  BY <1>4, <1>5

\* process_message of the loop: what it does with the socket at hand.
LEMMA LoopMessage ==
    ASSUME NEW s \in Socks, IInv, ~Threads, Recv(s) \/ Write(s)
    PROVE  IInv'
<1>1. /\ cpc = "next" /\ s \in watched /\ watched \subseteq Socks
      /\ fdLeft = Cardinality(watched)
      /\ \A flag \in Flags : <<s, flag>> \notin batch
  BY DEF IInv, TypeOK, Looping, Recv, Write
<1>2. UNCHANGED <<setup, cpc, threads, processed, stamps, rc, srv, sent, peer, news>>
  BY DEF Recv, Write, serverVars, arrived, outcome
<1>3. MsgLen \in Nat
  BY OldSetupsAssumption DEF IInv, TypeOK, MsgLen
<1>4. /\ toServer' \in [Socks -> Nat] /\ rx' \in [Socks -> Nat]
      /\ answers' \in [Socks -> Nat]
      /\ UNCHANGED <<toClient, ending>>
  BY <1>3 DEF IInv, TypeOK, Recv, Write, Succeeds, Lesser, wire, arrived
<1>5. CASE /\ wpc' \in {[wpc EXCEPT ![s] = "write"], [wpc EXCEPT ![s] = "idle"]}
           /\ UNCHANGED loop
  BY <1>1, <1>2, <1>4, <1>5 DEF IInv, TypeOK, Looping, Threads, WPCs, threads, loop
<1>6. CASE wpc' = [wpc EXCEPT ![s] = "idle"] /\ GivesUp(s)
  <2>1. watched' = watched \ {s} /\ fdLeft' = fdLeft - 1 /\ UNCHANGED batch
    BY <1>6 DEF GivesUp
  <2>2. fdLeft' = Cardinality(watched') /\ fdLeft' \in Nat
    BY <1>1, <2>1, GivingUpCounts
  <2>3. batch' \subseteq watched' \X Flags
    BY <1>1, <2>1 DEF IInv, Looping
  <2> QED
    BY <1>1, <1>2, <1>4, <1>6, <2>1, <2>2, <2>3
       DEF IInv, TypeOK, Looping, Threads, WPCs, threads
<1> QED
  BY <1>5, <1>6 DEF Recv, Write, Succeeds, FailsOn

\* The threads and the one that waits for them.
LEMMA Barrier == ASSUME IInv, Threads, Spawn \/ Release \/ Join PROVE IInv'
<1> USE DEF IInv, TypeOK, CPCs, Threading, Threads,
            net, serverVars, wire, arrived, loop, outcome
<1>1. CASE Spawn
  <2>1. Running = {} /\ Running' = {}
    BY <1>1 DEF Spawn, Running
  <2> QED
    BY <1>1, <2>1 DEF Spawn, WPCs, threads
<1>2. CASE Release
  <2>1. Running = Socks
    BY <1>2, SocksCounted DEF Release, AllStarted
  <2>2. Running' = Running
    BY <1>2 DEF Release, Running
  <2>3. \A s \in Socks : wpc[s] \notin {"idle", "new"}
    BY <2>1 DEF Running
  <2> QED
    BY <1>2, <2>2, <2>3 DEF Release
<1>3. CASE Join
  <2>1. Running' = Running
    BY <1>3 DEF Join, Running
  <2>2. counter = answers
    BY <1>3 DEF Join, AllGone
  <2> QED
    BY <1>3, <2>1, <2>2 DEF Join, AllGone, Return, threads
<1> QED
  BY <1>1, <1>2, <1>3

LEMMA ThreadSteps ==
    ASSUME NEW s \in Socks, IInv, Threads, Started(s) \/ Begin(s) \/ ThreadEnds(s)
    PROVE  IInv'
<1> USE DEF IInv, TypeOK, WPCs, Threading, Threads,
            net, serverVars, wire, arrived, loop, threads, outcome
<1>1. CASE Started(s)
  <2>1. Running' = Running \cup {s} /\ s \notin Running
    BY <1>1 DEF Started, Running
  <2>2. Cardinality(Running') = Cardinality(Running) + 1
    BY <2>1, SocksCounted, FS_AddElement
  <2>3. Running' \subseteq Socks /\ Cardinality(Running') \in 0..Cardinality(Socks)
    BY <2>1, <2>2, SocksCounted, FS_Subset, FS_CardinalityType DEF Running
  <2> QED
    BY <1>1, <2>2, <2>3 DEF Started
<1>2. CASE Begin(s)
  <2>1. Running' = Running
    BY <1>2 DEF Begin, Running
  <2> QED
    BY <1>2, <2>1 DEF Begin
<1>3. CASE ThreadEnds(s)
  <2>1. Running' = Running
    BY <1>3 DEF ThreadEnds, Running
  <2> QED
    BY <1>3, <2>1 DEF ThreadEnds
<1> QED
  BY <1>1, <1>2, <1>3

\* process_message of a thread.
LEMMA ThreadMessage ==
    ASSUME NEW s \in Socks, IInv, Threads, Recv(s) \/ Write(s)
    PROVE  IInv'
<1>1. UNCHANGED <<setup, cpc, threads, processed, stamps, rc, srv, sent, peer, news, loop>>
  BY DEF Recv, Write, Succeeds, FailsOn, serverVars, arrived, outcome
<1>2. MsgLen \in Nat
  BY OldSetupsAssumption DEF IInv, TypeOK, MsgLen
<1>3. /\ toServer' \in [Socks -> Nat] /\ rx' \in [Socks -> Nat]
      /\ answers' \in [Socks -> Nat]
      /\ \A t \in Socks \ {s} : answers'[t] = answers[t]
      /\ UNCHANGED <<toClient, ending>>
  BY <1>2 DEF IInv, TypeOK, Recv, Write, Succeeds, Lesser, wire, arrived
<1>4. /\ wpc[s] \in {"recv", "write"}
      /\ wpc' \in {[wpc EXCEPT ![s] = p] : p \in {"recv", "write", "ending"}}
  BY DEF Recv, Write, Succeeds, FailsOn
<1>5. Running' = Running /\ wpc' \in [Socks -> WPCs]
  BY <1>4 DEF IInv, TypeOK, WPCs, Running
<1>6. rc # "ok"
  BY <1>4 DEF IInv, Threading, CPCs
<1> QED
  BY <1>1, <1>3, <1>4, <1>5, <1>6 DEF IInv, TypeOK, Threading, Threads, threads, loop

LEMMA StepInv == ASSUME IInv, [Next]_vars PROVE IInv'
<1>1. CASE UNCHANGED vars
  BY <1>1 DEF IInv, TypeOK, Threading, Looping, Running, Threads, vars,
              net, serverVars, wire, arrived, loop, threads, outcome
<1>2. CASE Server
  BY <1>2, ServerStep
<1>3. CASE ConnectFails
  BY <1>3, Connecting
<1>4. CASE SelectorFails
  <2>1. ~Threads
    BY <1>4 DEF SelectorFails, IInv, Threading, Threads
  <2> QED
    BY <1>4, <2>1, LoopSteps
<1>5. CASE Works
  <2>1. CASE Threads
    <3>1. cpc \notin {"loop", "wait", "next"}
      BY <2>1 DEF IInv, Threading
    <3> QED
      BY <1>5, <2>1, <3>1, Connecting, Barrier, ThreadSteps, ThreadMessage
         DEF Works, Prepare, Head, Wait, BatchEnds, NextEvent
  <2>2. CASE ~Threads
    <3>1. /\ cpc \notin {"barrier", "join"}
          /\ \A s \in Socks : wpc[s] \in {"idle", "recv", "write"}
      BY <2>2 DEF IInv, Looping
    <3> QED
      BY <1>5, <2>2, <3>1, Connecting, LoopSteps, NextEventStep, LoopMessage
         DEF Works, Spawn, Release, Join, Started, Begin, ThreadEnds, Flags
  <2> QED
    BY <2>1, <2>2
<1> QED
  BY <1>1, <1>2, <1>3, <1>4, <1>5 DEF Next

LEMMA Invariance == Spec => []IInv
BY InitInv, StepInv, PTL DEF Spec

\* The types of what run_test and run_test_th keep: fd_left does not become
\* negative, and no more threads report than there are.
THEOREM TypeCorrect == Spec => []TypeOK
<1>1. IInv => TypeOK
  BY DEF IInv
<1> QED
  BY Invariance, <1>1, PTL

\* The number of messages reported is the number answered: what the threads
\* add is read when all of them have added it, and nobody answers after.
THEOREM EveryAnswerCounted == Spec => []CountIsAnswers
<1>1. IInv => CountIsAnswers
  BY DEF IInv, CountIsAnswers
<1> QED
  BY Invariance, <1>1, PTL

\* Only a Write answers, and it comes between the two stamps and after the
\* barrier.
THEOREM MeasuredWork == Spec => AnswersAreMeasured
<1> DEFINE Measured == \A s \in Socks : answers'[s] # answers[s] =>
                          stamps = 1 /\ \A th \in Socks : wpc[th] # "new"
<1>1. ASSUME IInv, [Next]_vars PROVE Measured
  <2>1. ASSUME NEW s \in Socks, Write(s) PROVE Measured
    <3>1. stamps = 1 /\ \A th \in Socks : wpc[th] # "new"
      <4>1. wpc[s] = "write"
        BY <2>1 DEF Write
      <4>2. CASE Threads
        BY <1>1, <4>1, <4>2 DEF IInv, Threading
      <4>3. CASE ~Threads
        BY <1>1, <4>1, <4>3 DEF IInv, Looping
      <4> QED
        BY <4>2, <4>3
    <3> QED
      BY <3>1
  <2>2. CASE UNCHANGED answers
    BY <2>2
  <2> QED
    BY <1>1, <2>1, <2>2 DEF Next, Works, Server, vars, ConnectEnds, Prepare, Head, Wait,
       BatchEnds, Spawn, Release, Join, Connect, Recv, NextEvent, Started, Begin,
       ThreadEnds, ConnectFails, SelectorFails, outcome
<1> QED
  BY Invariance, <1>1, PTL DEF Spec, AnswersAreMeasured

-----------------------------------------------------------------------------
(* A test is over when every connection has ended. *)

Ended(s) == peer[s] # "open"
Readable(s) == rx[s] > 0 \/ Ended(s)

\* With messages that come whole: what is given up has ended, and what is read
\* by the loop, or is to be, has something to be read.
Endings ==
    IF Threads
    THEN \A s \in Socks : wpc[s] \in {"ending", "gone"} => Ended(s)
    ELSE /\ cpc \in {"loop", "wait", "next"} => \A s \in Socks \ watched : Ended(s)
         /\ \A s \in Socks : <<s, "in">> \in batch => Readable(s)
         /\ \A s \in Socks : <<s, "err">> \in batch => Ended(s)
         /\ \A s \in Socks : wpc[s] = "recv" => Readable(s)

EndInv == IInv /\ (MsgLen = 1 => Endings /\ (rc = "ok" => \A s \in Socks : Ended(s)))

\* An end stays seen, and only recv takes something out of the buffer.
LEMMA ServerEnds ==
    ASSUME IInv, Server, NEW s \in Socks
    PROVE  (Ended(s) => Ended(s)') /\ (Readable(s) => Readable(s)')
<1> USE DEF IInv, TypeOK, Ended, Readable, arrived, serverVars
<1>1. ASSUME NEW t \in Socks, Deliver(t)
      PROVE  (Ended(s) => Ended(s)') /\ (Readable(s) => Readable(s)')
  BY <1>1 DEF Deliver
<1>2. ASSUME NEW t \in Socks, DeliverEnd(t)
      PROVE  (Ended(s) => Ended(s)') /\ (Readable(s) => Readable(s)')
  BY <1>2 DEF DeliverEnd
<1>3. CASE UNCHANGED arrived
  BY <1>3
<1> QED
  BY <1>1, <1>2, <1>3 DEF Server, FirstMessage, AnotherMessage, LastRead, TooLate, ServerLost

LEMMA EndInit == Init => EndInv
BY InitInv DEF Init, EndInv, Endings

LEMMA EndStep == ASSUME EndInv, [Next]_vars PROVE EndInv'
<1>1. IInv /\ IInv'
  BY StepInv DEF EndInv
<1> SUFFICES ASSUME MsgLen' = 1
             PROVE  Endings' /\ (rc' = "ok" => \A s \in Socks : Ended(s)')
  BY <1>1 DEF EndInv
<1>2. MsgLen = 1 /\ Threads' = Threads
  BY DEF Next, Works, Server, vars, MsgLen, Threads, net, ConnectEnds, Prepare, Head, Wait,
     BatchEnds, Spawn, Release, Join, Connect, Recv, Write, NextEvent, Started, Begin,
     ThreadEnds, ConnectFails, SelectorFails
<1>3. Endings /\ (rc = "ok" => \A s \in Socks : Ended(s))
  BY <1>2 DEF EndInv
<1>4. CASE Server
  <2>1. UNCHANGED <<wpc, cpc, watched, batch, rc>>
    BY <1>4 DEF Server, loop, outcome
  <2> QED
    BY <1>1, <1>2, <1>3, <1>4, <2>1, ServerEnds DEF Endings
<1>5. ASSUME NEW s \in Socks, Recv(s) \/ Write(s)
      PROVE  Endings' /\ (rc' = "ok" => \A t \in Socks : Ended(t)')
  <2>1. /\ UNCHANGED <<peer, cpc, rc, batch>>
        /\ \A t \in Socks \ {s} : rx'[t] = rx[t] /\ wpc'[t] = wpc[t]
    BY <1>1, <1>5 DEF Recv, Write, FailsOn, Succeeds, GivesUp, loop, outcome, arrived,
       IInv, TypeOK
  <2>2. CASE Threads
    <3>1. wpc'[s] = "ending" => Ended(s)
      BY <1>1, <1>2, <1>3, <1>5, <2>2 DEF Recv, Write, FailsOn, Succeeds, Whole, Ended, Endings,
         IInv, TypeOK
    <3>2. wpc'[s] # "gone"
      BY <1>1, <1>5, <2>2 DEF Recv, Write, FailsOn, Succeeds, IInv, TypeOK
    <3> QED
      BY <1>2, <1>3, <2>1, <2>2, <3>1, <3>2 DEF Endings, Ended
  <2>3. CASE ~Threads
    <3>1. \A flag \in Flags : <<s, flag>> \notin batch
      BY <1>1, <1>5, <2>3 DEF Recv, Write, IInv, Looping
    <3>2. wpc'[s] # "recv" /\ (UNCHANGED watched \/ (watched' = watched \ {s} /\ Ended(s)))
      BY <1>1, <1>2, <1>3, <1>5, <2>3 DEF Recv, Write, FailsOn, Succeeds, GivesUp, Whole,
         loop, Ended, Readable, Endings, IInv, TypeOK
    <3> QED
      BY <1>2, <1>3, <2>1, <2>3, <3>1, <3>2 DEF Endings, Ended, Readable, Flags
  <2> QED
    BY <2>2, <2>3
<1>6. ASSUME NEW s \in Socks, NEW flag \in Flags, NextEvent(s, flag)
      PROVE  Endings' /\ (rc' = "ok" => \A t \in Socks : Ended(t)')
  <2>1. ~Threads /\ UNCHANGED <<rx, peer, rc, cpc>>
    BY <1>1, <1>6 DEF NextEvent, IInv, Threading, net, arrived, outcome
  <2>2. flag = "err" => Ended(s) /\ watched' = watched \ {s} /\ UNCHANGED wpc
    BY <1>3, <1>6, <2>1 DEF NextEvent, Endings
  <2>3. flag # "err" => /\ Readable(s) /\ UNCHANGED watched
                        /\ wpc' = [wpc EXCEPT ![s] = "recv"]
    BY <1>3, <1>6, <2>1 DEF NextEvent, Endings, Flags
  <2>4. batch' \subseteq batch
    BY <1>6 DEF NextEvent
  <2> QED
    BY <1>1, <1>2, <1>3, <2>1, <2>2, <2>3, <2>4 DEF Endings, Ended, Readable, IInv, TypeOK
<1>7. CASE Wait
  <2>1. ~Threads /\ UNCHANGED <<rx, peer, rc, wpc, watched>> /\ cpc = "wait" /\ cpc' = "next"
    BY <1>1, <1>7 DEF Wait, IInv, Threading, outcome
  <2>2. PICK ready \in SUBSET (PollReady \cup EPollReady) :
            batch' = {<<s, Flag(s)>> : s \in ready}
    BY <1>7 DEF Wait
  <2>3. \A s \in ready : /\ Flag(s) = "in" => Readable(s)
                         /\ Flag(s) = "err" => Ended(s)
    BY DEF Flag, Readable, Ended
  <2>4. \A s \in Socks, f \in Flags : <<s, f>> \in batch' => s \in ready /\ f = Flag(s)
    BY <2>2
  <2> QED
    BY <1>2, <1>3, <2>1, <2>3, <2>4 DEF Endings, Ended, Readable, Flags
<1>8. CASE Head
  <2>1. ~Threads /\ UNCHANGED <<rx, peer, wpc, watched, batch>> /\ cpc = "loop"
    BY <1>1, <1>8 DEF Head, IInv, Threading, net, loop, arrived
  <2>2. CASE MoreLeft
    BY <1>2, <1>3, <1>8, <2>1, <2>2 DEF Head, Endings, Ended, Readable, outcome
  <2>3. CASE ~MoreLeft
    <3>1. Cardinality(watched) = 0
      BY <1>1, <2>1, <2>3 DEF MoreLeft, IInv, TypeOK, Looping
    <3>2. watched = {}
      BY <1>1, <3>1, SocksCounted, FS_Subset, FS_EmptySet DEF IInv, TypeOK
    <3> QED
      BY <1>2, <1>3, <1>8, <2>1, <2>3, <3>2 DEF Head, Return, Endings, Ended, Readable
  <2> QED
    BY <2>2, <2>3
<1>9. CASE Join
  <2>1. \A s \in Socks : wpc[s] = "gone"
    BY <1>9 DEF Join, AllGone
  <2>2. Threads
    BY <1>1, <1>9 DEF Join, IInv, Looping
  <2> QED
    BY <1>2, <1>3, <1>9, <2>1, <2>2 DEF Join, Endings, Ended, net, arrived
<1>10. ASSUME NEW s \in Socks, ThreadEnds(s)
       PROVE  Endings' /\ (rc' = "ok" => \A t \in Socks : Ended(t)')
  <2>1. Threads
    BY <1>1, <1>10 DEF ThreadEnds, IInv, Looping
  <2> QED
    BY <1>1, <1>2, <1>3, <1>10, <2>1 DEF ThreadEnds, Endings, Ended, net, arrived, outcome,
       IInv, TypeOK
<1>11. CASE Prepare
  BY <1>1, <1>2, <1>3, <1>11 DEF Prepare, Endings, Ended, Readable, net, arrived, IInv, Looping
<1>12. ASSUME \/ UNCHANGED vars \/ ConnectEnds \/ ConnectFails \/ SelectorFails
              \/ BatchEnds \/ Spawn \/ Release
              \/ \E s \in Socks : Connect(s) \/ Started(s) \/ Begin(s)
       PROVE  Endings' /\ (rc' = "ok" => \A t \in Socks : Ended(t)')
  <2>1. UNCHANGED <<rx, peer, watched, batch>>
    BY <1>12 DEF vars, net, arrived, loop, ConnectEnds, ConnectFails, SelectorFails,
       BatchEnds, Spawn, Release, Connect, Started, Begin
  <2>2. /\ rc' = "ok" => rc = "ok"
        /\ cpc' \in {"loop", "wait", "next"} => cpc \in {"loop", "wait", "next"}
    BY <1>12 DEF vars, outcome, Return, ConnectEnds, ConnectFails, SelectorFails,
       BatchEnds, Spawn, Release, Connect, Started, Begin
  <2>3. CASE Threads
    <3>1. \A s \in Socks : wpc'[s] \in {"ending", "gone"} => wpc[s] \in {"ending", "gone"}
      BY <1>1, <1>12 DEF vars, ConnectEnds, ConnectFails, SelectorFails,
         BatchEnds, Spawn, Release, Connect, Started, Begin, IInv, TypeOK
    <3> QED
      BY <1>2, <1>3, <2>1, <2>2, <2>3, <3>1 DEF Endings, Ended
  <2>4. CASE ~Threads
    <3>1. UNCHANGED wpc
      BY <1>1, <1>12, <2>4 DEF vars, ConnectEnds, ConnectFails, SelectorFails,
         BatchEnds, Spawn, Release, Connect, Started, Begin, IInv, Looping
    <3> QED
      BY <1>2, <1>3, <2>1, <2>2, <2>4, <3>1 DEF Endings, Ended, Readable
  <2> QED
    BY <2>3, <2>4
<1> QED
  BY <1>4, <1>5, <1>6, <1>7, <1>8, <1>9, <1>10, <1>11, <1>12 DEF Next, Works, Flags

\* run_test and run_test_th succeed only when every connection was seen to
\* end, for any number of connections and messages.
THEOREM EndOfTheTest == Spec => []MeasuresToTheEnd
<1>1. EndInv => MeasuresToTheEnd
  BY DEF EndInv, MeasuresToTheEnd, Ended
<1> QED
  BY EndInit, EndStep, <1>1, PTL DEF Spec
=============================================================================
