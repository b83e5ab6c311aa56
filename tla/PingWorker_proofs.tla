-------------------------- MODULE PingWorker_proofs -------------------------
(***************************************************************************)
(* Proofs about PingWorker for every set of connections, message size,     *)
(* timeouts and faults.                                                    *)
(***************************************************************************)
EXTENDS PingWorker, FiniteSetTheorems, TLAPS

-----------------------------------------------------------------------------
(* Lemmas about the operators of the model. *)

\* Adding to a bag over D gives a bag over D.
LEMMA BagAddType ==
    ASSUME NEW D, NEW B, NEW x \in D,
           DOMAIN B \subseteq D, B \in [DOMAIN B -> Nat \ {0}]
    PROVE  /\ DOMAIN (B (+) SetToBag({x})) \subseteq D
           /\ B (+) SetToBag({x}) \in [DOMAIN (B (+) SetToBag({x})) -> Nat \ {0}]
<1> DEFINE C == B (+) SetToBag({x})
<1>1. DOMAIN C = DOMAIN B \cup {x}
    BY DEF (+), SetToBag
<1>2. ASSUME NEW e \in DOMAIN C PROVE C[e] \in Nat \ {0}
    BY <1>2 DEF (+), SetToBag
<1>3. C = [e \in DOMAIN C |-> C[e]]
    BY DEF (+)
<1> QED BY <1>1, <1>2, <1>3

\* Removing from a bag over D gives a bag over D.
LEMMA BagRemoveType ==
    ASSUME NEW D, NEW B, NEW x \in D,
           DOMAIN B \subseteq D, B \in [DOMAIN B -> Nat \ {0}]
    PROVE  /\ DOMAIN (B (-) SetToBag({x})) \subseteq D
           /\ B (-) SetToBag({x}) \in [DOMAIN (B (-) SetToBag({x})) -> Nat \ {0}]
BY DEF (-), SetToBag

LEMMA EmptyBagType ==
    DOMAIN EmptyBag = {} /\ EmptyBag \in [DOMAIN EmptyBag -> Nat \ {0}]
BY DEF EmptyBag, SetToBag

\* A batch is a finite set: ready_count is a number.
LEMMA BatchSizeType == events \subseteq Socks => BatchSize \in Nat
<1> SUFFICES ASSUME events \subseteq Socks PROVE BatchSize \in Nat
    OBVIOUS
<1>1. IsFiniteSet(events)
    BY SocksAssumption, FS_Subset
<1> QED BY <1>1, FS_CardinalityType DEF BatchSize

\* Every moment a round may wait for is a clock value.
LEMMA RoundDeadlinesType ==
    ASSUME now \in Nat, DOMAIN waitQueue \subseteq Socks \X Nat
    PROVE  RoundDeadlines \subseteq Nat
<1>1. \A e \in Top : e[2] \in Nat
    BY DEF Top
<1>2. \A e \in Top : Later(e[2], now) \in Nat
    BY <1>1 DEF Later
<1>3. now + IdleWait \in Nat
    BY IdleAssumption
<1> QED BY <1>2, <1>3 DEF RoundDeadlines

-----------------------------------------------------------------------------
(* Type correctness. *)

LEMMA InitTypeOK == Init => TypeOK
<1> SUFFICES ASSUME Init PROVE TypeOK
    OBVIOUS
<1>1. /\ DOMAIN waitQueue \subseteq Entries
      /\ waitQueue \in [DOMAIN waitQueue -> Nat \ {0}]
    BY EmptyBagType DEF Init
<1>2. readyFds \in Seq(Socks)
    BY DEF Init
<1> QED BY <1>1, <1>2, ClockAssumption DEF Init, TypeOK, PCs, Ticks, Unseen

\* ping is called for a socket of ready_fds.
PingHasTarget == pc = "ping" => readyFds # <<>>

LEMMA NextPingHasTarget == PingHasTarget /\ [Next]_vars => PingHasTarget'
<1> SUFFICES ASSUME PingHasTarget, [Next]_vars PROVE PingHasTarget'
    OBVIOUS
<1> USE DEF PingHasTarget
<1>1. CASE Tick \/ StopRun
    BY <1>1 DEF Tick, StopRun, queues
<1>2. CASE Client
    BY <1>2 DEF Client, ClientEcho, Deliver, ClientClose, ClientReset, queues
<1>3. CASE LoopTop \/ DrainEnds \/ WaitFails \/ PollEmpty \/ PollAgain
    BY <1>3 DEF LoopTop, DrainEnds, WaitFails, PollEmpty, PollAgain
<1>4. CASE WaitEvents \/ WaitTimesOut
    BY <1>4 DEF WaitEvents, WaitTimesOut, WaitReturns, AfterWait
<1>5. CASE Expire
    BY <1>5 DEF Expire
<1>6. CASE CheckDone
    BY <1>6 DEF CheckDone
<1>7. ASSUME NEW s \in Socks, Drain(s) PROVE PingHasTarget'
    BY <1>7 DEF Drain
<1>8. CASE SendCheck
    BY <1>8 DEF SendCheck, queues
<1>9. CASE Ping
    BY <1>9 DEF Ping, PingOk, PingFails
<1>10. CASE UNCHANGED vars
    BY <1>10 DEF vars, queues
<1> QED
    BY <1>1, <1>2, <1>3, <1>4, <1>5, <1>6, <1>7, <1>8, <1>9, <1>10 DEF Next, Worker

LEMMA NextTypeOK == TypeOK /\ PingHasTarget /\ [Next]_vars => TypeOK'
<1> SUFFICES ASSUME TypeOK, PingHasTarget, [Next]_vars
             PROVE  TypeOK'
    OBVIOUS
<1>1. CASE Tick
  <2>1. now' \in Ticks
    BY <1>1 DEF Tick, TypeOK, Ticks
  <2> QED BY <1>1, <2>1 DEF Tick, net, queues, result, TypeOK
<1>2. CASE StopRun
    BY <1>2 DEF StopRun, net, queues, result, TypeOK
<1>3. ASSUME NEW s \in Socks, ClientEcho(s)
      PROVE  TypeOK'
  <2>1. echo' \in [Socks -> Nat] /\ atPeer' \in [Socks -> BOOLEAN]
    BY <1>3, MsgLenAssumption DEF ClientEcho, TypeOK
  <2> QED BY <1>3, <2>1 DEF ClientEcho, queues, result, TypeOK
<1>4. ASSUME NEW s \in Socks, Deliver(s)
      PROVE  TypeOK'
  <2>1. PICK n \in 1..echo[s] : /\ echo' = [echo EXCEPT ![s] = @ - n]
                                /\ rx' = [rx EXCEPT ![s] = @ + n]
    BY <1>4 DEF Deliver
  <2>2. rx' \in [Socks -> Nat] /\ echo' \in [Socks -> Nat]
    BY <2>1 DEF TypeOK
  <2> QED BY <1>4, <2>2 DEF Deliver, queues, result, TypeOK
<1>5. ASSUME NEW s \in Socks, ClientClose(s)
      PROVE  TypeOK'
    BY <1>5 DEF ClientClose, queues, result, TypeOK
<1>6. ASSUME NEW s \in Socks, ClientReset(s)
      PROVE  TypeOK'
    BY <1>6 DEF ClientReset, queues, result, TypeOK
<1>7. CASE LoopTop
  <2>1. deadline' \in Nat
    BY <1>7, RoundDeadlinesType DEF LoopTop, TypeOK, Entries, Ticks
  <2>2. readyFds' \in Seq(Socks)
    BY <1>7 DEF LoopTop
  <2> QED BY <1>7, <2>1, <2>2 DEF LoopTop, net, result, TypeOK, PCs, Ticks
<1>8. ASSUME NEW batch \in SUBSET Socks, WaitReturns(batch), armed' \subseteq Socks
      PROVE  TypeOK'
    BY <1>8 DEF WaitReturns, AfterWait, RoundTime, net, result, TypeOK, PCs
<1>9. CASE WaitEvents
  <2>1. Reportable \in SUBSET Socks
    BY DEF Reportable, TypeOK
  <2> QED BY <1>9, <1>8, <2>1 DEF WaitEvents, StillArmed
<1>10. CASE WaitTimesOut
    BY <1>10, <1>8 DEF WaitTimesOut, TypeOK
<1>11. CASE WaitFails \/ PollEmpty \/ PollAgain
    BY <1>11 DEF WaitFails, PollEmpty, PollAgain, net, queues, result, TypeOK, PCs
<1>12. CASE Expire
  <2>1. ASSUME NEW e \in Expired, readyFds' = Append(readyFds, e[1]),
               waitQueue' = waitQueue (-) SetToBag({e}), UNCHANGED pc
        PROVE  TypeOK'
    <3>1. e \in Entries
        BY DEF Expired, Top, TypeOK
    <3>2. /\ DOMAIN waitQueue' \subseteq Entries
          /\ waitQueue' \in [DOMAIN waitQueue' -> Nat \ {0}]
        BY <2>1, <3>1, BagRemoveType DEF TypeOK
    <3>3. readyFds' \in Seq(Socks)
        BY <2>1, <3>1 DEF TypeOK, Entries
    <3> QED BY <1>12, <2>1, <3>2, <3>3 DEF Expire, net, result, TypeOK
  <2>2. CASE pc' = "check" /\ UNCHANGED <<readyFds, waitQueue>>
    BY <1>12, <2>2 DEF Expire, net, result, TypeOK, PCs
  <2> QED BY <1>12, <2>1, <2>2 DEF Expire
<1>13. CASE CheckDone
  <2>1. mcount' \in Nat /\ pc' \in PCs
    BY <1>13, BatchSizeType DEF CheckDone, TypeOK, PCs
  <2> QED BY <1>13, <2>1 DEF CheckDone, net, queues, TypeOK
<1>14. ASSUME NEW s \in Socks, Drain(s)
       PROVE  TypeOK'
  <2>1. KnownTime(s) \in Nat
    BY DEF KnownTime, Unseen, TypeOK, Ticks
  <2>2. PICK p \in Pauses :
            IF HasTimeout /\ KnownTime(s) + p > currTime
            THEN /\ waitQueue' = waitQueue (+) SetToBag({<<s, KnownTime(s) + p>>})
                 /\ UNCHANGED <<readyFds, pc>>
            ELSE /\ readyFds' = Append(readyFds, s)
                 /\ pc' = IF done THEN "exited" ELSE pc
                 /\ UNCHANGED waitQueue
    BY <1>14 DEF Drain
  <2>3. p \in Nat
    BY TimeoutAssumption DEF Pauses
  <2>4. <<s, KnownTime(s) + p>> \in Entries
    BY <2>1, <2>3 DEF Entries, Ticks
  <2>5. /\ DOMAIN waitQueue' \subseteq Entries
        /\ waitQueue' \in [DOMAIN waitQueue' -> Nat \ {0}]
    <3>1. CASE waitQueue' = waitQueue (+) SetToBag({<<s, KnownTime(s) + p>>})
        BY <3>1, <2>4, BagAddType DEF TypeOK
    <3>2. CASE UNCHANGED waitQueue
        BY <3>2 DEF TypeOK
    <3> QED BY <2>2, <3>1, <3>2
  <2>6. readyFds' \in Seq(Socks) /\ pc' \in PCs
    <3>1. readyFds \in Seq(Socks) /\ pc \in PCs
        BY DEF TypeOK
    <3>2. Append(readyFds, s) \in Seq(Socks) /\ "exited" \in PCs
        BY <3>1 DEF PCs
    <3> QED BY <2>2, <3>1, <3>2
  <2>7. lastTime' \in [Socks -> Ticks \cup {Unseen}]
    BY <1>14, <2>1 DEF Drain, TypeOK, Ticks
  <2>8. events' \subseteq Socks /\ latCount' \in Nat
    BY <1>14 DEF Drain, TypeOK
  <2> QED BY <1>14, <2>5, <2>6, <2>7, <2>8 DEF Drain, net, TypeOK
<1>15. CASE DrainEnds
    BY <1>15 DEF DrainEnds, net, queues, result, TypeOK, PCs
<1>16. CASE SendCheck
    BY <1>16 DEF SendCheck, net, queues, result, TypeOK, PCs
<1>17. CASE Ping
  <2> DEFINE h == Head(readyFds)
  <2>1. h \in Socks /\ Tail(readyFds) \in Seq(Socks)
    BY <1>17 DEF Ping, PingHasTarget, TypeOK
  <2>2. Unread(h) \in Nat
    <3>1. rx[h] \in Nat
        BY <2>1 DEF TypeOK
    <3> QED BY <3>1, MsgLenAssumption DEF Unread
  <2> HIDE DEF h
  <2>3. CASE PingOk(h)
    <3>1. rx' \in [Socks -> Nat] /\ atPeer' \in [Socks -> BOOLEAN]
        BY <2>1, <2>2, <2>3 DEF PingOk, TypeOK
    <3>2. lastTime' \in [Socks -> Ticks \cup {Unseen}]
        <4>1. lastTime \in [Socks -> Ticks \cup {Unseen}] /\ now \in Ticks
            BY DEF TypeOK
        <4> QED BY <4>1, <2>1, <2>3 DEF PingOk
    <3>3. messCount' \in [Socks -> Nat]
        <4>1. messCount \in [Socks -> Nat]
            BY DEF TypeOK
        <4> QED BY <4>1, <2>1, <2>3 DEF PingOk
    <3>4. readyFds' \in Seq(Socks)
        BY <2>1, <2>3 DEF PingOk
    <3> QED BY <1>17, <2>3, <3>1, <3>2, <3>3, <3>4 DEF Ping, PingOk, TypeOK, PCs
  <2>4. CASE PingFails(h)
    <3>1. rx' \in [Socks -> Nat]
        BY <2>1, <2>2, <2>4 DEF PingFails, TypeOK
    <3> QED BY <1>17, <2>4, <3>1 DEF Ping, PingFails, TypeOK, PCs
  <2> QED BY <1>17, <2>3, <2>4 DEF Ping, h
<1>18. CASE UNCHANGED vars
    BY <1>18 DEF vars, net, queues, result, TypeOK
<1> QED
    BY <1>1, <1>2, <1>3, <1>4, <1>5, <1>6, <1>7, <1>9, <1>10, <1>11, <1>12,
       <1>13, <1>14, <1>15, <1>16, <1>17, <1>18 DEF Next, Client, Worker

-----------------------------------------------------------------------------
(* One message on each connection. *)

LEMMA InitOneMessage == Init => OneMessageInFlight
BY MsgLenAssumption DEF Init, OneMessageInFlight, InFlight

LEMMA NextOneMessage ==
    TypeOK /\ PingHasTarget /\ OneMessageInFlight /\ [Next]_vars => OneMessageInFlight'
<1> SUFFICES ASSUME TypeOK, PingHasTarget, OneMessageInFlight, [Next]_vars,
                    NEW t \in Socks
             PROVE  InFlight(t)' <= MsgLen
    BY DEF OneMessageInFlight
<1>t. /\ rx \in [Socks -> Nat] /\ echo \in [Socks -> Nat]
      /\ atPeer \in [Socks -> BOOLEAN] /\ InFlight(t) <= MsgLen
      /\ MsgLen \in Nat \ {0}
    BY MsgLenAssumption DEF TypeOK, OneMessageInFlight
<1>1. CASE UNCHANGED net
    BY <1>1, <1>t DEF net, InFlight
<1>2. ASSUME NEW s \in Socks, ClientEcho(s) PROVE InFlight(t)' <= MsgLen
  <2>1. CASE t = s
    <3>1. /\ rx'[t] = rx[t] /\ echo'[t] = MsgLen /\ ~atPeer'[t] /\ atPeer[t]
        BY <1>2, <2>1, <1>t DEF ClientEcho
    <3> QED BY <3>1, <1>t DEF InFlight
  <2>2. CASE t # s
    BY <1>2, <2>2, <1>t DEF ClientEcho, InFlight
  <2> QED BY <2>1, <2>2
<1>3. ASSUME NEW s \in Socks, Deliver(s) PROVE InFlight(t)' <= MsgLen
  <2>1. PICK n \in 1..echo[s] : /\ echo' = [echo EXCEPT ![s] = @ - n]
                                /\ rx' = [rx EXCEPT ![s] = @ + n]
    BY <1>3 DEF Deliver
  <2>2. rx'[t] + echo'[t] = rx[t] + echo[t]
    BY <2>1, <1>t
  <2>3. rx'[t] \in Nat /\ echo'[t] \in Nat /\ atPeer' = atPeer
    BY <1>3, <2>1, <1>t DEF Deliver
  <2> QED BY <2>2, <2>3, <1>t DEF InFlight
<1>4. ASSUME NEW s \in Socks, ClientClose(s) \/ ClientReset(s)
      PROVE  InFlight(t)' <= MsgLen
  <2>1. /\ rx'[t] = rx[t] /\ echo'[t] \in {echo[t], 0}
        /\ atPeer'[t] => atPeer[t]
    BY <1>4, <1>t DEF ClientClose, ClientReset
  <2> QED BY <2>1, <1>t DEF InFlight
<1>5. CASE Ping
  <2> DEFINE h == Head(readyFds)
  <2>1. h \in Socks
    BY <1>5 DEF Ping, PingHasTarget, TypeOK
  <2> HIDE DEF h
  <2>2. echo'[t] = echo[t] /\ (PingOk(h) \/ PingFails(h))
    BY <1>5 DEF Ping, h
  <2>3. CASE t # h
    BY <2>2, <2>3, <1>t DEF PingOk, PingFails, InFlight
  <2>4. CASE t = h /\ PingOk(h)
    <3>1. /\ rx[t] >= MsgLen /\ rx'[t] = Unread(t)
          /\ atPeer'[t] \in BOOLEAN
        BY <2>1, <2>4, <1>t DEF PingOk, WholeMessage
    <3>2. rx[t] = MsgLen /\ echo[t] = 0
        BY <3>1, <1>t DEF InFlight
    <3> QED BY <2>2, <3>1, <3>2, <1>t DEF InFlight, Unread
  <2>5. CASE t = h /\ PingFails(h)
    <3>1. rx'[t] = Unread(t) /\ atPeer'[t] = atPeer[t]
        BY <2>1, <2>5, <1>t DEF PingFails
    <3> QED BY <2>2, <3>1, <1>t DEF InFlight, Unread
  <2> QED BY <2>2, <2>3, <2>4, <2>5
<1>6. CASE Worker
  <2>1. Ping \/ UNCHANGED net
    BY <1>6 DEF Worker, LoopTop, WaitEvents, WaitTimesOut, WaitReturns, PollEmpty,
                PollAgain, WaitFails, Expire, CheckDone, Drain, DrainEnds, SendCheck
  <2> QED BY <2>1, <1>1, <1>5
<1> QED
    BY <1>1, <1>2, <1>3, <1>4, <1>6 DEF Next, Client, Tick, StopRun, vars

-----------------------------------------------------------------------------
(* The theorems. *)

\* Every variable of a worker keeps its type, whatever fails.
THEOREM TypeCorrect == Spec => []TypeOK
<1>1. Init => TypeOK /\ PingHasTarget
    BY InitTypeOK DEF Init, PingHasTarget
<1>2. TypeOK /\ PingHasTarget /\ [Next]_vars => (TypeOK /\ PingHasTarget)'
    BY NextTypeOK, NextPingHasTarget
<1> QED BY <1>1, <1>2, PTL DEF Spec

IInv == TypeOK /\ PingHasTarget /\ OneMessageInFlight

LEMMA IInvHolds == Spec => []IInv
<1>1. Init => IInv
    BY InitTypeOK, InitOneMessage DEF Init, PingHasTarget, IInv
<1>2. IInv /\ [Next]_vars => IInv'
    BY NextTypeOK, NextPingHasTarget, NextOneMessage DEF IInv
<1> QED BY <1>1, <1>2, PTL DEF Spec

\* For any number of connections, any message length and any of the faults
\* there is never more than one message on a connection.
THEOREM OneMessage == Spec => []OneMessageInFlight
<1>1. IInv => OneMessageInFlight
    BY DEF IInv
<1> QED BY <1>1, IInvHolds, PTL

-----------------------------------------------------------------------------
(* PingWorker implements PingPong. *)

AllTurns == [s \in Socks |-> Turn(s)]

LEMMA InitRefines == Init => PP!Init
<1> SUFFICES ASSUME Init PROVE PP!Init
    OBVIOUS
<1>1. \A s \in Socks : Turn(s) = "client"
    BY MsgLenAssumption DEF Init, Turn, InFlight
<1> QED BY <1>1 DEF Init, PP!Init, MayServe

\* The turn of a connection depends on its own wire only.
LEMMA TurnOfOthers ==
    ASSUME NEW t, UNCHANGED <<rx[t], echo[t], atPeer[t], peer[t]>>
    PROVE  Turn(t)' = Turn(t)
BY DEF Turn, InFlight

\* A step that touches no wire, answers nothing and passes no stop is a stutter.
LEMMA QuietRefines ==
    UNCHANGED <<net, messCount, done>> /\ (MayServe' = MayServe) => UNCHANGED PP!ppvars
<1> SUFFICES ASSUME UNCHANGED <<net, messCount, done>>, MayServe' = MayServe
             PROVE  UNCHANGED PP!ppvars
    OBVIOUS
<1>1. AllTurns' = AllTurns
    BY DEF net, AllTurns, Turn, InFlight
<1> QED BY <1>1 DEF PP!ppvars, AllTurns

\* What a change of one connection's turn looks like.
LEMMA OneTurn ==
    ASSUME NEW s \in Socks, NEW v, Turn(s)' = v,
           \A t \in Socks \ {s} : Turn(t)' = Turn(t)
    PROVE  AllTurns' = [AllTurns EXCEPT ![s] = v]
BY DEF AllTurns

LEMMA NextRefines == IInv /\ [Next]_vars => [PP!Next]_(PP!ppvars)
<1> SUFFICES ASSUME IInv, [Next]_vars PROVE PP!Next \/ UNCHANGED PP!ppvars
    OBVIOUS
<1>t. /\ rx \in [Socks -> Nat] /\ echo \in [Socks -> Nat]
      /\ atPeer \in [Socks -> BOOLEAN]
      /\ peer \in [Socks -> {"open", "shut", "reset"}]
      /\ messCount \in [Socks -> Nat] /\ done \in BOOLEAN
      /\ \A s \in Socks : InFlight(s) <= MsgLen
      /\ MsgLen \in Nat \ {0}
    BY MsgLenAssumption DEF IInv, TypeOK, OneMessageInFlight
<1>1. CASE Tick \/ UNCHANGED vars
  <2>1. UNCHANGED <<pc, net, messCount, done>>
    BY <1>1 DEF Tick, vars, result
  <2>2. MayServe' = MayServe
    BY <2>1 DEF MayServe
  <2> QED BY <2>1, <2>2, QuietRefines
<1>2. CASE StopRun
  <2>1. UNCHANGED AllTurns
    BY <1>2 DEF StopRun, AllTurns, Turn, InFlight, net
  <2>2. PP!Stop
    BY <1>2, <2>1 DEF StopRun, PP!Stop, MayServe, result, AllTurns
  <2> QED BY <2>2 DEF PP!Next
<1>3. ASSUME NEW s \in Socks, ClientEcho(s) PROVE UNCHANGED PP!ppvars
  <2>1. ASSUME NEW t \in Socks PROVE Turn(t)' = Turn(t)
    <3>1. CASE t # s
        BY <1>3, <1>t, <3>1, TurnOfOthers DEF ClientEcho
    <3>2. CASE t = s
        BY <1>3, <1>t, <3>2 DEF ClientEcho, Turn, InFlight
    <3> QED BY <3>1, <3>2
  <2> QED BY <1>3, <2>1 DEF ClientEcho, PP!ppvars, MayServe, result
<1>4. ASSUME NEW s \in Socks, Deliver(s) PROVE PP!Next \/ UNCHANGED PP!ppvars
  <2>1. PICK n \in 1..echo[s] : /\ echo' = [echo EXCEPT ![s] = @ - n]
                                /\ rx' = [rx EXCEPT ![s] = @ + n]
    BY <1>4 DEF Deliver
  <2>2. UNCHANGED <<atPeer, peer, messCount, done, pc>>
    BY <1>4 DEF Deliver, result
  <2>3. \A t \in Socks \ {s} : Turn(t)' = Turn(t)
    BY <1>t, <2>1, <2>2, TurnOfOthers
  <2>4. /\ rx'[s] = rx[s] + n /\ echo'[s] = echo[s] - n
        /\ InFlight(s)' = InFlight(s) /\ rx[s] < MsgLen
    BY <1>t, <2>1, <2>2 DEF InFlight
  <2>5. CASE rx'[s] >= MsgLen /\ peer[s] # "reset"
    <3>1. Turn(s) = "client" /\ Turn(s)' = "server"
        BY <1>t, <2>2, <2>4, <2>5 DEF Turn, InFlight
    <3>2. AllTurns' = [AllTurns EXCEPT ![s] = "server"]
        BY <2>3, <3>1, OneTurn
    <3>3. PP!Return(s)
        BY <2>2, <3>1, <3>2 DEF PP!Return, AllTurns, MayServe
    <3> QED BY <3>3 DEF PP!Next
  <2>6. CASE ~(rx'[s] >= MsgLen /\ peer[s] # "reset")
    <3>1. Turn(s)' = Turn(s)
        BY <1>t, <2>2, <2>4, <2>6 DEF Turn
    <3> QED BY <2>2, <2>3, <3>1 DEF PP!ppvars, MayServe
  <2> QED BY <2>5, <2>6
<1>5. ASSUME NEW s \in Socks, ClientClose(s) \/ ClientReset(s)
      PROVE  PP!Next \/ UNCHANGED PP!ppvars
  <2>1. UNCHANGED <<rx, messCount, done, pc>>
    BY <1>5 DEF ClientClose, ClientReset, result
  <2>2. \A t \in Socks \ {s} : Turn(t)' = Turn(t)
    BY <1>5, <1>t, TurnOfOthers DEF ClientClose, ClientReset
  <2>3. Turn(s)' \in {Turn(s), "gone"}
    BY <1>5, <1>t DEF ClientClose, ClientReset, Turn, InFlight
  <2>4. CASE Turn(s)' = Turn(s)
    BY <2>1, <2>2, <2>4 DEF PP!ppvars, MayServe
  <2>5. CASE Turn(s)' = "gone"
    <3>1. AllTurns' = [AllTurns EXCEPT ![s] = "gone"]
        BY <2>2, <2>5, OneTurn
    <3>2. PP!Lose(s)
        BY <2>1, <3>1 DEF PP!Lose, AllTurns, MayServe
    <3> QED BY <3>2 DEF PP!Next
  <2> QED BY <2>3, <2>4, <2>5
<1>6. CASE Ping
  <2>1. PICK h \in Socks : h = Head(readyFds)
    BY <1>6 DEF Ping, IInv, PingHasTarget, TypeOK
  <2>2. /\ pc = "ping" /\ UNCHANGED <<done, echo, peer>>
        /\ PingOk(h) \/ PingFails(h)
    BY <1>6, <2>1 DEF Ping
  <2>3. \A t \in Socks \ {h} : Turn(t)' = Turn(t)
    BY <1>t, <2>1, <2>2, TurnOfOthers DEF PingOk, PingFails
  <2>4. MayServe
    BY <2>2 DEF MayServe
  <2>5. MayServe' = ~done
    BY <2>2 DEF MayServe, PingOk, PingFails
  <2>6. CASE PingOk(h)
    <3>1. rx[h] = MsgLen /\ echo[h] = 0 /\ peer[h] # "reset"
        <4>1. rx[h] >= MsgLen /\ peer[h] # "reset"
            BY <2>6 DEF PingOk, WholeMessage
        <4>2. /\ rx[h] \in Nat /\ echo[h] \in Nat
              /\ rx[h] + echo[h] + (IF atPeer[h] THEN MsgLen ELSE 0) <= MsgLen
            BY <1>t DEF InFlight
        <4> QED BY <4>1, <4>2, MsgLenAssumption
    <3>2. rx'[h] = 0 /\ echo'[h] = 0 /\ peer'[h] # "reset"
        BY <1>t, <2>2, <2>6, <3>1 DEF PingOk, Unread
    <3>3. Turn(h) = "server"
        BY <3>1, <1>t DEF Turn
    <3>4. Turn(h)' \in {"client", "gone"}
        BY <3>2, <1>t DEF Turn, InFlight
    <3>5. AllTurns' = [AllTurns EXCEPT ![h] = Turn(h)']
        BY <2>3, OneTurn
    <3>6. messCount' = [messCount EXCEPT ![h] = @ + 1]
        BY <2>6 DEF PingOk
    <3>7. PP!Serve(h)
        BY <2>2, <2>4, <2>5, <3>3, <3>4, <3>5, <3>6 DEF PP!Serve, AllTurns
    <3> QED BY <3>7 DEF PP!Next
  <2>7. CASE PingFails(h)
    <3>1. rx'[h] = 0 /\ UNCHANGED <<atPeer, messCount>>
        BY <1>t, <2>1, <2>7 DEF PingFails, Unread, InFlight
    <3>2. Turn(h)' \in {Turn(h), "gone"}
        BY <1>t, <2>2, <3>1 DEF Turn, InFlight
    <3>3. AllTurns' = [AllTurns EXCEPT ![h] = Turn(h)']
        BY <2>3, OneTurn
    <3>4. PP!Abandon(h)
        BY <2>2, <2>4, <2>5, <3>1, <3>2, <3>3 DEF PP!Abandon, AllTurns
    <3> QED BY <3>4 DEF PP!Next
  <2> QED BY <2>2, <2>6, <2>7
<1>7. CASE Worker /\ ~Ping
  <2>1. UNCHANGED <<net, messCount, done>>
    BY <1>7 DEF Worker, LoopTop, WaitEvents, WaitTimesOut, WaitReturns, PollEmpty,
                PollAgain, WaitFails, Expire, CheckDone, Drain, DrainEnds, SendCheck, result
  <2>2. pc # "ping" /\ (done => pc' # "ping")
    BY <1>7 DEF Worker, LoopTop, WaitEvents, WaitTimesOut, WaitReturns, PollEmpty,
                PollAgain, AfterWait, WaitFails, Expire, CheckDone, Drain, DrainEnds, SendCheck
  <2>3. MayServe' = MayServe
    BY <2>1, <2>2, <1>t DEF MayServe
  <2> QED BY <2>1, <2>3, QuietRefines
<1> QED BY <1>1, <1>2, <1>3, <1>4, <1>5, <1>6, <1>7 DEF Next, Client

\* For all constants, a worker gives each connection the exchange PingPong
\* describes: whole messages only, each answered once, and at most one answer
\* completed after the stop.
THEOREM Refinement == Spec => ImplementsPingPong
<1>1. IInv /\ [Next]_vars => [PP!Next]_(PP!ppvars)
    BY NextRefines
<1> QED BY InitRefines, IInvHolds, <1>1, PTL DEF Spec, ImplementsPingPong, PP!Spec

-----------------------------------------------------------------------------
(* The clock: what is measured and how long is slept. *)

Rounding == {"expire", "check", "drain"}

\* A socket that was seen but never pinged: it waits in ready_fds.
ToBePinged(s) ==
    /\ pc \in {"drain", "send", "ping"}
    /\ s \notin events
    /\ \E i \in 1..Len(readyFds) : readyFds[i] = s

\* No time of the worker is ahead of the clock, and a ready_time by no more
\* than a pause.
TimeInv ==
    /\ TypeOK
    /\ PingHasTarget
    /\ StartTime <= now
    /\ \A s \in Socks : lastTime[s] <= now
    /\ \A e \in DOMAIN waitQueue : e[2] <= now + MaxTimeout
    /\ pc \in Rounding => /\ StartTime <= currTime
                          /\ \A s \in Socks : lastTime[s] <= currTime
    /\ pc # "exited" => \A s \in Socks : lastTime[s] = 0 => ToBePinged(s)
    /\ SleepIsBounded

LEMMA TimeInit == Init => TimeInv
<1> SUFFICES ASSUME Init PROVE TimeInv
  OBVIOUS
<1>1. TypeOK /\ PingHasTarget
  BY InitTypeOK DEF Init, PingHasTarget
<1>2. DOMAIN waitQueue = {}
  BY EmptyBagType DEF Init
<1> QED
  BY <1>1, <1>2, ClockAssumption DEF Init, TimeInv, Unseen, SleepIsBounded, Waits, Rounding

\* The environment lets the clock run on.
LEMMA TimeOutside == ASSUME TimeInv, Tick \/ StopRun \/ Client PROVE TimeInv'
<1>1. TypeOK' /\ PingHasTarget'
  BY NextTypeOK, NextPingHasTarget DEF TimeInv, Next
<1>2. /\ UNCHANGED <<pc, readyFds, events, waitQueue, deadline, currTime, lastTime>>
      /\ now' \in {now, now + 1}
  BY DEF Tick, StopRun, Client, ClientEcho, Deliver, ClientClose, ClientReset, queues
<1>3. /\ now \in Nat /\ now' \in Nat /\ deadline \in Nat
      /\ lastTime \in [Socks -> Nat \cup {Unseen}]
      /\ \A e \in DOMAIN waitQueue : e[2] \in Nat
      /\ MaxTimeout \in Nat /\ IdleWait \in Nat /\ StartTime \in Nat
  BY <1>1, TimeoutAssumption, IdleAssumption, ClockAssumption DEF TimeInv, TypeOK, Ticks, Entries
<1>4. SleepIsBounded'
  BY <1>2, <1>3 DEF TimeInv, SleepIsBounded, Later
<1> QED
  BY <1>1, <1>2, <1>3, <1>4 DEF TimeInv, ToBePinged, Unseen

LEMMA TimeTop == ASSUME TimeInv, LoopTop PROVE TimeInv'
<1>1. TypeOK' /\ PingHasTarget'
  BY NextTypeOK, NextPingHasTarget DEF TimeInv, Next, Worker
<1>2. /\ now \in Nat
      /\ \A e \in DOMAIN waitQueue : e[2] \in Nat /\ e[2] <= now + MaxTimeout
      /\ MaxTimeout \in Nat /\ IdleWait \in Nat
  BY TimeoutAssumption, IdleAssumption DEF TimeInv, TypeOK, Ticks, Entries
<1>3. /\ pc = "top" /\ pc' = "wait" /\ deadline' \in RoundDeadlines
      /\ UNCHANGED <<now, waitQueue, lastTime>>
  BY DEF LoopTop
<1>4. SleepIsBounded'
  <2>1. CASE DOMAIN waitQueue = {}
    BY <1>2, <1>3, <2>1 DEF RoundDeadlines, SleepIsBounded, Later
  <2>2. CASE DOMAIN waitQueue # {}
    <3>1. PICK e \in Top : deadline' = Later(e[2], now)
      BY <1>3, <2>2 DEF RoundDeadlines
    <3>2. /\ e[2] \in Nat /\ e[2] <= now + MaxTimeout
          /\ \A f \in DOMAIN waitQueue : e[2] <= f[2]
      BY <1>2 DEF Top
    <3>3. deadline' <= now + Later(IdleWait, MaxTimeout)
      BY <1>2, <3>1, <3>2 DEF Later
    <3>4. \A f \in DOMAIN waitQueue : deadline' <= Later(f[2], now)
      BY <1>2, <3>1, <3>2 DEF Later
    <3> QED
      BY <1>3, <3>3, <3>4 DEF SleepIsBounded
  <2> QED
    BY <2>1, <2>2
<1>5. \A s \in Socks : lastTime[s] # 0
  BY <1>3 DEF TimeInv, ToBePinged
<1> QED
  BY <1>1, <1>3, <1>4, <1>5 DEF TimeInv, Rounding

LEMMA TimeWait ==
    ASSUME TimeInv, WaitEvents \/ WaitTimesOut \/ PollEmpty \/ PollAgain \/ WaitFails
    PROVE  TimeInv'
<1>1. TypeOK' /\ PingHasTarget'
  BY NextTypeOK, NextPingHasTarget DEF TimeInv, Next, Worker
<1>2. /\ pc \in Waits /\ UNCHANGED <<now, waitQueue, deadline, lastTime>>
      /\ pc' \in Waits \cup Rounding \cup {"exited"}
      /\ pc' \in Rounding => currTime' = now
  BY DEF WaitEvents, WaitTimesOut, PollEmpty, PollAgain, WaitFails, WaitReturns, RoundTime,
     AfterWait, Waits, Rounding, queues
<1>3. \A s \in Socks : lastTime[s] # 0
  BY <1>2 DEF TimeInv, ToBePinged, Waits
<1>4. SleepIsBounded'
  BY <1>2 DEF TimeInv, SleepIsBounded
<1> QED
  BY <1>1, <1>2, <1>3, <1>4 DEF TimeInv

LEMMA TimeRound == ASSUME TimeInv, Expire \/ CheckDone \/ DrainEnds \/ SendCheck PROVE TimeInv'
<1>1. TypeOK' /\ PingHasTarget'
  BY NextTypeOK, NextPingHasTarget DEF TimeInv, Next, Worker
<1>2. /\ UNCHANGED <<now, events, currTime, lastTime>>
      /\ pc' \notin Waits /\ (pc' \in Rounding => pc \in Rounding)
  BY DEF Expire, CheckDone, DrainEnds, SendCheck, queues, Waits, Rounding
<1>3. DOMAIN waitQueue' \subseteq DOMAIN waitQueue
  BY DEF Expire, CheckDone, DrainEnds, SendCheck, queues, (-), SetToBag
<1>4. ASSUME NEW s \in Socks, lastTime[s] = 0, pc' # "exited" PROVE ToBePinged(s)'
  <2>1. ToBePinged(s)
    BY <1>4 DEF TimeInv, Expire, CheckDone, DrainEnds, SendCheck
  <2>2. pc' \in {"drain", "send", "ping"} /\ UNCHANGED <<events, readyFds>>
    BY <1>4, <2>1 DEF ToBePinged, Expire, CheckDone, DrainEnds, SendCheck, queues
  <2> QED
    BY <2>1, <2>2 DEF ToBePinged
<1>5. SleepIsBounded'
  BY <1>2 DEF SleepIsBounded
<1> QED
  BY <1>1, <1>2, <1>3, <1>4, <1>5 DEF TimeInv

LEMMA TimeDrain == ASSUME NEW s \in Socks, TimeInv, Drain(s) PROVE TimeInv'
<1>1. TypeOK' /\ PingHasTarget'
  BY NextTypeOK, NextPingHasTarget DEF TimeInv, Next, Worker
<1>2. PICK p \in Pauses :
        IF HasTimeout /\ KnownTime(s) + p > currTime
        THEN /\ waitQueue' = waitQueue (+) SetToBag({<<s, KnownTime(s) + p>>})
             /\ UNCHANGED <<readyFds, pc>>
        ELSE /\ readyFds' = Append(readyFds, s)
             /\ pc' = IF done THEN "exited" ELSE pc
             /\ UNCHANGED waitQueue
  BY DEF Drain
<1>3. /\ pc = "drain" /\ s \in events /\ events' = events \ {s}
      /\ lastTime' = [lastTime EXCEPT ![s] = KnownTime(s)]
      /\ UNCHANGED <<now, currTime>>
  BY DEF Drain
<1>4. /\ now \in Nat /\ currTime \in Nat /\ StartTime \in Nat /\ MaxTimeout \in Nat
      /\ StartTime > MaxTimeout /\ StartTime <= currTime
      /\ p \in Nat /\ (HasTimeout => p <= MaxTimeout)
      /\ lastTime \in [Socks -> Nat \cup {Unseen}] /\ readyFds \in Seq(Socks)
      /\ lastTime[s] # 0
  BY <1>3, TimeoutAssumption, ClockAssumption
     DEF TimeInv, TypeOK, Ticks, Pauses, Rounding, ToBePinged
<1>5. /\ KnownTime(s) \in Nat /\ KnownTime(s) <= now /\ KnownTime(s) <= currTime
      /\ (KnownTime(s) = 0 <=> lastTime[s] = Unseen)
  BY <1>3, <1>4 DEF TimeInv, KnownTime, Unseen, Rounding
<1>6. \A e \in DOMAIN waitQueue' : e[2] <= now' + MaxTimeout
  <2>1. CASE HasTimeout /\ KnownTime(s) + p > currTime
    <3>1. DOMAIN waitQueue' = DOMAIN waitQueue \cup {<<s, KnownTime(s) + p>>}
      BY <1>2, <2>1 DEF (+), SetToBag
    <3> QED
      BY <1>3, <1>4, <1>5, <2>1, <3>1 DEF TimeInv
  <2>2. CASE ~(HasTimeout /\ KnownTime(s) + p > currTime)
    BY <1>2, <1>3, <2>2 DEF TimeInv
  <2> QED
    BY <2>1, <2>2
<1>7. \A t \in Socks : lastTime'[t] <= now' /\ lastTime'[t] <= currTime'
  BY <1>3, <1>4, <1>5 DEF TimeInv, Rounding
<1>8. ASSUME NEW t \in Socks, lastTime'[t] = 0, pc' # "exited" PROVE ToBePinged(t)'
  <2>1. CASE t # s
    <3>1. lastTime[t] = 0
      BY <1>3, <1>4, <1>8, <2>1
    <3>2. ToBePinged(t)
      BY <1>3, <3>1 DEF TimeInv
    <3>3. PICK i \in 1..Len(readyFds) : readyFds[i] = t
      BY <3>2 DEF ToBePinged
    <3>4. i \in 1..Len(readyFds') /\ readyFds'[i] = t
      BY <1>2, <1>4, <3>3
    <3> QED
      BY <1>2, <1>3, <1>8, <3>2, <3>4 DEF ToBePinged
  <2>2. CASE t = s
    <3>1. KnownTime(s) = 0
      BY <1>3, <1>4, <1>8, <2>2
    <3>2. ~(HasTimeout /\ KnownTime(s) + p > currTime)
      BY <1>4, <3>1
    <3>3. readyFds' = Append(readyFds, s)
      BY <1>2, <3>2
    <3>4. Len(readyFds') \in 1..Len(readyFds') /\ readyFds'[Len(readyFds')] = s
      BY <1>4, <3>3
    <3> QED
      BY <1>2, <1>3, <1>8, <2>2, <3>2, <3>4 DEF ToBePinged
  <2> QED
    BY <2>1, <2>2
<1>9. SleepIsBounded' /\ pc' \in {"drain", "exited"}
  BY <1>2, <1>3 DEF SleepIsBounded, Waits
<1> QED
  BY <1>1, <1>3, <1>4, <1>6, <1>7, <1>8, <1>9 DEF TimeInv, Rounding

LEMMA TimePing == ASSUME TimeInv, Ping PROVE TimeInv'
<1>1. TypeOK' /\ PingHasTarget'
  BY NextTypeOK, NextPingHasTarget DEF TimeInv, Next, Worker
<1>2. /\ pc = "ping" /\ pc' \in {"send", "exited"}
      /\ UNCHANGED <<now, events, waitQueue>>
  BY DEF Ping, PingOk, PingFails
<1>3. /\ readyFds \in Seq(Socks) /\ readyFds # <<>> /\ now \in Nat
      /\ lastTime \in [Socks -> Nat \cup {Unseen}]
      /\ StartTime <= now /\ StartTime > MaxTimeout /\ StartTime \in Nat /\ MaxTimeout \in Nat
  BY <1>2, TimeoutAssumption, ClockAssumption DEF TimeInv, TypeOK, PingHasTarget, Ticks
<1>4. Head(readyFds) \in Socks
  BY <1>3
<1>5. CASE PingOk(Head(readyFds))
  <2>1. /\ lastTime' = [lastTime EXCEPT ![Head(readyFds)] = now]
        /\ readyFds' = Tail(readyFds) /\ pc' = "send"
    BY <1>5 DEF PingOk
  <2>2. \A s \in Socks : lastTime'[s] <= now'
    BY <1>2, <1>3, <1>4, <2>1 DEF TimeInv
  <2>3. ASSUME NEW s \in Socks, lastTime'[s] = 0 PROVE ToBePinged(s)'
    <3>1. s # Head(readyFds) /\ lastTime[s] = 0
      BY <1>3, <1>4, <2>1, <2>3
    <3>2. ToBePinged(s)
      BY <1>2, <3>1 DEF TimeInv
    <3>3. PICK i \in 1..Len(readyFds) : readyFds[i] = s
      BY <3>2 DEF ToBePinged
    <3>4. i # 1
      BY <1>3, <3>1, <3>3
    <3>5. i - 1 \in 1..Len(readyFds') /\ readyFds'[i - 1] = s
      BY <1>3, <2>1, <3>3, <3>4
    <3> QED
      BY <1>2, <2>1, <3>2, <3>5 DEF ToBePinged
  <2> QED
    BY <1>1, <1>2, <2>1, <2>2, <2>3 DEF TimeInv, Rounding, SleepIsBounded, Waits
<1>6. CASE PingFails(Head(readyFds))
  BY <1>1, <1>2, <1>6 DEF PingFails, TimeInv, Rounding, SleepIsBounded, Waits
<1> QED
  BY <1>5, <1>6 DEF Ping

LEMMA TimeStep == ASSUME TimeInv, [Next]_vars PROVE TimeInv'
<1>1. CASE UNCHANGED vars
  BY <1>1, NextTypeOK, NextPingHasTarget DEF TimeInv, ToBePinged, SleepIsBounded, vars, queues
<1> QED
  BY <1>1, TimeOutside, TimeTop, TimeWait, TimeRound, TimeDrain, TimePing DEF Next, Worker

\* Every latency is the difference of two readings of the clock, for any
\* timeouts: no socket is sampled that was not pinged since it was seen first.
THEOREM LatencyIsSound == Spec => []LatencyIsADifference
<1>1. TimeInv => LatencyIsADifference
  <2> SUFFICES ASSUME TimeInv, pc = "drain", NEW s \in events \cap Seen
               PROVE  0 < lastTime[s] /\ lastTime[s] <= currTime
    BY DEF LatencyIsADifference
  <2>1. s \in Socks /\ lastTime[s] \in Nat /\ lastTime[s] # 0
    BY DEF TimeInv, TypeOK, Ticks, Seen, ToBePinged
  <2> QED
    BY <2>1 DEF TimeInv, Rounding
<1> QED
  BY TimeInit, TimeStep, <1>1, PTL DEF Spec

\* No worker sleeps longer than a pause or the idle wait, and none past the
\* moment at which a connection may be pinged.
THEOREM SleepIsShort == Spec => []SleepIsBounded
<1>1. TimeInv => SleepIsBounded
  BY DEF TimeInv
<1> QED
  BY TimeInit, TimeStep, <1>1, PTL DEF Spec

-----------------------------------------------------------------------------
(* Counting: the copies a bag holds, and the places of an element in a     *)
(* sequence.                                                               *)

\* One more of x is one copy more.
LEMMA CopiesAdded ==
    ASSUME NEW B, NEW x, B \in [DOMAIN B -> Nat \ {0}]
    PROVE  \E c : /\ c \notin Copies(B) /\ c[1] = x
                  /\ Copies(B (+) SetToBag({x})) = Copies(B) \cup {c}
<1> DEFINE C == B (+) SetToBag({x})
           n == IF x \in DOMAIN B THEN B[x] + 1 ELSE 1
           c == <<x, n>>
<1>1. DOMAIN C = DOMAIN B \cup {x}
  BY DEF (+), SetToBag
<1>2. C[x] = n
  BY DEF (+), SetToBag
<1>3. \A y \in DOMAIN B \ {x} : C[y] = B[y]
  BY DEF (+), SetToBag
<1>4. n \in Nat \ {0} /\ (x \in DOMAIN B => n = B[x] + 1 /\ B[x] \in Nat)
      /\ (x \notin DOMAIN B => n = 1)
  OBVIOUS
<1> HIDE DEF C, n
<1>5. c \notin Copies(B)
  BY <1>4 DEF Copies
<1>6. {x} \X (1..n) = (IF x \in DOMAIN B THEN {x} \X (1..B[x]) ELSE {}) \cup {c}
  BY <1>4
<1>7. Copies(C) = Copies(B) \cup {c}
  <2>1. ASSUME NEW d \in Copies(C) PROVE d \in Copies(B) \cup {c}
    <3>1. PICK y \in DOMAIN C : d \in {y} \X (1..C[y])
      BY DEF Copies
    <3> QED
      BY <1>1, <1>2, <1>3, <1>6, <3>1 DEF Copies
  <2>2. ASSUME NEW d \in Copies(B) PROVE d \in Copies(C)
    <3>1. PICK y \in DOMAIN B : d \in {y} \X (1..B[y])
      BY DEF Copies
    <3> QED
      BY <1>1, <1>2, <1>3, <1>6, <3>1 DEF Copies
  <2>3. c \in Copies(C)
      BY <1>1, <1>2, <1>6 DEF Copies
  <2> QED
    BY <2>1, <2>2, <2>3
<1> QED
  BY <1>5, <1>7 DEF C

\* One less of x is one copy less.
LEMMA CopiesRemoved ==
    ASSUME NEW B, NEW x \in DOMAIN B, B \in [DOMAIN B -> Nat \ {0}]
    PROVE  \E c \in Copies(B) : /\ c[1] = x
                                /\ Copies(B (-) SetToBag({x})) = Copies(B) \ {c}
<1> DEFINE C == B (-) SetToBag({x})
           c == <<x, B[x]>>
<1>1. /\ DOMAIN C = IF B[x] = 1 THEN DOMAIN B \ {x} ELSE DOMAIN B
      /\ B[x] # 1 => C[x] = B[x] - 1
      /\ \A y \in DOMAIN B \ {x} : C[y] = B[y]
  BY DEF (-), SetToBag
<1>2. B[x] \in Nat \ {0}
  OBVIOUS
<1> HIDE DEF C
<1>3. c \in Copies(B)
  BY <1>2 DEF Copies
<1>4. ASSUME NEW d \in Copies(C) PROVE d \in Copies(B) \ {c}
  <2>1. PICK y \in DOMAIN C : d \in {y} \X (1..C[y])
    BY DEF Copies
  <2>2. CASE y = x
    BY <1>1, <1>2, <2>1, <2>2 DEF Copies
  <2>3. CASE y # x
    BY <1>1, <2>1, <2>3 DEF Copies
  <2> QED
    BY <2>2, <2>3
<1>5. ASSUME NEW d \in Copies(B), d # c PROVE d \in Copies(C)
  <2>1. PICK y \in DOMAIN B : d \in {y} \X (1..B[y])
    BY DEF Copies
  <2>2. CASE y = x
    <3>1. PICK k \in 1..B[x] : d = <<x, k>>
      BY <2>1, <2>2
    <3>2. k # B[x]
      BY <1>5, <3>1
    <3>3. k \in 1..(B[x] - 1) /\ B[x] # 1
      BY <1>2, <3>1, <3>2
    <3> QED
      BY <1>1, <3>1, <3>3 DEF Copies
  <2>3. CASE y # x
    BY <1>1, <2>1, <2>3 DEF Copies
  <2> QED
    BY <2>2, <2>3
<1> QED
  BY <1>3, <1>4, <1>5 DEF C

\* A count that goes up by one has one copy more.
LEMMA CopiesCounted == 
    ASSUME NEW f, NEW x \in DOMAIN f, \A y \in DOMAIN f : f[y] \in Nat,
           NEW g, DOMAIN g = DOMAIN f, g[x] = f[x] + 1, \A y \in DOMAIN f \ {x} : g[y] = f[y]
    PROVE  \E c : c \notin Copies(f) /\ Copies(g) = Copies(f) \cup {c}
<1> DEFINE c == <<x, f[x] + 1>>
<1>2. c \notin Copies(f)
  BY DEF Copies
<1>3. ASSUME NEW d \in Copies(g) PROVE d \in Copies(f) \cup {c}
  <2>1. PICK y \in DOMAIN f : d \in {y} \X (1..g[y])
    BY DEF Copies
  <2>2. CASE y = x
    BY <2>1, <2>2 DEF Copies
  <2>3. CASE y # x
    BY <2>1, <2>3 DEF Copies
  <2> QED
    BY <2>2, <2>3
<1>4. ASSUME NEW d \in Copies(f) PROVE d \in Copies(g)
  <2>1. PICK y \in DOMAIN f : d \in {y} \X (1..f[y])
    BY DEF Copies
  <2>2. CASE y = x
    BY <2>1, <2>2 DEF Copies
  <2>3. CASE y # x
    BY <2>1, <2>3 DEF Copies
  <2> QED
    BY <2>2, <2>3
<1>5. c \in Copies(g)
  BY DEF Copies
<1>6. Copies(g) = Copies(f) \cup {c}
  BY <1>3, <1>4, <1>5
<1> QED
  BY <1>2, <1>6

\* Finiteness and size of a set with one element more.
LEMMA OneMore ==
    ASSUME NEW S, IsFiniteSet(S), NEW x, x \notin S
    PROVE  IsFiniteSet(S \cup {x}) /\ Cardinality(S \cup {x}) = Cardinality(S) + 1
           /\ Cardinality(S) \in Nat
BY FS_AddElement, FS_CardinalityType

LEMMA OneLess ==
    ASSUME NEW S, IsFiniteSet(S), NEW x \in S
    PROVE  IsFiniteSet(S \ {x}) /\ Cardinality(S \ {x}) = Cardinality(S) - 1
           /\ Cardinality(S) \in Nat /\ Cardinality(S \ {x}) \in Nat
BY FS_RemoveElement, FS_CardinalityType

\* How often x is in a sequence.
Places(q, x) == {i \in DOMAIN q : q[i] = x}

LEMMA PlacesFinite ==
    ASSUME NEW S, NEW q \in Seq(S), NEW x
    PROVE  IsFiniteSet(Places(q, x)) /\ Cardinality(Places(q, x)) \in Nat
<1>1. DOMAIN q = 1..Len(q) /\ Len(q) \in Nat
  OBVIOUS
<1>2. IsFiniteSet(1..Len(q))
  BY <1>1, FS_Interval
<1>3. IsFiniteSet(Places(q, x))
  BY <1>1, <1>2, FS_Subset DEF Places
<1> QED
  BY <1>3, FS_CardinalityType

LEMMA PlacesAppended ==
    ASSUME NEW S, NEW q \in Seq(S), NEW y \in S, NEW x
    PROVE  Cardinality(Places(Append(q, y), x)) =
           Cardinality(Places(q, x)) + (IF x = y THEN 1 ELSE 0)
<1>1. /\ DOMAIN q = 1..Len(q) /\ DOMAIN Append(q, y) = 1..(Len(q) + 1)
      /\ Len(q) \in Nat /\ Append(q, y)[Len(q) + 1] = y
      /\ \A i \in 1..Len(q) : Append(q, y)[i] = q[i]
  OBVIOUS
<1>2. CASE x = y
  <2>1. Places(Append(q, y), x) = Places(q, x) \cup {Len(q) + 1}
    BY <1>1, <1>2 DEF Places
  <2>2. Len(q) + 1 \notin Places(q, x)
    BY <1>1 DEF Places
  <2> QED
    BY <1>2, <2>1, <2>2, PlacesFinite, OneMore
<1>3. CASE x # y
  <2>1. Places(Append(q, y), x) = Places(q, x)
    BY <1>1, <1>3 DEF Places
  <2> QED
    BY <1>3, <2>1, PlacesFinite
<1> QED
  BY <1>2, <1>3

LEMMA PlacesTailed ==
    ASSUME NEW S, NEW q \in Seq(S), q # <<>>, NEW x
    PROVE  Cardinality(Places(Tail(q), x)) =
           Cardinality(Places(q, x)) - (IF x = Head(q) THEN 1 ELSE 0)
<1>1. /\ DOMAIN q = 1..Len(q) /\ DOMAIN Tail(q) = 1..(Len(q) - 1)
      /\ Len(q) \in Nat \ {0} /\ Head(q) = q[1] /\ Tail(q) \in Seq(S)
      /\ \A i \in 1..(Len(q) - 1) : Tail(q)[i] = q[i + 1]
  OBVIOUS
<1> DEFINE P == Places(q, x) \ {1}
           T == Places(Tail(q), x)
           f == [i \in T |-> i + 1]
<1>2. T \subseteq 1..(Len(q) - 1) /\ P \subseteq 2..Len(q)
  BY <1>1 DEF Places
<1>3. \A i \in T : i + 1 \in P
  BY <1>1 DEF Places
<1>4. \A j \in P : j - 1 \in T
  BY <1>1 DEF Places
<1> HIDE DEF P, T
<1>5. f \in Bijection(T, P)
  <2>1. f \in [T -> P]
    BY <1>3
  <2>2. \A a, b \in T : f[a] = f[b] => a = b
    BY <1>1, <1>2
  <2>3. \A j \in P : \E i \in T : f[i] = j
    <3> TAKE j \in P
    <3>1. j - 1 \in T /\ f[j - 1] = j
      BY <1>1, <1>2, <1>4
    <3> QED
      BY <3>1
  <2> QED
    BY <2>1, <2>2, <2>3, Zenon DEF Bijection, Injection, Surjection, IsInjective
<1>6. IsFiniteSet(T) /\ ExistsBijection(T, P)
  BY <1>1, <1>5, PlacesFinite DEF T, ExistsBijection
<1>7. Cardinality(T) = Cardinality(P)
  BY <1>6, FS_Bijection
<1>8. 1 \in Places(q, x) <=> x = Head(q)
  BY <1>1 DEF Places
<1>9. CASE x = Head(q)
  BY <1>7, <1>8, <1>9, PlacesFinite, OneLess DEF P, T
<1>10. CASE x # Head(q)
  <2>1. P = Places(q, x)
    BY <1>8, <1>10 DEF P
  <2> QED
    BY <1>7, <1>10, <2>1, PlacesFinite DEF T
<1> QED
  BY <1>9, <1>10

-----------------------------------------------------------------------------
(* The queues: where the worker keeps the sockets it has drained.          *)

\* The entries of s in wait_queue come and go with the queue's.
LEMMA WaitAdded ==
    ASSUME TypeOK, IsFiniteSet(Waiting), NEW e, waitQueue' = waitQueue (+) SetToBag({e})
    PROVE  /\ IsFiniteSet(Waiting') /\ Cardinality(Waiting') = Cardinality(Waiting) + 1
           /\ Cardinality(Waiting) \in Nat
           /\ \A s : InWait(s)' = InWait(s) + (IF s = e[1] THEN 1 ELSE 0) /\ InWait(s) \in Nat
<1>1. PICK c : c \notin Waiting /\ c[1] = e /\ Waiting' = Waiting \cup {c}
  BY CopiesAdded DEF TypeOK, Waiting
<1>2. ASSUME NEW s
      PROVE  InWait(s)' = InWait(s) + (IF s = e[1] THEN 1 ELSE 0) /\ InWait(s) \in Nat
  <2> DEFINE W == {d \in Waiting : d[1][1] = s}
             V == {d \in Waiting' : d[1][1] = s}
  <2>1. IsFiniteSet(W) /\ Cardinality(W) \in Nat
    BY FS_Subset, FS_CardinalityType
  <2>2. V = IF s = e[1] THEN W \cup {c} ELSE W
    BY <1>1
  <2>3. c \notin W
    BY <1>1
  <2> HIDE DEF W, V
  <2>4. Cardinality(V) = Cardinality(W) + (IF s = e[1] THEN 1 ELSE 0)
    BY <2>1, <2>2, <2>3, OneMore
  <2> QED
    BY <2>1, <2>4 DEF InWait, W, V
<1> QED
  BY <1>1, <1>2, OneMore

LEMMA WaitRemoved ==
    ASSUME TypeOK, IsFiniteSet(Waiting), NEW e \in DOMAIN waitQueue,
           waitQueue' = waitQueue (-) SetToBag({e})
    PROVE  /\ IsFiniteSet(Waiting') /\ Cardinality(Waiting') = Cardinality(Waiting) - 1
           /\ Cardinality(Waiting) \in Nat
           /\ \A s : InWait(s)' = InWait(s) - (IF s = e[1] THEN 1 ELSE 0) /\ InWait(s) \in Nat
<1>1. PICK c \in Waiting : c[1] = e /\ Waiting' = Waiting \ {c}
  BY CopiesRemoved DEF TypeOK, Waiting
<1>2. ASSUME NEW s
      PROVE  InWait(s)' = InWait(s) - (IF s = e[1] THEN 1 ELSE 0) /\ InWait(s) \in Nat
  <2> DEFINE W == {d \in Waiting : d[1][1] = s}
             V == {d \in Waiting' : d[1][1] = s}
  <2>1. IsFiniteSet(W) /\ Cardinality(W) \in Nat
    BY FS_Subset, FS_CardinalityType
  <2>2. V = IF s = e[1] THEN W \ {c} ELSE W
    BY <1>1
  <2>3. s = e[1] => c \in W
    BY <1>1
  <2> HIDE DEF W, V
  <2>4. Cardinality(V) = Cardinality(W) - (IF s = e[1] THEN 1 ELSE 0)
    BY <2>1, <2>2, <2>3, OneLess
  <2> QED
    BY <2>1, <2>4 DEF InWait, W, V
<1> QED
  BY <1>1, <1>2, OneLess

\* The order in which the worker goes through its queues.
Phases ==
    /\ pc \in {"top", "wait", "polled", "send", "ping"} => events = {}
    /\ pc \in {"top", "wait", "polled"} => readyFds = <<>>

\* What is queued was drained before.
QueuedAreSeen ==
    /\ \A i \in DOMAIN readyFds : readyFds[i] \in Seen
    /\ \A e \in DOMAIN waitQueue : e[1] \in Seen

QueuesInv ==
    /\ IInv /\ Phases /\ QueuedAreSeen
    /\ IsFiniteSet(Waiting) /\ IsFiniteSet(Copies(messCount))

\* The places of t in the two queues together.
InQueues(t) == InReady(t) + InWait(t)

QueueSizes ==
    /\ Queued \in Nat /\ Cardinality(Waiting) \in Nat
    /\ \A t : InReady(t) \in Nat /\ InWait(t) \in Nat /\ InQueues(t) \in Nat

LEMMA QueuesTypes == QueuesInv => QueueSizes
<1> SUFFICES ASSUME QueuesInv PROVE QueueSizes
  OBVIOUS
<1>1. readyFds \in Seq(Socks) /\ IsFiniteSet(Waiting)
  BY DEF QueuesInv, IInv, TypeOK
<1>2. \A t : InReady(t) \in Nat
  BY <1>1, PlacesFinite DEF InReady, Places
<1>3. \A t : InWait(t) \in Nat
  <2> TAKE t
  <2> QED
    BY <1>1, FS_Subset, FS_CardinalityType DEF InWait
<1>4. Len(readyFds) \in Nat /\ Cardinality(Waiting) \in Nat
  BY <1>1, FS_CardinalityType
<1> QED
  BY <1>2, <1>3, <1>4 DEF Queued, InQueues, QueueSizes

LEMMA QueuesTypesNext == QueuesInv' => QueueSizes'
BY QueuesTypes, PTL

\* A drained socket is in one place more.
LEMMA DrainQueues ==
    ASSUME QueuesInv, NEW s \in Socks, Drain(s)
    PROVE  /\ IsFiniteSet(Waiting') /\ Queued' = Queued + 1
           /\ \A t : InQueues(t)' = InQueues(t) + (IF t = s THEN 1 ELSE 0)
<1>1. PICK p \in Pauses :
        IF HasTimeout /\ KnownTime(s) + p > currTime
        THEN /\ waitQueue' = waitQueue (+) SetToBag({<<s, KnownTime(s) + p>>})
             /\ UNCHANGED <<readyFds, pc>>
        ELSE /\ readyFds' = Append(readyFds, s)
             /\ pc' = IF done THEN "exited" ELSE pc
             /\ UNCHANGED waitQueue
  BY DEF Drain
<1>2. TypeOK /\ readyFds \in Seq(Socks) /\ IsFiniteSet(Waiting)
  BY DEF QueuesInv, IInv, TypeOK
<1>3. CASE waitQueue' = waitQueue (+) SetToBag({<<s, KnownTime(s) + p>>}) /\ UNCHANGED readyFds
  <2>1. \A t : InWait(t)' = InWait(t) + (IF t = s THEN 1 ELSE 0)
    <3> DEFINE e == <<s, KnownTime(s) + p>>
    <3>1. e[1] = s /\ waitQueue' = waitQueue (+) SetToBag({e})
      BY <1>3
    <3> HIDE DEF e
    <3>2. \A t : InWait(t)' = InWait(t) + (IF t = e[1] THEN 1 ELSE 0)
      BY <1>2, <3>1, WaitAdded
    <3> QED
      BY <3>1, <3>2
  <2>2. \A t : InReady(t)' = InReady(t)
    BY <1>3 DEF InReady
  <2>3. IsFiniteSet(Waiting') /\ Cardinality(Waiting') = Cardinality(Waiting) + 1
    BY <1>2, <1>3, WaitAdded
  <2> QED
    BY <1>3, <2>1, <2>2, <2>3, QueuesTypes DEF QueueSizes, InQueues, Queued
<1>4. CASE readyFds' = Append(readyFds, s) /\ UNCHANGED waitQueue
  <2>1. \A t : InReady(t)' = InReady(t) + (IF t = s THEN 1 ELSE 0)
    <3> TAKE t
    <3>1. InReady(t) = Cardinality(Places(readyFds, t))
          /\ InReady(t)' = Cardinality(Places(readyFds', t))
      BY DEF InReady, Places
    <3>2. Cardinality(Places(Append(readyFds, s), t)) =
          Cardinality(Places(readyFds, t)) + (IF t = s THEN 1 ELSE 0)
      BY <1>2, PlacesAppended
    <3> QED
      BY <1>4, <3>1, <3>2
  <2>2. Waiting' = Waiting /\ \A t : InWait(t)' = InWait(t)
    BY <1>4 DEF InWait, Waiting
  <2>3. Len(readyFds') = Len(readyFds) + 1
    BY <1>2, <1>4
  <2> QED
    BY <1>2, <2>1, <2>2, <2>3, QueuesTypes DEF QueueSizes, InQueues, Queued
<1> QED
  BY <1>1, <1>3, <1>4

\* An expired one changes its place.
LEMMA ExpireQueues ==
    ASSUME QueuesInv, Expire
    PROVE  /\ IsFiniteSet(Waiting') /\ Queued' = Queued
           /\ \A t : InQueues(t)' = InQueues(t)
<1>1. TypeOK /\ readyFds \in Seq(Socks) /\ IsFiniteSet(Waiting)
  BY DEF QueuesInv, IInv, TypeOK
<1>2. CASE UNCHANGED <<readyFds, waitQueue>>
  BY <1>1, <1>2 DEF InQueues, InReady, InWait, Queued, Waiting
<1>3. ASSUME NEW e \in Expired, readyFds' = Append(readyFds, e[1]),
             waitQueue' = waitQueue (-) SetToBag({e})
      PROVE  /\ IsFiniteSet(Waiting') /\ Queued' = Queued
             /\ \A t : InQueues(t)' = InQueues(t)
  <2>1. e \in DOMAIN waitQueue /\ e[1] \in Socks
    BY DEF Expired, Top, QueuesInv, IInv, TypeOK, Entries
  <2>2. \A t : InWait(t)' = InWait(t) - (IF t = e[1] THEN 1 ELSE 0)
    BY <1>1, <1>3, <2>1, WaitRemoved
  <2>3. \A t : InReady(t)' = InReady(t) + (IF t = e[1] THEN 1 ELSE 0)
    <3> TAKE t
    <3>1. InReady(t) = Cardinality(Places(readyFds, t))
          /\ InReady(t)' = Cardinality(Places(readyFds', t))
      BY DEF InReady, Places
    <3>2. Cardinality(Places(Append(readyFds, e[1]), t)) =
          Cardinality(Places(readyFds, t)) + (IF t = e[1] THEN 1 ELSE 0)
      BY <1>1, <2>1, PlacesAppended
    <3> QED
      BY <1>3, <3>1, <3>2
  <2>4. IsFiniteSet(Waiting') /\ Cardinality(Waiting') = Cardinality(Waiting) - 1
    BY <1>1, <1>3, <2>1, WaitRemoved
  <2>5. Len(readyFds') = Len(readyFds) + 1
    BY <1>1, <1>3, <2>1
  <2> QED
    BY <1>1, <2>2, <2>3, <2>4, <2>5, QueuesTypes DEF QueueSizes, InQueues, Queued
<1> QED
  BY <1>2, <1>3 DEF Expire

\* A pinged one has left.
LEMMA PingQueues ==
    ASSUME QueuesInv, pc = "ping", PingOk(Head(readyFds)), UNCHANGED waitQueue
    PROVE  /\ Head(readyFds) \in Socks /\ Queued' = Queued - 1
           /\ Waiting' = Waiting
           /\ \A t : InQueues(t)' = InQueues(t) - (IF t = Head(readyFds) THEN 1 ELSE 0)
<1>1. readyFds \in Seq(Socks) /\ readyFds # <<>> /\ readyFds' = Tail(readyFds)
  BY DEF QueuesInv, IInv, TypeOK, PingHasTarget, PingOk
<1>2. \A t : InReady(t)' = InReady(t) - (IF t = Head(readyFds) THEN 1 ELSE 0)
  <2> TAKE t
  <2>1. InReady(t) = Cardinality(Places(readyFds, t))
        /\ InReady(t)' = Cardinality(Places(readyFds', t))
    BY DEF InReady, Places
  <2>2. Cardinality(Places(Tail(readyFds), t)) =
        Cardinality(Places(readyFds, t)) - (IF t = Head(readyFds) THEN 1 ELSE 0)
    BY <1>1, PlacesTailed
  <2> QED
    BY <1>1, <2>1, <2>2
<1>3. Waiting' = Waiting /\ \A t : InWait(t)' = InWait(t)
  BY DEF InWait, Waiting
<1>4. Len(readyFds') = Len(readyFds) - 1 /\ Head(readyFds) \in Socks
  BY <1>1
<1> QED
  BY <1>1, <1>2, <1>3, <1>4, QueuesTypes DEF QueueSizes, InQueues, Queued

\* QueuesInv is inductive: the order of the phases is what makes it so, since
\* LoopTop clears ready_fds and a new batch replaces the old one.
LEMMA QueuesInit == Init => QueuesInv
<1> SUFFICES ASSUME Init PROVE QueuesInv
  OBVIOUS
<1>1. IInv
  BY InitTypeOK, InitOneMessage DEF Init, PingHasTarget, IInv
<1>2. Waiting = {} /\ DOMAIN waitQueue = {}
  BY EmptyBagType DEF Init, Waiting, Copies
<1>3. Copies(messCount) = {}
  BY DEF Init, Copies
<1> QED
  BY <1>1, <1>2, <1>3, FS_EmptySet DEF Init, QueuesInv, Phases, QueuedAreSeen

\* Nobody but the worker touches the queues.
LEMMA QueuesOutside ==
    ASSUME QueuesInv, Tick \/ StopRun \/ Client \/ UNCHANGED vars PROVE QueuesInv'
<1>1. IInv'
  BY NextTypeOK, NextPingHasTarget, NextOneMessage DEF QueuesInv, IInv, Next
<1>2. UNCHANGED <<pc, events, readyFds, waitQueue, lastTime, messCount>>
  BY DEF Tick, StopRun, Client, ClientEcho, Deliver, ClientClose, ClientReset, queues, result,
         vars
<1> QED
  BY <1>1, <1>2 DEF QueuesInv, Phases, QueuedAreSeen, Waiting, Seen

LEMMA QueuesStep == QueuesInv /\ [Next]_vars => QueuesInv'
<1> SUFFICES ASSUME QueuesInv, [Next]_vars PROVE QueuesInv'
  OBVIOUS
<1>1. IInv'
  BY NextTypeOK, NextPingHasTarget, NextOneMessage DEF QueuesInv, IInv
<1>t. /\ readyFds \in Seq(Socks) /\ lastTime \in [Socks -> Nat \cup {Unseen}]
      /\ now \in Nat /\ DOMAIN waitQueue \subseteq Socks \X Nat
  BY DEF QueuesInv, IInv, TypeOK, Ticks, Entries
<1>2. CASE Tick \/ StopRun \/ Client \/ UNCHANGED vars
  BY <1>2, QueuesOutside
<1>3. CASE LoopTop \/ WaitEvents \/ WaitTimesOut \/ PollEmpty \/ PollAgain \/ WaitFails
  <2>1. UNCHANGED <<waitQueue, lastTime, messCount>> /\ readyFds' \in {readyFds, <<>>}
        /\ pc' \in {"wait", "polled", "exited", "expire", "check"}
        /\ (pc' \in {"wait", "polled"} => UNCHANGED events /\ pc \in {"top", "wait", "polled"})
        /\ (pc' \in {"wait", "polled"} => readyFds' = <<>>)
    BY <1>3 DEF LoopTop, WaitEvents, WaitTimesOut, WaitReturns, AfterWait, PollEmpty,
                PollAgain, WaitFails, queues, result, QueuesInv, Phases
  <2> QED
    BY <1>1, <2>1 DEF QueuesInv, Phases, QueuedAreSeen, Waiting, Seen
<1>4. CASE CheckDone \/ DrainEnds \/ SendCheck
  <2>1. /\ UNCHANGED <<waitQueue, lastTime, readyFds, events, messCount>>
        /\ pc' \in {"send", "top", "ping"} => events = {}
        /\ pc' = "top" => readyFds = <<>>
        /\ pc' \notin {"wait", "polled"}
    BY <1>4 DEF CheckDone, DrainEnds, SendCheck, queues, result, QueuesInv, Phases
  <2> QED
    BY <1>1, <2>1 DEF QueuesInv, Phases, QueuedAreSeen, Waiting, Seen
<1>5. CASE Expire
  <2>1. /\ pc' \in {"expire", "check"} /\ UNCHANGED <<lastTime, messCount>>
        /\ DOMAIN waitQueue' \subseteq DOMAIN waitQueue
    BY <1>5 DEF Expire, result, (-), SetToBag
  <2>2. \A i \in DOMAIN readyFds' : readyFds'[i] \in Seen
    <3>1. CASE UNCHANGED readyFds
      BY <3>1 DEF QueuesInv, QueuedAreSeen
    <3>2. ASSUME NEW e \in Expired, readyFds' = Append(readyFds, e[1])
          PROVE  \A i \in DOMAIN readyFds' : readyFds'[i] \in Seen
      <4>1. e[1] \in Socks /\ e[1] \in Seen
        BY <1>t DEF Expired, Top, QueuesInv, QueuedAreSeen
      <4>2. \A i \in DOMAIN readyFds' :
              (i \in DOMAIN readyFds /\ readyFds'[i] = readyFds[i]) \/ readyFds'[i] = e[1]
        BY <1>t, <3>2, <4>1
      <4> QED
        BY <4>1, <4>2 DEF QueuesInv, QueuedAreSeen
    <3> QED
      BY <1>5, <3>1, <3>2 DEF Expire
  <2> QED
    BY <1>1, <1>5, <2>1, <2>2, ExpireQueues DEF QueuesInv, Phases, QueuedAreSeen, Seen
<1>6. ASSUME NEW s \in Socks, Drain(s) PROVE QueuesInv'
  <2>1. /\ pc = "drain" /\ pc' \in {"drain", "exited"} /\ UNCHANGED messCount
        /\ lastTime' = [lastTime EXCEPT ![s] = KnownTime(s)]
        /\ \/ UNCHANGED waitQueue /\ readyFds' = Append(readyFds, s)
           \/ UNCHANGED readyFds /\ \E p : waitQueue' = waitQueue (+) SetToBag({<<s, p>>})
    BY <1>6 DEF Drain
  <2>2. Seen' = Seen \cup {s}
    BY <1>t, <2>1 DEF Seen, KnownTime, Unseen
  <2>3. \A i \in DOMAIN readyFds' : readyFds'[i] \in Seen'
    <3>1. \A i \in DOMAIN readyFds' :
            (i \in DOMAIN readyFds /\ readyFds'[i] = readyFds[i]) \/ readyFds'[i] = s
      BY <1>t, <2>1
    <3> QED
      BY <2>2, <3>1 DEF QueuesInv, QueuedAreSeen
  <2>4. \A e \in DOMAIN waitQueue' : e[1] \in Seen'
    <3>1. \A e \in DOMAIN waitQueue' : e \in DOMAIN waitQueue \/ e[1] = s
      <4>1. CASE UNCHANGED waitQueue
        BY <4>1
      <4>2. ASSUME NEW p, waitQueue' = waitQueue (+) SetToBag({<<s, p>>})
            PROVE  \A e \in DOMAIN waitQueue' : e \in DOMAIN waitQueue \/ e[1] = s
        <5>1. DOMAIN waitQueue' = DOMAIN waitQueue \cup {<<s, p>>}
          BY <4>2 DEF (+), SetToBag
        <5> QED
          BY <5>1
      <4> QED
        BY <2>1, <4>1, <4>2
    <3> QED
      BY <2>2, <3>1 DEF QueuesInv, QueuedAreSeen
  <2> QED
    BY <1>1, <1>6, <2>1, <2>3, <2>4, DrainQueues DEF QueuesInv, Phases, QueuedAreSeen
<1>7. CASE Ping
  <2>1. pc = "ping" /\ UNCHANGED <<events, waitQueue>> /\ pc' \in {"send", "exited"}
    BY <1>7 DEF Ping, PingOk, PingFails
  <2>2. readyFds # <<>> /\ Head(readyFds) \in Socks
    BY <1>t, <2>1 DEF QueuesInv, IInv, PingHasTarget
  <2>3. Seen \subseteq Seen'
    BY <1>7, <1>t, <2>2 DEF Ping, PingOk, PingFails, Seen, Unseen
  <2>4. \A i \in DOMAIN readyFds' : readyFds'[i] \in Seen
    <3>1. readyFds' \in {readyFds, Tail(readyFds)}
      BY <1>7 DEF Ping, PingOk, PingFails
    <3>2. \A i \in DOMAIN readyFds' : \E j \in DOMAIN readyFds : readyFds'[i] = readyFds[j]
      <4>1. CASE readyFds' = readyFds
        BY <4>1
      <4>2. CASE readyFds' = Tail(readyFds)
        <5>1. \A i \in DOMAIN Tail(readyFds) :
                i + 1 \in DOMAIN readyFds /\ Tail(readyFds)[i] = readyFds[i + 1]
          BY <1>t, <2>2
        <5> QED
          BY <4>2, <5>1
      <4> QED
        BY <3>1, <4>1, <4>2
    <3> QED
      BY <3>2 DEF QueuesInv, QueuedAreSeen
  <2>5. IsFiniteSet(Copies(messCount'))
    <3>1. CASE UNCHANGED messCount
      BY <3>1 DEF QueuesInv
    <3>2. CASE messCount' = [messCount EXCEPT ![Head(readyFds)] = @ + 1]
      <4>1. messCount \in [Socks -> Nat] /\ IsFiniteSet(Copies(messCount))
        BY DEF QueuesInv, IInv, TypeOK
      <4>2. PICK h \in Socks : h = Head(readyFds)
        BY <2>2
      <4>c. /\ DOMAIN messCount = Socks /\ DOMAIN messCount' = Socks
            /\ \A s \in Socks : messCount[s] \in Nat
            /\ messCount'[h] = messCount[h] + 1
            /\ \A s \in Socks \ {h} : messCount'[s] = messCount[s]
        BY <3>2, <4>1, <4>2
      <4>3. PICK c : c \notin Copies(messCount) /\ Copies(messCount') = Copies(messCount) \cup {c}
        BY <4>c, CopiesCounted
      <4> QED
        BY <4>1, <4>3, OneMore
    <3> QED
      BY <1>7, <3>1, <3>2 DEF Ping, PingOk, PingFails
  <2> QED
    BY <1>1, <2>1, <2>3, <2>4, <2>5 DEF QueuesInv, Phases, QueuedAreSeen, Waiting
<1> QED
  BY <1>2, <1>3, <1>4, <1>5, <1>6, <1>7 DEF Next, Worker

-----------------------------------------------------------------------------
(* The counters. *)

Sizes ==
    /\ IsFiniteSet(events) /\ Cardinality(events) \in Nat
    /\ IsFiniteSet(Seen) /\ Cardinality(Seen) \in Nat
    /\ IsFiniteSet(Copies(messCount)) /\ Served \in Nat
    /\ mcount \in Nat /\ latCount \in Nat /\ Uncounted \in Nat

LEMMA FiniteParts == QueuesInv => Sizes
<1> SUFFICES ASSUME QueuesInv PROVE Sizes
  OBVIOUS
<1>1. events \subseteq Socks /\ messCount \in [Socks -> Nat] /\ mcount \in Nat /\ latCount \in Nat
  BY DEF QueuesInv, IInv, TypeOK
<1>2. IsFiniteSet(events) /\ IsFiniteSet(Seen)
  BY <1>1, SocksAssumption, FS_Subset DEF Seen
<1>3. IsFiniteSet(Copies(messCount))
  BY DEF QueuesInv
<1> QED
  BY <1>1, <1>2, <1>3, FS_CardinalityType DEF Served, Uncounted, Sizes

LEMMA FinitePartsNext == QueuesInv' => Sizes'
BY FiniteParts, PTL

LEMMA CountersInit == Init => CountersAgree
<1> SUFFICES ASSUME Init PROVE CountersAgree
  OBVIOUS
<1>1. Copies(messCount) = {} /\ Waiting = {} /\ Seen = {} /\ events = {} /\ Len(readyFds) = 0
  BY EmptyBagType DEF Init, Copies, Waiting, Seen
<1>2. Cardinality({}) = 0
  BY FS_EmptySet
<1>3. Served = 0 /\ Queued = 0 /\ Cardinality(events) = 0 /\ Cardinality(Seen) = 0
  BY <1>1, <1>2 DEF Served, Queued
<1> QED
  BY <1>3 DEF Init, CountersAgree, Uncounted

\* An answer on a connection is one answer more in all.
LEMMA OneServed ==
    ASSUME QueuesInv, NEW h \in Socks, messCount' = [messCount EXCEPT ![h] = @ + 1]
    PROVE  Served' = Served + 1
<1>1. messCount \in [Socks -> Nat]
  BY DEF QueuesInv, IInv, TypeOK
<1>2. /\ DOMAIN messCount = Socks /\ DOMAIN messCount' = Socks
      /\ \A s \in Socks : messCount[s] \in Nat
      /\ messCount'[h] = messCount[h] + 1
      /\ \A s \in Socks \ {h} : messCount'[s] = messCount[s]
  BY <1>1
<1>3. PICK c : c \notin Copies(messCount) /\ Copies(messCount') = Copies(messCount) \cup {c}
  BY <1>2, CopiesCounted
<1> QED
  BY <1>3, FiniteParts, OneMore DEF Served, Sizes

\* Every counter keeps pace with what it counts.
LEMMA CountersStep ==
    ASSUME QueuesInv, CountersAgree, [Next]_vars PROVE CountersAgree'
<1> SUFFICES ASSUME pc' # "exited"
             PROVE  /\ (mcount + Uncounted = Served + Queued + Cardinality(events))'
                    /\ (mcount + Uncounted = latCount + Cardinality(Seen) + Cardinality(events))'
  BY DEF CountersAgree
<1> DEFINE Goal ==
      /\ (mcount + Uncounted = Served + Queued + Cardinality(events))'
      /\ (mcount + Uncounted = latCount + Cardinality(Seen) + Cardinality(events))'
<1>p. pc # "exited"
  BY DEF Next, Tick, StopRun, Client, ClientEcho, Deliver, ClientClose, ClientReset, Worker,
         LoopTop, WaitEvents, WaitTimesOut, PollEmpty, PollAgain, WaitFails, Expire, CheckDone,
         Drain, DrainEnds, SendCheck, Ping, vars
<1>t. /\ mcount + Uncounted = Served + Queued + Cardinality(events)
      /\ mcount + Uncounted = latCount + Cardinality(Seen) + Cardinality(events)
  BY <1>p DEF CountersAgree
<1>n. /\ mcount \in Nat /\ latCount \in Nat /\ Served \in Nat /\ Queued \in Nat
      /\ Uncounted \in Nat /\ Cardinality(events) \in Nat /\ Cardinality(Seen) \in Nat
  BY FiniteParts, QueuesTypes DEF Sizes, QueueSizes
<1>q. QueuesInv'
  BY QueuesStep
<1>n1. Cardinality(events') \in Nat
  BY <1>q, FinitePartsNext DEF Sizes
<1>1. CASE UNCHANGED <<events, readyFds, waitQueue, lastTime, result>> /\ Uncounted' = Uncounted
  <2>1. UNCHANGED <<Served, Queued, Seen>>
    BY <1>1 DEF Served, Queued, Seen, Waiting, result
  <2> QED
    BY <1>1, <1>t, <2>1 DEF result
<1>2. CASE Tick \/ StopRun \/ Client \/ UNCHANGED vars
  BY <1>1, <1>2 DEF Tick, StopRun, Client, ClientEcho, Deliver, ClientClose, ClientReset,
                    queues, vars, Uncounted
<1>3. CASE PollEmpty \/ PollAgain \/ WaitFails \/ DrainEnds \/ SendCheck
  BY <1>1, <1>3 DEF PollEmpty, PollAgain, WaitFails, DrainEnds, SendCheck, queues, Uncounted
<1>4. CASE LoopTop
  <2>1. UNCHANGED <<events, readyFds, waitQueue, lastTime, result>>
    BY <1>4 DEF LoopTop, QueuesInv, Phases
  <2> QED
    BY <1>1, <1>4, <2>1 DEF LoopTop, Uncounted
<1>5. CASE WaitEvents \/ WaitTimesOut
  <2>1. /\ pc \in {"wait", "polled"} /\ pc' \in {"expire", "check"}
        /\ UNCHANGED <<readyFds, waitQueue, lastTime, result>>
    BY <1>5 DEF WaitEvents, WaitTimesOut, WaitReturns, AfterWait
  <2>2. events = {} /\ Uncounted = 0
    BY <2>1 DEF QueuesInv, Phases, Uncounted
  <2>3. Uncounted' = Cardinality(events') /\ Cardinality(events) = 0
    BY <2>1, <2>2, FS_EmptySet DEF Uncounted
  <2>4. UNCHANGED <<Served, Queued, Seen, mcount, latCount>>
    BY <2>1 DEF Served, Queued, Seen, Waiting, result
  <2> QED
    BY <1>n, <1>n1, <1>t, <2>2, <2>3, <2>4
<1>6. CASE Expire
  <2>1. UNCHANGED <<events, lastTime, result>> /\ Uncounted' = Uncounted
    BY <1>6 DEF Expire, Uncounted
  <2>2. Queued' = Queued /\ UNCHANGED <<Served, Seen, mcount, latCount>>
    BY <1>6, <2>1, ExpireQueues DEF Served, Seen, result
  <2> QED
    BY <1>t, <2>1, <2>2
<1>7. CASE CheckDone
  <2>1. /\ pc = "check" /\ pc' = "drain" /\ mcount' = mcount + Cardinality(events)
        /\ UNCHANGED <<events, readyFds, waitQueue, lastTime, latCount, messCount>>
    BY <1>7 DEF CheckDone, BatchSize, queues
  <2>2. Uncounted = Cardinality(events) /\ Uncounted' = 0
    BY <2>1 DEF Uncounted
  <2>3. UNCHANGED <<Served, Queued, Seen>>
    BY <2>1 DEF Served, Queued, Seen, Waiting
  <2> QED
    BY <1>n, <1>t, <2>1, <2>2, <2>3
<1>8. ASSUME NEW s \in Socks, Drain(s) PROVE Goal
  <2>1. /\ pc = "drain" /\ pc' = "drain" /\ s \in events /\ events' = events \ {s}
        /\ latCount' = IF lastTime[s] = Unseen THEN latCount ELSE latCount + 1
        /\ lastTime' = [lastTime EXCEPT ![s] = KnownTime(s)]
        /\ UNCHANGED <<mcount, messCount>>
    BY <1>8 DEF Drain
  <2>2. Cardinality(events') = Cardinality(events) - 1
    BY <2>1, FiniteParts, OneLess DEF Sizes
  <2>3. Queued' = Queued + 1
    BY <1>8, DrainQueues
  <2>4. Uncounted = 0 /\ Uncounted' = 0 /\ Served' = Served
    BY <2>1 DEF Uncounted, Served
  <2>5. Seen' = Seen \cup {s} /\ (s \in Seen <=> lastTime[s] # Unseen)
    <3>1. lastTime \in [Socks -> Nat \cup {Unseen}]
      BY DEF QueuesInv, IInv, TypeOK, Ticks
    <3> QED
      BY <2>1, <3>1 DEF Seen, KnownTime, Unseen
  <2>6. latCount' + Cardinality(Seen') = latCount + Cardinality(Seen) + 1
    <3>1. CASE s \in Seen
      <4>1. Seen' = Seen
        BY <2>5, <3>1
      <4> QED
        BY <1>n, <2>1, <2>5, <3>1, <4>1
    <3>2. CASE s \notin Seen
      BY <1>n, <2>1, <2>5, <3>2, FiniteParts, OneMore DEF Sizes
    <3> QED
      BY <3>1, <3>2
  <2>7. latCount' \in Nat /\ Cardinality(Seen') \in Nat
    BY <1>q, FinitePartsNext DEF Sizes
  <2> QED
    BY <1>n, <1>t, <2>1, <2>2, <2>3, <2>4, <2>6, <2>7
<1>9. CASE Ping
  <2> DEFINE h == Head(readyFds)
  <2>1. /\ pc = "ping" /\ PingOk(h) /\ pc' = "send"
        /\ UNCHANGED <<events, waitQueue, mcount, latCount>>
    BY <1>9 DEF Ping, PingFails, PingOk
  <2>2. h \in Socks /\ Queued' = Queued - 1
    BY <2>1, PingQueues
  <2>3. Served' = Served + 1
    <3>1. messCount' = [messCount EXCEPT ![h] = @ + 1]
      BY <2>1 DEF PingOk
    <3> HIDE DEF h
    <3> QED
      BY <2>2, <3>1, OneServed
  <2>4. Seen' = Seen
    <3>1. h \in Seen
      <4>1. 1 \in DOMAIN readyFds /\ h = readyFds[1]
        BY <2>1 DEF QueuesInv, IInv, TypeOK, PingHasTarget
      <4> QED
        BY <4>1 DEF QueuesInv, QueuedAreSeen
    <3>2. lastTime' = [lastTime EXCEPT ![h] = now] /\ now \in Nat
          /\ lastTime \in [Socks -> Nat \cup {Unseen}]
      BY <2>1 DEF PingOk, QueuesInv, IInv, TypeOK, Ticks
    <3> QED
      BY <3>1, <3>2 DEF Seen, Unseen
  <2>5. Uncounted = 0 /\ Uncounted' = 0
    BY <2>1 DEF Uncounted
  <2> QED
    BY <1>n, <1>t, <2>1, <2>2, <2>3, <2>4, <2>5
<1> QED
  BY <1>2, <1>3, <1>4, <1>5, <1>6, <1>7, <1>8, <1>9 DEF Next, Worker

-----------------------------------------------------------------------------
(* The arrivals. *)

LEMMA ArrivalInit == Init => EveryArrivalQueuedOnce
<1> SUFFICES ASSUME Init, NEW s \in Socks
             PROVE  Signalled(s) + InBatch(s) + InReady(s) + InWait(s) = rx[s]
  BY DEF EveryArrivalQueuedOnce
<1>1. Waiting = {} /\ DOMAIN readyFds = {}
  BY EmptyBagType DEF Init, Copies, Waiting
<1>2. InReady(s) = 0 /\ InWait(s) = 0
  BY <1>1, FS_EmptySet DEF InReady, InWait
<1> QED
  BY <1>2 DEF Init, Signalled, InBatch

\* A message that is back is announced once and handed from place to place.
LEMMA ArrivalStep ==
    ASSUME QueuesInv, EveryArrivalQueuedOnce, [Next]_vars PROVE EveryArrivalQueuedOnce'
<1> SUFFICES ASSUME MsgLen = 1, pc' # "exited", NEW t \in Socks, peer'[t] = "open"
             PROVE  (Signalled(t) + InBatch(t) + InQueues(t) = rx[t])'
  <2>1. QueuesInv'
    BY QueuesStep
  <2>2. \A t : InReady(t)' \in Nat /\ InWait(t)' \in Nat
    BY <2>1, QueuesTypesNext DEF QueueSizes
  <2>3. \A t : Signalled(t)' \in Nat /\ InBatch(t)' \in Nat
    BY DEF Signalled, InBatch
  <2> QED
    BY <2>2, <2>3 DEF EveryArrivalQueuedOnce, InQueues
<1> DEFINE Goal == (Signalled(t) + InBatch(t) + InQueues(t) = rx[t])'
<1>p. pc # "exited" /\ peer[t] = "open"
  BY DEF Next, Tick, StopRun, Client, ClientEcho, Deliver, ClientClose, ClientReset, Worker,
         LoopTop, WaitEvents, WaitTimesOut, WaitReturns, PollEmpty, PollAgain, WaitFails, Expire,
         CheckDone, Drain, DrainEnds, SendCheck, Ping, vars, net, QueuesInv, IInv, TypeOK
<1>n. /\ InQueues(t) \in Nat /\ rx \in [Socks -> Nat] /\ echo \in [Socks -> Nat]
      /\ Signalled(t) \in 0..1 /\ InBatch(t) \in 0..1
      /\ rx[t] + echo[t] <= 1
  <2>1. InReady(t) \in Nat /\ InWait(t) \in Nat /\ InQueues(t) \in Nat
    BY QueuesTypes DEF QueueSizes
  <2>2. rx \in [Socks -> Nat] /\ echo \in [Socks -> Nat] /\ InFlight(t) <= 1
    BY DEF QueuesInv, IInv, TypeOK, OneMessageInFlight
  <2> QED
    BY <2>1, <2>2 DEF Signalled, InBatch, InFlight
<1>t. Signalled(t) + InBatch(t) + InQueues(t) = rx[t]
  <2>1. Signalled(t) + InBatch(t) + InReady(t) + InWait(t) = rx[t]
    BY <1>p DEF EveryArrivalQueuedOnce
  <2>2. InReady(t) \in Nat /\ InWait(t) \in Nat
    BY QueuesTypes DEF QueueSizes
  <2> QED
    BY <1>n, <2>1, <2>2 DEF InQueues
<1>1. CASE UNCHANGED <<readyFds, waitQueue>> /\ UNCHANGED <<rx[t], Signalled(t), InBatch(t)>>
  <2>1. InQueues(t)' = InQueues(t)
    BY <1>1 DEF InQueues, InReady, InWait, Waiting
  <2> QED
    BY <1>1, <1>t, <2>1
<1>2. CASE Tick \/ StopRun \/ PollAgain \/ CheckDone \/ DrainEnds \/ SendCheck \/ WaitFails
           \/ UNCHANGED vars
  BY <1>1, <1>2 DEF Tick, StopRun, PollAgain, CheckDone, DrainEnds, SendCheck, WaitFails,
                    queues, net, vars, Signalled, InBatch
<1>3. ASSUME NEW s \in Socks, ClientEcho(s) \/ ClientClose(s) \/ ClientReset(s) PROVE Goal
  <2>1. UNCHANGED <<readyFds, waitQueue, events, rx>> /\ (t \in armed' <=> t \in armed)
    BY <1>3, <1>p DEF ClientEcho, ClientClose, ClientReset, queues, QueuesInv, IInv, TypeOK
  <2> QED
    BY <1>1, <2>1 DEF Signalled, InBatch
<1>4. ASSUME NEW s \in Socks, Deliver(s) PROVE Goal
  <2>1. PICK n \in 1..echo[s] : rx' = [rx EXCEPT ![s] = @ + n]
    BY <1>4 DEF Deliver
  <2>2. UNCHANGED <<readyFds, waitQueue, events>> /\ armed' = armed \cup {s}
    BY <1>4 DEF Deliver, queues
  <2>3. CASE s # t
    BY <1>1, <1>n, <2>1, <2>2, <2>3 DEF Signalled, InBatch
  <2>4. CASE s = t
    <3>1. rx[t] = 0 /\ rx'[t] = 1
      BY <1>n, <2>1, <2>4
    <3>2. Signalled(t)' = 1 /\ InBatch(t)' = InBatch(t) /\ InQueues(t)' = InQueues(t)
      BY <2>2, <2>4, <3>1 DEF Signalled, InBatch, InQueues, InReady, InWait, Waiting
    <3> QED
      BY <1>n, <1>t, <3>1, <3>2
  <2> QED
    BY <2>3, <2>4
<1>5. CASE LoopTop
  <2>1. UNCHANGED <<readyFds, waitQueue, events, armed, rx>>
    BY <1>5 DEF LoopTop, QueuesInv, Phases, net
  <2> QED
    BY <1>1, <2>1 DEF Signalled, InBatch
<1>6. CASE WaitEvents \/ PollEmpty \/ WaitTimesOut
  <2>1. /\ UNCHANGED <<readyFds, waitQueue, rx>> /\ pc \in {"wait", "polled"}
    BY <1>6 DEF WaitEvents, PollEmpty, WaitTimesOut, WaitReturns, net, queues
  <2>2. events = {}
    BY <2>1 DEF QueuesInv, Phases
  <2>3. (Signalled(t) + InBatch(t))' = Signalled(t) + InBatch(t)
    <3>1. CASE WaitEvents
      <4>1. armed' = {} /\ events' = Reportable
        BY <3>1 DEF WaitEvents, WaitReturns, StillArmed
      <4> QED
        BY <1>p, <1>n, <2>1, <2>2, <4>1 DEF Signalled, InBatch, Reportable
    <3>2. CASE PollEmpty
      <4>1. armed' = {} /\ events' = {} /\ Reportable = {}
        BY <2>2, <3>2 DEF PollEmpty, queues
      <4> QED
        BY <1>p, <1>n, <2>1, <2>2, <4>1 DEF Signalled, InBatch, Reportable
    <3>3. CASE WaitTimesOut
      <4>1. armed' = armed /\ events' = {}
        BY <3>3 DEF WaitTimesOut, WaitReturns
      <4> QED
        BY <1>p, <1>n, <2>1, <2>2, <4>1 DEF Signalled, InBatch
    <3> QED
      BY <1>6, <3>1, <3>2, <3>3
  <2>4. InQueues(t)' = InQueues(t)
    BY <2>1 DEF InQueues, InReady, InWait, Waiting
  <2> QED
    BY <1>t, <2>1, <2>3, <2>4
<1>7. CASE Expire
  <2>1. UNCHANGED <<events, armed, rx>>
    BY <1>7 DEF Expire, net
  <2>2. InQueues(t)' = InQueues(t)
    BY <1>7, ExpireQueues
  <2> QED
    BY <1>t, <2>1, <2>2 DEF Signalled, InBatch
<1>8. ASSUME NEW s \in Socks, Drain(s) PROVE Goal
  <2>1. s \in events /\ events' = events \ {s} /\ UNCHANGED <<armed, rx>>
    BY <1>8 DEF Drain, net
  <2>2. InQueues(t)' = InQueues(t) + (IF t = s THEN 1 ELSE 0)
    BY <1>8, DrainQueues
  <2>3. InBatch(t)' = InBatch(t) - (IF t = s THEN 1 ELSE 0) /\ Signalled(t)' = Signalled(t)
    BY <2>1 DEF InBatch, Signalled
  <2> QED
    BY <1>n, <1>t, <2>1, <2>2, <2>3
<1>9. CASE Ping
  <2> DEFINE h == Head(readyFds)
  <2>1. /\ pc = "ping" /\ PingOk(h) /\ UNCHANGED <<events, waitQueue, armed>>
        /\ rx' = [rx EXCEPT ![h] = Unread(h)] /\ rx[h] >= 1
    BY <1>9 DEF Ping, PingFails, PingOk, WholeMessage
  <2>2. /\ h \in Socks
        /\ InQueues(t)' = InQueues(t) - (IF t = h THEN 1 ELSE 0) /\ InQueues(t)' \in Nat
    <3>1. InQueues(t)' \in Nat
      BY QueuesStep, QueuesTypesNext DEF QueueSizes
    <3> QED
      BY <2>1, <3>1, PingQueues
  <2>3. CASE t # h
    BY <1>n, <1>t, <2>1, <2>2, <2>3 DEF Signalled, InBatch
  <2>4. CASE t = h
    <3>1. rx[t] = 1 /\ rx'[t] = 0
      BY <1>n, <2>1, <2>2, <2>4 DEF Unread
    <3>2. InQueues(t) = 1 /\ InBatch(t) = 0
      BY <1>n, <1>t, <2>2, <2>4, <3>1
    <3> QED
      BY <1>n, <2>1, <2>2, <2>4, <3>1, <3>2 DEF Signalled, InBatch
  <2> QED
    BY <2>3, <2>4
<1> QED
  BY <1>2, <1>3, <1>4, <1>5, <1>6, <1>7, <1>8, <1>9 DEF Next, Worker, Client

-----------------------------------------------------------------------------
(* The pauses.                                                             *)

\* A peer that has closed or reset neither holds nor sends a message.
ClosedIsSilent == \A s \in Socks : peer[s] # "open" => echo[s] = 0 /\ ~atPeer[s]

\* The time of the round is not ahead of the clock.
NotAhead == pc \in Rounding => currTime <= now

\* A pinged connection that has been answered and is queued to be pinged again
\* has its pause ahead of it in wait_queue, and behind it in ready_fds.
Paced ==
    MsgLen = 1 /\ pc # "exited" =>
        \A s \in Socks : rx[s] > 0 /\ lastTime[s] > 0 =>
            /\ \A e \in DOMAIN waitQueue : e[1] = s => lastTime[s] + MinTimeout <= e[2]
            /\ \A i \in DOMAIN readyFds : readyFds[i] = s => lastTime[s] + MinTimeout <= now

PaceInv ==
    TimeInv /\ QueuesInv /\ EveryArrivalQueuedOnce /\ ClosedIsSilent /\ NotAhead /\ Paced

LEMMA PaceInit == Init => PaceInv
<1>1. Init => ClosedIsSilent /\ NotAhead /\ Paced
  BY DEF Init, ClosedIsSilent, NotAhead, Paced, Rounding
<1> QED
  BY <1>1, TimeInit, QueuesInit, ArrivalInit DEF PaceInv

\* A socket in no queue has no entry in either.
LEMMA NotQueued ==
    ASSUME QueuesInv, NEW s \in Socks, InReady(s) = 0, InWait(s) = 0
    PROVE  (\A e \in DOMAIN waitQueue : e[1] # s) /\ (\A i \in DOMAIN readyFds : readyFds[i] # s)
<1>1. ASSUME NEW e \in DOMAIN waitQueue, e[1] = s PROVE FALSE
  <2> DEFINE W == {c \in Waiting : c[1][1] = s}
  <2>1. waitQueue[e] \in Nat \ {0}
    BY DEF QueuesInv, IInv, TypeOK
  <2>2. <<e, 1>> \in W
    BY <1>1, <2>1 DEF Waiting, Copies
  <2>3. IsFiniteSet(W) /\ Cardinality(W) = 0
    BY FS_Subset DEF QueuesInv, InWait
  <2> QED
    BY <2>2, <2>3, FS_EmptySet
<1>2. ASSUME NEW i \in DOMAIN readyFds, readyFds[i] = s PROVE FALSE
  <2>1. readyFds \in Seq(Socks)
    BY DEF QueuesInv, IInv, TypeOK
  <2>2. IsFiniteSet(Places(readyFds, s)) /\ Cardinality(Places(readyFds, s)) = 0
    BY <2>1, PlacesFinite DEF Places, InReady
  <2>3. i \in Places(readyFds, s)
    BY <1>2 DEF Places
  <2> QED
    BY <2>2, <2>3, FS_EmptySet
<1> QED
  BY <1>1, <1>2

LEMMA ClosedStep == ASSUME QueuesInv, ClosedIsSilent, [Next]_vars PROVE ClosedIsSilent'
<1>t. /\ echo \in [Socks -> Nat] /\ atPeer \in [Socks -> BOOLEAN]
      /\ peer \in [Socks -> {"open", "shut", "reset"}]
  BY DEF QueuesInv, IInv, TypeOK
<1>1. CASE UNCHANGED <<echo, atPeer, peer>>
  BY <1>1 DEF ClosedIsSilent
<1>2. ASSUME NEW s \in Socks, ClientEcho(s) \/ ClientClose(s) \/ ClientReset(s)
      PROVE  ClosedIsSilent'
  BY <1>t, <1>2 DEF ClosedIsSilent, ClientEcho, ClientClose, ClientReset
<1>3. ASSUME NEW s \in Socks, Deliver(s) PROVE ClosedIsSilent'
  <2>1. PICK n \in 1..echo[s] : echo' = [echo EXCEPT ![s] = @ - n]
    BY <1>3 DEF Deliver
  <2>2. UNCHANGED <<peer, atPeer>> /\ peer[s] = "open"
    BY <1>3, <1>t, <2>1 DEF Deliver, ClosedIsSilent
  <2> QED
    BY <1>t, <2>1, <2>2 DEF ClosedIsSilent
<1>4. CASE Ping
  <2>1. UNCHANGED <<echo, peer>>
        /\ (UNCHANGED atPeer
            \/ atPeer' = [atPeer EXCEPT ![Head(readyFds)] = peer[Head(readyFds)] = "open"])
    BY <1>4 DEF Ping, PingOk, PingFails
  <2> QED
    BY <1>t, <2>1 DEF ClosedIsSilent
<1>5. CASE (Worker /\ ~Ping) \/ Tick \/ StopRun \/ UNCHANGED vars
  BY <1>1, <1>5 DEF Tick, StopRun, Worker, LoopTop, WaitEvents, WaitTimesOut, WaitReturns,
     PollEmpty, PollAgain, WaitFails, Expire, CheckDone, Drain, DrainEnds, SendCheck, net, vars
<1> QED
  BY <1>2, <1>3, <1>4, <1>5 DEF Next, Client

LEMMA NotAheadStep == ASSUME QueuesInv, NotAhead, [Next]_vars PROVE NotAhead'
<1>1. now \in Nat /\ currTime \in Nat /\ now' \in {now, now + 1}
  BY DEF QueuesInv, IInv, TypeOK, Ticks, Next, Tick, StopRun, Client, ClientEcho, Deliver,
     ClientClose, ClientReset, Worker, LoopTop, WaitEvents, WaitTimesOut, WaitReturns, PollEmpty,
     PollAgain, WaitFails, Expire, CheckDone, Drain, DrainEnds, SendCheck, Ping, vars
<1>2. pc' \in Rounding => (pc \in Rounding /\ UNCHANGED currTime) \/ currTime' = now
  BY DEF Next, Tick, StopRun, Client, ClientEcho, Deliver, ClientClose, ClientReset, Worker,
     LoopTop, WaitEvents, WaitTimesOut, WaitReturns, RoundTime, PollEmpty, PollAgain, WaitFails,
     Expire, CheckDone, Drain, DrainEnds, SendCheck, Ping, PingOk, PingFails, vars, Rounding
<1> QED
  BY <1>1, <1>2 DEF NotAhead

LEMMA PacedStep == ASSUME PaceInv, [Next]_vars PROVE Paced'
<1> SUFFICES ASSUME MsgLen = 1, pc' # "exited", NEW t \in Socks, rx'[t] > 0, lastTime'[t] > 0
             PROVE  /\ \A e \in DOMAIN waitQueue' :
                         e[1] = t => lastTime'[t] + MinTimeout <= e[2]
                    /\ \A i \in DOMAIN readyFds' :
                         readyFds'[i] = t => lastTime'[t] + MinTimeout <= now'
  BY DEF Paced
<1> DEFINE Goal ==
      /\ \A e \in DOMAIN waitQueue' : e[1] = t => lastTime'[t] + MinTimeout <= e[2]
      /\ \A i \in DOMAIN readyFds' : readyFds'[i] = t => lastTime'[t] + MinTimeout <= now'
<1>p. pc # "exited"
  BY DEF Next, Tick, StopRun, Client, ClientEcho, Deliver, ClientClose, ClientReset, Worker,
         LoopTop, WaitEvents, WaitTimesOut, PollEmpty, PollAgain, WaitFails, Expire, CheckDone,
         Drain, DrainEnds, SendCheck, Ping, vars
<1>t. /\ rx \in [Socks -> Nat] /\ echo \in [Socks -> Nat] /\ now \in Nat /\ currTime \in Nat
      /\ lastTime \in [Socks -> Nat \cup {Unseen}] /\ readyFds \in Seq(Socks)
      /\ \A e \in DOMAIN waitQueue : e[1] \in Socks /\ e[2] \in Nat
      /\ MinTimeout \in Nat /\ MaxTimeout \in Nat /\ rx[t] + echo[t] <= 1
      /\ lastTime[t] \in Int
  <2>1. rx[t] + echo[t] <= 1
    <3>1. /\ rx[t] \in Nat /\ echo[t] \in Nat /\ atPeer[t] \in BOOLEAN /\ InFlight(t) <= 1
      BY DEF PaceInv, QueuesInv, IInv, TypeOK, OneMessageInFlight
    <3> QED
      BY <3>1 DEF InFlight
  <2>2. lastTime \in [Socks -> Nat \cup {Unseen}] /\ lastTime[t] \in Int
    BY DEF PaceInv, QueuesInv, IInv, TypeOK, Ticks, Unseen
  <2> QED
    BY <2>1, <2>2, TimeoutAssumption DEF PaceInv, QueuesInv, IInv, TypeOK, Ticks, Entries
<1>i. rx[t] > 0 /\ lastTime[t] > 0 =>
        /\ \A e \in DOMAIN waitQueue : e[1] = t => lastTime[t] + MinTimeout <= e[2]
        /\ \A i \in DOMAIN readyFds : readyFds[i] = t => lastTime[t] + MinTimeout <= now
  BY <1>p DEF PaceInv, Paced
<1>1. CASE UNCHANGED <<readyFds, waitQueue, rx, lastTime>> /\ now' \in {now, now + 1}
  BY <1>1, <1>i, <1>t
<1>2. CASE Tick \/ StopRun \/ WaitEvents \/ PollEmpty \/ WaitTimesOut \/ PollAgain \/ CheckDone
           \/ DrainEnds \/ SendCheck \/ WaitFails \/ UNCHANGED vars
  BY <1>1, <1>2 DEF Tick, StopRun, WaitEvents, WaitTimesOut, WaitReturns, PollEmpty, PollAgain,
                    CheckDone, DrainEnds, SendCheck, WaitFails, queues, net, vars
<1>3. ASSUME NEW s \in Socks, ClientEcho(s) \/ ClientClose(s) \/ ClientReset(s) PROVE Goal
  BY <1>1, <1>3 DEF ClientEcho, ClientClose, ClientReset, queues
<1>4. ASSUME NEW s \in Socks, Deliver(s) PROVE Goal
  <2>1. PICK n \in 1..echo[s] : rx' = [rx EXCEPT ![s] = @ + n]
    BY <1>4 DEF Deliver
  <2>2. UNCHANGED <<readyFds, waitQueue, lastTime, now>>
    BY <1>4 DEF Deliver, queues
  <2>3. CASE s # t
    BY <1>i, <1>t, <2>1, <2>2, <2>3
  <2>4. CASE s = t
    <3>1. rx[t] = 0 /\ peer[t] = "open"
      BY <1>t, <2>1, <2>4 DEF PaceInv, ClosedIsSilent
    <3>2. Signalled(t) + InBatch(t) + InReady(t) + InWait(t) = 0
      BY <1>p, <3>1 DEF PaceInv, EveryArrivalQueuedOnce
    <3>3. InReady(t) \in Nat /\ InWait(t) \in Nat
      BY QueuesTypes DEF PaceInv, QueueSizes
    <3>4. InReady(t) = 0 /\ InWait(t) = 0
      BY <3>2, <3>3 DEF Signalled, InBatch
    <3> QED
      BY <2>2, <3>4, NotQueued DEF PaceInv
  <2> QED
    BY <2>3, <2>4
<1>5. CASE LoopTop
  <2>1. readyFds' = <<>> /\ UNCHANGED <<waitQueue, rx, lastTime>>
    BY <1>5 DEF LoopTop, net
  <2> QED
    BY <1>i, <2>1
<1>6. CASE Expire
  <2>1. UNCHANGED <<rx, lastTime, now>> /\ pc = "expire"
    BY <1>6 DEF Expire, net
  <2>2. CASE UNCHANGED <<readyFds, waitQueue>>
    BY <1>1, <2>1, <2>2
  <2>3. ASSUME NEW e \in Expired, readyFds' = Append(readyFds, e[1]),
               waitQueue' = waitQueue (-) SetToBag({e})
        PROVE  Goal
    <3>1. e \in DOMAIN waitQueue /\ e[2] <= currTime /\ currTime <= now
      BY <2>1 DEF Expired, Top, PaceInv, NotAhead, Rounding
    <3>2. DOMAIN waitQueue' \subseteq DOMAIN waitQueue
      BY <2>3 DEF (-), SetToBag
    <3>3. \A i \in DOMAIN readyFds' :
            \/ i \in DOMAIN readyFds /\ readyFds'[i] = readyFds[i]
            \/ readyFds'[i] = e[1]
      BY <1>t, <2>3, <3>1
    <3>4. e[1] = t => lastTime[t] + MinTimeout <= now
      BY <1>i, <1>t, <2>1, <3>1
    <3> QED
      BY <1>i, <2>1, <3>2, <3>3, <3>4
  <2> QED
    BY <1>6, <2>2, <2>3 DEF Expire
<1>7. ASSUME NEW s \in Socks, Drain(s) PROVE Goal
  <2>1. PICK p \in Pauses :
          IF HasTimeout /\ KnownTime(s) + p > currTime
          THEN /\ waitQueue' = waitQueue (+) SetToBag({<<s, KnownTime(s) + p>>})
               /\ UNCHANGED <<readyFds, pc>>
          ELSE /\ readyFds' = Append(readyFds, s)
               /\ pc' = IF done THEN "exited" ELSE pc
               /\ UNCHANGED waitQueue
    BY <1>7 DEF Drain
  <2>2. /\ pc = "drain" /\ lastTime' = [lastTime EXCEPT ![s] = KnownTime(s)]
        /\ UNCHANGED <<rx, now>> /\ currTime <= now
    BY <1>7 DEF Drain, net, PaceInv, NotAhead, Rounding
  <2>3. lastTime'[t] = lastTime[t] /\ rx[t] > 0 /\ lastTime[t] > 0
        /\ (s = t => KnownTime(s) = lastTime[t])
    BY <1>t, <2>2 DEF KnownTime, Unseen
  <2>4. /\ p \in Nat
        /\ MinTimeout <= p \/ (~HasTimeout /\ MinTimeout = 0)
        /\ lastTime[t] <= now /\ lastTime[t] \in Nat
    BY <1>t, <2>3 DEF Pauses, HasTimeout, PaceInv, TimeInv, Unseen
  <2>5. CASE HasTimeout /\ KnownTime(s) + p > currTime
    <3>1. DOMAIN waitQueue' = DOMAIN waitQueue \cup {<<s, KnownTime(s) + p>>}
      BY <2>1, <2>5 DEF (+), SetToBag
    <3>2. s = t => lastTime[t] + MinTimeout <= KnownTime(s) + p
      BY <1>t, <2>3, <2>4, <2>5
    <3>3. UNCHANGED readyFds
      BY <2>1, <2>5
    <3> QED
      BY <1>i, <2>2, <2>3, <3>1, <3>2, <3>3
  <2>6. CASE ~(HasTimeout /\ KnownTime(s) + p > currTime)
    <3>1. readyFds' = Append(readyFds, s) /\ UNCHANGED waitQueue
      BY <2>1, <2>6
    <3>2. s = t => lastTime[t] + MinTimeout <= now
      <4>1. CASE ~HasTimeout
        BY <1>t, <2>3, <2>4, <4>1 DEF HasTimeout
      <4>2. CASE KnownTime(s) + p <= currTime
        BY <1>t, <2>2, <2>3, <2>4, <4>2
      <4>3. ASSUME s = t PROVE ~HasTimeout \/ KnownTime(s) + p <= currTime
        BY <1>t, <2>3, <2>4, <2>6, <4>3
      <4> QED
        BY <4>1, <4>2, <4>3
    <3>3. \A i \in DOMAIN readyFds' :
            \/ i \in DOMAIN readyFds /\ readyFds'[i] = readyFds[i]
            \/ readyFds'[i] = s
      BY <1>t, <3>1
    <3> QED
      BY <1>i, <2>2, <2>3, <3>1, <3>2, <3>3
  <2> QED
    BY <2>5, <2>6
<1>8. CASE Ping
  <2> DEFINE h == Head(readyFds)
  <2>1. /\ pc = "ping" /\ PingOk(h) /\ UNCHANGED <<waitQueue, now>>
        /\ rx' = [rx EXCEPT ![h] = Unread(h)] /\ readyFds' = Tail(readyFds)
        /\ lastTime' = [lastTime EXCEPT ![h] = now]
    BY <1>8 DEF Ping, PingFails, PingOk
  <2>2. h \in Socks /\ readyFds # <<>>
    BY <1>t, <2>1 DEF PaceInv, QueuesInv, IInv, PingHasTarget
  <2>3. t # h
    BY <1>t, <2>1, <2>2 DEF Unread
  <2>4. UNCHANGED <<rx[t], lastTime[t]>>
    BY <1>t, <2>1, <2>3
  <2>5. \A i \in DOMAIN readyFds' : i + 1 \in DOMAIN readyFds /\ readyFds'[i] = readyFds[i + 1]
    BY <1>t, <2>1, <2>2
  <2> QED
    BY <1>i, <2>1, <2>4, <2>5
<1> QED
  BY <1>2, <1>3, <1>4, <1>5, <1>6, <1>7, <1>8 DEF Next, Worker, Client

LEMMA PaceStep == ASSUME PaceInv, [Next]_vars PROVE PaceInv'
BY TimeStep, QueuesStep, ArrivalStep, ClosedStep, NotAheadStep, PacedStep DEF PaceInv

LEMMA PaceHolds == Spec => []PaceInv
<1>1. PaceInv /\ [Next]_vars => PaceInv'
  BY PaceStep
<1> QED
  BY PaceInit, <1>1, PTL DEF Spec

\* For any connections, pauses and faults: a message that has come back is in
\* exactly one place until it is answered, so the edge that announced it once
\* is neither lost nor acted on twice.
THEOREM ArrivalsAreQueuedOnce == Spec => []EveryArrivalQueuedOnce
<1>1. PaceInv => EveryArrivalQueuedOnce
  BY DEF PaceInv
<1> QED
  BY PaceHolds, <1>1, PTL

\* The three counters of a worker agree at every point of every round.
THEOREM CountersAlwaysAgree == Spec => []CountersAgree
<1>1. QueuesInv /\ CountersAgree /\ [Next]_vars => QueuesInv' /\ CountersAgree'
  BY QueuesStep, CountersStep
<1> QED
  BY QueuesInit, CountersInit, <1>1, PTL DEF Spec

\* For all bounds of the pause, no connection is pinged again sooner than the
\* least pause after its last ping.
THEOREM PacingHolds == Spec => PacingRespected
<1>1. PaceInv /\ [Next]_vars =>
        [MsgLen = 1 =>
            \A s \in Socks : messCount'[s] # messCount[s] /\ lastTime[s] > 0 =>
                now >= lastTime[s] + MinTimeout]_vars
  <2> SUFFICES ASSUME PaceInv, Next, MsgLen = 1, NEW s \in Socks,
                      messCount'[s] # messCount[s], lastTime[s] > 0
               PROVE  now >= lastTime[s] + MinTimeout
    OBVIOUS
  <2> DEFINE h == Head(readyFds)
  <2>1. Ping
    BY DEF Next, Tick, StopRun, Client, ClientEcho, Deliver, ClientClose, ClientReset, Worker,
           LoopTop, WaitEvents, WaitTimesOut, WaitReturns, PollEmpty, PollAgain, WaitFails,
           Expire, CheckDone, Drain, DrainEnds, SendCheck, result
  <2>2. pc = "ping" /\ WholeMessage(h) /\ messCount' = [messCount EXCEPT ![h] = @ + 1]
    BY <2>1 DEF Ping, PingOk, PingFails
  <2>3. readyFds \in Seq(Socks) /\ readyFds # <<>> /\ messCount \in [Socks -> Nat]
        /\ rx \in [Socks -> Nat] /\ lastTime \in [Socks -> Nat \cup {Unseen}] /\ now \in Nat
    BY <2>2 DEF PaceInv, QueuesInv, IInv, TypeOK, PingHasTarget, Ticks
  <2>4. h \in Socks /\ s = h /\ 1 \in DOMAIN readyFds /\ readyFds[1] = s
    BY <2>2, <2>3
  <2>5. rx[s] > 0
    BY <2>2, <2>3, <2>4 DEF WholeMessage
  <2>6. lastTime[s] + MinTimeout <= now
    BY <2>2, <2>4, <2>5 DEF PaceInv, Paced
  <2>7. lastTime[s] \in Nat /\ MinTimeout \in Nat
    BY <2>3, TimeoutAssumption DEF Unseen
  <2> QED
    BY <2>3, <2>6, <2>7
<1> QED
  BY PaceHolds, <1>1, PTL DEF Spec, PacingRespected

-----------------------------------------------------------------------------
(* PingWorker implements WorkerLoop. *)

LoopInv == QueuesInv /\ CountersAgree /\ EveryArrivalQueuedOnce

LEMMA InitLoop == Init => WL!Init
<1> SUFFICES ASSUME Init PROVE WL!Init
  OBVIOUS
<1>1. Copies(messCount) = {}
  BY DEF Init, Copies
<1>2. Served = 0
  BY <1>1, FS_EmptySet DEF Served
<1> QED
  BY <1>2 DEF Init, WL!Init, Wrong

\* What the environment does is a stop, a lost peer, or not noticed.
LEMMA LoopOutside ==
    ASSUME LoopInv, Tick \/ StopRun \/ Client PROVE [WL!Next]_(WL!loopvars)
<1>1. UNCHANGED <<pc, mcount, Served>>
  BY DEF Tick, StopRun, Client, ClientEcho, Deliver, ClientClose, ClientReset, result, Served
<1>2. CASE StopRun
  <2>1. Wrong' = Wrong
    BY <1>2 DEF StopRun, net, Wrong
  <2> QED
    BY <1>1, <1>2, <2>1 DEF StopRun, WL!Next, WL!Tell
<1>3. CASE Tick \/ Client
  <2>1. done' = done
    BY <1>3 DEF Tick, Client, ClientEcho, Deliver, ClientClose, ClientReset
  <2>2. Wrong' = Wrong \/ Wrong' = TRUE
    <3>1. peer \in [Socks -> {"open", "shut", "reset"}]
      BY DEF LoopInv, QueuesInv, IInv, TypeOK
    <3>2. \A s \in Socks : peer[s] # "open" => peer'[s] # "open"
      BY <1>3, <3>1 DEF Tick, Client, ClientEcho, Deliver, ClientClose, ClientReset, net
    <3> QED
      BY <3>2 DEF Wrong
  <2> QED
    BY <1>1, <2>1, <2>2 DEF WL!Next, WL!GoWrong, WL!loopvars
<1> QED
  BY <1>2, <1>3

\* A batch has at most every connection once.
LEMMA LoopCounts == ASSUME LoopInv, CheckDone PROVE [WL!Next]_(WL!loopvars)
<1>1. UNCHANGED <<done, Served, Wrong>> /\ pc # "exited"
  BY DEF CheckDone, net, Wrong, Served
<1>2. CASE done
  BY <1>1, <1>2 DEF CheckDone, WL!Next, WL!Leave
<1>3. CASE ~done
  <2>1. BatchSize \in Nat /\ BatchSize <= Cardinality(Socks) /\ Cardinality(Socks) \in Nat
    BY SocksAssumption, FS_Subset, FS_CardinalityType
       DEF LoopInv, QueuesInv, IInv, TypeOK, BatchSize
  <2>2. mcount' = mcount + BatchSize /\ pc' # "exited" /\ mcount \in Nat
    BY <1>3 DEF CheckDone, LoopInv, QueuesInv, IInv, TypeOK
  <2>3. CASE BatchSize = 0
    BY <1>1, <2>2, <2>3 DEF WL!loopvars
  <2>4. CASE BatchSize # 0
    <3>1. \E n \in 1..Cardinality(Socks) : mcount' = mcount + n
      BY <2>1, <2>2, <2>4
    <3> QED
      BY <1>1, <2>2, <3>1 DEF WL!Next, WL!CountBatch
  <2> QED
    BY <2>3, <2>4
<1> QED
  BY <1>2, <1>3

\* A ping is the answer to a message that was counted, and it fails for a
\* reason: the socket is queued because there is something to read.
LEMMA LoopPings == ASSUME LoopInv, Ping PROVE WL!Next
<1> DEFINE h == Head(readyFds)
<1>1. UNCHANGED <<done, mcount, Wrong>> /\ pc = "ping"
  BY DEF Ping, Wrong
<1>2. readyFds \in Seq(Socks) /\ readyFds # <<>> /\ rx \in [Socks -> Nat]
  BY <1>1 DEF LoopInv, QueuesInv, IInv, TypeOK, PingHasTarget
<1>3. h \in Socks /\ 1 \in DOMAIN readyFds /\ readyFds[1] = h /\ Len(readyFds) > 0
  BY <1>2
<1>4. CASE PingOk(h)
  <2>1. mcount + Uncounted = Served + Queued + Cardinality(events)
    BY <1>1 DEF LoopInv, CountersAgree
  <2>2. Uncounted = 0 /\ Cardinality(events) = 0
    BY <1>1, FS_EmptySet DEF Uncounted, LoopInv, QueuesInv, Phases
  <2>3. Queued > 0 /\ Queued \in Nat /\ Served \in Nat /\ mcount \in Nat
    BY <1>2, <1>3, QueuesTypes, FiniteParts DEF LoopInv, QueueSizes, Sizes, Queued
  <2>4. Served < mcount
    BY <2>1, <2>2, <2>3
  <2>5. messCount' = [messCount EXCEPT ![h] = @ + 1] /\ pc' # "exited"
    BY <1>4 DEF PingOk
  <2> HIDE DEF h
  <2>6. Served' = Served + 1
    BY <1>3, <2>5, OneServed DEF LoopInv
  <2> QED
    BY <1>1, <2>4, <2>5, <2>6 DEF WL!Next, WL!Answer
<1>5. CASE PingFails(h)
  <2>1. Wrong
    <3> SUFFICES ASSUME ~Wrong PROVE FALSE
      OBVIOUS
    <3>1. MsgLen = 1 /\ peer[h] = "open" /\ "write" \notin Faults
      BY <1>3, MsgLenAssumption DEF Wrong
    <3>2. InReady(h) > 0
      <4>1. IsFiniteSet(Places(readyFds, h)) /\ 1 \in Places(readyFds, h)
        BY <1>2, <1>3, PlacesFinite DEF Places
      <4> QED
        BY <4>1, FS_EmptySet, FS_CardinalityType DEF InReady, Places
    <3>3. Signalled(h) + InBatch(h) + InReady(h) + InWait(h) = rx[h]
      BY <1>1, <1>3, <3>1 DEF LoopInv, EveryArrivalQueuedOnce
    <3>4. InReady(h) \in Nat /\ InWait(h) \in Nat
      BY QueuesTypes DEF LoopInv, QueueSizes
    <3>5. rx[h] > 0
      BY <3>2, <3>3, <3>4 DEF Signalled, InBatch
    <3>6. WholeMessage(h)
      BY <1>2, <1>3, <3>1, <3>5 DEF WholeMessage
    <3> QED
      BY <1>5, <3>1, <3>6 DEF PingFails
  <2>2. pc' = "exited" /\ Served' = Served
    BY <1>5 DEF PingFails, Served
  <2> QED
    BY <1>1, <2>1, <2>2 DEF WL!Next, WL!Leave
<1> QED
  BY <1>4, <1>5 DEF Ping

LEMMA LoopStep == LoopInv /\ [Next]_vars => [WL!Next]_(WL!loopvars)
<1> SUFFICES ASSUME LoopInv, [Next]_vars PROVE [WL!Next]_(WL!loopvars)
  OBVIOUS
<1>1. CASE LoopTop \/ WaitEvents \/ WaitTimesOut \/ PollEmpty \/ PollAgain \/ Expire \/ DrainEnds
  <2>1. UNCHANGED <<done, mcount, Served, peer>> /\ pc # "exited" /\ pc' # "exited"
    BY <1>1 DEF Served, LoopTop, WaitEvents, WaitTimesOut, PollEmpty, PollAgain, WaitReturns, AfterWait,
       Expire, DrainEnds, net, result
  <2> QED
    BY <2>1 DEF WL!loopvars, Wrong
<1>2. CASE WaitFails
  BY <1>2 DEF WaitFails, WL!Next, WL!Leave, Wrong, net, result, Served
<1>3. CASE (\E s \in Socks : Drain(s)) \/ SendCheck
  <2>1. /\ UNCHANGED <<done, mcount, Served, peer>> /\ pc # "exited"
        /\ pc' = "exited" => done
    BY <1>3 DEF Drain, SendCheck, net, result, Served
  <2> QED
    BY <2>1 DEF WL!Next, WL!Leave, WL!loopvars, Wrong
<1>4. CASE UNCHANGED vars
  BY <1>4 DEF vars, net, result, WL!loopvars, Wrong, Served
<1> QED
  BY <1>1, <1>2, <1>3, <1>4, LoopOutside, LoopCounts, LoopPings DEF Next, Worker

\* For any connections, messages, pauses and faults: what run_test may rely on.
\* No answer runs ahead of the count, nothing is counted or answered by a
\* worker that has left, and with whole messages, no failing call and every
\* peer there a worker leaves only when run_test has told it to.
THEOREM LoopRefinement == Spec => ImplementsLoop
<1>1. LoopInv /\ [Next]_vars => LoopInv'
  BY QueuesStep, CountersStep, ArrivalStep DEF LoopInv
<1>2. Init => LoopInv
  BY QueuesInit, CountersInit, ArrivalInit DEF LoopInv
<1> QED
  BY InitLoop, LoopStep, <1>1, <1>2, PTL DEF Spec, ImplementsLoop, WL!Spec
=============================================================================
