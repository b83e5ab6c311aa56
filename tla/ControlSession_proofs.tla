----------------------- MODULE ControlSession_proofs ------------------------
(***************************************************************************)
(* What is proved about ControlSession: its types, that it implements      *)
(* TestRounds, that nobody is left alone without a reason, and that rounds *)
(* succeed when nothing fails, for all numbers of clients, rounds and      *)
(* connections and all options.                                            *)
(***************************************************************************)
EXTENDS ControlSession, FiniteSetTheorems, TLAPS

USE RoundsAssumption, RespLenAssumption, ListenQueueAssumption

\* Every session is in one place.
Places ==
    /\ \A i, j \in DOMAIN queue : queue[i] = queue[j] => i = j
    /\ Waiting \cap closed = {}
    /\ Active \cap closed = {}
    /\ Active \cap Waiting = {}
    /\ spc = "gone" => queue = <<>>

\* A client is at one round; those before are judged, those behind not begun.
Turns ==
    \A c \in Clients :
        /\ \A i \in 1..Rounds :
            /\ i > round[c] => <<c, i>> \notin Asked /\ recorded[<<c, i>>] = "none"
            /\ i < round[c] => recorded[<<c, i>>] # "none"
        /\ cpc[c] # "done" => recorded[Current(c)] = "none"
        /\ cpc[c] = "connect" => Current(c) \notin Asked
        /\ cpc[c] \notin {"connect", "done"} => Current(c) \in Asked

\* A result comes with the end of its session, and none of it is lost.
Results ==
    \A s \in Sessions :
        /\ coming[s] + got[s] \in {0, RespLen}
        /\ coming[s] + got[s] > 0 => s \in closed

RoundsInv == TypeOK /\ Places /\ Turns /\ Results

-----------------------------------------------------------------------------
(* The queue. *)

\* What a new control connection does to the queue.
LEMMA Joining ==
    ASSUME queue \in Seq(Sessions), NEW s \in Sessions, queue' = Append(queue, s)
    PROVE  /\ queue' \in Seq(Sessions)
           /\ Waiting' = Waiting \cup {s}
           /\ s \notin Waiting /\ (\A i, j \in DOMAIN queue : queue[i] = queue[j] => i = j) =>
                \A i, j \in DOMAIN queue' : queue'[i] = queue'[j] => i = j
<1>1. /\ queue' \in Seq(Sessions) /\ Len(queue') = Len(queue) + 1
      /\ DOMAIN queue = 1..Len(queue) /\ DOMAIN queue' = 1..(Len(queue) + 1)
      /\ Len(queue) \in Nat
      /\ \A i \in 1..Len(queue) : queue'[i] = queue[i]
      /\ queue'[Len(queue) + 1] = s
  OBVIOUS
<1>2. Waiting' = Waiting \cup {s}
  <2>1. Waiting' \subseteq Waiting \cup {s}
    BY <1>1 DEF Waiting
  <2>2. Waiting \subseteq Waiting'
    <3> SUFFICES ASSUME NEW i \in DOMAIN queue PROVE queue[i] \in Waiting'
      BY DEF Waiting
    <3>1. i \in DOMAIN queue' /\ queue'[i] = queue[i]
      BY <1>1
    <3> QED
      BY <3>1 DEF Waiting
  <2>3. s \in Waiting'
    <3>1. Len(queue) + 1 \in DOMAIN queue'
      BY <1>1
    <3> QED
      BY <1>1, <3>1 DEF Waiting
  <2> QED
    BY <2>1, <2>2, <2>3
<1>3. ASSUME s \notin Waiting, \A i, j \in DOMAIN queue : queue[i] = queue[j] => i = j,
             NEW i \in DOMAIN queue', NEW j \in DOMAIN queue', queue'[i] = queue'[j]
      PROVE  i = j
  <2>1. \A k \in DOMAIN queue : queue[k] # s
    BY <1>3 DEF Waiting
  <2> QED
    BY <1>1, <1>3, <2>1
<1> QED
  BY <1>1, <1>2, <1>3

\* What an accept does to it.
LEMMA Leaving ==
    ASSUME queue \in Seq(Sessions), queue # <<>>, queue' = Tail(queue),
           \A i, j \in DOMAIN queue : queue[i] = queue[j] => i = j
    PROVE  /\ Head(queue) \in Sessions /\ queue' \in Seq(Sessions)
           /\ Waiting = Waiting' \cup {Head(queue)}
           /\ Head(queue) \notin Waiting'
           /\ \A i, j \in DOMAIN queue' : queue'[i] = queue'[j] => i = j
<1>1. /\ queue' \in Seq(Sessions) /\ Len(queue) \in Nat \ {0}
      /\ DOMAIN queue = 1..Len(queue) /\ DOMAIN queue' = 1..(Len(queue) - 1)
      /\ \A i \in 1..(Len(queue) - 1) : queue'[i] = queue[i + 1]
      /\ Head(queue) = queue[1] /\ queue[1] \in Sessions
  OBVIOUS
<1>2. Waiting = Waiting' \cup {Head(queue)}
  <2>1. ASSUME NEW i \in DOMAIN queue PROVE queue[i] \in Waiting' \cup {Head(queue)}
    <3>1. CASE i = 1
      BY <1>1, <3>1
    <3>2. CASE i # 1
      <4>1. i - 1 \in DOMAIN queue' /\ queue'[i - 1] = queue[i]
        BY <1>1, <3>2
      <4> QED
        BY <4>1 DEF Waiting
    <3> QED
      BY <3>1, <3>2
  <2>2. ASSUME NEW i \in DOMAIN queue' PROVE queue'[i] \in Waiting
    <3>1. i + 1 \in DOMAIN queue /\ queue'[i] = queue[i + 1]
      BY <1>1
    <3> QED
      BY <3>1 DEF Waiting
  <2>3. Head(queue) \in Waiting
    <3>1. 1 \in DOMAIN queue
      BY <1>1
    <3> QED
      BY <1>1, <3>1 DEF Waiting
  <2> QED
    BY <2>1, <2>2, <2>3 DEF Waiting
<1>3. ASSUME NEW i \in DOMAIN queue' PROVE queue'[i] # Head(queue)
  <2>1. i + 1 \in DOMAIN queue /\ 1 \in DOMAIN queue /\ i + 1 # 1 /\ queue'[i] = queue[i + 1]
    BY <1>1
  <2> QED
    BY <1>1, <2>1
<1>4. ASSUME NEW i \in DOMAIN queue', NEW j \in DOMAIN queue', queue'[i] = queue'[j]
      PROVE  i = j
  <2>1. i + 1 \in DOMAIN queue /\ j + 1 \in DOMAIN queue /\ queue[i + 1] = queue[j + 1]
    BY <1>1, <1>4
  <2>2. i + 1 = j + 1
    BY <2>1
  <2> QED
    BY <1>1, <2>2
<1> QED
  BY <1>1, <1>2, <1>3, <1>4 DEF Waiting

-----------------------------------------------------------------------------
(* The types. *)

LEMMA SetupTypes ==
    ASSUME TypeOK
    PROVE  /\ \A c \in Clients : Count(c) \in Nat /\ setup.opts[c] \in OptionRecords
           /\ \A c \in Clients : Current(c) \in Sessions
           /\ serving[1] \in Clients
BY SetupsAssumption DEF TypeOK, Count, OptionRecords, Current, Sessions

\* The end of a session, or of the loader, in terms of places.
LEMMA SessionOver ==
    ASSUME TypeOK, Places, spc \notin {"accept", "gone"}, UNCHANGED setup,
           EndSession \/ ProcessEnds
    PROVE  /\ Places'
           /\ Active = {serving} /\ Active' = {}
           /\ Asked' = Asked
           /\ \/ spc' = "accept" /\ closed' = closed \cup {serving} /\ UNCHANGED queue
              \/ spc' = "gone" /\ closed' = Asked /\ queue' = <<>>
           /\ over' = over \cup {serving}
           /\ closed' \subseteq Sessions /\ over' \subseteq Sessions
           /\ queue' \in Seq(Sessions)
           /\ UNCHANGED <<serving, opened>>
<1>1. Active = {serving} /\ Waiting \subseteq Sessions
  BY DEF Active, Waiting, TypeOK
<1>2. CASE ProcessEnds
  <2>1. Waiting' = {} /\ Active' = {} /\ queue' = <<>>
    BY <1>2 DEF ProcessEnds, Waiting, Active
  <2>2. closed' = Asked /\ spc' = "gone"
    BY <1>1, <1>2 DEF ProcessEnds, Asked
  <2> QED
    BY <1>1, <1>2, <2>1, <2>2 DEF ProcessEnds, Places, Asked, TypeOK
<1>3. CASE ~ProcessEnds
  <2>1. /\ spc' = "accept" /\ closed' = closed \cup {serving}
        /\ over' = over \cup {serving} /\ UNCHANGED <<queue, serving, opened>>
    BY <1>3 DEF EndSession
  <2>2. Waiting' = Waiting /\ Active' = {}
    BY <2>1 DEF Waiting, Active
  <2> QED
    BY <1>1, <2>1, <2>2 DEF Places, Asked, TypeOK
<1> QED
  BY <1>2, <1>3

\* The end of a round keeps the client's part of the types.
LEMMA RoundOverTypes ==
    ASSUME TypeOK, NEW c \in Clients, NEW how \in {"ok", "err"}, EndRound(c, how)
    PROVE  /\ cpc' \in [Clients -> CPCs]
           /\ round' \in [Clients -> 1..Rounds]
           /\ links' \in [Clients -> SUBSET (Sessions \X Nat)]
           /\ recorded' \in [Sessions -> {"none", "ok", "err"}]
           /\ left' \subseteq Sessions
<1>1. Current(c) \in Sessions
  BY SetupTypes
<1>2. recorded' \in [Sessions -> {"none", "ok", "err"}] /\ left' \subseteq Sessions
  BY <1>1 DEF TypeOK, EndRound
<1>3. links' \in [Clients -> SUBSET (Sessions \X Nat)]
  BY DEF TypeOK, EndRound
<1>4. CASE round[c] < Rounds
  <2>1. round[c] + 1 \in 1..Rounds
    BY <1>4 DEF TypeOK
  <2>2. round' = [round EXCEPT ![c] = round[c] + 1] /\ cpc' = [cpc EXCEPT ![c] = "connect"]
    BY <1>4 DEF EndRound, Goto
  <2> QED
    BY <1>2, <1>3, <2>1, <2>2 DEF TypeOK, CPCs
<1>5. CASE ~(round[c] < Rounds)
  <2>1. UNCHANGED round /\ cpc' = [cpc EXCEPT ![c] = "done"]
    BY <1>5 DEF EndRound, Goto
  <2> QED
    BY <1>2, <1>3, <2>1 DEF TypeOK, CPCs
<1> QED
  BY <1>4, <1>5

LEMMA TypesInv ==
    ASSUME TypeOK, Places, Results, [Next]_vars
    PROVE  TypeOK'
<1> USE SetupTypes
<1>1. ASSUME NEW c \in Clients, ConnectControl(c) PROVE TypeOK'
  <2>1. Current(c) \in Sessions
    OBVIOUS
  <2>2. queue' \in Seq(Sessions)
    BY <1>1, <2>1 DEF ConnectControl, TypeOK
  <2>3. cpc' \in [Clients -> CPCs]
    BY <1>1 DEF ConnectControl, Goto, TypeOK, CPCs
  <2> QED
    BY <1>1, <2>2, <2>3 DEF ConnectControl, TypeOK, serverVars, Count
<1>2. ASSUME NEW c \in Clients,
             ConnectRefused(c) \/ SendFails(c) \/ FuncRaises(c)
      PROVE  TypeOK'
  <2>1. EndRound(c, "err") /\ UNCHANGED <<setup, request, serverVars, queue, coming, got>>
    BY <1>2 DEF ConnectRefused, SendFails, FuncRaises
  <2> QED
    BY <2>1, RoundOverTypes DEF TypeOK, serverVars, Count
<1>3. ASSUME NEW c \in Clients, ReadyToConnect(c) PROVE TypeOK'
  BY <1>3 DEF ReadyToConnect, Goto, TypeOK, CPCs, serverVars, Count
<1>4. ASSUME NEW c \in Clients, AcceptEnds(c) \/ TestEnds(c) \/ BindIgnored(c) PROVE TypeOK'
  BY <1>4 DEF AcceptEnds, TestEnds, BindIgnored, Goto, TypeOK, CPCs, serverVars, Count
<1>5. ASSUME NEW c \in Clients, RecvResult(c) PROVE TypeOK'
  <2>1. PICK how \in {"ok", "err"} : EndRound(c, how)
    BY <1>5 DEF RecvResult
  <2>2. UNCHANGED <<setup, request, serverVars, queue, coming, got>>
    BY <1>5 DEF RecvResult
  <2> QED
    BY <2>1, <2>2, RoundOverTypes DEF TypeOK, serverVars, Count
<1>14. ASSUME NEW c \in Clients, Dies(c) PROVE TypeOK'
  <2>1. left' \subseteq Sessions /\ cpc' \in [Clients -> CPCs]
    BY <1>14 DEF Dies, Goto, TypeOK, CPCs
  <2>2. links' \in [Clients -> SUBSET (Sessions \X Nat)]
    BY <1>14 DEF Dies, TypeOK
  <2> QED
    BY <1>14, <2>1, <2>2 DEF Dies, TypeOK, serverVars, Count
<1>6. CASE AcceptControl
  <2>1. queue' \in Seq(Sessions) /\ serving' \in Sessions /\ serving'[1] \in Clients
    BY <1>6, Leaving DEF AcceptControl, TypeOK, Places, Sessions
  <2>2. opened' = 0 /\ spc' = "poll" /\ UNCHANGED <<setup, clientVars, over, closed, coming, got>>
    BY <1>6 DEF AcceptControl
  <2>3. opened' \in (0..Count(serving[1]))'
    <3>1. Count(serving'[1]) \in Nat
      BY <2>1
    <3> QED
      BY <2>2, <3>1 DEF Count
  <2> QED
    BY <2>1, <2>2, <2>3 DEF TypeOK, SPCs, clientVars
<1>7. CASE GetRequest
  BY <1>7 DEF GetRequest, TypeOK, SPCs, clientVars, Count
<1>8. CASE RefuseRequest \/ RequestTimesOut \/ LinkRefused \/ ConnectFails
  <2>1. /\ spc \notin {"accept", "gone"} /\ EndSession
        /\ UNCHANGED <<setup, clientVars, coming, got>>
    BY <1>8 DEF RefuseRequest, RequestTimesOut, LinkRefused, ConnectFails
  <2> QED
    BY <2>1, SessionOver DEF TypeOK, SPCs, clientVars, Count
<1>9. CASE Link
  <2>3. /\ opened \in 0..Count(serving[1]) /\ Count(serving[1]) \in Nat
        /\ opened < Count(serving[1]) /\ opened' = opened + 1
    BY <1>9 DEF Link, MoreToLink, TypeOK
  <2>1. opened' \in 0..Count(serving[1]) /\ opened' \in Nat
    BY <2>3
  <2>2. links' \in [Clients -> SUBSET (Sessions \X Nat)]
    BY <1>9, <2>1 DEF Link, TypeOK
  <2> QED
    BY <1>9, <2>1, <2>2 DEF Link, TypeOK, Count
<1>10. CASE StartRun \/ RunEnds \/ RunHangs
  <2>1. /\ spc \notin {"accept", "gone"} /\ UNCHANGED <<setup, clientVars, coming, got>>
        /\ \/ ProcessEnds
           \/ /\ spc' \in {"run", "stuck", "write"} /\ over' \in {over, over \cup {serving}}
              /\ UNCHANGED <<serving, queue, opened, closed>>
    BY <1>10 DEF StartRun, RunEnds, RunHangs
  <2> QED
    BY <2>1, SessionOver DEF TypeOK, SPCs, clientVars, Count
<1>11. CASE WriteResult
  <2>1. /\ spc \notin {"accept", "gone"} /\ EndSession
        /\ UNCHANGED <<setup, clientVars, got>>
        /\ coming' = [coming EXCEPT ![serving] = RespLen]
    BY <1>11 DEF WriteResult
  <2>2. coming' \in [Sessions -> 0..RespLen]
    BY <2>1 DEF TypeOK
  <2> QED
    BY <2>1, <2>2, SessionOver DEF TypeOK, SPCs, clientVars, Count
<1>12. ASSUME NEW s \in Sessions, DeliverResult(s) PROVE TypeOK'
  <2>1. PICK n \in 1..coming[s] :
            /\ coming' = [coming EXCEPT ![s] = @ - n]
            /\ got' = [got EXCEPT ![s] = @ + n]
    BY <1>12 DEF DeliverResult
  <2>4. coming[s] \in Nat /\ got[s] \in Nat /\ n \in Nat /\ n <= coming[s]
    BY <2>1 DEF TypeOK
  <2>5. coming[s] + got[s] \in {0, RespLen}
    BY DEF Results
  <2>2. /\ coming[s] \in Nat /\ got[s] \in Nat /\ coming[s] + got[s] <= RespLen
        /\ n \in Nat /\ n <= coming[s]
    BY <2>4, <2>5
  <2>3. coming[s] - n \in 0..RespLen /\ got[s] + n \in 0..RespLen
    BY <2>2
  <2> QED
    BY <1>12, <2>1, <2>3 DEF DeliverResult, TypeOK, clientVars, serverVars, Count
<1>13. CASE UNCHANGED vars
  BY <1>13 DEF vars, TypeOK, clientVars, serverVars, Count
<1> QED
  BY <1>1, <1>2, <1>3, <1>4, <1>5, <1>6, <1>7, <1>8, <1>9, <1>10, <1>11, <1>12, <1>13, <1>14
  DEF Next, Server, Client

-----------------------------------------------------------------------------
(* The inductive invariant. *)

\* Sessions only move from place to place, but for a new control connection.
LEMMA PlacesInv ==
    ASSUME RoundsInv, [Next]_vars
    PROVE  /\ Places'
           /\ \/ Asked' = Asked
              \/ \E c \in Clients : ConnectControl(c) /\ Asked' = Asked \cup {Current(c)}
<1> USE DEF RoundsInv
<1>1. ASSUME NEW c \in Clients, ConnectControl(c)
      PROVE  Places' /\ Asked' = Asked \cup {Current(c)}
  <2>1. Current(c) \in Sessions /\ Current(c) \notin Asked
    BY <1>1, SetupTypes DEF ConnectControl, Turns
  <2>2. queue' = Append(queue, Current(c)) /\ UNCHANGED <<spc, serving, closed>> /\ spc # "gone"
    BY <1>1 DEF ConnectControl, serverVars
  <2>3. queue \in Seq(Sessions)
    BY DEF TypeOK
  <2>4. /\ Waiting' = Waiting \cup {Current(c)}
        /\ \A i, j \in DOMAIN queue' : queue'[i] = queue'[j] => i = j
    BY <2>1, <2>2, <2>3, Joining DEF Places, Asked
  <2>5. Active' = Active
    BY <2>2 DEF Active
  <2> QED
    BY <2>1, <2>2, <2>4, <2>5 DEF Places, Asked
<1>2. CASE AcceptControl
  <2>1. /\ queue # <<>> /\ queue' = Tail(queue) /\ serving' = Head(queue)
        /\ spc = "accept" /\ spc' = "poll" /\ UNCHANGED closed
    BY <1>2 DEF AcceptControl
  <2>2. /\ Waiting = Waiting' \cup {Head(queue)} /\ Head(queue) \notin Waiting'
        /\ \A i, j \in DOMAIN queue' : queue'[i] = queue'[j] => i = j
    BY <2>1, Leaving DEF TypeOK, Places
  <2>3. Active = {} /\ Active' = {Head(queue)}
    BY <2>1 DEF Active
  <2> QED
    BY <2>1, <2>2, <2>3 DEF Places, Asked
<1>3. CASE RefuseRequest \/ RequestTimesOut \/ LinkRefused \/ ConnectFails \/ WriteResult
  <2>1. spc \notin {"accept", "gone"} /\ EndSession /\ UNCHANGED setup
    BY <1>3 DEF RefuseRequest, RequestTimesOut, LinkRefused, ConnectFails, WriteResult
  <2> QED
    BY <2>1, SessionOver
<1>4. CASE StartRun \/ RunEnds \/ RunHangs
  <2>1. /\ spc \notin {"accept", "gone"} /\ UNCHANGED setup
        /\ \/ ProcessEnds
           \/ spc' \in {"run", "stuck", "write"} /\ UNCHANGED <<serving, queue, closed>>
    BY <1>4 DEF StartRun, RunEnds, RunHangs
  <2>2. CASE ProcessEnds
    BY <2>1, <2>2, SessionOver
  <2>3. CASE ~ProcessEnds
    <3>1. Active' = Active /\ Waiting' = Waiting
      BY <2>1, <2>3 DEF Active, Waiting
    <3> QED
      BY <2>1, <2>3, <3>1 DEF Places, Asked
  <2> QED
    BY <2>2, <2>3
<1>5. ASSUME UNCHANGED <<serving, queue, closed>>,
             UNCHANGED spc \/ (spc = "poll" /\ spc' = "connect")
      PROVE  Places' /\ Asked' = Asked
  <2>1. Active' = Active /\ Waiting' = Waiting
    BY <1>5 DEF Active, Waiting
  <2> QED
    BY <1>5, <2>1 DEF Places, Asked
<1>6. CASE GetRequest \/ Link
  BY <1>5, <1>6 DEF GetRequest, Link
<1>7. ASSUME NEW c \in Clients,
             \/ ConnectRefused(c) \/ ReadyToConnect(c) \/ SendFails(c) \/ AcceptEnds(c)
             \/ TestEnds(c) \/ RecvResult(c) \/ FuncRaises(c) \/ BindIgnored(c) \/ Dies(c)
      PROVE  Places' /\ Asked' = Asked
  BY <1>5, <1>7 DEF ConnectRefused, ReadyToConnect, SendFails, AcceptEnds, TestEnds,
                    RecvResult, FuncRaises, BindIgnored, Dies, serverVars
<1>8. ASSUME NEW s \in Sessions, DeliverResult(s) PROVE Places' /\ Asked' = Asked
  BY <1>5, <1>8 DEF DeliverResult, serverVars
<1>9. CASE UNCHANGED vars
  BY <1>5, <1>9 DEF vars, serverVars
<1> QED
  BY <1>1, <1>2, <1>3, <1>4, <1>6, <1>7, <1>8, <1>9 DEF Next, Server, Client

\* A step that ends no round and asks for none.
LEMMA TurnsKept ==
    ASSUME RoundsInv, Asked' = Asked, UNCHANGED <<round, recorded>>,
           \A c \in Clients :
                \/ cpc'[c] \in {cpc[c], "done"}
                \/ {cpc[c], cpc'[c]} \subseteq CPCs \ {"connect", "done"}
    PROVE  Turns'
BY DEF RoundsInv, Turns, Current, CPCs

\* The end of a client's round.
LEMMA RoundOver ==
    ASSUME RoundsInv, NEW c \in Clients, NEW how \in {"ok", "err"}, EndRound(c, how),
           cpc[c] # "done", Asked' = Asked
    PROVE  Turns'
<1>1. Current(c) \in Sessions /\ round[c] \in 1..Rounds /\ Current(c) = <<c, round[c]>>
  BY SetupTypes DEF RoundsInv, TypeOK, Current
<1>2. recorded' = [recorded EXCEPT ![Current(c)] = how]
  BY DEF EndRound
<1>3. /\ recorded'[Current(c)] = how
      /\ \A s \in Sessions : s # Current(c) => recorded'[s] = recorded[s]
  BY <1>1, <1>2 DEF RoundsInv, TypeOK
<1>4. \A d \in Clients : d # c => cpc'[d] = cpc[d] /\ round'[d] = round[d]
  BY DEF EndRound, Goto, RoundsInv, TypeOK
<1>5. \/ round'[c] = round[c] + 1 /\ round[c] < Rounds /\ cpc'[c] = "connect"
      \/ round'[c] = round[c] /\ cpc'[c] = "done"
  BY DEF EndRound, Goto, RoundsInv, TypeOK
<1>6. ASSUME NEW d \in Clients, d # c
      PROVE  /\ \A i \in 1..Rounds :
                /\ i > round'[d] => <<d, i>> \notin Asked' /\ recorded'[<<d, i>>] = "none"
                /\ i < round'[d] => recorded'[<<d, i>>] # "none"
             /\ cpc'[d] # "done" => recorded'[<<d, round'[d]>>] = "none"
             /\ cpc'[d] = "connect" => <<d, round'[d]>> \notin Asked'
             /\ cpc'[d] \notin {"connect", "done"} => <<d, round'[d]>> \in Asked'
  <2>1. \A i \in 1..Rounds : <<d, i>> \in Sessions /\ <<d, i>> # Current(c)
    BY <1>1, <1>6 DEF Sessions
  <2>2. round[d] \in 1..Rounds
    BY DEF RoundsInv, TypeOK
  <2> QED
    BY <1>3, <1>4, <1>6, <2>1, <2>2 DEF RoundsInv, Turns, Current
<1>7. /\ \A i \in 1..Rounds :
                /\ i > round'[c] => <<c, i>> \notin Asked' /\ recorded'[<<c, i>>] = "none"
                /\ i < round'[c] => recorded'[<<c, i>>] # "none"
      /\ cpc'[c] # "done" => recorded'[<<c, round'[c]>>] = "none"
      /\ cpc'[c] = "connect" => <<c, round'[c]>> \notin Asked'
      /\ cpc'[c] \in {"connect", "done"}
  <2>1. \A i \in 1..Rounds : <<c, i>> \in Sessions /\ (i # round[c] => <<c, i>> # Current(c))
    BY <1>1 DEF Sessions
  <2>2. \A i \in 1..Rounds :
            /\ i > round[c] => <<c, i>> \notin Asked' /\ recorded'[<<c, i>>] = "none"
            /\ i < round[c] => recorded'[<<c, i>>] # "none"
    BY <1>1, <1>3, <2>1 DEF RoundsInv, Turns
  <2>3. recorded'[<<c, round[c]>>] # "none"
    BY <1>1, <1>3
  <2>4. CASE round'[c] = round[c] + 1 /\ round[c] < Rounds /\ cpc'[c] = "connect"
    BY <1>1, <2>2, <2>3, <2>4
  <2>5. CASE round'[c] = round[c] /\ cpc'[c] = "done"
    BY <1>1, <2>2, <2>3, <2>5
  <2> QED
    BY <1>5, <2>4, <2>5
<1> QED
  BY <1>6, <1>7 DEF Turns, Current

LEMMA TurnsInv ==
    ASSUME RoundsInv, [Next]_vars
    PROVE  Turns'
<1>1. ASSUME NEW c \in Clients, ConnectControl(c) PROVE Turns'
  <2>1. /\ cpc[c] = "connect" /\ cpc' = [cpc EXCEPT ![c] = "prepare"]
        /\ UNCHANGED <<round, recorded>>
    BY <1>1 DEF ConnectControl, Goto
  <2>2. Asked' = Asked \cup {Current(c)}
    <3>1. queue' = Append(queue, Current(c)) /\ UNCHANGED <<spc, serving, closed>>
      BY <1>1 DEF ConnectControl, serverVars
    <3>2. Waiting' = Waiting \cup {Current(c)}
      BY <3>1, Joining, SetupTypes DEF RoundsInv, TypeOK
    <3> QED
      BY <3>1, <3>2 DEF Asked, Active
  <2>3. round[c] \in 1..Rounds
    BY DEF RoundsInv, TypeOK
  <2> QED
    BY <2>1, <2>2, <2>3 DEF RoundsInv, TypeOK, Turns, Current
<1>2. ASSUME NEW c \in Clients, ConnectControl(c) \/ ConnectRefused(c) \/ SendFails(c)
                \/ FuncRaises(c) \/ RecvResult(c) \/ ReadyToConnect(c) \/ AcceptEnds(c)
                \/ TestEnds(c) \/ BindIgnored(c) \/ Dies(c),
             ~ConnectControl(c)
      PROVE  Turns'
  <2>1. Asked' = Asked
    BY <1>2 DEF ConnectRefused, SendFails, FuncRaises, RecvResult, ReadyToConnect,
                AcceptEnds, TestEnds, BindIgnored, Dies, serverVars, Asked, Waiting, Active
  <2>2. CASE ConnectRefused(c) \/ SendFails(c) \/ FuncRaises(c) \/ RecvResult(c)
    <3>1. cpc[c] # "done" /\ \E how \in {"ok", "err"} : EndRound(c, how)
      BY <2>2 DEF ConnectRefused, SendFails, FuncRaises, RecvResult
    <3> QED
      BY <2>1, <3>1, RoundOver
  <2>4. CASE Dies(c)
    <3>1. UNCHANGED <<round, recorded>> /\ cpc' = [cpc EXCEPT ![c] = "done"]
      BY <2>4 DEF Dies, Goto
    <3>2. \A d \in Clients : cpc'[d] \in {cpc[d], "done"}
      BY <3>1 DEF RoundsInv, TypeOK
    <3> QED
      BY <2>1, <3>1, <3>2, TurnsKept
  <2>3. CASE ReadyToConnect(c) \/ AcceptEnds(c) \/ TestEnds(c) \/ BindIgnored(c)
    <3>1. /\ cpc[c] \in CPCs \ {"connect", "done"} /\ UNCHANGED <<round, recorded>>
          /\ \E pc \in CPCs \ {"connect", "done"} : cpc' = [cpc EXCEPT ![c] = pc]
      BY <2>3 DEF ReadyToConnect, AcceptEnds, TestEnds, BindIgnored, Goto, CPCs
    <3>2. \A d \in Clients : \/ cpc'[d] \in {cpc[d], "done"}
                             \/ {cpc[d], cpc'[d]} \subseteq CPCs \ {"connect", "done"}
      BY <3>1 DEF RoundsInv, TypeOK
    <3> QED
      BY <2>1, <3>1, <3>2, TurnsKept
  <2> QED
    BY <1>2, <2>2, <2>3, <2>4
<1>3. ASSUME UNCHANGED <<cpc, round, recorded>>,
             \A c \in Clients : ~ConnectControl(c)
      PROVE  Turns'
  <2>1. Asked' = Asked
    BY <1>3, PlacesInv
  <2> QED
    BY <1>3, <2>1, TurnsKept
<1>4. ASSUME NEW c \in Clients, ConnectControl(c) PROVE ~UNCHANGED cpc
  BY <1>4 DEF ConnectControl, Goto, RoundsInv, TypeOK
<1>5. CASE Server \/ ConnectFails \/ RunHangs \/ \E s \in Sessions : DeliverResult(s)
  <2>1. CASE Link
    BY <1>3, <1>4, <2>1 DEF Link
  <2>2. CASE ~Link
    BY <1>3, <1>4, <1>5, <2>2 DEF Server, AcceptControl, GetRequest, RefuseRequest,
       RequestTimesOut, LinkRefused, ConnectFails, StartRun, RunEnds, RunHangs, WriteResult,
       DeliverResult, clientVars
  <2> QED
    BY <2>1, <2>2
<1>6. CASE UNCHANGED vars
  BY <1>3, <1>4, <1>6 DEF vars, clientVars
<1> QED
  BY <1>1, <1>2, <1>5, <1>6 DEF Next, Client

\* With no result moved.
LEMMA ResultsKept ==
    ASSUME Results, UNCHANGED <<coming, got>>, closed \subseteq closed'
    PROVE  Results'
BY DEF Results

LEMMA ResultsInv ==
    ASSUME RoundsInv, [Next]_vars
    PROVE  Results'
<1> USE DEF RoundsInv
<1>3. CASE WriteResult
  <2>1. /\ coming' = [coming EXCEPT ![serving] = RespLen] /\ UNCHANGED got
        /\ spc \notin {"accept", "gone"} /\ EndSession /\ UNCHANGED setup
    BY <1>3 DEF WriteResult, clientVars
  <2>2. closed \cup {serving} \subseteq closed' /\ serving \notin closed /\ serving \in Sessions
    BY <2>1, SessionOver DEF Places, TypeOK, Asked
  <2>3. got[serving] = 0
    <3>1. coming[serving] \in Nat /\ got[serving] \in Nat /\ ~(coming[serving] + got[serving] > 0)
      BY <2>2 DEF Results, TypeOK
    <3> QED
      BY <3>1
  <2> SUFFICES ASSUME NEW s \in Sessions
               PROVE  /\ coming'[s] + got'[s] \in {0, RespLen}
                      /\ coming'[s] + got'[s] > 0 => s \in closed'
    BY DEF Results
  <2>4. CASE s = serving
    <3>1. coming'[s] = RespLen /\ got'[s] = 0
      BY <2>1, <2>2, <2>3, <2>4 DEF TypeOK
    <3> QED
      BY <2>2, <2>4, <3>1
  <2>5. CASE s # serving
    <3>1. coming'[s] = coming[s] /\ got'[s] = got[s]
      BY <2>1, <2>5 DEF TypeOK
    <3> QED
      BY <2>2, <3>1 DEF Results
  <2> QED
    BY <2>4, <2>5
<1>4. ASSUME NEW s \in Sessions, DeliverResult(s) PROVE Results'
  <2>1. PICK n \in 1..coming[s] :
            /\ coming' = [coming EXCEPT ![s] = @ - n]
            /\ got' = [got EXCEPT ![s] = @ + n]
    BY <1>4 DEF DeliverResult
  <2>2. UNCHANGED closed
    BY <1>4 DEF DeliverResult, serverVars
  <2>3. \A t \in Sessions : coming'[t] + got'[t] = coming[t] + got[t]
    <3> SUFFICES ASSUME NEW t \in Sessions PROVE coming'[t] + got'[t] = coming[t] + got[t]
      OBVIOUS
    <3>1. coming[t] \in Nat /\ got[t] \in Nat /\ n \in Nat
      BY <2>1 DEF TypeOK
    <3>2. CASE t = s
      <4>1. coming'[t] = coming[t] - n /\ got'[t] = got[t] + n
        BY <2>1, <3>2 DEF TypeOK
      <4> QED
        BY <3>1, <4>1
    <3>3. CASE t # s
      BY <2>1, <3>3 DEF TypeOK
    <3> QED
      BY <3>2, <3>3
  <2> QED
    BY <2>2, <2>3 DEF Results
<1>6. ASSUME NEW c \in Clients,
             \/ Client(c) \/ SendFails(c) \/ FuncRaises(c) \/ BindIgnored(c) \/ Dies(c)
      PROVE  Results'
  BY <1>6, ResultsKept DEF Client, ConnectControl, ConnectRefused, ReadyToConnect, AcceptEnds,
     TestEnds, RecvResult, SendFails, FuncRaises, BindIgnored, Dies, serverVars
<1>7. CASE RefuseRequest \/ RequestTimesOut \/ LinkRefused \/ ConnectFails
  <2>1. /\ spc \notin {"accept", "gone"} /\ EndSession
        /\ UNCHANGED <<setup, coming, got>>
    BY <1>7 DEF RefuseRequest, RequestTimesOut, LinkRefused, ConnectFails
  <2> QED
    BY <2>1, SessionOver, ResultsKept DEF Asked
<1>8. CASE StartRun \/ RunEnds \/ RunHangs
  <2>1. /\ spc \notin {"accept", "gone"} /\ UNCHANGED <<setup, coming, got>>
        /\ ProcessEnds \/ UNCHANGED closed
    BY <1>8 DEF StartRun, RunEnds, RunHangs
  <2> QED
    BY <2>1, SessionOver, ResultsKept DEF Asked
<1>9. CASE AcceptControl \/ GetRequest \/ Link
  BY <1>9, ResultsKept DEF AcceptControl, GetRequest, Link
<1>10. CASE UNCHANGED vars
  BY <1>10, ResultsKept DEF vars, serverVars
<1> QED
  BY <1>3, <1>4, <1>6, <1>7, <1>8, <1>9, <1>10 DEF Next, Server

LEMMA InitInv == Init => RoundsInv
<1> SUFFICES ASSUME Init PROVE RoundsInv
  OBVIOUS
<1>1. Waiting = {} /\ Active = {} /\ Asked = {}
  BY DEF Init, Waiting, Active, Asked
<1>2. Sessions # {}
  <2>1. PICK c \in Clients : TRUE
    BY ClientsAssumption
  <2>2. <<c, 1>> \in Sessions
    BY DEF Sessions
  <2> QED
    BY <2>2
<1>3. serving \in Sessions /\ serving[1] \in Clients
  BY <1>2 DEF Init, Sessions
<1>4. Count(serving[1]) \in Nat
  BY <1>3, SetupsAssumption DEF Init, Count, OptionRecords
<1>5. queue \in Seq(Sessions)
  BY DEF Init
<1>6. cpc \in [Clients -> CPCs] /\ round \in [Clients -> 1..Rounds]
  BY DEF Init, CPCs
<1>7. TypeOK
  BY <1>3, <1>4, <1>5, <1>6 DEF Init, TypeOK, SPCs
<1>8. Places
  BY <1>1 DEF Init, Places
<1>9. Turns
  <2> SUFFICES ASSUME NEW c \in Clients
               PROVE  /\ \A i \in 1..Rounds :
                        /\ i > round[c] => <<c, i>> \notin Asked /\ recorded[<<c, i>>] = "none"
                        /\ i < round[c] => recorded[<<c, i>>] # "none"
                      /\ cpc[c] # "done" => recorded[Current(c)] = "none"
                      /\ cpc[c] = "connect" => Current(c) \notin Asked
                      /\ cpc[c] \notin {"connect", "done"} => Current(c) \in Asked
    BY DEF Turns
  <2>1. round[c] = 1 /\ cpc[c] \in {"connect", "done"} /\ Current(c) \in Sessions
    BY <1>7, SetupTypes DEF Init
  <2> QED
    BY <1>1, <2>1 DEF Init, Sessions
<1>10. Results
  BY DEF Init, Results
<1> QED
  BY <1>7, <1>8, <1>9, <1>10 DEF RoundsInv

LEMMA StepInv == RoundsInv /\ [Next]_vars => RoundsInv'
BY TypesInv, PlacesInv, TurnsInv, ResultsInv DEF RoundsInv

LEMMA Invariance == Spec => []RoundsInv
BY InitInv, StepInv, PTL DEF Spec

\* TypeOK, for all clients, rounds and options: in particular the loader never
\* makes more connections than its client asked for.
THEOREM TypeCorrect == Spec => []TypeOK
<1>1. RoundsInv => TypeOK
  BY DEF RoundsInv
<1> QED
  BY Invariance, <1>1, PTL

-----------------------------------------------------------------------------
(* The refinement. *)

LEMMA InitRefines == Init => Promise!Init
<1> SUFFICES ASSUME Init PROVE Promise!Init
  OBVIOUS
<1>1. Waiting = {} /\ Active = {} /\ Asked = {} /\ Up = TRUE
  BY DEF Init, Waiting, Active, Asked, Up
<1>2. Answered = {}
  BY DEF Init, Answered
<1>3. Promise!Rnds = Sessions
  BY DEF Promise!Rnds, Sessions
<1> QED
  BY <1>1, <1>2, <1>3 DEF Init, Promise!Init

\* A step that shows nothing.
LEMMA QuietStep ==
    ASSUME UNCHANGED <<Up, Asked, Active, closed, Answered, recorded>>
    PROVE  UNCHANGED Promise!vars
BY DEF Promise!vars

\* The end of a round of a client that has asked for it, or cannot.
LEMMA RoundJudged ==
    ASSUME RoundsInv, NEW c \in Clients, NEW how \in {"ok", "err"}, EndRound(c, how),
           cpc[c] # "done", Current(c) \in Asked \/ ~Up,
           UNCHANGED <<Up, Asked, Active, closed, Answered>>,
           how = "ok" => Current(c) \in Answered
    PROVE  Promise!Next
<1>1. Current(c) \in Promise!Rnds
  BY SetupTypes DEF RoundsInv, Promise!Rnds, Sessions
<1>2. recorded[Current(c)] = "none" /\ recorded' = [recorded EXCEPT ![Current(c)] = how]
  BY DEF RoundsInv, Turns, EndRound
<1>3. Promise!Judge(Current(c))
  BY <1>2 DEF Promise!Judge
<1> QED
  BY <1>1, <1>3 DEF Promise!Next

\* The end of a session: with -s or a crash, of all that were asked for.
LEMMA SessionFinished ==
    ASSUME RoundsInv, spc \notin {"accept", "gone"}, UNCHANGED <<setup, recorded>>,
           EndSession \/ ProcessEnds,
           Answered' \in {Answered, Answered \cup {serving}}
    PROVE  Promise!Next
<1>1. /\ Active = {serving} /\ Active' = {} /\ Asked' = Asked
      /\ \/ spc' = "accept" /\ closed' = closed \cup {serving}
         \/ spc' = "gone" /\ closed' = Asked
  BY SessionOver DEF RoundsInv
<1>2. serving \in Promise!Rnds
  BY DEF RoundsInv, TypeOK, Promise!Rnds, Sessions
<1>3. \/ closed' = closed \cup {serving} /\ Up' = Up
      \/ closed' = Asked /\ Up' = FALSE
  BY <1>1 DEF Up
<1>4. Promise!Finish(serving)
  BY <1>1, <1>3 DEF Promise!Finish
<1> QED
  BY <1>2, <1>4 DEF Promise!Next

LEMMA NextRefines ==
    ASSUME RoundsInv, RoundsInv', [Next]_vars
    PROVE  [Promise!Next]_(Promise!vars)
<1>1. ASSUME NEW c \in Clients, ConnectControl(c) PROVE Promise!Next
  <2>1. /\ cpc[c] = "connect" /\ spc # "gone" /\ queue' = Append(queue, Current(c))
        /\ UNCHANGED <<spc, serving, closed, coming, got, recorded, round>>
    BY <1>1 DEF ConnectControl, serverVars
  <2>2. Current(c) \in Sessions /\ round[c] \in 1..Rounds
    BY SetupTypes DEF RoundsInv, TypeOK
  <2>3. Asked' = Asked \cup {Current(c)} /\ Active' = Active
    BY <2>1, <2>2, Joining DEF RoundsInv, TypeOK, Asked, Active
  <2>4. Answered' = Answered /\ Up /\ Up' = Up
    BY <2>1 DEF Answered, Up
  <2>5. Current(c) \notin Asked /\ recorded[Current(c)] = "none"
    BY <2>1 DEF RoundsInv, Turns
  <2>6. \A i \in 1..(Current(c)[2] - 1) : recorded[<<Current(c)[1], i>>] # "none"
    BY <2>2 DEF RoundsInv, Turns, Current
  <2>7. Promise!Ask(Current(c))
    BY <2>1, <2>3, <2>4, <2>5, <2>6 DEF Promise!Ask
  <2> QED
    BY <2>2, <2>7 DEF Promise!Next, Promise!Rnds, Sessions
<1>2. ASSUME UNCHANGED <<spc, serving, queue, closed>>
      PROVE  UNCHANGED <<Up, Asked, Active, closed>>
  BY <1>2 DEF Up, Asked, Active, Waiting
<1>3. ASSUME NEW c \in Clients, ConnectRefused(c) \/ SendFails(c) \/ FuncRaises(c)
      PROVE  Promise!Next
  <2>1. /\ EndRound(c, "err") /\ cpc[c] # "done"
        /\ UNCHANGED <<spc, serving, queue, closed, coming, got>>
    BY <1>3 DEF ConnectRefused, SendFails, FuncRaises, serverVars
  <2>2. Current(c) \in Asked \/ ~Up
    <3>1. CASE cpc[c] = "connect"
      BY <1>3, <3>1 DEF ConnectRefused, SendFails, FuncRaises, Up
    <3>2. CASE cpc[c] # "connect"
      BY <2>1, <3>2 DEF RoundsInv, Turns
    <3> QED
      BY <3>1, <3>2
  <2>3. Answered' = Answered
    BY <2>1 DEF Answered
  <2> QED
    BY <1>2, <2>1, <2>2, <2>3, RoundJudged
<1>4. ASSUME NEW c \in Clients, RecvResult(c) PROVE Promise!Next
  <2> DEFINE how == IF Reports(Current(c)) THEN "ok" ELSE "err"
  <2>1. /\ cpc[c] = "recv" /\ EndRound(c, how)
        /\ UNCHANGED <<spc, serving, queue, closed, coming, got>>
    BY <1>4 DEF RecvResult, serverVars
  <2>2. Current(c) \in Sessions /\ Current(c) \in Asked
    BY <2>1, SetupTypes DEF RoundsInv, Turns
  <2>3. coming[Current(c)] \in Nat
    BY <2>2 DEF RoundsInv, TypeOK
  <2>4. Answered' = Answered
    BY <2>1 DEF Answered
  <2>5. how = "ok" => Current(c) \in Answered
    BY <2>2, <2>3 DEF Answered, Reports
  <2>6. how \in {"ok", "err"}
    OBVIOUS
  <2> HIDE DEF how
  <2> QED
    BY <1>2, <2>1, <2>2, <2>4, <2>5, <2>6, RoundJudged
<1>5. ASSUME NEW c \in Clients,
             \/ ReadyToConnect(c) \/ AcceptEnds(c) \/ TestEnds(c) \/ BindIgnored(c) \/ Dies(c)
      PROVE  UNCHANGED Promise!vars
  <2>1. UNCHANGED <<spc, serving, queue, closed, coming, got, recorded>>
    BY <1>5 DEF ReadyToConnect, AcceptEnds, TestEnds, BindIgnored, Dies, serverVars
  <2>2. Answered' = Answered
    BY <2>1 DEF Answered
  <2> QED
    BY <1>2, <2>1, <2>2, QuietStep
<1>6. CASE AcceptControl
  <2>1. /\ spc = "accept" /\ spc' = "poll" /\ queue # <<>> /\ queue' = Tail(queue)
        /\ serving' = Head(queue) /\ UNCHANGED <<closed, coming, got, recorded>>
    BY <1>6 DEF AcceptControl, clientVars
  <2>2. /\ Head(queue) \in Sessions /\ Waiting = Waiting' \cup {Head(queue)}
        /\ Active = {} /\ Active' = {Head(queue)}
    BY <2>1, Leaving DEF RoundsInv, TypeOK, Places, Active
  <2>3. Asked' = Asked /\ Head(queue) \in Asked \ closed
    BY <2>1, <2>2 DEF Asked, RoundsInv, Places
  <2>4. Answered' = Answered /\ Up /\ Up' = Up
    BY <2>1 DEF Answered, Up
  <2>5. Promise!Serve(Head(queue))
    BY <2>1, <2>2, <2>3, <2>4 DEF Promise!Serve
  <2> QED
    BY <2>2, <2>5 DEF Promise!Next, Promise!Rnds, Sessions
<1>7. CASE GetRequest \/ Link \/ RunHangs
  <2>1. UNCHANGED <<Up, Asked, Active>>
    BY <1>7 DEF GetRequest, Link, RunHangs, Up, Asked, Active, Waiting
  <2>2. UNCHANGED <<closed, coming, got, recorded>>
    BY <1>7 DEF GetRequest, Link, RunHangs, clientVars
  <2>3. Answered' = Answered
    BY <2>2 DEF Answered
  <2> QED
    BY <2>1, <2>2, <2>3, QuietStep
<1>8. CASE RefuseRequest \/ RequestTimesOut \/ LinkRefused \/ ConnectFails
  <2>1. /\ spc \notin {"accept", "gone"} /\ EndSession
        /\ UNCHANGED <<setup, recorded, coming, got>>
    BY <1>8 DEF RefuseRequest, RequestTimesOut, LinkRefused, ConnectFails, clientVars
  <2>2. Answered' = Answered
    BY <2>1 DEF Answered
  <2> QED
    BY <2>1, <2>2, SessionFinished
<1>9. CASE StartRun \/ RunEnds
  <2>1. /\ spc \notin {"accept", "gone"} /\ UNCHANGED <<setup, recorded, coming, got>>
        /\ \/ ProcessEnds
           \/ spc' \in {"run", "write"} /\ UNCHANGED <<serving, queue, closed>>
    BY <1>9 DEF StartRun, RunEnds, clientVars
  <2>2. Answered' = Answered
    BY <2>1 DEF Answered
  <2>3. CASE ProcessEnds
    BY <2>1, <2>2, <2>3, SessionFinished
  <2>4. CASE ~ProcessEnds
    <3>1. UNCHANGED <<Up, Asked, Active>>
      BY <2>1, <2>4 DEF Up, Asked, Active, Waiting
    <3> QED
      BY <2>1, <2>2, <2>4, <3>1, QuietStep
  <2> QED
    BY <2>3, <2>4
<1>10. CASE WriteResult
  <2>1. /\ spc \notin {"accept", "gone"} /\ EndSession /\ UNCHANGED <<setup, recorded, got>>
        /\ coming' = [coming EXCEPT ![serving] = RespLen]
    BY <1>10 DEF WriteResult, clientVars
  <2>2. /\ \A s \in Sessions \ {serving} : coming'[s] = coming[s]
        /\ coming'[serving] + got[serving] > 0 /\ serving \in Sessions
    BY <2>1 DEF RoundsInv, TypeOK
  <2>3. Answered' = Answered \cup {serving}
    BY <2>1, <2>2 DEF Answered
  <2> QED
    BY <2>1, <2>3, SessionFinished
<1>11. ASSUME NEW s \in Sessions, DeliverResult(s) PROVE UNCHANGED Promise!vars
  <2>1. PICK n \in 1..coming[s] :
            /\ coming' = [coming EXCEPT ![s] = @ - n]
            /\ got' = [got EXCEPT ![s] = @ + n]
    BY <1>11 DEF DeliverResult
  <2>2. UNCHANGED <<spc, serving, queue, closed, recorded>>
    BY <1>11 DEF DeliverResult, clientVars, serverVars
  <2>3. \A t \in Sessions : coming'[t] + got'[t] > 0 <=> coming[t] + got[t] > 0
    <3> SUFFICES ASSUME NEW t \in Sessions
                 PROVE  coming'[t] + got'[t] > 0 <=> coming[t] + got[t] > 0
      OBVIOUS
    <3>1. coming[t] \in Nat /\ got[t] \in Nat /\ n \in Nat
      BY <2>1 DEF RoundsInv, TypeOK
    <3>2. CASE t = s
      <4>1. coming'[t] = coming[t] - n /\ got'[t] = got[t] + n
        BY <2>1, <3>2 DEF RoundsInv, TypeOK
      <4> QED
        BY <3>1, <4>1
    <3>3. CASE t # s
      BY <2>1, <3>3 DEF RoundsInv, TypeOK
    <3> QED
      BY <3>2, <3>3
  <2>4. Answered' = Answered
    BY <2>2, <2>3 DEF Answered
  <2> QED
    BY <1>2, <2>2, <2>4, QuietStep
<1>12. CASE UNCHANGED vars
  <2>1. UNCHANGED <<spc, serving, queue, closed, coming, got, recorded>>
    BY <1>12 DEF vars, clientVars, serverVars
  <2>2. Answered' = Answered
    BY <2>1 DEF Answered
  <2> QED
    BY <1>2, <2>1, <2>2, QuietStep
<1> QED
  BY <1>1, <1>3, <1>4, <1>5, <1>6, <1>7, <1>8, <1>9, <1>10, <1>11, <1>12
  DEF Next, Server, Client

\* ImplementsRounds, for all clients, rounds, options and failures: each round
\* is tested at most once and by itself, and a recorded result is its own.
THEOREM Refinement == Spec => ImplementsRounds
<1>1. RoundsInv /\ RoundsInv' /\ [Next]_vars => [Promise!Next]_(Promise!vars)
  BY NextRefines
<1> QED
  BY InitRefines, Invariance, <1>1, PTL DEF Spec, ImplementsRounds, Promise!Spec

-----------------------------------------------------------------------------
(* Nobody is left alone. *)

\* What was sent, and by whom.
Requests ==
    /\ \A c \in Clients :
        /\ cpc[c] \in {"connect", "prepare"} => Current(c) \notin request
        /\ cpc[c] = "accept" => Current(c) \in request
        /\ cpc[c] # "done" => Current(c) \notin left /\ Accepted(setup.opts[c])
        /\ \A i \in 1..Rounds : i > round[c] => <<c, i>> \notin request \cup left
    /\ spc \in {"connect", "run", "write"} => serving \in request

\* A client that accepts in the session that is served has accepted every test
\* connection of it, or has enough with those of an earlier one.
Linked ==
    /\ spc = "poll" => opened = 0
    /\ spc \in {"run", "write"} => opened = Count(serving[1])
    /\ \A c \in Clients :
        /\ IsFiniteSet(links[c])
        /\ \A l \in links[c] :
            l[1] \in closed \cup Active /\ (l[1] \in Active => l[2] <= opened)
        /\ spc \in {"connect", "run", "write"} /\ serving = Current(c) /\ cpc[c] = "accept"
            => opened <= Cardinality(links[c])

\* Neither is anybody who is about to accept.
Company ==
    /\ AcceptedIsServed
    /\ \A c \in Clients : cpc[c] = "prepare" /\ Current(c) \in closed => Forsaken(c)

ServedInv == RoundsInv /\ Requests /\ Linked /\ Company

\* What main lets pass the loader accepts, unless a number is below zero.
LEMMA OptionsAgree ==
    ASSUME NEW o \in OptionRecords, Accepted(o), ~Negative(o)
    PROVE  LoadFromStr(Request(o))
<1> USE WordAssumption, AbsentAssumption
<1>1. \A n \in Numbers : n >= 0 => n % Word = n
  BY DEF Numbers
<1>2. Pause(o)[1] \in Numbers /\ Pause(o)[2] \in Numbers
        /\ 0 <= Pause(o)[1] /\ Pause(o)[1] <= Pause(o)[2]
  <2>1. CASE Given(o.max)
    <3>1. Given(o.min)
      BY <2>1 DEF Accepted, HalfGiven
    <3>2. o.max \in Numbers /\ o.min \in Numbers
      BY <2>1, <3>1 DEF Given, OptionRecords
    <3>3. o.min >= 0 /\ ~(o.max < o.min)
      BY <2>1, <3>1, <3>2 DEF Negative, Accepted, WrongOrder, Given, Numbers
    <3> QED
      BY <2>1, <3>2, <3>3 DEF Pause, Numbers
  <2>2. CASE ~Given(o.max)
    <3>1. o.timeout \in Numbers /\ o.timeout >= 0
      BY DEF Negative, OptionRecords, Numbers
    <3> QED
      BY <2>2, <3>1 DEF Pause, Numbers
  <2> QED
    BY <2>1, <2>2
<1>3. Unsigned(Pause(o)[1]) = Pause(o)[1] /\ Unsigned(Pause(o)[2]) = Pause(o)[2]
  BY <1>1, <1>2 DEF Unsigned, Numbers
<1>4. Request(o)[1] = Pause(o)[1] /\ Request(o)[2] = Pause(o)[2]
  BY <1>3 DEF Request
<1> QED
  BY <1>2, <1>4 DEF LoadFromStr

\* The end of a session whose client is not left alone by it.
LEMMA SessionOverServed ==
    ASSUME ServedInv, spc \notin {"accept", "gone"}, UNCHANGED <<setup, clientVars>>,
           EndSession \/ ProcessEnds,
           \A c \in Clients :
                serving = Current(c)
                /\ (cpc[c] = "prepare"
                    \/ (cpc[c] = "accept" /\ Cardinality(links[c]) < Count(c)))
                => Forsaken(c) \/ spc' = "gone"
    PROVE  Requests' /\ Linked' /\ Company'
<1> USE DEF ServedInv, RoundsInv
<1>1. /\ Active = {serving} /\ Active' = {} /\ closed \cup {serving} \subseteq closed'
      /\ \/ spc' = "accept" /\ closed' = closed \cup {serving}
         \/ spc' = "gone"
  BY SessionOver DEF Asked
<1>2. UNCHANGED <<cpc, round, links, request, left>>
  BY DEF clientVars
<1>3. \A c \in Clients : Current(c)' = Current(c) /\ Count(c)' = Count(c)
  BY <1>2 DEF Current, Count
<1>4. Requests'
  BY <1>1, <1>2, <1>3 DEF Requests
<1>5. Linked'
  BY <1>1, <1>2, <1>3 DEF Linked
<1>6. \A c \in Clients : Forsaken(c) \/ spc' = "gone" => Forsaken(c)'
  BY <1>1 DEF Forsaken
<1>7. CASE spc' = "gone"
  BY <1>4, <1>5, <1>7 DEF Company, AcceptedIsServed, Forsaken
<1>8. CASE spc' # "gone"
  <2>1. closed' = closed \cup {serving}
    BY <1>1, <1>8
  <2>2. ASSUME NEW c \in Clients, Alone(c)' PROVE Forsaken(c)'
    BY <1>2, <1>3, <1>6, <2>1, <2>2 DEF Company, AcceptedIsServed, Alone
  <2>3. ASSUME NEW c \in Clients, cpc'[c] = "prepare", Current(c)' \in closed'
        PROVE  Forsaken(c)'
    BY <1>2, <1>3, <1>6, <2>1, <2>3 DEF Company
  <2> QED
    BY <1>4, <1>5, <2>2, <2>3 DEF Company, AcceptedIsServed
<1> QED
  BY <1>7, <1>8

\* The end of a round, or of the client.
LEMMA RoundOverServed ==
    ASSUME ServedInv, NEW c \in Clients, NEW how \in {"ok", "err"}, EndRound(c, how) \/ Dies(c),
           cpc[c] # "done", UNCHANGED <<setup, request, serverVars>>
    PROVE  Requests' /\ Linked' /\ Company'
<1> USE DEF ServedInv, RoundsInv
<1>1. /\ links' = [links EXCEPT ![c] = {}] /\ left' = left \cup {Current(c)}
      /\ UNCHANGED <<spc, serving, opened, over, closed>>
  BY DEF EndRound, Dies, serverVars
<1>2. \A d \in Clients \ {c} : cpc'[d] = cpc[d] /\ round'[d] = round[d] /\ links'[d] = links[d]
  BY <1>1 DEF EndRound, Dies, Goto, TypeOK
<1>3. \/ round'[c] = round[c] + 1 /\ round[c] < Rounds /\ cpc'[c] = "connect"
      \/ round'[c] = round[c] /\ cpc'[c] = "done"
  BY DEF EndRound, Dies, Goto, TypeOK
<1>4. links'[c] = {} /\ round[c] \in 1..Rounds
  BY <1>1 DEF TypeOK
<1>5. \A d \in Clients \ {c} : Current(d)' = Current(d)
  BY <1>2 DEF Current
<1>6. \A d \in Clients : Count(d)' = Count(d) /\ Forsaken(d)' = Forsaken(d)
  BY <1>1 DEF Count, Forsaken
<1>7. Active' = Active
  BY <1>1 DEF Active
<1>8. ASSUME NEW d \in Clients
      PROVE  /\ cpc'[d] \in {"connect", "prepare"} => Current(d)' \notin request'
             /\ cpc'[d] = "accept" => Current(d)' \in request'
             /\ cpc'[d] # "done" => Current(d)' \notin left' /\ Accepted(setup'.opts[d])
             /\ \A i \in 1..Rounds : i > round'[d] => <<d, i>> \notin request' \cup left'
  <2>1. CASE d # c
    <3>1. \A i \in 1..Rounds : <<d, i>> # Current(c)
      BY <2>1 DEF Current
    <3>2. round[d] \in 1..Rounds
      BY DEF TypeOK
    <3> QED
      BY <1>1, <1>2, <1>5, <2>1, <3>1, <3>2 DEF Requests, Current
  <2>2. CASE d = c
    <3>1. \A i \in 1..Rounds : i > round[c] => <<c, i>> \notin request' \cup left'
      <4>1. \A i \in 1..Rounds : i > round[c] => <<c, i>> # Current(c)
        BY <1>4 DEF Current
      <4> QED
        BY <1>1, <4>1 DEF Requests
    <3>2. CASE round'[c] = round[c] + 1 /\ round[c] < Rounds /\ cpc'[c] = "connect"
      <4>1. round'[c] \in 1..Rounds /\ round'[c] > round[c]
        BY <1>4, <3>2
      <4>2. Current(c)' \notin request' \cup left'
        BY <3>1, <4>1 DEF Current
      <4>3. \A i \in 1..Rounds : i > round'[c] => i > round[c]
        BY <1>4, <3>2
      <4>4. Accepted(setup'.opts[c])
        BY DEF Requests
      <4> QED
        BY <2>2, <3>1, <3>2, <4>2, <4>3, <4>4
    <3>3. CASE round'[c] = round[c] /\ cpc'[c] = "done"
      BY <2>2, <3>1, <3>3
    <3> QED
      BY <1>3, <3>2, <3>3
  <2> QED
    BY <2>1, <2>2
<1>9. Requests'
  BY <1>1, <1>8 DEF Requests
<1>10. Linked'
  <2>1. ASSUME NEW d \in Clients
        PROVE  /\ IsFiniteSet(links'[d])
               /\ \A l \in links'[d] :
                    l[1] \in closed' \cup Active' /\ (l[1] \in Active' => l[2] <= opened')
               /\ spc' \in {"connect", "run", "write"} /\ serving' = Current(d)'
                    /\ cpc'[d] = "accept" => opened' <= Cardinality(links'[d])
    <3>1. CASE d = c
      BY <1>3, <1>4, <3>1, FS_EmptySet
    <3>2. CASE d # c
      BY <1>1, <1>2, <1>5, <1>7, <3>2 DEF Linked
    <3> QED
      BY <3>1, <3>2
  <2>2. /\ spc' = "poll" => opened' = 0
        /\ spc' \in {"run", "write"} => opened' = Count(serving[1])'
    <3>1. Count(serving[1])' = Count(serving[1])
      BY <1>1 DEF Count
    <3> QED
      BY <1>1, <3>1 DEF Linked
  <2> QED
    BY <2>1, <2>2 DEF Linked
<1>11. Company'
  BY <1>1, <1>2, <1>3, <1>5, <1>6 DEF Company, AcceptedIsServed, Alone
<1> QED
  BY <1>9, <1>10, <1>11

\* A step of the client that moves nothing else than its program counter, to a
\* place behind its accept.
LEMMA ClientGoesOn ==
    ASSUME ServedInv, NEW c \in Clients, AcceptEnds(c) \/ TestEnds(c) \/ BindIgnored(c)
    PROVE  Requests' /\ Linked' /\ Company'
<1> USE DEF ServedInv, RoundsInv
<1>1. /\ cpc[c] \in {"prepare", "accept", "test"} /\ cpc'[c] \in {"test", "recv", "hung"}
      /\ \A d \in Clients \ {c} : cpc'[d] = cpc[d]
      /\ UNCHANGED <<setup, round, links, request, left, serverVars>>
  BY DEF AcceptEnds, TestEnds, BindIgnored, Goto, TypeOK
<1>2. UNCHANGED <<spc, serving, opened, closed>>
  BY <1>1 DEF serverVars
<1>3. \A d \in Clients : /\ Current(d)' = Current(d) /\ Count(d)' = Count(d)
                         /\ Forsaken(d)' = Forsaken(d)
  BY <1>1, <1>2 DEF Current, Count, Forsaken
<1>4. \A d \in Clients : cpc'[d] \in {"connect", "prepare", "accept", "done"} => cpc'[d] = cpc[d]
  BY <1>1
<1>5. \A d \in Clients : cpc'[d] # "done" => cpc[d] # "done"
  BY <1>1
<1>6. Requests'
  BY <1>1, <1>2, <1>3, <1>4, <1>5 DEF Requests
<1>7. Linked'
  <2>1. Active' = Active
    BY <1>2 DEF Active
  <2>2. Count(serving[1])' = Count(serving[1])
    BY <1>1, <1>2 DEF Count
  <2> QED
    BY <1>1, <1>2, <1>3, <1>4, <2>1, <2>2 DEF Linked
<1>8. Company'
  BY <1>1, <1>2, <1>3, <1>4 DEF Company, AcceptedIsServed, Alone
<1> QED
  BY <1>6, <1>7, <1>8

\* A step of the loader within a session, or to the next one: no control
\* connection is closed.
LEMMA SessionGoesOn ==
    ASSUME ServedInv, UNCHANGED <<setup, clientVars, closed>>, spc # "gone",
           Requests', Linked'
    PROVE  Company'
<1>1. UNCHANGED <<cpc, round, links>>
  BY DEF clientVars
<1>2. \A c \in Clients : /\ Current(c)' = Current(c) /\ Count(c)' = Count(c)
                         /\ Forsaken(c) => Forsaken(c)'
  BY <1>1 DEF Current, Count, Forsaken
<1> QED
  BY <1>1, <1>2 DEF ServedInv, Company, AcceptedIsServed, Alone

\* One more test connection.
LEMMA LinkServed ==
    ASSUME ServedInv, Link
    PROVE  Requests' /\ Linked' /\ Company'
<1> USE DEF ServedInv, RoundsInv
<1> DEFINE c == serving[1]
           link == <<serving, opened + 1>>
<1>1. /\ c \in Clients /\ cpc[c] = "accept" /\ spc = "connect" /\ opened < Count(c)
      /\ opened' = opened + 1
      /\ links' = [links EXCEPT ![c] =
                      IF Cardinality(links[c]) < Count(c) THEN links[c] \cup {link} ELSE links[c]]
      /\ UNCHANGED <<setup, cpc, round, request, left, spc, serving, closed>>
  BY SetupTypes DEF Link, MoreToLink
<1>2. /\ opened \in Nat /\ Count(c) \in Nat
      /\ \A d \in Clients : IsFiniteSet(links[d]) /\ Cardinality(links[d]) \in Nat
  BY SetupTypes, FS_CardinalityType, <1>1 DEF TypeOK, Linked
<1>3. Active = {serving} /\ Active' = {serving}
  BY <1>1 DEF Active
<1>4. /\ \A d \in Clients \ {c} : links'[d] = links[d]
      /\ links'[c] = IF Cardinality(links[c]) < Count(c) THEN links[c] \cup {link} ELSE links[c]
  BY <1>1 DEF TypeOK
<1>5. link \notin links[c]
  <2>1. \A l \in links[c] : l[1] \in Active => l[2] <= opened
    BY <1>1 DEF Linked
  <2>2. link[1] \in Active /\ link[2] = opened + 1
    BY <1>3
  <2> QED
    BY <1>2, <2>1, <2>2
<1>6. /\ IsFiniteSet(links'[c])
      /\ Cardinality(links'[c]) = IF Cardinality(links[c]) < Count(c)
                                  THEN Cardinality(links[c]) + 1 ELSE Cardinality(links[c])
  <2>1. /\ IsFiniteSet(links[c] \cup {link})
        /\ Cardinality(links[c] \cup {link}) = Cardinality(links[c]) + 1
    BY <1>1, <1>2, <1>5, FS_AddElement
  <2> HIDE DEF link
  <2> QED
    BY <1>1, <1>2, <1>4, <2>1
<1>7. \A d \in Clients : /\ Current(d)' = Current(d) /\ Count(d)' = Count(d)
                         /\ Forsaken(d)' = Forsaken(d)
  BY <1>1 DEF Current, Count, Forsaken
<1>8. Requests'
  BY <1>1, <1>7 DEF Requests
<1>9. Linked'
  <2>1. ASSUME NEW d \in Clients
        PROVE  /\ IsFiniteSet(links'[d])
               /\ \A l \in links'[d] :
                    l[1] \in closed \cup Active /\ (l[1] \in Active => l[2] <= opened + 1)
    <3>1. \A l \in links[d] : l[1] \in closed \cup Active /\ (l[1] \in Active => l[2] <= opened + 1)
      <4> SUFFICES ASSUME NEW l \in links[d]
                   PROVE  l[1] \in closed \cup Active /\ (l[1] \in Active => l[2] <= opened + 1)
        OBVIOUS
      <4>1. l[2] \in Nat
        BY DEF TypeOK
      <4> QED
        BY <1>2, <4>1 DEF Linked
    <3>2. link[1] \in Active /\ link[2] = opened + 1
      BY <1>3
    <3> QED
      BY <1>1, <1>2, <1>4, <1>6, <3>1, <3>2
  <2>2. ASSUME NEW d \in Clients, serving = Current(d), cpc[d] = "accept"
        PROVE  opened + 1 <= Cardinality(links'[d])
    <3>1. d = c
      BY <2>2 DEF Current
    <3>2. opened <= Cardinality(links[c])
      BY <1>1, <2>2, <3>1 DEF Linked
    <3> QED
      BY <1>1, <1>2, <1>6, <3>1, <3>2
  <2> QED
    BY <1>1, <1>3, <1>7, <2>1, <2>2 DEF Linked
<1>10. Company'
  <2>1. \A d \in Clients : Alone(d)' => Alone(d)
    <3> SUFFICES ASSUME NEW d \in Clients, Alone(d)' PROVE Alone(d)
      OBVIOUS
    <3>1. Cardinality(links[d]) <= Cardinality(links'[d])
      BY <1>1, <1>2, <1>4, <1>6
    <3>2. Count(d) \in Nat /\ Cardinality(links'[d]) \in Nat
      BY <1>2, <1>4, <1>6, SetupTypes
    <3> QED
      BY <1>1, <1>2, <1>7, <3>1, <3>2 DEF Alone
  <2> QED
    BY <1>1, <1>7, <2>1 DEF Company, AcceptedIsServed
<1> QED
  BY <1>8, <1>9, <1>10

LEMMA ServedStep ==
    ASSUME ServedInv, [Next]_vars
    PROVE  Requests' /\ Linked' /\ Company'
<1> USE DEF ServedInv, RoundsInv
<1> USE SetupTypes
<1>1. ASSUME NEW c \in Clients, ConnectControl(c) PROVE Requests' /\ Linked' /\ Company'
  <2>1. /\ cpc[c] = "connect" /\ cpc'[c] = "prepare"
        /\ \A d \in Clients \ {c} : cpc'[d] = cpc[d]
        /\ UNCHANGED <<setup, round, links, request, left, spc, serving, opened, closed>>
    BY <1>1 DEF ConnectControl, Goto, TypeOK, serverVars
  <2>2. \A d \in Clients : /\ Current(d)' = Current(d) /\ Count(d)' = Count(d)
                           /\ Forsaken(d)' = Forsaken(d)
    BY <2>1 DEF Current, Count, Forsaken
  <2>3. Current(c) \notin closed
    BY <2>1 DEF Turns, Asked
  <2>4. Active' = Active
    BY <2>1 DEF Active
  <2>5. Requests'
    BY <2>1, <2>2 DEF Requests
  <2>6. Linked'
    BY <2>1, <2>2, <2>4 DEF Linked
  <2>7. Company'
    BY <2>1, <2>2, <2>3 DEF Company, AcceptedIsServed, Alone
  <2> QED
    BY <2>5, <2>6, <2>7
<1>2. ASSUME NEW c \in Clients, ConnectRefused(c) \/ SendFails(c) \/ FuncRaises(c) \/ RecvResult(c)
      PROVE  Requests' /\ Linked' /\ Company'
  <2>1. PICK how \in {"ok", "err"} : EndRound(c, how)
    BY <1>2 DEF ConnectRefused, SendFails, FuncRaises, RecvResult
  <2>2. cpc[c] # "done" /\ UNCHANGED <<setup, request, serverVars>>
    BY <1>2 DEF ConnectRefused, SendFails, FuncRaises, RecvResult
  <2> QED
    BY <2>1, <2>2, RoundOverServed
<1>16. ASSUME NEW c \in Clients, Dies(c) PROVE Requests' /\ Linked' /\ Company'
  <2>1. cpc[c] # "done" /\ UNCHANGED <<setup, request, serverVars>>
    BY <1>16 DEF Dies
  <2>2. "err" \in {"ok", "err"}
    OBVIOUS
  <2> QED
    BY <1>16, <2>1, <2>2, RoundOverServed
<1>3. ASSUME NEW c \in Clients, ReadyToConnect(c) PROVE Requests' /\ Linked' /\ Company'
  <2>1. /\ cpc[c] = "prepare" /\ cpc'[c] = "accept"
        /\ \A d \in Clients \ {c} : cpc'[d] = cpc[d]
        /\ request' = request \cup {Current(c)}
        /\ UNCHANGED <<setup, round, links, left, spc, serving, opened, closed>>
    BY <1>3 DEF ReadyToConnect, Goto, TypeOK, serverVars
  <2>2. \A d \in Clients : /\ Current(d)' = Current(d) /\ Count(d)' = Count(d)
                           /\ Forsaken(d)' = Forsaken(d)
    BY <2>1 DEF Current, Count, Forsaken
  <2>3. \A d \in Clients \ {c} : Current(d) # Current(c) /\ \A i \in 1..Rounds : <<d, i>> # Current(c)
    BY DEF Current
  <2>4. round[c] \in 1..Rounds /\ \A i \in 1..Rounds : i > round[c] => <<c, i>> # Current(c)
    BY DEF TypeOK, Current
  <2>5. Active' = Active
    BY <2>1 DEF Active
  <2>6. Requests'
    <3>1. ASSUME NEW d \in Clients
          PROVE  /\ cpc'[d] \in {"connect", "prepare"} => Current(d) \notin request'
                 /\ cpc'[d] = "accept" => Current(d) \in request'
                 /\ cpc'[d] # "done" => Current(d) \notin left /\ Accepted(setup.opts[d])
                 /\ \A i \in 1..Rounds : i > round[d] => <<d, i>> \notin request' \cup left
      <4>1. CASE d = c
        BY <2>1, <2>4, <4>1 DEF Requests
      <4>2. CASE d # c
        BY <2>1, <2>3, <4>2 DEF Requests
      <4> QED
        BY <4>1, <4>2
    <3> QED
      BY <2>1, <2>2, <3>1 DEF Requests
  <2>7. spc \in {"connect", "run", "write"} => serving # Current(c)
    BY <2>1 DEF Requests
  <2>8. Linked'
    BY <2>1, <2>2, <2>5, <2>7 DEF Linked
  <2>9. Company'
    BY <2>1, <2>2 DEF Company, AcceptedIsServed, Alone
  <2> QED
    BY <2>6, <2>8, <2>9
<1>4. ASSUME NEW c \in Clients, AcceptEnds(c) \/ TestEnds(c) \/ BindIgnored(c)
      PROVE  Requests' /\ Linked' /\ Company'
  BY <1>4, ClientGoesOn
<1>5. CASE AcceptControl
  <2>1. /\ spc = "accept" /\ spc' = "poll" /\ queue # <<>> /\ serving' = Head(queue)
        /\ opened' = 0 /\ UNCHANGED <<setup, clientVars, closed>>
    BY <1>5 DEF AcceptControl
  <2>2. UNCHANGED <<cpc, round, links, request, left>>
    BY <2>1 DEF clientVars
  <2>3. Active = {} /\ Active' = {Head(queue)}
    BY <2>1 DEF Active
  <2>4. Head(queue) \notin closed
    <3>1. Head(queue) \in Waiting
      <4>1. 1 \in DOMAIN queue /\ Head(queue) = queue[1]
        BY <2>1 DEF TypeOK
      <4> QED
        BY <4>1 DEF Waiting
    <3> QED
      BY <3>1 DEF Places
  <2>5. \A d \in Clients : Current(d)' = Current(d)
    BY <2>2 DEF Current
  <2>6. Requests'
    BY <2>1, <2>2, <2>5 DEF Requests
  <2>7. Linked'
    BY <2>1, <2>2, <2>3, <2>4, <2>5 DEF Linked
  <2> QED
    BY <2>1, <2>6, <2>7, SessionGoesOn
<1>6. ASSUME GetRequest \/ RunHangs
             \/ (StartRun /\ ~ProcessEnds) \/ (RunEnds /\ ~ProcessEnds)
      PROVE  Requests' /\ Linked' /\ Company'
  <2>1. /\ spc # "gone" /\ UNCHANGED <<setup, clientVars, closed, serving, opened>>
        /\ \/ spc = "poll" /\ spc' = "connect" /\ serving \in request
           \/ spc = "connect" /\ spc' = "run" /\ opened = Count(serving[1])
           \/ spc = "run" /\ spc' \in {"stuck", "write"}
    BY <1>6 DEF GetRequest, StartRun, RunEnds, RunHangs, AllLinked
  <2>2. UNCHANGED <<cpc, round, links, request, left>>
    BY <2>1 DEF clientVars
  <2>3. Active' = Active
    BY <2>1 DEF Active
  <2>4. \A d \in Clients : Current(d)' = Current(d) /\ Count(d)' = Count(d)
    BY <2>1, <2>2 DEF Current, Count
  <2>5. Requests'
    BY <2>1, <2>2, <2>4 DEF Requests
  <2>6. \A d \in Clients : IsFiniteSet(links[d]) /\ 0 <= Cardinality(links[d])
    BY FS_CardinalityType DEF Linked
  <2>7. Linked'
    <3>1. ASSUME NEW d \in Clients, serving = Current(d), cpc[d] = "accept"
          PROVE  opened <= Cardinality(links[d])
      BY <2>1, <2>6, <3>1 DEF Linked
    <3>2. Count(serving[1])' = Count(serving[1])
      BY <2>1 DEF Count
    <3> QED
      BY <2>1, <2>2, <2>3, <2>4, <3>1, <3>2 DEF Linked
  <2> QED
    BY <2>1, <2>5, <2>7, SessionGoesOn
<1>7. CASE RefuseRequest
  <2>1. /\ spc = "poll" /\ serving \in request /\ EndSession /\ UNCHANGED <<setup, clientVars>>
        /\ ~LoadFromStr(Request(setup.opts[serving[1]]))
    BY <1>7 DEF RefuseRequest
  <2>2. ASSUME NEW c \in Clients, serving = Current(c), cpc[c] \in {"prepare", "accept"}
        PROVE  Forsaken(c)
    <3>1. cpc[c] # "done" /\ serving[1] = c
      BY <2>2 DEF Current
    <3>2. Accepted(setup.opts[c])
      BY <3>1 DEF Requests
    <3>3. Negative(setup.opts[c])
      BY <2>1, <3>1, <3>2, OptionsAgree
    <3> QED
      BY <3>3 DEF Forsaken
  <2> QED
    BY <2>1, <2>2, SessionOverServed
<1>8. CASE RequestTimesOut
  <2>1. /\ spc = "poll" /\ serving \notin request /\ EndSession /\ UNCHANGED <<setup, clientVars>>
        /\ "slow" \in setup.faults \/ ~Preparing(serving)
    BY <1>8 DEF RequestTimesOut, PollsOver
  <2>2. ASSUME NEW c \in Clients, serving = Current(c), cpc[c] \in {"prepare", "accept"}
        PROVE  Forsaken(c)
    <3>1. cpc[c] = "prepare" /\ serving[1] = c
      BY <2>1, <2>2 DEF Requests, Current
    <3>2. Preparing(serving)
      BY <2>2, <3>1 DEF Preparing
    <3> QED
      BY <2>1, <3>2 DEF Forsaken
  <2> QED
    BY <2>1, <2>2, SessionOverServed
<1>17. CASE ConnectFails
  <2>1. /\ spc = "connect" /\ EndSession /\ UNCHANGED <<setup, clientVars>>
        /\ "connect" \in setup.faults
    BY <1>17 DEF ConnectFails
  <2>2. \A c \in Clients : Forsaken(c)
    BY <2>1 DEF Forsaken
  <2> QED
    BY <2>1, <2>2, SessionOverServed
<1>9. CASE LinkRefused
  <2>1. /\ spc = "connect" /\ EndSession /\ UNCHANGED <<setup, clientVars>>
        /\ cpc[serving[1]] # "accept"
    BY <1>9 DEF LinkRefused
  <2>2. ASSUME NEW c \in Clients, serving = Current(c), cpc[c] \in {"prepare", "accept"}
        PROVE  FALSE
    <3>1. serving[1] = c
      BY <2>2 DEF Current
    <3> QED
      BY <2>1, <2>2, <3>1 DEF Requests
  <2> QED
    BY <2>1, <2>2, SessionOverServed
<1>10. CASE Link
  BY <1>10, LinkServed
<1>11. CASE (StartRun \/ RunEnds) /\ ProcessEnds
  <2>1. spc \notin {"accept", "gone"} /\ UNCHANGED <<setup, clientVars>> /\ spc' = "gone"
    BY <1>11 DEF StartRun, RunEnds, ProcessEnds
  <2> QED
    BY <1>11, <2>1, SessionOverServed
<1>12. CASE WriteResult
  <2>1. spc = "write" /\ EndSession /\ UNCHANGED <<setup, clientVars>>
    BY <1>12 DEF WriteResult
  <2>2. ASSUME NEW c \in Clients, serving = Current(c),
               cpc[c] = "prepare" \/ (cpc[c] = "accept" /\ Cardinality(links[c]) < Count(c))
        PROVE  FALSE
    <3>1. serving \in request
      BY <2>1 DEF Requests
    <3>2. cpc[c] # "prepare"
      BY <2>2, <3>1 DEF Requests
    <3>3. serving[1] = c /\ opened = Count(c)
      BY <2>1, <2>2 DEF Linked, Current
    <3>4. opened <= Cardinality(links[c]) /\ Cardinality(links[c]) \in Nat /\ opened \in Nat
      BY <2>1, <2>2, <3>2, <3>3, FS_CardinalityType DEF Linked
    <3> QED
      BY <2>2, <3>2, <3>3, <3>4
  <2> QED
    BY <2>1, <2>2, SessionOverServed
<1>13. ASSUME UNCHANGED <<setup, clientVars, serverVars>>
       PROVE  Requests' /\ Linked' /\ Company'
  <2>1. UNCHANGED <<cpc, round, links, request, left, spc, serving, opened, closed>>
    BY <1>13 DEF clientVars, serverVars
  <2> QED
    BY <1>13, <2>1 DEF Requests, Linked, Company, AcceptedIsServed, Alone, Forsaken, Current,
                       Count, Active
<1>14. ASSUME NEW s \in Sessions, DeliverResult(s) PROVE Requests' /\ Linked' /\ Company'
  BY <1>13, <1>14 DEF DeliverResult
<1>15. CASE UNCHANGED vars
  BY <1>13, <1>15 DEF vars
<1> QED
  BY <1>1, <1>2, <1>3, <1>4, <1>5, <1>6, <1>7, <1>8, <1>9, <1>10, <1>11, <1>12, <1>14, <1>15,
     <1>16, <1>17
  DEF Next, Server, Client

LEMMA ServedInit == Init => ServedInv
<1> SUFFICES ASSUME Init PROVE ServedInv
  OBVIOUS
<1>1. RoundsInv
  BY InitInv
<1>2. \A c \in Clients : /\ cpc[c] \in {"connect", "done"}
                         /\ cpc[c] # "done" => Accepted(setup.opts[c])
  BY DEF Init
<1>3. Requests
  BY <1>2 DEF Init, Requests
<1>4. Linked
  BY FS_EmptySet DEF Init, Linked
<1>5. Company
  BY <1>2 DEF Init, Company, AcceptedIsServed, Alone
<1> QED
  BY <1>1, <1>3, <1>4, <1>5 DEF ServedInv

\* AcceptedIsServed, for all clients, rounds, options and word sizes: a client
\* whose options main accepts is not left alone but for the reasons named: the
\* loader lost its patience with a request, could not connect or gave a
\* handshake up, or is gone, or a number was below zero.
THEOREM NobodyLeftAlone == Spec => []AcceptedIsServed
<1>1. ServedInv /\ [Next]_vars => ServedInv'
  BY StepInv, ServedStep DEF ServedInv
<1>2. ServedInv => AcceptedIsServed
  BY DEF ServedInv, Company
<1> QED
  BY ServedInit, <1>1, <1>2, PTL DEF Spec

-----------------------------------------------------------------------------
(* When nothing fails. *)

\* How far the client is when the loader is done with its session, at it, or
\* has not begun it.
Fine(c) ==
    /\ cpc[c] \in {"connect", "prepare"} => links[c] = {} /\ Current(c) \notin closed
    /\ \A l \in links[c] : l[1] = Current(c)
    /\ cpc[c] = "test" => Cardinality(links[c]) = Count(c)
    /\ Current(c) \in Waiting \/ (spc = "poll" /\ serving = Current(c)) =>
            cpc[c] \in {"prepare", "accept"} /\ links[c] = {}
    /\ spc \in {"connect", "run"} /\ serving = Current(c) =>
            cpc[c] \in {"accept", "test"} /\ Cardinality(links[c]) = opened
    /\ spc = "write" /\ serving = Current(c) => cpc[c] \in {"accept", "test", "recv"}
    /\ Current(c) \in closed /\ cpc[c] # "done" =>
            \/ /\ cpc[c] \in {"accept", "test", "recv"}
               /\ coming[Current(c)] + got[Current(c)] = RespLen
            \/ cpc[c] = "accept" /\ links[c] = {}

Flow ==
    /\ spc \notin {"gone", "stuck"}
    /\ \A s \in Sessions : recorded[s] # "none" => s \in left
    /\ over \subseteq closed \cup (IF spc = "write" THEN {serving} ELSE {})
    /\ \A s \in Waiting \cup Active : s = Current(s[1])
    /\ \A c \in Clients : Fine(c)

FlowInv == ServedInv /\ (NothingFails => Flow /\ RoundsSucceed)

LEMMA PlacesTypes == ASSUME TypeOK PROVE Waiting \cup Active \subseteq Sessions
<1>1. Waiting \subseteq Sessions
  BY DEF Waiting, TypeOK
<1> QED
  BY <1>1 DEF Active, TypeOK

LEMMA FlowInit == Init => FlowInv
<1> SUFFICES ASSUME Init, NothingFails PROVE ServedInv /\ Flow /\ RoundsSucceed
  BY ServedInit DEF FlowInv
<1>1. Waiting = {} /\ Active = {}
  BY DEF Init, Waiting, Active
<1>2. \A c \in Clients : Fine(c)
  BY <1>1 DEF Init, Fine
<1>3. RoundsSucceed
  BY DEF Init, RoundsSucceed
<1> QED
  BY ServedInit, <1>1, <1>2, <1>3 DEF Init, Flow

\* The assumptions of what follows, for short: nothing has failed so far.
LEMMA NothingFailed ==
    ASSUME ServedInv, Flow, NothingFails
    PROVE  /\ \A c \in Clients : cpc[c] # "done" => Count(c) > 0 /\ setup.opts[c].runtime > 0
           /\ setup.faults = {}
           /\ Active \cap closed = {}
BY DEF ServedInv, RoundsInv, Places, NothingFails, Requests

\* The end of a round, with a result read.
LEMMA RecvFlow ==
    ASSUME ServedInv, Flow, NothingFails, RoundsSucceed, NEW c \in Clients, RecvResult(c)
    PROVE  Flow' /\ RoundsSucceed'
<1> USE DEF ServedInv, RoundsInv
<1> USE SetupTypes
<1> DEFINE s == Current(c)
<1>1. /\ cpc[c] = "recv" /\ Readable(s)
      /\ EndRound(c, IF Reports(s) THEN "ok" ELSE "err")
      /\ UNCHANGED <<setup, request, serverVars, queue, coming, got>>
  BY DEF RecvResult
<1>2. recorded[s] = "none"
  BY <1>1 DEF Turns
<1>3. s \in Sessions /\ coming[s] \in 0..RespLen /\ got[s] \in 0..RespLen
  BY DEF TypeOK
<1>4. s \in closed /\ got[s] > 0 /\ coming[s] + got[s] = RespLen
  <2>1. got[s] > 0 \/ (s \in closed /\ coming[s] = 0)
    BY <1>1 DEF Readable
  <2>2. coming[s] + got[s] > 0 => s \in closed
    BY <1>3 DEF Results
  <2>3. s \in closed
    BY <1>3, <2>1, <2>2
  <2>4. coming[s] + got[s] = RespLen
    BY <1>1, <2>3 DEF Flow, Fine
  <2> QED
    BY <1>3, <2>1, <2>3, <2>4
<1>5. UNCHANGED <<spc, serving, opened, over, closed>> /\ Waiting' = Waiting /\ Active' = Active
  BY <1>1 DEF serverVars, Waiting, Active
<1>6. s \notin Waiting \cup Active
  BY <1>4 DEF Places
<1>7. \A d \in Clients \ {c} : /\ cpc'[d] = cpc[d] /\ round'[d] = round[d]
                               /\ links'[d] = links[d] /\ Current(d)' = Current(d) /\ Current(d) # s
  BY <1>1 DEF EndRound, Goto, TypeOK, Current
<1>8. \A d \in Clients : Count(d)' = Count(d)
  BY <1>1 DEF Count
<1>9. ASSUME NEW t \in Waiting \cup Active PROVE t = Current(t[1])'
  <2>1. t = Current(t[1]) /\ t # s /\ t \in Sessions
    BY <1>6, PlacesTypes DEF Flow
  <2>2. t[1] \in Clients /\ t[1] # c
    BY <2>1 DEF Sessions
  <2> QED
    BY <1>7, <2>1, <2>2
<1>10. ASSUME NEW d \in Clients PROVE Fine(d)'
  <2>1. CASE d # c
    <3>1. Current(d) \in Sessions
      OBVIOUS
    <3>2. got'[Current(d)] = got[Current(d)] /\ coming' = coming
      BY <1>1, <1>7, <2>1, <3>1 DEF TypeOK
    <3> QED
      BY <1>5, <1>7, <1>8, <2>1, <3>2 DEF Flow, Fine
  <2>2. CASE d = c
    <3>1. links'[c] = {} /\ \/ cpc'[c] = "done" /\ Current(c)' = s
                            \/ /\ cpc'[c] = "connect" /\ round[c] < Rounds
                               /\ Current(c)' = <<c, round[c] + 1>>
      BY <1>1 DEF EndRound, Goto, TypeOK, Current
    <3>2. Current(c)' \notin Waiting \cup Active /\ (cpc'[c] = "connect" => Current(c)' \notin closed)
      <4>1. CASE cpc'[c] = "done"
        BY <1>6, <3>1, <4>1
      <4>2. CASE cpc'[c] # "done"
        <5>1. round[c] + 1 \in 1..Rounds /\ round[c] + 1 > round[c]
          BY <3>1, <4>2 DEF TypeOK
        <5>2. <<c, round[c] + 1>> \notin Asked
          BY <5>1 DEF Turns
        <5> QED
          BY <3>1, <4>2, <5>2 DEF Asked
      <4> QED
        BY <4>1, <4>2
    <3>3. spc \in {"poll", "connect", "run", "write"} => serving \in Active
      BY DEF Active
    <3> QED
      BY <1>5, <2>2, <3>1, <3>2, <3>3 DEF Fine
  <2> QED
    BY <2>1, <2>2
<1>11. ASSUME NEW t \in Sessions, recorded'[t] = "err"
       PROVE  t \in setup'.few \/ got'[t] \in 1..(RespLen - 1)
  <2>1. CASE t = s
    <3>1. ~Reports(s)
      BY <1>1, <1>3, <1>11, <2>1 DEF EndRound, TypeOK
    <3> QED
      BY <1>1, <1>3, <1>4, <2>1, <3>1 DEF Reports
  <2>2. CASE t # s
    BY <1>1, <1>11, <2>2 DEF EndRound, TypeOK, RoundsSucceed
  <2> QED
    BY <2>1, <2>2
<1>12. \A t \in Sessions : recorded'[t] # "none" => t \in left'
  BY <1>1 DEF EndRound, TypeOK, Flow
<1> QED
  BY <1>5, <1>9, <1>10, <1>11, <1>12 DEF Flow, RoundsSucceed

\* A step of the client on its way through a round.
LEMMA ClientFlow ==
    ASSUME ServedInv, Flow, NothingFails, RoundsSucceed, NEW c \in Clients,
           ConnectControl(c) \/ ReadyToConnect(c) \/ AcceptEnds(c) \/ TestEnds(c)
    PROVE  Flow' /\ RoundsSucceed'
<1> USE DEF ServedInv, RoundsInv
<1> USE SetupTypes
<1>0. \A d \in Clients : cpc[d] # "done" => Count(d) \in Nat /\ Count(d) > 0
  BY NothingFailed
<1>1. /\ UNCHANGED <<setup, round, links, recorded, left, serverVars, coming, got>>
      /\ UNCHANGED <<spc, serving, opened, over, closed>>
      /\ \A d \in Clients \ {c} : cpc'[d] = cpc[d]
  BY DEF ConnectControl, ReadyToConnect, AcceptEnds, TestEnds, Goto, TypeOK, serverVars
<1>2. \A d \in Clients : Current(d)' = Current(d) /\ Count(d)' = Count(d)
  BY <1>1 DEF Current, Count
<1>3. \A d \in Clients \ {c} : Current(d) # Current(c)
  BY DEF Current
<1>4. Active' = Active /\ Waiting' \subseteq Waiting \cup (IF cpc[c] = "connect" THEN {Current(c)} ELSE {})
  <2>1. CASE ConnectControl(c)
    BY <1>1, <2>1, Joining DEF ConnectControl, Active, TypeOK
  <2>2. CASE ~ConnectControl(c)
    BY <1>1, <2>2 DEF ReadyToConnect, AcceptEnds, TestEnds, Active, Waiting
  <2> QED
    BY <2>1, <2>2
<1>5. \A d \in Clients \ {c} : Fine(d)'
  BY <1>1, <1>2, <1>3, <1>4 DEF Flow, Fine
<1>6. Fine(c)'
  <2> USE <1>1, <1>2, <1>4
  <2>1. CASE ConnectControl(c)
    <3>1. cpc[c] = "connect" /\ cpc'[c] = "prepare"
      BY <2>1 DEF ConnectControl, Goto, TypeOK
    <3>2. Current(c) \notin Active
      BY <3>1 DEF Turns, Asked
    <3>3. ~(spc \in {"poll", "connect", "run", "write"} /\ serving = Current(c))
      BY <3>2 DEF Active
    <3> QED
      BY <3>1, <3>3 DEF Flow, Fine
  <2>2. CASE ReadyToConnect(c)
    <3>1. cpc[c] = "prepare" /\ cpc'[c] = "accept"
      BY <2>2 DEF ReadyToConnect, Goto, TypeOK
    <3> QED
      BY <3>1 DEF Flow, Fine
  <2>3. CASE AcceptEnds(c)
    <3>1. cpc[c] = "accept" /\ cpc'[c] = "test" /\ Cardinality(links[c]) = Count(c)
      BY <2>3 DEF AcceptEnds, Goto, TypeOK
    <3>2. links[c] # {}
      BY <1>0, <3>1, FS_EmptySet
    <3> QED
      BY <3>1, <3>2 DEF Flow, Fine
  <2>4. CASE TestEnds(c)
    <3>1. /\ cpc[c] = "test" /\ cpc'[c] = "recv"
          /\ \A l \in links[c] : l[1] \in over
      BY <2>4 DEF TestEnds, Goto, TypeOK
    <3>2. links[c] # {}
      <4>1. Cardinality(links[c]) = Count(c)
        BY <3>1 DEF Flow, Fine
      <4> QED
        BY <1>0, <3>1, <4>1, FS_EmptySet
    <3>3. Current(c) \in over
      BY <3>1, <3>2 DEF Flow, Fine
    <3>4. ~(spc \in {"connect", "run"} /\ serving = Current(c))
      BY <3>3 DEF Flow, Active, Places
    <3> QED
      BY <3>1, <3>4 DEF Flow, Fine
  <2> QED
    BY <2>1, <2>2, <2>3, <2>4
<1>7. \A s \in Waiting' \cup Active' : s = Current(s[1])'
  <2>1. Current(c) = Current(Current(c)[1])
    BY DEF Current
  <2>2. \A s \in Waiting \cup Active \cup {Current(c)} : s[1] \in Clients
    BY PlacesTypes DEF Sessions, Current
  <2> QED
    BY <1>2, <1>4, <2>1, <2>2 DEF Flow
<1> QED
  BY <1>1, <1>5, <1>6, <1>7 DEF Flow, RoundsSucceed

\* The loader begins a session, or goes on in it.
LEMMA LoaderFlow ==
    ASSUME ServedInv, Flow, NothingFails, RoundsSucceed,
           AcceptControl \/ GetRequest \/ StartRun \/ RunEnds
    PROVE  Flow' /\ RoundsSucceed'
<1> USE DEF ServedInv, RoundsInv
<1> USE SetupTypes, NothingFailed
<1>1. UNCHANGED <<setup, clientVars, coming, got>>
  BY DEF AcceptControl, GetRequest, StartRun, RunEnds
<1>2. UNCHANGED <<cpc, round, links, recorded, request, left>>
  BY <1>1 DEF clientVars
<1>3. \A d \in Clients : Current(d)' = Current(d) /\ Count(d)' = Count(d)
  BY <1>1, <1>2 DEF Current, Count
<1>4. CASE AcceptControl
  <2>1. /\ spc = "accept" /\ spc' = "poll" /\ queue # <<>> /\ serving' = Head(queue)
        /\ queue' = Tail(queue) /\ UNCHANGED <<over, closed>>
    BY <1>4 DEF AcceptControl
  <2>2. serving' \in Waiting /\ Waiting' \subseteq Waiting /\ Active' = {serving'}
    BY <2>1, Leaving DEF TypeOK, Active, Places
  <2>3. \A d \in Clients : Fine(d)'
    BY <1>1, <1>2, <1>3, <2>1, <2>2 DEF Flow, Fine
  <2>4. \A s \in Waiting : s[1] \in Clients
    BY DEF Waiting, TypeOK, Sessions
  <2> QED
    BY <1>1, <1>2, <1>3, <2>1, <2>2, <2>3, <2>4 DEF Flow, RoundsSucceed
<1>5. ASSUME ~AcceptControl PROVE Flow' /\ RoundsSucceed'
  <2>1. /\ spc \in {"poll", "connect", "run"} /\ Active = {serving}
        /\ serving = Current(serving[1]) /\ serving[1] \in Clients
    BY <1>5 DEF GetRequest, StartRun, RunEnds, Active, Flow
  <2>2. cpc[serving[1]] # "done"
    BY <2>1 DEF Flow, Fine
  <2>3. \/ spc = "poll" /\ spc' = "connect" /\ serving \in request /\ UNCHANGED over
        \/ spc = "connect" /\ spc' = "run" /\ UNCHANGED over
        \/ spc = "run" /\ spc' = "write" /\ over' = over \cup {serving}
    BY <1>5, <2>1, <2>2 DEF GetRequest, StartRun, RunEnds
  <2>4. UNCHANGED <<serving, opened, closed, queue>>
    BY <1>5, <2>1, <2>2 DEF GetRequest, StartRun, RunEnds
  <2>5. Waiting' = Waiting /\ Active' = Active
    BY <2>1, <2>3, <2>4 DEF Waiting, Active
  <2>6. ASSUME NEW d \in Clients PROVE Fine(d)'
    <3>1. CASE serving # Current(d)
      BY <1>1, <1>2, <1>3, <2>4, <2>5, <3>1 DEF Flow, Fine
    <3>2. CASE serving = Current(d)
      <4>1. spc = "poll" => cpc[d] = "accept" /\ Cardinality(links[d]) = opened
        BY <2>3, <3>2, FS_EmptySet DEF Flow, Fine, Requests, Linked
      <4>2. Current(d) \notin Waiting \cup closed
        BY <2>1, <3>2 DEF Places
      <4> QED
        BY <1>1, <1>2, <1>3, <2>3, <2>4, <2>5, <3>2, <4>1, <4>2 DEF Flow, Fine
    <3> QED
      BY <3>1, <3>2
  <2>7. \A s \in Waiting \cup Active : s[1] \in Clients
    BY PlacesTypes DEF Sessions
  <2> QED
    BY <1>1, <1>2, <1>3, <2>3, <2>4, <2>5, <2>6, <2>7 DEF Flow, RoundsSucceed
<1> QED
  BY <1>4, <1>5

\* The loader ends a session, with a refusal or a result.
LEMMA SessionOverFlow ==
    ASSUME ServedInv, Flow, NothingFails, RoundsSucceed, RefuseRequest \/ WriteResult
    PROVE  Flow' /\ RoundsSucceed'
<1> USE DEF ServedInv, RoundsInv
<1> USE SetupTypes
<1>1. /\ spc \in {"poll", "write"} /\ Active = {serving} /\ Active' = {}
      /\ spc' = "accept" /\ closed' = closed \cup {serving} /\ over' = over \cup {serving}
      /\ UNCHANGED <<setup, clientVars, serving, opened, queue, got>>
  BY NothingFailed DEF RefuseRequest, WriteResult, EndSession, Active
<1>2. UNCHANGED <<cpc, round, links, recorded, request, left>> /\ Waiting' = Waiting
  BY <1>1 DEF clientVars, Waiting
<1>3. \A d \in Clients : Current(d)' = Current(d) /\ Count(d)' = Count(d)
  BY <1>1, <1>2 DEF Current, Count
<1>4. serving \in Sessions /\ serving \notin closed \cup Waiting
  BY <1>1 DEF Places, TypeOK
<1>5. coming[serving] = 0 /\ got[serving] = 0
  <2>1. coming[serving] \in Nat /\ got[serving] \in Nat
    BY <1>4 DEF TypeOK
  <2> QED
    BY <1>4, <2>1 DEF Results
<1>6. \A s \in Sessions \ {serving} : coming'[s] = coming[s]
  BY DEF RefuseRequest, WriteResult, TypeOK
<1>7. spc = "write" => coming'[serving] = RespLen
  BY <1>4 DEF RefuseRequest, WriteResult, TypeOK
<1>8. ASSUME NEW d \in Clients PROVE Fine(d)'
  <2>1. CASE serving # Current(d)
    BY <1>1, <1>2, <1>3, <1>6, <2>1 DEF Flow, Fine
  <2>2. CASE serving = Current(d)
    <3>1. CASE spc = "poll"
      <4>1. serving \in request
        BY <3>1 DEF RefuseRequest, WriteResult
      <4>2. cpc[d] = "accept" /\ links[d] = {}
        BY <2>2, <3>1, <4>1 DEF Flow, Fine, Requests
      <4> QED
        BY <1>1, <1>2, <1>3, <1>4, <2>2, <4>2 DEF Flow, Fine
    <3>2. CASE spc = "write"
      <4>1. cpc[d] \in {"accept", "test", "recv"}
        BY <2>2, <3>2 DEF Flow, Fine
      <4>2. coming'[serving] + got'[serving] = RespLen
        BY <1>1, <1>5, <1>7, <3>2
      <4> QED
        BY <1>1, <1>2, <1>3, <1>4, <2>2, <4>1, <4>2 DEF Flow, Fine
    <3> QED
      BY <1>1, <3>1, <3>2
  <2> QED
    BY <2>1, <2>2
<1>9. ASSUME NEW s \in Sessions, recorded'[s] = "err"
      PROVE  s \in setup'.few \/ got'[s] \in 1..(RespLen - 1)
  BY <1>1, <1>2, <1>9 DEF RoundsSucceed
<1>10. \A s \in Waiting : s[1] \in Clients
  BY PlacesTypes DEF Sessions
<1> QED
  BY <1>1, <1>2, <1>3, <1>8, <1>9, <1>10 DEF Flow, RoundsSucceed

\* A test connection.
LEMMA LinkFlow ==
    ASSUME ServedInv, Flow, NothingFails, RoundsSucceed, Link
    PROVE  Flow' /\ RoundsSucceed'
<1> USE DEF ServedInv, RoundsInv
<1> USE SetupTypes
<1> DEFINE c == serving[1]
           link == <<serving, opened + 1>>
<1>1. /\ spc = "connect" /\ opened < Count(c) /\ cpc[c] = "accept" /\ opened' = opened + 1
      /\ links' = [links EXCEPT ![c] =
                      IF Cardinality(links[c]) < Count(c) THEN links[c] \cup {link} ELSE links[c]]
      /\ UNCHANGED <<setup, cpc, round, recorded, request, left, spc, serving, over, closed,
                     queue, coming, got>>
  BY DEF Link, MoreToLink
<1>2. Active = {serving} /\ Active' = {serving} /\ Waiting' = Waiting
  BY <1>1 DEF Active, Waiting
<1>3. c \in Clients /\ serving = Current(c) /\ serving \notin closed \cup Waiting
  BY <1>2 DEF Flow, Places
<1>4. IsFiniteSet(links[c]) /\ Cardinality(links[c]) = opened /\ opened \in Nat
  BY <1>1, <1>3 DEF Flow, Fine, Linked, TypeOK
<1>5. link \notin links[c]
  <2>1. \A l \in links[c] : l[1] \in Active => l[2] <= opened
    BY <1>3 DEF Linked
  <2>2. link[1] \in Active /\ link[2] = opened + 1
    BY <1>2
  <2> QED
    BY <1>4, <2>1, <2>2
<1>6. links'[c] = links[c] \cup {link} /\ \A d \in Clients \ {c} : links'[d] = links[d]
  BY <1>1, <1>3, <1>4 DEF TypeOK
<1>7. Cardinality(links'[c]) = opened + 1
  BY <1>4, <1>5, <1>6, FS_AddElement
<1>8. \A d \in Clients : Current(d)' = Current(d) /\ Count(d)' = Count(d)
  BY <1>1 DEF Current, Count
<1>9. ASSUME NEW d \in Clients PROVE Fine(d)'
  <2>1. CASE d # c
    <3>1. Current(d) # serving
      BY <1>3, <2>1 DEF Current
    <3> QED
      BY <1>1, <1>2, <1>6, <1>8, <2>1, <3>1 DEF Flow, Fine
  <2>2. CASE d = c
    <3>1. \A l \in links'[c] : l[1] = Current(c)
      BY <1>3, <1>6 DEF Flow, Fine
    <3> HIDE DEF link
    <3> QED
      BY <1>1, <1>2, <1>3, <1>7, <1>8, <2>2, <3>1 DEF Fine
  <2> QED
    BY <2>1, <2>2
<1>10. \A s \in Waiting \cup Active : s[1] \in Clients
  BY PlacesTypes DEF Sessions
<1> QED
  BY <1>1, <1>2, <1>8, <1>9, <1>10 DEF Flow, RoundsSucceed

\* TCP takes a part of a result further.
LEMMA DeliverFlow ==
    ASSUME ServedInv, Flow, NothingFails, RoundsSucceed, NEW s \in Sessions, DeliverResult(s)
    PROVE  Flow' /\ RoundsSucceed'
<1>1. /\ UNCHANGED <<setup, cpc, round, links, recorded, left>>
      /\ UNCHANGED <<spc, serving, opened, over, closed, queue>>
      /\ \A t \in Sessions : coming'[t] + got'[t] = coming[t] + got[t]
      /\ s \notin left /\ \A t \in Sessions \ {s} : got'[t] = got[t]
  BY DEF DeliverResult, clientVars, serverVars, ServedInv, RoundsInv, TypeOK
<1>2. \A c \in Clients : Current(c) \in Sessions /\ Current(c)' = Current(c) /\ Count(c)' = Count(c)
  BY <1>1, SetupTypes DEF Current, Count, ServedInv, RoundsInv
<1>3. Waiting' = Waiting /\ Active' = Active
  BY <1>1 DEF Waiting, Active
<1>4. \A c \in Clients : Fine(c)'
  BY <1>1, <1>2, <1>3 DEF Flow, Fine
<1>5. \A t \in Waiting \cup Active : t[1] \in Clients
  BY PlacesTypes DEF Sessions, ServedInv, RoundsInv
<1>6. \A t \in Sessions : recorded[t] = "err" => got'[t] = got[t]
  BY <1>1 DEF Flow
<1> QED
  BY <1>1, <1>2, <1>3, <1>4, <1>5, <1>6 DEF Flow, RoundsSucceed

LEMMA FlowStep == FlowInv /\ [Next]_vars => FlowInv'
<1> SUFFICES ASSUME FlowInv, [Next]_vars, NothingFails PROVE Flow' /\ RoundsSucceed'
  <2>1. ServedInv /\ [Next]_vars => ServedInv'
    BY StepInv, ServedStep DEF ServedInv
  <2>2. [Next]_vars => UNCHANGED setup
    BY DEF Next, Server, Client, vars, ConnectControl, ConnectRefused, ReadyToConnect,
       AcceptEnds, TestEnds, RecvResult, SendFails, FuncRaises, BindIgnored, Dies,
       AcceptControl, GetRequest, RefuseRequest, RequestTimesOut, Link, LinkRefused,
       ConnectFails, StartRun, RunEnds, RunHangs, WriteResult, DeliverResult
  <2>3. UNCHANGED setup => (NothingFails' <=> NothingFails)
    BY DEF NothingFails, Count
  <2> QED
    BY <2>1, <2>2, <2>3 DEF FlowInv
<1>1. ServedInv /\ Flow /\ RoundsSucceed
  BY DEF FlowInv
<1> USE SetupTypes DEF ServedInv, RoundsInv
<1>2. ASSUME NEW c \in Clients, Client(c) PROVE Flow' /\ RoundsSucceed'
  <2>1. ~ConnectRefused(c)
    BY <1>1 DEF ConnectRefused, Flow
  <2> QED
    BY <1>1, <1>2, <2>1, ClientFlow, RecvFlow DEF Client
<1>3. ASSUME NEW c \in Clients, SendFails(c) \/ FuncRaises(c) \/ BindIgnored(c) \/ Dies(c)
      PROVE  FALSE
  <2>1. ~SendFails(c)
    BY <1>1 DEF SendFails, Flow, Fine
  <2>2. ~(FuncRaises(c) \/ BindIgnored(c) \/ Dies(c))
    BY DEF FuncRaises, BindIgnored, Dies, NothingFails
  <2> QED
    BY <1>3, <2>1, <2>2
<1>4. ~RequestTimesOut
  <2> SUFFICES ASSUME RequestTimesOut PROVE FALSE
    OBVIOUS
  <2>1. spc = "poll" /\ serving \notin request /\ ~Preparing(serving)
    BY DEF RequestTimesOut, PollsOver, NothingFails
  <2>2. serving = Current(serving[1])
    BY <1>1, <2>1 DEF Flow, Active
  <2>3. cpc[serving[1]] \in {"prepare", "accept"}
    BY <1>1, <2>1, <2>2 DEF Flow, Fine
  <2>4. serving[1] \in Clients
    BY <1>1
  <2> QED
    BY <1>1, <2>1, <2>2, <2>3, <2>4 DEF Requests, Preparing
<1>9. ~ConnectFails
  BY DEF ConnectFails, NothingFails
<1>10. ~RunHangs
  <2> SUFFICES ASSUME RunHangs PROVE FALSE
    OBVIOUS
  <2>1. spc = "run" /\ serving \in left
    BY DEF RunHangs, NothingFails
  <2>2. serving = Current(serving[1]) /\ serving[1] \in Clients
    BY <1>1, <2>1 DEF Flow, Active
  <2>3. cpc[serving[1]] \in {"accept", "test"}
    BY <1>1, <2>1, <2>2 DEF Flow, Fine
  <2> QED
    BY <1>1, <2>1, <2>2, <2>3 DEF Requests
<1>5. ~LinkRefused
  <2> SUFFICES ASSUME LinkRefused PROVE FALSE
    OBVIOUS
  <2>1. spc = "connect" /\ opened < Count(serving[1]) /\ cpc[serving[1]] # "accept"
    BY DEF LinkRefused, MoreToLink
  <2>2. serving = Current(serving[1])
    BY <1>1, <2>1 DEF Flow, Active
  <2>3. cpc[serving[1]] = "test" /\ Cardinality(links[serving[1]]) = opened
    BY <1>1, <2>1, <2>2 DEF Flow, Fine
  <2>4. Cardinality(links[serving[1]]) = Count(serving[1])
    BY <1>1, <2>3 DEF Flow, Fine
  <2>5. opened \in Nat /\ Count(serving[1]) = opened
    BY <1>1, <2>3, <2>4 DEF TypeOK
  <2> QED
    BY <2>1, <2>5
<1>6. ASSUME NEW s \in Sessions, DeliverResult(s) PROVE Flow' /\ RoundsSucceed'
  BY <1>1, <1>6, DeliverFlow
<1>7. CASE Server
  BY <1>1, <1>4, <1>5, <1>7, LoaderFlow, SessionOverFlow, LinkFlow DEF Server
<1>8. CASE UNCHANGED vars
  BY <1>1, <1>8 DEF vars, clientVars, serverVars, Flow, Fine, Current, Count, Waiting, Active,
     RoundsSucceed, NothingFails
<1> QED
  BY <1>2, <1>3, <1>6, <1>7, <1>8, <1>9, <1>10 DEF Next

\* RoundsSucceed, for all clients, rounds, results and options: when nothing
\* fails, no round is recorded as failed but with a result read in part, or of
\* too few messages.
THEOREM NothingIsLost == Spec => []RoundsSucceed
<1>1. FlowInv => RoundsSucceed
  BY DEF FlowInv, RoundsSucceed
<1> QED
  BY FlowInit, FlowStep, <1>1, PTL DEF Spec
=============================================================================
