------------------------- MODULE EchoThreads_proofs -------------------------
(***************************************************************************)
(* What is proved about EchoThreads, for every set of connections, message *)
(* length, listen queue, client and fault.                                 *)
(***************************************************************************)
EXTENDS EchoThreads, TLAPS

-----------------------------------------------------------------------------
(* The connections. *)

LEMMA MsgLenType == ASSUME setup \in Setups PROVE MsgLen \in Nat \ {0}
BY PartsAssumption DEF MsgLen

LEMMA NetInitTypes == ASSUME NetInit PROVE NetTypeOK
<1>1. setup \in Setups /\ MsgLen \in Nat
  BY MsgLenType DEF NetInit
<1>2. sent \in [Socks -> 0..MaxMsgs] /\ coming \in [Socks -> 0..MsgLen]
  BY <1>1, MaxMsgsAssumption DEF NetInit
<1>3. ended \in BOOLEAN /\ answered \in [Socks -> BOOLEAN]
  BY DEF NetInit
<1> QED
  BY <1>1, <1>2, <1>3 DEF NetInit, NetTypeOK

\* The types of the connections survive what the loader and TCP do.
LEMMA NetStepTypes ==
    ASSUME NetTypeOK, End \/ \E s \in Socks : Net(s)
    PROVE  NetTypeOK'
<1>1. setup \in Setups /\ MsgLen \in Nat
  BY MsgLenType DEF NetTypeOK
<1> USE <1>1 DEF NetTypeOK, loaderVars, wire, arrived
<1>2. CASE End
  BY <1>2 DEF End, MsgLen
<1>3. ASSUME NEW s \in Socks, Connect(s) PROVE NetTypeOK'
  BY <1>3 DEF Connect, MsgLen
<1>4. ASSUME NEW s \in Socks, Send(s) PROVE NetTypeOK'
  <2>1. MsgLen' = MsgLen
    BY <1>4 DEF Send, MsgLen
  <2>2. sent' \in [Socks -> 0..MaxMsgs]
    BY <1>4, MaxMsgsAssumption DEF Send
  <2> QED
    BY <1>4, <2>1, <2>2 DEF Send
<1>5. ASSUME NEW s \in Socks, Close(s) PROVE NetTypeOK'
  BY <1>5 DEF Close, MsgLen
<1>6. ASSUME NEW s \in Socks, TooLate(s) PROVE NetTypeOK'
  BY <1>6 DEF TooLate, MsgLen
<1>7. ASSUME NEW s \in Socks, Deliver(s) PROVE NetTypeOK'
  <2>1. MsgLen' = MsgLen
    BY <1>7 DEF Deliver, MsgLen
  <2> QED
    BY <1>7, <2>1 DEF Deliver
<1>8. ASSUME NEW s \in Socks, DeliverEnd(s) PROVE NetTypeOK'
  <2>1. MsgLen' = MsgLen
    BY <1>8 DEF DeliverEnd, MsgLen
  <2> QED
    BY <1>8, <2>1 DEF DeliverEnd
<1> QED
  BY <1>2, <1>3, <1>4, <1>5, <1>6, <1>7, <1>8 DEF Net

-----------------------------------------------------------------------------
(* The ends of the connections. *)

Ended(s) == peer[s] # "open"

\* An end is on its way only when the loader's run is over.
ClosedAfterTheRun ==
    \A s \in Socks : loader[s] = "closed" \/ ending[s] # "none" \/ Ended(s) => ended

\* An end stays.
LEMMA NetEnds ==
    ASSUME NetTypeOK, ClosedAfterTheRun, End \/ \E s \in Socks : Net(s)
    PROVE  /\ ClosedAfterTheRun'
           /\ \A s \in Socks : Ended(s) => Ended(s)'
<1> USE DEF NetTypeOK, ClosedAfterTheRun, Ended, loaderVars, wire, arrived
<1> DEFINE Goal == /\ ClosedAfterTheRun'
                   /\ \A s \in Socks : Ended(s) => Ended(s)'
<1>1. CASE End
  BY <1>1 DEF End
<1>2. ASSUME NEW s \in Socks, Connect(s) PROVE Goal
  BY <1>2 DEF Connect
<1>3. ASSUME NEW s \in Socks, Send(s) PROVE Goal
  BY <1>3 DEF Send
<1>4. ASSUME NEW s \in Socks, Close(s) PROVE Goal
  BY <1>4 DEF Close
<1>5. ASSUME NEW s \in Socks, TooLate(s) PROVE Goal
  BY <1>5 DEF TooLate
<1>6. ASSUME NEW s \in Socks, Deliver(s) PROVE Goal
  BY <1>6 DEF Deliver
<1>7. ASSUME NEW s \in Socks, DeliverEnd(s) PROVE Goal
  BY <1>7 DEF DeliverEnd
<1> QED
  BY <1>1, <1>2, <1>3, <1>4, <1>5, <1>6, <1>7 DEF Net

\* The step leaves alone the ends of the connections.
NetKept == UNCHANGED <<setup, loader, ending, ended, peer>>

LEMMA KeptClosed == ASSUME ClosedAfterTheRun, NetKept PROVE ClosedAfterTheRun'
BY DEF ClosedAfterTheRun, NetKept, Ended
-----------------------------------------------------------------------------
(* The workers. *)

Working(s) == wpc[s] \in {"recv", "write"}

\* A worker has a connection.  The first stamp is taken once: by the clients
\* that stamp first before an answer is written, by every client that is not a
\* server before it waits for its workers.  Nobody connects to a client that
\* does not listen yet.
IInv ==
    /\ TypeOK
    /\ Client \in Clients
    /\ mpc # "returned" => stamps \in 0..1 /\ rc = "none"
    /\ mpc = "listen" => \A s \in Socks : loader[s] = "none"
    /\ \A s \in Socks : loader[s] = "none" => conn[s] = "none"
    /\ \A s \in Socks : wpc[s] # "none" => conn[s] = "open"
    /\ ~IsServer /\ mpc = "join" => stamps = 1 /\ (Accepted = Socks \/ NeverRan)
    /\ Client = "asyncio_sock" /\ mpc \in {"listen", "accept", "yield"} =>
            stamps = 0 /\ \A s \in Socks : wpc[s] = "none"
    /\ IsServer => \A s \in Socks : wpc[s] = "write" => stamps = 1
    /\ rc = "ok" => mpc = "returned" /\ \A s \in Accepted : Finished(s)

LEMMA InitInv == Init => IInv
<1> SUFFICES ASSUME Init PROVE IInv
  OBVIOUS
<1>1. TypeOK
  BY NetInitTypes DEF Init, TypeOK
<1>2. Client \in Clients
  BY ThreadsSetupsAssumption DEF Init, NetInit, Client
<1> QED
  BY <1>1, <1>2 DEF Init, NetInit, IInv

\* The loader and the network do not touch what the client has accepted.
LEMMA LoaderStep == ASSUME IInv, Loader PROVE IInv'
<1>1. UNCHANGED clientVars /\ UNCHANGED setup
  BY DEF Loader, Net, End, Connect, Send, Close, TooLate, Deliver, DeliverEnd, loaderVars
<1>2. NetTypeOK'
  BY NetStepTypes DEF Loader, IInv, TypeOK
<1>3. ASSUME NEW s \in Socks
      PROVE  /\ conn[s] = "open" <=> conn'[s] = "open"
             /\ loader'[s] = "none" => conn'[s] = "none"
  <2>1. ASSUME NEW t \in Socks, Connect(t)
        PROVE  /\ conn[s] = "open" <=> conn'[s] = "open"
               /\ loader'[s] = "none" => conn'[s] = "none"
    BY <2>1 DEF Connect, IInv, TypeOK, NetTypeOK
  <2>2. ASSUME NEW t \in Socks, Close(t)
        PROVE  /\ conn[s] = "open" <=> conn'[s] = "open"
               /\ loader'[s] = "none" => conn'[s] = "none"
    BY <2>2 DEF Close, IInv, TypeOK, NetTypeOK
  <2> QED
    BY <2>1, <2>2 DEF Loader, Net, End, Send, TooLate, Deliver, DeliverEnd, IInv, loaderVars
<1>4. Accepted' = Accepted
  BY <1>3 DEF Accepted
<1>5. mpc \notin {"accept", "yield"} => \A s \in Socks : loader[s] = "none" => loader'[s] = "none"
  BY DEF Loader, Net, End, Connect, Send, Close, TooLate, Deliver, DeliverEnd, loaderVars,
     IInv, TypeOK, NetTypeOK
<1>6. mpc = "join" /\ NeverRan => NeverRan'
  BY <1>1, <1>5 DEF NeverRan, Client, Faults
<1>7. mpc = "listen" => \A s \in Socks : loader'[s] = "none"
  BY <1>5 DEF IInv
<1> QED
  BY <1>1, <1>2, <1>3, <1>4, <1>6, <1>7
     DEF IInv, TypeOK, clientVars, Client, IsServer, Finished

\* The main thread.
LEMMA MainStep ==
    ASSUME IInv,
           \/ Listen \/ StampEarly \/ AcceptYields \/ AcceptEnds \/ Join \/ GatherRaises
           \/ BindFails \/ AcceptFails \/ \E s \in Socks : AcceptOne(s)
    PROVE  IInv'
<1>1. UNCHANGED <<setup, loader>>
  BY DEF Listen, StampEarly, AcceptYields, AcceptEnds, Join, GatherRaises, BindFails,
     AcceptFails, AcceptOne, netVars, loaderVars
<1>2. NetTypeOK'
  <2>1. conn' \in [Socks -> {"none", "queued", "open"}]
    BY DEF Listen, StampEarly, AcceptYields, AcceptEnds, Join, GatherRaises, BindFails,
       AcceptFails, AcceptOne, netVars, IInv, TypeOK, NetTypeOK
  <2>2. UNCHANGED <<loaderVars, wire, arrived>>
    BY DEF Listen, StampEarly, AcceptYields, AcceptEnds, Join, GatherRaises, BindFails,
       AcceptFails, AcceptOne, netVars
  <2> QED
    BY <2>1, <2>2 DEF IInv, TypeOK, NetTypeOK, MsgLen, loaderVars, wire, arrived
<1> USE DEF IInv, TypeOK, Client, IsServer
<1>3. CASE Listen \/ AcceptYields
  BY <1>1, <1>2, <1>3 DEF Listen, AcceptYields, netVars, Accepted
<1>4. CASE StampEarly
  BY <1>1, <1>2, <1>4 DEF StampEarly, StampDue, netVars, Accepted
<1>10. CASE BindFails
  <2>1. /\ UNCHANGED <<setup, loader, conn, wpc>> /\ mpc = "listen" /\ "bind" \in Faults
        /\ \/ Client = "cpp_th" /\ mpc' = "join" /\ stamps' = 1 /\ rc' = "none"
           \/ mpc' = "returned" /\ rc' \in {"error", "abort"} /\ stamps' = stamps
    BY <1>1, <1>10 DEF BindFails, Return, netVars
  <2>2. mpc' = "join" => NeverRan'
    BY <2>1 DEF NeverRan, Faults
  <2>3. IsServer => \A s \in Socks : wpc'[s] = "write" => stamps' = 1
    BY <2>1
  <2> QED
    BY <1>1, <1>2, <2>1, <2>2, <2>3 DEF Accepted
<1>5. CASE AcceptFails
  BY <1>1, <1>2, <1>5 DEF AcceptFails, Return, netVars, Accepted
<1>6. CASE AcceptEnds
  BY <1>1, <1>2, <1>6 DEF AcceptEnds, StampOnce, netVars, Accepted, Clients
<1>7. CASE Join
  BY <1>1, <1>2, <1>7 DEF Join, AllJoined, Return, netVars, Accepted, Finished
<1>8. CASE GatherRaises
  BY <1>1, <1>2, <1>8 DEF GatherRaises, Return, netVars, Accepted
<1>9. ASSUME NEW s \in Socks, AcceptOne(s) PROVE IInv'
  BY <1>1, <1>2, <1>9 DEF AcceptOne, FirstState, NetTypeOK
<1> QED
  BY <1>3, <1>4, <1>5, <1>6, <1>7, <1>8, <1>9, <1>10

\* What a worker does with its own state; the rest follows from the types.
LEMMA WorkerState ==
    ASSUME NEW s \in Socks, IInv, Worker(s)
    PROVE  /\ Working(s) /\ MayRun /\ UNCHANGED <<setup, loader, conn>>
           /\ wpc' \in {[wpc EXCEPT ![s] = p] : p \in {"recv", "write", "raised", "gone"}}
                      \cup {wpc}
           /\ stamps' \in {stamps, ReadStamp}
           /\ wpc'[s] = "write" /\ IsServer => stamps' = ReadStamp
           /\ \/ UNCHANGED <<mpc, rc>>
              \/ mpc' = "returned" /\ rc' = "abort" /\ Client = "go"
              \/ mpc = "accept" /\ mpc' = "join" /\ IsServer /\ UNCHANGED rc /\ Finished(s)'
<1> USE DEF IInv, TypeOK, NetTypeOK, Working, Finished
<1>1. CASE RecvReset(s)
  BY <1>1 DEF RecvReset, Ends, netVars, loaderVars
<1>2. CASE RecvEnd(s)
  BY <1>2 DEF RecvEnd, Goes, Ends, Return, netVars, loaderVars, IsServer
<1>3. CASE RecvPartial(s)
  BY <1>3 DEF RecvPartial, Goes, Ends, Return, loaderVars, IsServer
<1>4. CASE RecvMessage(s)
  BY <1>4 DEF RecvMessage, Return, loaderVars
<1>5. CASE WriteAnswer(s)
  BY <1>5 DEF WriteAnswer, loaderVars
<1>6. CASE WriteFails(s)
  BY <1>6 DEF WriteFails, Ends, netVars, loaderVars
<1> QED
  BY <1>1, <1>2, <1>3, <1>4, <1>5, <1>6 DEF Worker

LEMMA WorkerTypes == ASSUME NEW s \in Socks, IInv, Worker(s) PROVE NetTypeOK'
<1>1. MsgLen' = MsgLen /\ MsgLen \in Nat
  BY WorkerState, MsgLenType DEF MsgLen, IInv, TypeOK, NetTypeOK
<1>2. rx' \in [Socks -> Nat] /\ answered' \in [Socks -> BOOLEAN]
  <2>1. CASE RecvPartial(s) \/ RecvMessage(s)
    BY <1>1, <2>1 DEF RecvPartial, RecvMessage, Whole, wire, IInv, TypeOK, NetTypeOK
  <2>2. CASE WriteAnswer(s)
    BY <2>2 DEF WriteAnswer, arrived, IInv, TypeOK, NetTypeOK
  <2>3. CASE UNCHANGED netVars
    BY <2>3 DEF netVars, wire, arrived, IInv, TypeOK, NetTypeOK
  <2> QED
    BY <2>1, <2>2, <2>3 DEF Worker, RecvReset, RecvEnd, WriteFails
<1>3. UNCHANGED <<loaderVars, coming, ending, peer, news, conn>>
  BY DEF Worker, RecvReset, RecvEnd, RecvPartial, RecvMessage, WriteAnswer, WriteFails,
     netVars, wire, arrived
<1> QED
  BY <1>1, <1>2, <1>3 DEF IInv, TypeOK, NetTypeOK, loaderVars

LEMMA WorkerStep == ASSUME NEW s \in Socks, IInv, Worker(s) PROVE IInv'
<1>1. /\ Working(s) /\ MayRun /\ UNCHANGED <<setup, loader, conn>>
      /\ wpc' \in [Socks -> {"none", "recv", "write", "raised", "gone"}]
      /\ \A t \in Socks \ {s} : wpc'[t] = wpc[t]
      /\ stamps' \in {stamps, ReadStamp}
      /\ wpc'[s] = "write" /\ IsServer => stamps' = ReadStamp
      /\ \/ UNCHANGED <<mpc, rc>>
         \/ mpc' = "returned" /\ rc' = "abort" /\ Client = "go"
         \/ mpc = "accept" /\ mpc' = "join" /\ IsServer /\ UNCHANGED rc
  BY WorkerState DEF IInv, TypeOK
<1>2. /\ NetTypeOK' /\ Accepted' = Accepted /\ Client' = Client /\ IsServer' = IsServer
      /\ NeverRan' = NeverRan
  BY <1>1, WorkerTypes DEF Accepted, Client, IsServer, NeverRan, Faults
<1>3. conn[s] = "open" /\ rc # "ok"
  BY <1>1 DEF IInv, Working, Accepted, Finished
<1>4. IsServer => mpc \in {"accept", "join"}
  <2>1. ASSUME Client = "asyncio" PROVE mpc \in {"accept", "join"}
    BY <1>1, <2>1 DEF MayRun, IsServer
  <2>2. ASSUME Client = "asyncio_proto" PROVE mpc \in {"accept", "join"}
    BY <1>1, <2>2 DEF MayRun, IsServer
  <2> QED
    BY <2>1, <2>2 DEF IsServer
<1>5. Client = "asyncio_sock" => mpc = "join"
  <2>1. ASSUME Client = "asyncio_sock" PROVE mpc = "join"
    BY <1>1, <2>1 DEF MayRun, IsServer
  <2> QED
    BY <2>1
<1>6. stamps' \in 0..2 /\ (mpc # "returned" => stamps' \in 0..1)
      /\ (~IsServer => stamps' = stamps) /\ (stamps = 1 /\ IsServer => stamps' = 1)
  BY <1>1, <1>4 DEF IInv, TypeOK, ReadStamp, StampOnce
<1>7. IsServer => \A t \in Socks : wpc'[t] = "write" => stamps' = 1
  BY <1>1, <1>4, <1>6 DEF IInv, TypeOK, ReadStamp, StampOnce
<1> QED
  BY <1>1, <1>2, <1>3, <1>5, <1>6, <1>7 DEF IInv, TypeOK, Clients, IsServer

LEMMA Step == ASSUME IInv, [Next]_vars PROVE IInv'
<1>1. CASE UNCHANGED vars
  BY <1>1 DEF IInv, TypeOK, NetTypeOK, MsgLen, Client, IsServer, Accepted, Finished, NeverRan,
     Faults, vars, netVars, loaderVars, wire, arrived, clientVars
<1> QED
  BY <1>1, LoaderStep, MainStep, WorkerStep DEF Next, Works

LEMMA Invariance == Spec => []IInv
BY InitInv, Step, PTL DEF Spec

\* The types of what the workers and the main thread keep: no client takes a
\* third stamp, whoever of its workers reads first or ends last.
THEOREM TypeCorrect == Spec => []TypeOK
<1>1. IInv => TypeOK
  BY DEF IInv
<1> QED
  BY Invariance, <1>1, PTL

\* The clients that stamp first answer between the stamps only.
THEOREM MeasuredWork == Spec => AnswersAreMeasured
<1>1. ASSUME IInv, [Next]_vars
      PROVE  StampsFirst => \A s \in Socks : answered[s]' /\ ~answered[s] => stamps = 1
  <2> SUFFICES ASSUME StampsFirst, NEW s \in Socks, answered[s]', ~answered[s]
               PROVE  stamps = 1
    OBVIOUS
  <2>1. PICK t \in Socks : WriteAnswer(t)
    <3>1. ASSUME NEW t \in Socks, Net(t) PROVE FALSE
      BY <1>1, <3>1 DEF Net, Connect, Send, Close, TooLate, Deliver, DeliverEnd, wire,
         IInv, TypeOK, NetTypeOK
    <3>2. ASSUME UNCHANGED answered PROVE FALSE
      BY <1>1, <3>2
    <3> QED
      BY <1>1, <3>1, <3>2 DEF Next, Works, Loader, End, Worker, RecvReset, RecvEnd, RecvPartial,
         RecvMessage, WriteFails, Listen, StampEarly, AcceptYields, AcceptEnds, Join,
         GatherRaises, BindFails, AcceptFails, AcceptOne, vars, netVars, wire
  <2>2. MayRun /\ wpc[t] = "write"
    BY <2>1 DEF WriteAnswer
  <2>3. CASE IsServer
    BY <1>1, <2>2, <2>3 DEF IInv
  <2>4. CASE Client = "asyncio_sock"
    BY <1>1, <2>2, <2>4 DEF IInv, MayRun, IsServer
  <2> QED
    BY <1>1, <2>3, <2>4 DEF StampsFirst, IsServer
<1> QED
  BY Invariance, <1>1, PTL DEF Spec, AnswersAreMeasured

-----------------------------------------------------------------------------
(* A client returns when its connections have ended. *)

\* Neither lost nor given up before anything was written.
Sound == Faults \cap {"giveup", "reset"} = {}

\* What a server that has not taken its first stamp may still count on: no
\* reset, and a message to be read on every connection that was written to.
Unstamped ==
    /\ stamps = 0
    /\ \A s \in Socks : /\ ending[s] # "reset" /\ peer[s] # "reset" /\ ~answered[s]
                        /\ sent[s] > 0 => coming[s] > 0 \/ rx[s] > 0

\* Somebody has ended when the main thread waits for the end.
SomeoneFinished == \E s \in Accepted : Finished(s)

EndInv ==
    /\ IInv
    /\ ClosedAfterTheRun
    /\ \A s \in Socks : Ended(s) => coming[s] = 0
    /\ Sound /\ ended => \A s \in Socks : sent[s] > 0
    /\ Sound /\ IsServer /\ stamps = 0 => Unstamped /\ mpc # "join"
    /\ mpc = "join" \/ rc = "ok" =>
            IF IsServer THEN SomeoneFinished ELSE Accepted = Socks \/ NeverRan
    /\ MsgLen = 1 => \A s \in Socks : Finished(s) => Ended(s)
    /\ rc = "ok" => (IsServer /\ ~Sound) \/ stamps = 2

LEMMA EndInit == Init => EndInv
<1> SUFFICES ASSUME Init PROVE EndInv
  OBVIOUS
<1>1. IInv
  BY InitInv
<1> QED
  BY <1>1 DEF Init, NetInit, EndInv, Unstamped, ClosedAfterTheRun, Ended, Finished

LEMMA EndLoader == ASSUME EndInv, Loader PROVE EndInv'
<1>1. IInv /\ IInv' /\ NetTypeOK
  BY LoaderStep DEF EndInv, IInv, TypeOK
<1>2. UNCHANGED <<clientVars, setup>>
  BY DEF Loader, Net, End, Connect, Send, Close, TooLate, Deliver, DeliverEnd, loaderVars
<1>3. /\ ClosedAfterTheRun'
      /\ \A s \in Socks : Ended(s) => Ended(s)'
  BY <1>1, NetEnds DEF Loader, EndInv
<1>4. Sound' = Sound /\ IsServer' = IsServer /\ MsgLen' = MsgLen /\ Accepted \subseteq Accepted'
  <2>1. \A s \in Socks : conn[s] = "open" => conn'[s] = "open"
    BY <1>1 DEF Loader, Net, End, Connect, Send, Close, TooLate, Deliver, DeliverEnd, IInv,
       NetTypeOK
  <2> QED
    BY <1>2, <2>1 DEF Sound, IsServer, Client, Faults, MsgLen, Accepted
<1>5. Sound /\ ended' => \A s \in Socks : sent'[s] > 0
  <2> SUFFICES ASSUME Sound, ended' PROVE \A s \in Socks : sent'[s] > 0
    OBVIOUS
  <2>1. CASE End
    BY <2>1 DEF End, Sound
  <2>2. ASSUME NEW s \in Socks, Net(s) PROVE ended /\ UNCHANGED sent
    BY <1>1, <2>2 DEF Net, Connect, Send, Close, TooLate, Deliver, DeliverEnd, loaderVars
  <2> QED
    BY <2>1, <2>2 DEF Loader, EndInv
<1>6. ASSUME Sound, Unstamped PROVE Unstamped'
  <2> USE DEF Unstamped, NetTypeOK, loaderVars, wire, arrived
  <2>1. CASE End
    BY <1>2, <1>6, <2>1 DEF End, clientVars
  <2>2. ASSUME NEW s \in Socks, Connect(s) PROVE Unstamped'
    BY <1>2, <1>6, <2>2 DEF Connect, clientVars
  <2>3. ASSUME NEW s \in Socks, Send(s) PROVE Unstamped'
    <3>1. MsgLen \in Nat \ {0}
      BY <1>1, MsgLenType
    <3> QED
      BY <1>1, <1>2, <1>6, <2>3, <3>1 DEF Send, clientVars
  <2>4. ASSUME NEW s \in Socks, Close(s) PROVE Unstamped'
    BY <1>1, <1>2, <1>6, <2>4 DEF Close, clientVars, Sound
  <2>5. ASSUME NEW s \in Socks, TooLate(s) PROVE Unstamped'
    BY <1>6, <2>5 DEF TooLate
  <2>6. ASSUME NEW s \in Socks, Deliver(s) PROVE Unstamped'
    <3>1. PICK n \in 1..coming[s] : rx' = [rx EXCEPT ![s] = @ + n]
      BY <2>6 DEF Deliver
    <3>2. coming[s] \in Nat
      BY <1>1, MsgLenType
    <3>3. rx'[s] > 0 /\ \A t \in Socks \ {s} : rx'[t] = rx[t] /\ coming'[t] = coming[t]
      BY <1>1, <2>6, <3>1, <3>2 DEF Deliver
    <3>4. UNCHANGED <<sent, answered, ending, peer, stamps>>
      BY <1>2, <2>6 DEF Deliver, clientVars
    <3> QED
      BY <1>6, <3>3, <3>4
  <2>7. ASSUME NEW s \in Socks, DeliverEnd(s) PROVE Unstamped'
    BY <1>1, <1>2, <1>6, <2>7 DEF DeliverEnd, clientVars
  <2> QED
    BY <2>1, <2>2, <2>3, <2>4, <2>5, <2>6, <2>7 DEF Loader, Net
<1>7. wpc' = wpc /\ mpc' = mpc /\ rc' = rc /\ stamps' = stamps
  BY <1>2 DEF clientVars
<1>8. \A s \in Socks : Ended(s)' => coming'[s] = 0
  <2> USE DEF NetTypeOK, Ended, loaderVars, wire, arrived
  <2>1. ASSUME NEW s \in Socks, Send(s) PROVE \A t \in Socks : Ended(t)' => coming'[t] = 0
    BY <1>1, <2>1 DEF Send, EndInv, ClosedAfterTheRun
  <2>2. ASSUME NEW s \in Socks, Deliver(s) PROVE \A t \in Socks : Ended(t)' => coming'[t] = 0
    <3>1. PICK n \in 1..coming[s] : UNCHANGED peer /\ coming' = [coming EXCEPT ![s] = @ - n]
      BY <2>2 DEF Deliver
    <3>2. ~Ended(s)
      BY <1>1, <3>1 DEF EndInv
    <3> QED
      BY <1>1, <3>1, <3>2 DEF EndInv
  <2>3. ASSUME NEW s \in Socks, DeliverEnd(s) PROVE \A t \in Socks : Ended(t)' => coming'[t] = 0
    BY <1>1, <2>3 DEF DeliverEnd, EndInv
  <2>4. CASE UNCHANGED <<peer, coming>>
    BY <2>4 DEF EndInv
  <2> QED
    BY <2>1, <2>2, <2>3, <2>4 DEF Loader, Net, End, Connect, Close, TooLate
<1>9. mpc = "join" \/ rc = "ok" =>
        IF IsServer THEN SomeoneFinished' ELSE Accepted' = Socks \/ NeverRan'
  <2> SUFFICES ASSUME mpc = "join" \/ rc = "ok"
               PROVE  IF IsServer THEN SomeoneFinished' ELSE Accepted' = Socks \/ NeverRan'
    OBVIOUS
  <2>1. mpc \notin {"accept", "yield"}
    BY <1>1 DEF IInv
  <2>2. \A s \in Socks : loader[s] = "none" => loader'[s] = "none"
    BY <1>1, <2>1 DEF Loader, Net, End, Connect, Send, Close, TooLate, Deliver, DeliverEnd,
       loaderVars, NetTypeOK
  <2>3. NeverRan => NeverRan'
    BY <1>2, <2>2 DEF NeverRan, Client, Faults
  <2> QED
    BY <1>4, <1>7, <2>3 DEF EndInv, SomeoneFinished, Finished, Accepted
<1> QED
  BY <1>1, <1>3, <1>4, <1>5, <1>6, <1>7, <1>8, <1>9 DEF EndInv, Finished, Unstamped

LEMMA EndMain ==
    ASSUME EndInv,
           \/ Listen \/ StampEarly \/ AcceptYields \/ AcceptEnds \/ Join \/ GatherRaises
           \/ BindFails \/ AcceptFails \/ \E s \in Socks : AcceptOne(s)
    PROVE  EndInv'
<1>1. IInv /\ IInv' /\ TypeOK /\ NetTypeOK
  BY MainStep DEF EndInv, IInv, TypeOK
<1>2. UNCHANGED <<loaderVars, wire, arrived>>
  BY DEF Listen, StampEarly, AcceptYields, AcceptEnds, Join, GatherRaises, BindFails,
     AcceptFails, AcceptOne, netVars
<1>3. /\ ClosedAfterTheRun'
      /\ Sound' = Sound /\ IsServer' = IsServer /\ MsgLen' = MsgLen /\ Client' = Client
      /\ NeverRan' = NeverRan
  BY <1>2, KeptClosed DEF EndInv, NetKept, loaderVars, wire, arrived, Sound, IsServer, Client,
     Faults, MsgLen, NeverRan
<1>4. \A s \in Socks : Finished(s)' => Finished(s)
  BY <1>1 DEF Finished, Listen, StampEarly, AcceptYields, AcceptEnds, Join, GatherRaises,
     BindFails, AcceptFails, AcceptOne, FirstState, TypeOK
<1>5. MsgLen = 1 => \A s \in Socks : Finished(s)' => Ended(s)'
  BY <1>2, <1>4 DEF EndInv, Ended, arrived
<1>6. ASSUME Sound, IsServer, stamps' = 0 PROVE Unstamped' /\ mpc' # "join"
  <2>1. stamps = 0
    BY <1>1, <1>6 DEF Listen, StampEarly, AcceptYields, AcceptEnds, Join, GatherRaises,
       BindFails, AcceptFails, AcceptOne, StampOnce, TypeOK
  <2>2. mpc' # "join"
    BY <1>6, <2>1 DEF EndInv, Listen, StampEarly, AcceptYields, AcceptEnds, Join, GatherRaises,
       BindFails, AcceptFails, AcceptOne, Return
  <2> QED
    BY <1>2, <1>6, <2>1, <2>2 DEF EndInv, Unstamped, loaderVars, wire, arrived
<1>7. \A s \in Socks : Ended(s)' => coming'[s] = 0
  BY <1>2 DEF EndInv, Ended, wire, arrived
<1>8. CASE Join
  <2>1. /\ stamps' = stamps + 1 /\ UNCHANGED <<conn, wpc>> /\ mpc = "join"
        /\ mpc' = "returned" /\ rc' = "ok"
    BY <1>8 DEF Join, Return, netVars
  <2>2. (IsServer /\ ~Sound) \/ stamps' = 2
    BY <1>1, <2>1 DEF EndInv, IInv, TypeOK
  <2> QED
    BY <1>1, <1>2, <1>3, <1>5, <1>6, <1>7, <2>1, <2>2
       DEF EndInv, SomeoneFinished, Finished, Accepted, loaderVars
<1>9. CASE ~Join
  <2>1. (rc' = "ok" => rc = "ok") /\ rc # "ok"
    BY <1>1, <1>9 DEF IInv, Listen, StampEarly, AcceptYields, AcceptEnds, Join, GatherRaises,
       BindFails, AcceptFails, AcceptOne, Return
  <2>2. mpc' = "join" => ~IsServer /\ (Accepted' = Socks \/ NeverRan')
    BY <1>9, <1>1, <1>3 DEF IInv, NeverRan, IsServer, Listen, StampEarly, AcceptYields, AcceptEnds, GatherRaises,
       BindFails, AcceptFails, AcceptOne, Return, Accepted, netVars
  <2> QED
    BY <1>1, <1>2, <1>3, <1>5, <1>6, <1>7, <2>1, <2>2 DEF EndInv, loaderVars
<1> QED
  BY <1>8, <1>9

\* A worker of a server that has nothing to be read on its connection waits; what
\* it has been given to read makes it take the first stamp.
LEMMA EndWorker == ASSUME NEW s \in Socks, EndInv, Worker(s) PROVE EndInv'
<1>1. IInv /\ IInv' /\ TypeOK /\ NetTypeOK
  BY WorkerStep DEF EndInv, IInv, TypeOK
<1>2. /\ Working(s) /\ MayRun /\ UNCHANGED <<setup, loader, conn>>
      /\ wpc' \in {[wpc EXCEPT ![s] = p] : p \in {"recv", "write", "raised", "gone"}}
                 \cup {wpc}
      /\ stamps' \in {stamps, ReadStamp}
      /\ \/ UNCHANGED <<mpc, rc>>
         \/ mpc' = "returned" /\ rc' = "abort" /\ Client = "go"
         \/ mpc = "accept" /\ mpc' = "join" /\ IsServer /\ UNCHANGED rc /\ Finished(s)'
  BY <1>1, WorkerState
<1>3. UNCHANGED <<loaderVars, coming, ending, peer>>
  BY DEF Worker, RecvReset, RecvEnd, RecvPartial, RecvMessage, WriteAnswer, WriteFails,
     netVars, wire, arrived
<1>4. /\ ClosedAfterTheRun'
      /\ Sound' = Sound /\ IsServer' = IsServer /\ MsgLen' = MsgLen /\ Client' = Client
      /\ Accepted' = Accepted /\ NeverRan' = NeverRan
  BY <1>2, <1>3, KeptClosed DEF EndInv, NetKept, loaderVars, Sound, IsServer, Client,
     Faults, MsgLen, Accepted, NeverRan
<1>5. conn[s] = "open" /\ s \in Accepted /\ rc # "ok"
  BY <1>1, <1>2 DEF IInv, Working, Accepted, Finished
<1>6. \A t \in Socks : Finished(t) => Finished(t)' /\ t # s
  BY <1>1, <1>2 DEF Finished, Working, TypeOK
<1>7. MsgLen = 1 => \A t \in Socks : Finished(t)' => Ended(t)'
  <2>1. MsgLen = 1 /\ Finished(s)' => Ended(s)
    <3>1. RecvPartial(s) => MsgLen # 1
      BY <1>1 DEF RecvPartial, TypeOK, NetTypeOK
    <3>2. Finished(s)' /\ (RecvMessage(s) \/ WriteAnswer(s)) => FALSE
      BY <1>1, <1>2 DEF RecvMessage, WriteAnswer, Finished, Working, TypeOK
    <3> QED
      BY <3>1, <3>2 DEF Worker, RecvReset, RecvEnd, WriteFails, Ended
  <2>2. \A t \in Socks \ {s} : Finished(t)' => Finished(t)
    BY <1>1, <1>2 DEF Finished, TypeOK
  <2> QED
    BY <1>3, <2>1, <2>2 DEF EndInv, Ended
<1>8. ASSUME Sound, IsServer, stamps' = 0 PROVE Unstamped' /\ mpc' # "join"
  <2>1. stamps = 0 /\ Unstamped /\ mpc # "join"
    BY <1>1, <1>2, <1>8 DEF EndInv, ReadStamp, StampOnce, TypeOK
  <2>2. peer[s] # "reset" /\ wpc[s] = "recv"
    BY <1>1, <1>2, <1>8, <2>1 DEF Unstamped, IInv, Working
  <2>3. ~(RecvPartial(s) \/ RecvMessage(s))
    BY <1>8, <2>1 DEF RecvPartial, RecvMessage, ReadStamp, StampOnce
  <2>4. ~RecvEnd(s)
    <3> SUFFICES ASSUME RecvEnd(s) PROVE FALSE
      OBVIOUS
    <3>1. peer[s] = "fin" /\ rx[s] = 0
      BY DEF RecvEnd
    <3>2. sent[s] > 0 /\ coming[s] > 0 /\ coming[s] = 0
      BY <1>8, <2>1, <3>1 DEF EndInv, ClosedAfterTheRun, Ended, Unstamped
    <3> QED
      BY <3>2
  <2> QED
    BY <2>2, <2>3, <2>4 DEF Worker, RecvReset, WriteAnswer, WriteFails
<1>9. mpc' = "join" =>
        IF IsServer THEN SomeoneFinished' ELSE Accepted' = Socks \/ NeverRan'
  <2>1. CASE mpc = "join"
    <3>1. IsServer => \E t \in Accepted : Finished(t)
      BY <2>1 DEF EndInv, SomeoneFinished
    <3>2. \A t \in Accepted : Finished(t) => Finished(t)'
      BY <1>6 DEF Accepted
    <3>3. ~IsServer => Accepted = Socks \/ NeverRan
      BY <2>1 DEF EndInv
    <3> QED
      BY <1>4, <3>1, <3>2, <3>3 DEF SomeoneFinished
  <2>2. CASE mpc # "join"
    BY <1>2, <1>4, <1>5, <2>2 DEF SomeoneFinished
  <2> QED
    BY <2>1, <2>2
<1>10. \A t \in Socks : Ended(t)' => coming'[t] = 0
  BY <1>3 DEF EndInv, Ended
<1> QED
  BY <1>1, <1>2, <1>3, <1>4, <1>5, <1>7, <1>8, <1>9, <1>10 DEF EndInv, loaderVars

LEMMA EndStep == ASSUME EndInv, [Next]_vars PROVE EndInv'
<1>1. CASE UNCHANGED vars
  <2>1. IInv' /\ ClosedAfterTheRun'
    BY <1>1, Step, KeptClosed DEF EndInv, NetKept, vars, netVars, loaderVars, wire, arrived
  <2>2. /\ UNCHANGED <<setup, clientVars, loaderVars, wire, arrived>>
        /\ Accepted' = Accepted /\ NeverRan' = NeverRan
    BY <1>1 DEF vars, netVars, loaderVars, Accepted, NeverRan, Client, Faults
  <2> QED
    BY <2>1, <2>2 DEF EndInv, Unstamped, SomeoneFinished, Finished, Ended, Sound, IsServer,
       Client, Faults, MsgLen, clientVars, loaderVars, wire, arrived
<1> QED
  BY <1>1, EndLoader, EndMain, EndWorker DEF Next, Works

\* A client that returns has taken its stamps, and the second when the loader's
\* run was over and the connections, all of them when it is not a server, were
\* seen to end; a server needs one of them to come to that.  Only run_test_th
\* returns without: when its bind failed and nobody ever connected.
THEOREM EndOfTheTest ==
    ASSUME Socks # {}
    PROVE  Spec => []MeasuresToTheEnd
<1>1. EndInv => MeasuresToTheEnd
  <2> SUFFICES ASSUME EndInv, rc = "ok" PROVE MeasuresToTheEnd
    BY DEF MeasuresToTheEnd
  <2>1. /\ (IsServer /\ ~Sound) \/ stamps = 2
        /\ \A s \in Accepted : Finished(s)
        /\ ~IsServer => Accepted = Socks \/ NeverRan
    BY DEF EndInv, IInv
  <2>2. NeverRan \/ \E s \in Accepted : Finished(s)
    BY <2>1 DEF EndInv, SomeoneFinished
  <2>3. MsgLen = 1 => NeverRan \/ (ended /\ \A s \in Accepted : Ended(s))
    BY <2>1, <2>2 DEF EndInv, ClosedAfterTheRun, Accepted
  <2> QED
    BY <2>1, <2>2, <2>3 DEF MeasuresToTheEnd, Sound, Ended
<1> QED
  BY EndInit, EndStep, <1>1, PTL DEF Spec
=============================================================================
