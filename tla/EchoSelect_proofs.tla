------------------------- MODULE EchoSelect_proofs --------------------------
(***************************************************************************)
(* What is proved about EchoSelect, for every set of connections, message  *)
(* length, listen queue, client and fault.                                 *)
(***************************************************************************)
EXTENDS EchoSelect, FiniteSetTheorems, TLAPS

-----------------------------------------------------------------------------
(* The connections. *)

LEMMA MsgLenType == ASSUME setup \in Setups PROVE MsgLen \in Nat \ {0}
BY PartsAssumption DEF MsgLen

LEMMA NetInitTypes == ASSUME NetInit PROVE NetTypeOK
<1>1. setup \in Setups /\ MsgLen \in Nat
  BY MsgLenType DEF NetInit
<1>2. sent \in [Socks -> 0..MaxMsgs] /\ coming \in [Socks -> 0..MsgLen]
  BY <1>1, MaxMsgsAssumption DEF NetInit
<1>3. ended \in BOOLEAN /\ answered \in [Socks -> BOOLEAN]
  BY DEF NetInit
<1> QED
  BY <1>1, <1>2, <1>3 DEF NetInit, NetTypeOK

\* The types of the connections survive what the loader and TCP do.
LEMMA NetStepTypes ==
    ASSUME NetTypeOK, End \/ \E s \in Socks : Net(s)
    PROVE  NetTypeOK'
<1>1. setup \in Setups /\ MsgLen \in Nat
  BY MsgLenType DEF NetTypeOK
<1> USE <1>1 DEF NetTypeOK, loaderVars, wire, arrived
<1>2. CASE End
  BY <1>2 DEF End, MsgLen
<1>3. ASSUME NEW s \in Socks, Connect(s) PROVE NetTypeOK'
  BY <1>3 DEF Connect, MsgLen
<1>4. ASSUME NEW s \in Socks, Send(s) PROVE NetTypeOK'
  <2>1. MsgLen' = MsgLen
    BY <1>4 DEF Send, MsgLen
  <2>2. sent' \in [Socks -> 0..MaxMsgs]
    BY <1>4, MaxMsgsAssumption DEF Send
  <2> QED
    BY <1>4, <2>1, <2>2 DEF Send
<1>5. ASSUME NEW s \in Socks, Close(s) PROVE NetTypeOK'
  BY <1>5 DEF Close, MsgLen
<1>6. ASSUME NEW s \in Socks, TooLate(s) PROVE NetTypeOK'
  BY <1>6 DEF TooLate, MsgLen
<1>7. ASSUME NEW s \in Socks, Deliver(s) PROVE NetTypeOK'
  <2>1. MsgLen' = MsgLen
    BY <1>7 DEF Deliver, MsgLen
  <2> QED
    BY <1>7, <2>1 DEF Deliver
<1>8. ASSUME NEW s \in Socks, DeliverEnd(s) PROVE NetTypeOK'
  <2>1. MsgLen' = MsgLen
    BY <1>8 DEF DeliverEnd, MsgLen
  <2> QED
    BY <1>8, <2>1 DEF DeliverEnd
<1> QED
  BY <1>2, <1>3, <1>4, <1>5, <1>6, <1>7, <1>8 DEF Net

-----------------------------------------------------------------------------
(* The ends of the connections. *)

Ended(s) == peer[s] # "open"
Readable(s) == rx[s] > 0 \/ Ended(s)

\* An end is on its way only when the loader's run is over.
ClosedAfterTheRun ==
    \A s \in Socks : loader[s] = "closed" \/ ending[s] # "none" \/ Ended(s) => ended

\* An end stays, and only recv takes something out of the buffer.
LEMMA NetEnds ==
    ASSUME NetTypeOK, ClosedAfterTheRun, End \/ \E s \in Socks : Net(s)
    PROVE  /\ ClosedAfterTheRun'
           /\ \A s \in Socks : (Ended(s) => Ended(s)') /\ (Readable(s) => Readable(s)')
<1> USE DEF NetTypeOK, ClosedAfterTheRun, Ended, Readable, loaderVars, wire, arrived
<1> DEFINE Goal == /\ ClosedAfterTheRun'
                   /\ \A s \in Socks : (Ended(s) => Ended(s)') /\ (Readable(s) => Readable(s)')
<1>1. CASE End
  BY <1>1 DEF End
<1>2. ASSUME NEW s \in Socks, Connect(s) PROVE Goal
  BY <1>2 DEF Connect
<1>3. ASSUME NEW s \in Socks, Send(s) PROVE Goal
  BY <1>3 DEF Send
<1>4. ASSUME NEW s \in Socks, Close(s) PROVE Goal
  BY <1>4 DEF Close
<1>5. ASSUME NEW s \in Socks, TooLate(s) PROVE Goal
  BY <1>5 DEF TooLate
<1>6. ASSUME NEW s \in Socks, Deliver(s) PROVE Goal
  <2>1. PICK n \in 1..coming[s] : rx' = [rx EXCEPT ![s] = @ + n]
    BY <1>6 DEF Deliver
  <2>2. coming[s] \in Nat
    BY MsgLenType
  <2>3. \A t \in Socks : rx[t] > 0 => rx'[t] > 0
    BY <2>1, <2>2
  <2> QED
    BY <1>6, <2>3 DEF Deliver
<1>7. ASSUME NEW s \in Socks, DeliverEnd(s) PROVE Goal
  BY <1>7 DEF DeliverEnd
<1> QED
  BY <1>1, <1>2, <1>3, <1>4, <1>5, <1>6, <1>7 DEF Net

\* The step leaves alone the ends of the connections.
NetKept == UNCHANGED <<setup, loader, ending, ended, peer>>

LEMMA KeptClosed == ASSUME ClosedAfterTheRun, NetKept PROVE ClosedAfterTheRun'
BY DEF ClosedAfterTheRun, NetKept, Ended
-----------------------------------------------------------------------------
(* What is in the selector. *)

Flags == {"in", "err"}
Looping == cpc \in {"head", "wait", "next", "recv", "write"}
Batched(s) == \E f \in Flags : <<s, f>> \in batch

\* What is at hand, or still to come in a batch, is in the selector, and comes
\* once: a socket has one event in a batch, and none while it is at hand.
IInv ==
    /\ cpc \in CPCs
    /\ fdLeft \in Int
    /\ watched \subseteq Socks
    /\ batch \subseteq watched \X Flags
    /\ \A s \in Socks : ~(<<s, "in">> \in batch /\ <<s, "err">> \in batch)
    /\ cpc \in {"bind", "accept"} => fdLeft = Cardinality(Socks)
    /\ cpc \in {"bind", "accept", "head", "wait"} => batch = {}
    /\ cpc \in {"bind", "accept"} => watched = {}
    /\ cpc = "bind" => \A s \in Socks : conn[s] = "none"
    /\ Looping => IF Connected THEN fdLeft = Cardinality(watched) ELSE watched = {}
    /\ cpc \in {"recv", "write"} => current \in watched /\ ~Batched(current)

LEMMA InitInv == Init => IInv
<1>1. Cardinality(Socks) \in Int
  BY EchoSocksAssumption, FS_CardinalityType
<1> QED
  BY <1>1 DEF Init, NetInit, IInv, CPCs, Looping

\* A socket that is given up was in the selector.
LEMMA RemoveCounts ==
    ASSUME NEW s \in watched, watched \subseteq Socks,
           fdLeft = Cardinality(watched), Remove(s)
    PROVE  /\ watched' = watched \ {s}
           /\ fdLeft' = Cardinality(watched')
           /\ fdLeft' \in Int
<1>1. IsFiniteSet(watched)
  BY EchoSocksAssumption, FS_Subset
<1>2. Cardinality(watched \ {s}) = Cardinality(watched) - 1 /\ Cardinality(watched) \in Int
  BY <1>1, FS_RemoveElement, FS_CardinalityType
<1> QED
  BY <1>2 DEF Remove

\* A wait in an empty selector: as long as no connection has been accepted.
LEMMA StartsWithNothing ==
    ASSUME IInv, cpc = "bind", cpc' = "head",
           UNCHANGED <<conn, watched, fdLeft, batch, current>>
    PROVE  IInv'
<1>1. CASE Socks = {}
  <2>1. fdLeft = Cardinality(watched)
    BY <1>1 DEF IInv
  <2> QED
    BY <2>1 DEF IInv, CPCs, Looping, Connected
<1>2. CASE Socks # {}
  <2>1. ~Connected
    BY <1>2 DEF IInv, Connected
  <2> QED
    BY <2>1 DEF IInv, CPCs, Looping, Connected
<1> QED
  BY <1>1, <1>2

LEMMA GettingConnections ==
    ASSUME IInv,
           \/ Bind \/ BindFails \/ AcceptFails \/ AcceptEnds
           \/ \E s \in Socks : AcceptOne(s)
    PROVE  IInv'
<1>1. CASE Bind
  BY <1>1 DEF IInv, Bind, CPCs, Looping
<1>2. CASE BindFails
  <2>1. cpc = "bind" /\ UNCHANGED <<conn, watched, fdLeft, batch, current>>
    BY <1>2 DEF BindFails, netVars
  <2>2. CASE Return("error")
    BY <2>1, <2>2 DEF IInv, Return, CPCs, Looping
  <2>3. CASE cpc' = "head"
    BY <2>1, <2>3, StartsWithNothing
  <2> QED
    BY <1>2, <2>2, <2>3 DEF BindFails
<1>3. CASE AcceptFails
  BY <1>3 DEF IInv, AcceptFails, Return, CPCs, Looping
<1>4. CASE AcceptEnds
  <2>1. /\ cpc = "accept" /\ cpc' = "head" /\ Connected
        /\ watched' = Socks
        /\ UNCHANGED <<conn, fdLeft, batch, current>>
    BY <1>4 DEF AcceptEnds, netVars
  <2> QED
    BY <2>1 DEF IInv, CPCs, Looping, Connected
<1>5. ASSUME NEW s \in Socks, AcceptOne(s) PROVE IInv'
  BY <1>5 DEF IInv, AcceptOne, clientVars, CPCs, Looping
<1> QED
  BY <1>1, <1>2, <1>3, <1>4, <1>5

LEMMA HeadAndWait ==
    ASSUME IInv, Head \/ WaitFails \/ WaitReturns \/ NextEnds
    PROVE  IInv'
<1>1. CASE Head
  BY <1>1 DEF IInv, Head, Return, CPCs, Looping, Batched, Connected, netVars
<1>2. CASE WaitFails
  BY <1>2 DEF IInv, WaitFails, Return, CPCs, Looping, Batched
<1>3. CASE WaitReturns
  <2>1. /\ cpc = "wait" /\ cpc' = "next"
        /\ batch' = {<<s, Flag(s)>> : s \in Reportable}
        /\ UNCHANGED <<watched, fdLeft, current, conn>>
    BY <1>3 DEF WaitReturns
  <2>2. \A s \in Reportable : s \in watched /\ Flag(s) \in Flags
    BY DEF Reportable, Flag, Flags
  <2>3. batch' \subseteq watched \X Flags
    BY <2>1, <2>2
  <2>4. \A s \in Socks : ~(<<s, "in">> \in batch' /\ <<s, "err">> \in batch')
    BY <2>1
  <2> QED
    BY <2>1, <2>3, <2>4 DEF IInv, CPCs, Looping, Connected
<1>4. CASE NextEnds
  BY <1>4 DEF IInv, NextEnds, CPCs, Looping, Batched, Connected, netVars
<1> QED
  BY <1>1, <1>2, <1>3, <1>4

\* The event taken from the batch was the only one of its socket.
LEMMA TakeEvent ==
    ASSUME NEW s \in Socks, NEW flag \in Flags, IInv, Next1(s, flag)
    PROVE  IInv'
<1>1. /\ cpc = "next" /\ <<s, flag>> \in batch
      /\ batch' = batch \ {<<s, flag>>}
      /\ UNCHANGED conn
  BY DEF Next1, netVars
<1>2. s \in watched /\ fdLeft = Cardinality(watched) /\ Connected
  BY <1>1 DEF IInv, Looping
<1>3. \A f \in Flags : <<s, f>> \notin batch'
  BY <1>1 DEF IInv, Flags
<1>4. \A t \in Socks : ~(<<t, "in">> \in batch' /\ <<t, "err">> \in batch')
  BY <1>1 DEF IInv
<1>5. CASE GivesUp(flag)
  <2>1. Remove(s) /\ UNCHANGED <<cpc, current>>
    BY <1>5 DEF Next1
  <2>2. watched' = watched \ {s} /\ fdLeft' = Cardinality(watched') /\ fdLeft' \in Int
    BY <1>2, <2>1, RemoveCounts DEF IInv
  <2>3. batch' \subseteq watched' \X Flags
    BY <1>1, <1>3, <2>2 DEF IInv
  <2> QED
    BY <1>1, <1>2, <1>4, <2>1, <2>2, <2>3 DEF IInv, CPCs, Looping, Connected
<1>6. CASE ~GivesUp(flag)
  <2>1. cpc' = "recv" /\ current' = s /\ UNCHANGED <<watched, fdLeft>>
    BY <1>6 DEF Next1
  <2> QED
    BY <1>1, <1>2, <1>3, <1>4, <2>1 DEF IInv, CPCs, Looping, Batched, Connected
<1> QED
  BY <1>5, <1>6

\* Giving up the socket at hand keeps IInv.
LEMMA GiveUpCurrent ==
    ASSUME NEW s, IInv, cpc \in {"recv", "write"}, current = s,
           Remove(s), cpc' = "next", UNCHANGED <<batch, conn>>
    PROVE  IInv'
<1>1. s \in watched /\ ~Batched(s) /\ fdLeft = Cardinality(watched) /\ Connected
  BY DEF IInv, Looping
<1>2. watched' = watched \ {s} /\ fdLeft' = Cardinality(watched') /\ fdLeft' \in Int
  BY <1>1, RemoveCounts DEF IInv
<1>3. batch' \subseteq watched' \X Flags
  BY <1>1, <1>2 DEF IInv, Batched
<1> QED
  BY <1>1, <1>2, <1>3 DEF IInv, CPCs, Looping, Connected

LEMMA ReadMessage ==
    ASSUME NEW s \in Socks, IInv, Recv(s)
    PROVE  IInv'
<1>1. cpc = "recv" /\ current = s /\ UNCHANGED <<batch, conn>>
  BY DEF Recv
<1>2. CASE cpc' = "write" /\ UNCHANGED <<watched, fdLeft, current>>
  BY <1>1, <1>2 DEF IInv, CPCs, Looping, Batched, Connected
<1>3. CASE Return("error") /\ UNCHANGED <<watched, fdLeft>>
  BY <1>1, <1>3 DEF IInv, Return, CPCs, Looping, Batched
<1>4. CASE Remove(s) /\ cpc' = "next"
  BY <1>1, <1>4, GiveUpCurrent
<1> QED
  BY <1>2, <1>3, <1>4 DEF Recv

LEMMA Answer ==
    ASSUME NEW s \in Socks, IInv, Write(s)
    PROVE  IInv'
<1>1. cpc = "write" /\ current = s /\ UNCHANGED <<batch, conn>>
  BY DEF Write
<1>2. CASE Remove(s) /\ cpc' = "next"
  BY <1>1, <1>2, GiveUpCurrent
<1>3. CASE cpc' = "next" /\ UNCHANGED <<watched, fdLeft>>
  BY <1>1, <1>3 DEF IInv, CPCs, Looping, Batched, Connected
<1> QED
  BY <1>2, <1>3 DEF Write, AfterAnswer

\* The loader connects only while the client accepts.
LEMMA LoaderStep == ASSUME IInv, Loader PROVE IInv'
<1>1. UNCHANGED clientVars
  BY DEF Loader
<1>2. CASE cpc = "accept"
  BY <1>1, <1>2 DEF IInv, clientVars, CPCs, Looping
<1>3. CASE cpc # "accept"
  <2>1. ASSUME NEW s \in Socks, Net(s), loader[s] # "none" PROVE UNCHANGED conn
    BY <2>1 DEF Net, Connect, Send, Close, TooLate, Deliver, DeliverEnd
  <2>2. UNCHANGED conn
    BY <1>3, <2>1 DEF Loader, End
  <2> QED
    BY <1>1, <2>2 DEF IInv, clientVars, CPCs, Looping, Batched, Connected
<1> QED
  BY <1>2, <1>3

LEMMA Step == ASSUME IInv, [Next]_vars PROVE IInv'
<1>1. CASE UNCHANGED vars
  BY <1>1 DEF IInv, vars, netVars, clientVars, Looping, Batched, Connected
<1>2. CASE Loader
  BY <1>2, LoaderStep
<1>3. CASE Fails
  BY <1>3, GettingConnections, HeadAndWait DEF Fails
<1>4. CASE Loop
  <2>1. ASSUME NEW s \in Socks, NEW flag \in {"in", "err"}, Next1(s, flag)
        PROVE  IInv'
    BY <2>1, TakeEvent DEF Flags
  <2> QED
    BY <1>4, <2>1, GettingConnections, HeadAndWait, ReadMessage, Answer DEF Loop
<1> QED
  BY <1>1, <1>2, <1>3, <1>4 DEF Next

\* fd_left is the number of sockets in the selector: no connection is given
\* up twice in one batch, and none is left over when the loop ends.
THEOREM CountIsRight == Spec => []FdLeftIsWatched
<1>1. IInv => FdLeftIsWatched
  BY DEF IInv, FdLeftIsWatched, CPCs, Looping
<1> QED
  BY InitInv, Step, <1>1, PTL DEF Spec

-----------------------------------------------------------------------------
(* Types and stamps. *)

\* The first stamp is taken before the loop, the second after it.
StampInv ==
    /\ IInv
    /\ NetTypeOK
    /\ fdLeft \in Nat
    /\ current \in Socks \cup {None}
    /\ stamps \in 0..2
    /\ rc \in {"none", "ok", "error"}
    /\ cpc \in {"bind", "accept"} => stamps = 0
    /\ Looping => stamps = 1

LEMMA StampInit == Init => StampInv
BY InitInv, NetInitTypes, EchoSocksAssumption, FS_CardinalityType
   DEF Init, StampInv, Looping, None

LEMMA CountType == ASSUME IInv', Looping', Connected' PROVE fdLeft' \in Nat
<1>1. fdLeft' = Cardinality(watched') /\ watched' \subseteq Socks
  BY DEF IInv
<1> QED
  BY <1>1, EchoSocksAssumption, FS_Subset, FS_CardinalityType

LEMMA StampStep == ASSUME StampInv, [Next]_vars PROVE StampInv'
<1>1. IInv /\ IInv'
  BY Step DEF StampInv
<1> SUFFICES /\ NetTypeOK'
             /\ (/\ fdLeft \in Nat
                 /\ current \in Socks \cup {None}
                 /\ stamps \in 0..2
                 /\ rc \in {"none", "ok", "error"}
                 /\ cpc \in {"bind", "accept"} => stamps = 0
                 /\ Looping => stamps = 1)'
  BY <1>1 DEF StampInv
<1> USE DEF StampInv, Looping
<1>2. CASE UNCHANGED vars \/ Loader
  <2>1. NetTypeOK'
    BY <1>2, NetStepTypes DEF Loader, vars, netVars, NetTypeOK, MsgLen, loaderVars, wire, arrived
  <2> QED
    BY <1>2, <2>1 DEF Loader, vars, clientVars
<1>3. CASE Bind \/ BindFails \/ AcceptFails \/ AcceptEnds \/ Head \/ WaitFails \/ NextEnds
  <2>1. NetTypeOK'
    BY <1>3 DEF Bind, BindFails, AcceptFails, AcceptEnds, Head, WaitFails, NextEnds,
       netVars, NetTypeOK, MsgLen, loaderVars, wire, arrived
  <2> QED
    BY <1>3, <2>1 DEF Bind, BindFails, AcceptFails, AcceptEnds, Head, WaitFails, NextEnds,
       Return, FirstStamp
<1>4. ASSUME NEW s \in Socks, AcceptOne(s) PROVE StampInv'
  BY <1>1, <1>4 DEF AcceptOne, clientVars, NetTypeOK, MsgLen, loaderVars, wire, arrived
<1>5. CASE WaitReturns
  <2>1. NetTypeOK'
    BY <1>5 DEF WaitReturns, NetTypeOK, MsgLen, loaderVars, wire
  <2> QED
    BY <1>5, <2>1 DEF WaitReturns
<1>6. ASSUME NEW s \in Socks, Recv(s) \/ Write(s) PROVE StampInv'
  <2>1. MsgLen' = MsgLen /\ MsgLen \in Nat
    BY <1>6, MsgLenType DEF Recv, Write, MsgLen, loaderVars, NetTypeOK
  <2>2. NetTypeOK'
    <3>1. rx' \in [Socks -> Nat]
      BY <1>6, <2>1 DEF Recv, Write, Taken, NetTypeOK, arrived
    <3>2. answered' \in [Socks -> BOOLEAN]
      BY <1>6 DEF Recv, Write, NetTypeOK, wire
    <3> QED
      BY <1>6, <2>1, <3>1, <3>2 DEF Recv, Write, NetTypeOK, loaderVars, wire, arrived
  <2>3. fdLeft' \in Nat
    <3>1. CASE UNCHANGED fdLeft
      BY <3>1
    <3>2. CASE fdLeft' # fdLeft
      <4>1. cpc' = "next" /\ UNCHANGED conn /\ Connected
        BY <1>1, <1>6, <3>2 DEF Recv, Write, Return, IInv
      <4> QED
        BY <1>1, <4>1, CountType DEF Connected
    <3> QED
      BY <3>1, <3>2
  <2> QED
    BY <1>1, <1>6, <2>2, <2>3 DEF Recv, Write, Return, AfterAnswer, None
<1>7. ASSUME NEW s \in Socks, NEW flag \in Flags, Next1(s, flag) PROVE StampInv'
  <2>1. NetTypeOK'
    BY <1>7 DEF Next1, netVars, NetTypeOK, MsgLen, loaderVars, wire, arrived
  <2>2. fdLeft' \in Nat
    <3>1. cpc' \in {"next", "recv"} /\ UNCHANGED conn /\ Connected
      BY <1>1, <1>7 DEF Next1, netVars, IInv
    <3> QED
      BY <1>1, <3>1, CountType DEF Connected
  <2> QED
    BY <1>1, <1>7, <2>1, <2>2 DEF Next1
<1> QED
  BY <1>2, <1>3, <1>4, <1>5, <1>6, <1>7 DEF Next, Loop, Fails, Flags

\* The types of what the loops keep: fd_left does not become negative, and no
\* third stamp is taken.
THEOREM TypeCorrect == Spec => []TypeOK
<1>1. StampInv => TypeOK
  <2> SUFFICES ASSUME StampInv PROVE batch \subseteq Socks \X {"in", "err"}
    BY DEF StampInv, IInv, TypeOK
  <2> QED
    BY DEF StampInv, IInv, Flags
<1> QED
  BY StampInit, StampStep, <1>1, PTL DEF Spec

\* Answers are written in the loop only, which lies between the stamps.
THEOREM MeasuredWork == Spec => AnswersAreMeasured
<1>1. ASSUME StampInv, [Next]_vars
      PROVE  \A s \in Socks : answered[s]' /\ ~answered[s] => stamps = 1
  <2>1. ASSUME NEW s \in Socks, Write(s) PROVE stamps = 1
    BY <1>1, <2>1 DEF Write, StampInv, Looping
  <2>2. CASE Loader
    <3>1. ASSUME NEW s \in Socks, Net(s), NEW t \in Socks, answered'[t]
          PROVE  answered[t]
      BY <1>1, <3>1 DEF Net, Connect, Send, Close, TooLate, Deliver, DeliverEnd, wire,
         StampInv, NetTypeOK
    <3>2. ASSUME End, NEW t \in Socks, answered'[t] PROVE answered[t]
      BY <3>2 DEF End, wire
    <3> QED
      BY <2>2, <3>1, <3>2 DEF Loader
  <2>3. CASE UNCHANGED answered
    BY <2>3
  <2> QED
    BY <1>1, <2>1, <2>2, <2>3 DEF Next, Loop, Fails, vars, netVars, wire, Bind, BindFails,
       AcceptFails, AcceptOne, AcceptEnds, Head, WaitFails, WaitReturns, NextEnds, Next1, Recv
<1> QED
  BY StampInit, StampStep, <1>1, PTL DEF Spec, AnswersAreMeasured

-----------------------------------------------------------------------------
(* What a socket that is read, or given up, has to show. *)

EventsAreTrue ==
    \A s \in Socks : /\ <<s, "in">> \in batch => Readable(s)
                     /\ <<s, "err">> \in batch => Ended(s)

\* A loop without its connections waits, and is not over.
WaitsForAll == Looping /\ ~Connected => fdLeft = Cardinality(Socks)

GivenUpHasEnded == Looping /\ Connected => \A s \in Socks \ watched : Ended(s)

ReadInv ==
    /\ StampInv
    /\ ClosedAfterTheRun
    /\ EventsAreTrue
    /\ RecvNeverBlocks
    /\ WaitsForAll
    /\ MsgLen = 1 => GivenUpHasEnded /\ (stamps = 2 => \A s \in Socks : Ended(s))

LEMMA ReadInit == Init => ReadInv
BY StampInit DEF Init, NetInit, ReadInv, ClosedAfterTheRun, EventsAreTrue, RecvNeverBlocks,
   WaitsForAll, GivenUpHasEnded, Looping, Ended

LEMMA ReadBefore ==
    ASSUME ReadInv, Bind \/ BindFails \/ AcceptFails \/ AcceptEnds
                    \/ WaitFails \/ NextEnds \/ \E s \in Socks : AcceptOne(s)
    PROVE  ReadInv'
<1>1. StampInv' /\ IInv /\ IInv' /\ cpc \in CPCs
  BY StampStep DEF ReadInv, StampInv, IInv, Next, Loop, Fails
<1>2. NetKept /\ UNCHANGED rx /\ MsgLen' = MsgLen
  BY DEF NetKept, MsgLen, netVars, loaderVars, wire, arrived, Bind, BindFails, AcceptFails,
     AcceptEnds, WaitFails, NextEnds, AcceptOne
<1>3. EventsAreTrue' /\ RecvNeverBlocks' /\ cpc' # "recv"
  <2>1. batch' \subseteq batch /\ cpc' # "recv"
    BY DEF Bind, BindFails, AcceptFails, AcceptEnds, WaitFails, NextEnds, AcceptOne, clientVars,
       Return
  <2>2. EventsAreTrue
    BY DEF ReadInv
  <2>3. EventsAreTrue'
    BY <1>2, <2>1, <2>2 DEF EventsAreTrue, Readable, Ended, NetKept
  <2> QED
    BY <2>1, <2>3 DEF RecvNeverBlocks
<1>4. WaitsForAll'
  BY <1>1 DEF ReadInv, WaitsForAll, IInv, Looping, Connected, netVars, Return, clientVars,
     Bind, BindFails, AcceptFails, AcceptEnds, WaitFails, NextEnds, AcceptOne
<1>5. ASSUME MsgLen = 1 PROVE GivenUpHasEnded' /\ (stamps' = 2 => \A s \in Socks : Ended(s)')
  <2>1. stamps' = 2 => stamps = 2
    BY DEF ReadInv, StampInv, Bind, BindFails, AcceptFails, AcceptEnds, WaitFails, NextEnds,
       AcceptOne, clientVars, FirstStamp
  <2>2. GivenUpHasEnded'
    <3>1. CASE BindFails
      BY <1>1, <3>1 DEF BindFails, Return, GivenUpHasEnded, Looping, IInv, Connected, netVars
    <3>2. CASE AcceptEnds
      BY <3>2 DEF AcceptEnds, GivenUpHasEnded
    <3>3. CASE NextEnds
      BY <1>2, <1>5, <3>3 DEF NextEnds, ReadInv, GivenUpHasEnded, Looping, Connected, netVars,
         Ended, NetKept
    <3>4. CASE ~Looping'
      BY <3>4 DEF GivenUpHasEnded
    <3> QED
      BY <3>1, <3>2, <3>3, <3>4
         DEF Looping, Return, Bind, AcceptFails, WaitFails, AcceptOne, clientVars
  <2> QED
    BY <1>2, <1>5, <2>1, <2>2 DEF ReadInv, Ended, NetKept
<1> QED
  BY <1>1, <1>2, <1>3, <1>4, <1>5, KeptClosed DEF ReadInv

LEMMA ReadHead == ASSUME ReadInv, Head PROVE ReadInv'
<1>1. StampInv' /\ StampInv /\ IInv
  BY StampStep DEF ReadInv, StampInv, Next, Loop
<1>2. NetKept /\ MsgLen' = MsgLen /\ UNCHANGED <<rx, conn, watched, fdLeft, batch>>
  BY DEF Head, NetKept, MsgLen, netVars, loaderVars, wire, arrived
<1>3. EventsAreTrue' /\ RecvNeverBlocks' /\ WaitsForAll'
  BY <1>2 DEF Head, Return, ReadInv, EventsAreTrue, RecvNeverBlocks, WaitsForAll, Readable,
     Ended, NetKept, Looping, Connected
<1>4. ASSUME MsgLen = 1 PROVE GivenUpHasEnded' /\ (stamps' = 2 => \A s \in Socks : Ended(s)')
  <2>1. CASE MoreLeft
    BY <1>1, <1>2, <1>4, <2>1 DEF Head, ReadInv, StampInv, GivenUpHasEnded, Looping, Connected,
       Ended, NetKept
  <2>2. CASE ~MoreLeft
    <3>1. Cardinality(Socks) \in Nat /\ fdLeft = 0
      BY <1>1, <2>2, EchoSocksAssumption, FS_CardinalityType DEF MoreLeft, StampInv
    <3>2. Connected
      <4>1. CASE Socks = {}
        BY <4>1 DEF Connected
      <4>2. CASE Socks # {}
        BY <3>1, <4>2, EchoSocksAssumption, FS_EmptySet DEF Head, ReadInv, WaitsForAll, Looping
      <4> QED
        BY <4>1, <4>2
    <3>3. watched = {}
      BY <1>1, <3>1, <3>2, EchoSocksAssumption, FS_Subset, FS_EmptySet DEF Head, IInv, Looping
    <3> QED
      BY <1>2, <1>4, <2>2, <3>2, <3>3 DEF Head, Return, ReadInv, GivenUpHasEnded, Looping,
         Ended, NetKept
  <2> QED
    BY <2>1, <2>2
<1> QED
  BY <1>1, <1>2, <1>3, <1>4, KeptClosed DEF ReadInv

LEMMA ReadWait == ASSUME ReadInv, WaitReturns PROVE ReadInv'
<1>1. StampInv' /\ StampInv
  BY StampStep DEF ReadInv, Next, Loop
<1>2. NetKept /\ MsgLen' = MsgLen /\ UNCHANGED <<rx, conn, watched, fdLeft, stamps>>
  BY DEF WaitReturns, NetKept, MsgLen, loaderVars, wire
<1>3. EventsAreTrue'
  <2>1. \A s \in Socks, f \in Flags : <<s, f>> \in batch' => f = Flag(s)
    BY DEF WaitReturns
  <2>2. \A s \in Socks : /\ Flag(s) = "in" => Readable(s)
                         /\ Flag(s) = "err" => Ended(s)
    BY DEF Flag, Readable, Ended
  <2> QED
    BY <1>2, <2>1, <2>2 DEF EventsAreTrue, Flags, Readable, Ended, NetKept
<1>4. RecvNeverBlocks' /\ WaitsForAll'
  BY <1>2 DEF WaitReturns, ReadInv, RecvNeverBlocks, WaitsForAll, Looping, Connected
<1>5. MsgLen = 1 => GivenUpHasEnded' /\ (stamps' = 2 => \A s \in Socks : Ended(s)')
  BY <1>2 DEF WaitReturns, ReadInv, GivenUpHasEnded, Looping, Connected, Ended, NetKept
<1> QED
  BY <1>1, <1>2, <1>3, <1>4, <1>5, KeptClosed DEF ReadInv

\* What is handled: the event, the message, the answer.
LEMMA ReadEvent ==
    ASSUME NEW s \in Socks, NEW flag \in Flags, ReadInv, Next1(s, flag)
    PROVE  ReadInv'
<1>1. StampInv' /\ StampInv /\ IInv
  BY StampStep DEF ReadInv, StampInv, Next, Loop, Flags
<1>2. NetKept /\ MsgLen' = MsgLen /\ UNCHANGED <<rx, conn, stamps>>
  BY DEF Next1, NetKept, MsgLen, netVars, loaderVars, wire, arrived
<1>3. batch' \subseteq batch /\ <<s, flag>> \in batch /\ cpc = "next" /\ Connected
  BY <1>1 DEF Next1, IInv, Looping
<1>4. (flag = "err" => Ended(s)) /\ (flag = "in" => Readable(s)) /\ Readable(s)
  BY <1>3 DEF ReadInv, EventsAreTrue, Readable, Flags
<1>5. EventsAreTrue'
  BY <1>2, <1>3 DEF ReadInv, EventsAreTrue, Readable, Ended, NetKept
<1>6. RecvNeverBlocks' /\ WaitsForAll'
  BY <1>2, <1>3, <1>4 DEF Next1, RecvNeverBlocks, WaitsForAll, Readable, Ended, NetKept, Connected
<1>7. watched' = watched \/ (watched' = watched \ {s} /\ Ended(s))
  BY <1>4 DEF Next1, GivesUp, Remove
<1>8. MsgLen = 1 => GivenUpHasEnded' /\ (stamps' = 2 => \A t \in Socks : Ended(t)')
  BY <1>2, <1>3, <1>7 DEF ReadInv, GivenUpHasEnded, Looping, Ended, NetKept
<1> QED
  BY <1>1, <1>2, <1>5, <1>6, <1>8, KeptClosed DEF ReadInv

LEMMA ReadAnswer ==
    ASSUME NEW s \in Socks, ReadInv, Recv(s) \/ Write(s)
    PROVE  ReadInv'
<1>1. StampInv' /\ StampInv /\ IInv /\ Connected
  BY StampStep DEF ReadInv, StampInv, IInv, Looping, Next, Loop, Recv, Write
<1>2. NetKept /\ MsgLen' = MsgLen /\ MsgLen \in Nat /\ UNCHANGED <<conn, stamps, batch>>
  BY <1>1, MsgLenType DEF Recv, Write, NetKept, MsgLen, loaderVars, wire, arrived, StampInv,
     NetTypeOK
<1>3. \A t \in Socks \ {s} : rx'[t] = rx[t]
  BY <1>1 DEF Recv, Write, arrived, StampInv, NetTypeOK
<1>4. \A flag \in Flags : <<s, flag>> \notin batch
  BY <1>1 DEF Recv, Write, IInv, Batched
<1>5. EventsAreTrue'
  BY <1>2, <1>3, <1>4 DEF ReadInv, EventsAreTrue, Readable, Ended, NetKept, Flags
<1>6. RecvNeverBlocks' /\ WaitsForAll'
  BY <1>1, <1>2 DEF Recv, Write, Return, AfterAnswer, RecvNeverBlocks, WaitsForAll, Connected
<1>7. ASSUME MsgLen = 1, watched' # watched
      PROVE  watched' = watched \ {s} /\ Ended(s)
  <2>1. CASE Write(s)
    BY <1>7, <2>1 DEF Write, Remove, Ended
  <2>2. CASE Recv(s)
    BY <1>1, <1>7, <2>2 DEF Recv, Remove, Taken, Ended, StampInv, NetTypeOK
  <2> QED
    BY <2>1, <2>2
<1>8. MsgLen = 1 => GivenUpHasEnded' /\ (stamps' = 2 => \A t \in Socks : Ended(t)')
  <2>1. Looping
    BY DEF Looping, Recv, Write
  <2> QED
    BY <1>1, <1>2, <1>7, <2>1 DEF ReadInv, GivenUpHasEnded, Ended, NetKept
<1> QED
  BY <1>1, <1>2, <1>5, <1>6, <1>8, KeptClosed DEF ReadInv

LEMMA ReadLoader == ASSUME ReadInv, Loader PROVE ReadInv'
<1>1. StampInv' /\ StampInv /\ IInv
  BY StampStep DEF ReadInv, StampInv, Next
<1>2. UNCHANGED clientVars /\ MsgLen' = MsgLen
  BY DEF Loader, Net, End, Connect, Send, Close, TooLate, Deliver, DeliverEnd, loaderVars, MsgLen
<1>3. /\ ClosedAfterTheRun'
      /\ \A s \in Socks : (Ended(s) => Ended(s)') /\ (Readable(s) => Readable(s)')
  BY <1>1, NetEnds DEF ReadInv, StampInv, Loader
<1>4. cpc # "accept" => UNCHANGED conn
  BY <1>2 DEF Loader, Net, End, Connect, Send, Close, TooLate, Deliver, DeliverEnd
<1>5. cpc = "recv" => current \in Socks
  BY <1>1 DEF IInv
<1>6. EventsAreTrue' /\ RecvNeverBlocks'
  BY <1>2, <1>3, <1>5 DEF ReadInv, EventsAreTrue, RecvNeverBlocks, Readable, Ended, clientVars
<1>7. WaitsForAll' /\ (MsgLen = 1 => GivenUpHasEnded' /\ (stamps' = 2 => \A t \in Socks : Ended(t)'))
  BY <1>2, <1>3, <1>4 DEF ReadInv, WaitsForAll, GivenUpHasEnded, Looping, Connected, clientVars
<1> QED
  BY <1>1, <1>2, <1>3, <1>6, <1>7 DEF ReadInv

LEMMA ReadStep == ASSUME ReadInv, [Next]_vars PROVE ReadInv'
<1>1. CASE UNCHANGED vars
  <2>1. StampInv'
    BY <1>1, StampStep DEF ReadInv
  <2>2. NetKept /\ MsgLen' = MsgLen
    BY <1>1 DEF vars, netVars, loaderVars, wire, arrived, NetKept, MsgLen
  <2> QED
    BY <1>1, <2>1, <2>2, KeptClosed DEF ReadInv, EventsAreTrue, RecvNeverBlocks, WaitsForAll,
       GivenUpHasEnded, Looping, Connected, Readable, Ended, vars, netVars, arrived, clientVars
<1> QED
  BY <1>1, ReadBefore, ReadHead, ReadWait, ReadEvent, ReadAnswer, ReadLoader
     DEF Next, Loop, Fails, Flags

LEMMA Reading == Spec => []ReadInv
BY ReadInit, ReadStep, PTL DEF Spec

\* No recv of the loop waits: what an event announced is there still, however
\* long the events before it took.
THEOREM NeverBlocks == Spec => []RecvNeverBlocks
<1>1. ReadInv => RecvNeverBlocks
  BY DEF ReadInv
<1> QED
  BY Reading, <1>1, PTL

\* The second stamp is taken when the loader's run is over and every connection
\* was seen to end, however many there are.
THEOREM EndOfTheTest ==
    ASSUME Socks # {}
    PROVE  Spec => []MeasuresToTheEnd
<1>1. ReadInv => MeasuresToTheEnd
  BY DEF ReadInv, ClosedAfterTheRun, MeasuresToTheEnd, Ended
<1> QED
  BY Reading, <1>1, PTL
=============================================================================
