------------------------------- MODULE EchoNet ------------------------------
(***************************************************************************)
(* The test connections as an echoing client sees them: the load           *)
(* generator opens them, writes a message on each once all are there, the  *)
(* next one when the answer has come back, and closes them all at the end  *)
(* of its run (server.cpp: connect_all, run_test, ping, ~FDList); TCP in   *)
(* between.  EchoSelect and EchoThreads are the clients.                   *)
(***************************************************************************)
EXTENDS Integers, FiniteSets

CONSTANTS
    Socks,          \* the connections asked for: params.count of them
    Backlog,        \* the argument of listen: get_listen_param(params.count)
    MaxMsgs,        \* bound: messages the loader writes on one connection
    Setups          \* what a round may be, see setup

ASSUME EchoSocksAssumption == IsFiniteSet(Socks)
ASSUME BacklogAssumption == Backlog \in Nat
ASSUME MaxMsgsAssumption == MaxMsgs \in Nat \ {0}
ASSUME PartsAssumption == \A st \in Setups : st.parts \in Nat \ {0}

VARIABLES
    setup,      \* the round: [client, parts, faults]: the client program, the
                \* segments in which a message of msize bytes may arrive, and
                \* what may fail; "giveup": the loader may stop before its
                \* run; "reset": its end may go without a FIN
    loader,     \* the loader's end: "none", "connected" or "closed"
    ended,      \* the loader's run is over
    sent,       \* messages the loader wrote on each connection
    answered,   \* an answer is at the loader, or on its way there
    conn,       \* the client's end: "none", "queued" or "open"
    coming,     \* segments on their way to the client
    ending,     \* "fin" or "reset" when one is on its way to the client
    rx,         \* segments in the client's receive buffer
    peer,       \* what the client's end has received: "open", "fin", "reset"
    news        \* connections on which something arrived since the last look

loaderVars == <<setup, loader, ended, sent>>
wire == <<answered, coming, ending>>
arrived == <<rx, peer, news>>
netVars == <<loaderVars, wire, arrived, conn>>

Client == setup.client
MsgLen == setup.parts
Faults == setup.faults

NetInit ==
    /\ setup \in Setups
    /\ loader = [s \in Socks |-> "none"]
    /\ ended = FALSE
    /\ sent = [s \in Socks |-> 0]
    /\ answered = [s \in Socks |-> FALSE]
    /\ conn = [s \in Socks |-> "none"]
    /\ coming = [s \in Socks |-> 0]
    /\ ending = [s \in Socks |-> "none"]
    /\ rx = [s \in Socks |-> 0]
    /\ peer = [s \in Socks |-> "open"]
    /\ news = {}

Queued == {s \in Socks : conn[s] = "queued"}

\* connect_all: the handshake needs a place in the queue of the listening
\* socket, which has one more than listen was asked for.
Connect(s) ==
    /\ ~ended
    /\ loader[s] = "none"
    /\ Cardinality(Queued) <= Backlog
    /\ loader' = [loader EXCEPT ![s] = "connected"]
    /\ conn' = [conn EXCEPT ![s] = "queued"]
    /\ UNCHANGED <<setup, ended, sent, wire, arrived>>

AllConnected == \A s \in Socks : loader[s] # "none"

\* run_test's first write on s, and the write of ping after each answer.
Send(s) ==
    /\ ~ended
    /\ AllConnected
    /\ sent[s] = 0 \/ answered[s]
    /\ sent[s] < MaxMsgs
    /\ sent' = [sent EXCEPT ![s] = @ + 1]
    /\ answered' = [answered EXCEPT ![s] = FALSE]
    /\ coming' = [coming EXCEPT ![s] = MsgLen]
    /\ UNCHANGED <<setup, loader, ended, ending, arrived, conn>>

\* The run is over, which began with a message on every connection; or it was
\* given up before it began.
End ==
    /\ ~ended
    /\ (\A s \in Socks : sent[s] > 0) \/ "giveup" \in Faults
    /\ ended' = TRUE
    /\ UNCHANGED <<setup, loader, sent, wire, arrived, conn>>

\* ~FDList closes s: a reset when an answer has come and was left unread, a
\* FIN otherwise.  With the loader's host gone a reset is all there is.
Close(s) ==
    /\ ended
    /\ loader[s] = "connected"
    /\ loader' = [loader EXCEPT ![s] = "closed"]
    /\ \/ ending' = [ending EXCEPT ![s] = "fin"] /\ UNCHANGED answered
       \/ /\ answered[s] \/ "reset" \in Faults
          /\ ending' = [ending EXCEPT ![s] = "reset"]
          /\ answered' = [answered EXCEPT ![s] = FALSE]
    /\ UNCHANGED <<setup, ended, sent, coming, arrived, conn>>

\* An answer that finds the loader's end closed is answered by a reset.
TooLate(s) ==
    /\ loader[s] = "closed"
    /\ answered[s]
    /\ ending[s] = "none"
    /\ ending' = [ending EXCEPT ![s] = "reset"]
    /\ answered' = [answered EXCEPT ![s] = FALSE]
    /\ UNCHANGED <<loaderVars, coming, arrived, conn>>

Deliver(s) ==
    /\ \E n \in 1..coming[s] :
        /\ coming' = [coming EXCEPT ![s] = @ - n]
        /\ rx' = [rx EXCEPT ![s] = @ + n]
    /\ news' = news \cup {s}
    /\ UNCHANGED <<loaderVars, answered, ending, peer, conn>>

\* A FIN comes after the data, a reset need not.
DeliverEnd(s) ==
    /\ ending[s] # "none"
    /\ ending[s] = "fin" => coming[s] = 0
    /\ peer' = [peer EXCEPT ![s] = ending[s]]
    /\ ending' = [ending EXCEPT ![s] = "none"]
    /\ coming' = [coming EXCEPT ![s] = 0]
    /\ news' = news \cup {s}
    /\ UNCHANGED <<loaderVars, answered, rx, conn>>

Net(s) ==
    Connect(s) \/ Send(s) \/ Close(s) \/ TooLate(s) \/ Deliver(s) \/ DeliverEnd(s)

NetTypeOK ==
    /\ setup \in Setups
    /\ loader \in [Socks -> {"none", "connected", "closed"}]
    /\ ended \in BOOLEAN
    /\ sent \in [Socks -> 0..MaxMsgs]
    /\ answered \in [Socks -> BOOLEAN]
    /\ conn \in [Socks -> {"none", "queued", "open"}]
    /\ coming \in [Socks -> 0..MsgLen]
    /\ ending \in [Socks -> {"none", "fin", "reset"}]
    /\ rx \in [Socks -> Nat]
    /\ peer \in [Socks -> {"open", "fin", "reset"}]
    /\ news \subseteq Socks
=============================================================================
