------------------------------- MODULE Report -------------------------------
(***************************************************************************)
(* The way of a result to the report: serialize_to_str and the write of    *)
(* process_client (server.cpp), and the recv and the parsing of            *)
(* get_run_stats, get_lats and the try of main (main.py).                  *)
(*                                                                         *)
(* The text of the result is a sequence of numbers; `base' of the          *)
(* latencies is left out, a latency is its exponent.  Of a text that is    *)
(* cut within a number, the leading digits are left.                       *)
(***************************************************************************)
EXTENDS Integers, Sequences, FiniteSets, SequencesExt, FiniteSetsExt

CONSTANTS
    Buckets,        \* keys a latency map may have
    Counts,         \* numbers of messages in a bucket, and on a socket
    NumConn,        \* connections of the test
    NPerc           \* percentiles of messages per socket: 19

ASSUME BucketsAssumption == Buckets \subseteq Nat /\ IsFiniteSet(Buckets)
ASSUME CountsAssumption == Counts \subseteq Nat \ {0}
ASSUME ReportConnAssumption == NumConn \in Nat \ {0}
ASSUME NPercAssumption == NPerc \in Nat \ {0}

VARIABLES
    at,         \* "loader", "wire", "text", "stats", "report"
    result,     \* TestResult of the loader: [mcount, latMap, percentiles]
    text,       \* what the client received
    stats,      \* what get_run_stats returned
    lats,       \* what get_lats returned
    err         \* an exception was raised: the round is recorded as failed

vars == <<at, result, text, stats, lats, err>>

NoStats == [mcount |-> 0, latMap |-> <<>>, percentiles |-> <<>>]
Percs == <<50, 75, 95>>
None == -1

\* Partial functions from buckets to counts, and what a run makes of them: the
\* first message of a connection is counted and has no latency.
LatMaps == UNION {[D -> Counts] : D \in SUBSET Buckets}
Total(latMap) == MapThenSumSet(LAMBDA b : latMap[b], DOMAIN latMap)
Results ==
    {[mcount |-> Total(l) + NumConn, latMap |-> l, percentiles |-> p] :
        l \in LatMaps, p \in {q \in [1..NPerc -> Counts] :
                                \A i \in 1..(NPerc - 1) : q[i] <= q[i + 1]}}

Init ==
    /\ at = "loader"
    /\ result \in Results
    /\ text = <<>>
    /\ stats = NoStats
    /\ lats = <<>>
    /\ err = FALSE

-----------------------------------------------------------------------------
(* The loader. *)

\* The text, with the map in the order an unordered_map gives it out: key,
\* value, key, value.
Pairs(latMap, order) ==
    [i \in 1..(2 * Len(order)) |->
        IF i % 2 = 1 THEN order[(i + 1) \div 2] ELSE latMap[order[i \div 2]]]

Serialized(res, order) ==
    <<res.mcount, Len(order)>> \o Pairs(res.latMap, order) \o <<NPerc>> \o res.percentiles

\* serialize_to_str and write.
Send ==
    /\ at = "loader"
    /\ \E order \in SetToSeqs(DOMAIN result.latMap) :
        text' = Serialized(result, order)
    /\ at' = "wire"
    /\ UNCHANGED <<result, stats, lats, err>>

-----------------------------------------------------------------------------
(* The client. *)

\* s.recv(1024 * 64) has all of the text,
RecvAll ==
    /\ at = "wire"
    /\ at' = "text"
    /\ UNCHANGED <<result, text, stats, lats, err>>

\* or what has come so far: some numbers, the last of them possibly cut.
RecvPart ==
    /\ at = "wire"
    /\ \E n \in 1..Len(text) :
        \/ n < Len(text) /\ text' = SubSeq(text, 1, n)
        \/ text[n] > 9 /\ text' = Append(SubSeq(text, 1, n - 1), text[n] \div 10)
    /\ at' = "text"
    /\ UNCHANGED <<result, stats, lats, err>>

Fail ==
    /\ err' = TRUE
    /\ at' = "report"

\* The slices of get_run_stats, cut short at the end as Python does.
LatsSize == text[2]
DropFirst(t, n) == SubSeq(t, n + 1, Len(t))
Raw(t, n) == SubSeq(t, 1, IF n < Len(t) THEN n ELSE Len(t))
LatRaw == Raw(DropFirst(text, 2), 2 * LatsSize)

PercRaw == DropFirst(text, 2 + 2 * LatsSize)

\* dict(zip(raw[::2], raw[1::2])); a key without a value is dropped.
ParsedMap(raw) ==
    LET pairs == 1..(Len(raw) \div 2) IN
    [b \in {raw[2 * i - 1] : i \in pairs} |->
        raw[2 * (CHOOSE i \in pairs : raw[2 * i - 1] = b)]]

\* With a text that goes at least as far as the percentiles.
Begun == PercRaw # <<>>

\* The assertion, which is there to notice a text that is cut.
Complete == PercRaw # <<>> /\ Len(PercRaw) = PercRaw[1] + 1

Parse ==
    /\ at = "text"
    /\ IF Len(text) >= 2 /\ Complete
       THEN /\ stats' = [mcount |-> text[1],
                         latMap |-> ParsedMap(LatRaw),
                         percentiles |-> Tail(PercRaw)]
            /\ at' = "stats"
            /\ UNCHANGED err
       ELSE Fail /\ UNCHANGED stats
    /\ UNCHANGED <<result, text, lats>>

Messages(latMap, upTo) ==
    MapThenSumSet(LAMBDA b : latMap[b], {b \in DOMAIN latMap : b <= upTo})

\* sum(lats): Python iterates over the keys of a dict.
AllMess(latMap) == MapThenSumSet(LAMBDA b : b, DOMAIN latMap)

\* The buckets with which curr >= all_mess * perc.
Reached(latMap, perc) ==
    {b \in DOMAIN latMap : Messages(latMap, b) * 100 >= AllMess(latMap) * perc}

\* get_lats: the first such bucket for every percentile, None without one.
GetLats(latMap) ==
    [i \in DOMAIN Percs |->
        IF AllMess(latMap) = 0 THEN 0
        ELSE IF Reached(latMap, Percs[i]) = {} THEN None
        ELSE Min(Reached(latMap, Percs[i]))]

\* ns_to_readable compares its argument to a number: lat_50 and lat_95 must
\* not be None.
Report ==
    /\ at = "stats"
    /\ lats' = GetLats(stats.latMap)
    /\ IF Len(stats.percentiles) # NPerc \/ lats'[1] = None \/ lats'[3] = None
       THEN Fail
       ELSE at' = "report" /\ UNCHANGED err
    /\ UNCHANGED <<result, text, stats>>

Next == Send \/ RecvAll \/ RecvPart \/ Parse \/ Report

Spec == Init /\ [][Next]_vars

-----------------------------------------------------------------------------
(* Properties. *)

Parsed == at = "stats" \/ (at = "report" /\ ~err)

\* The client parses what the loader measured, in whatever order the map is
\* written, and with a map of any size, an empty one too; a text that ends
\* before its last number does not pass for a result.  (The text has no end
\* mark: one that is cut within its last number passes for a whole one.)
ParsedIsMeasured ==
    Parsed =>
        /\ Len(text) = 3 + 2 * Cardinality(DOMAIN result.latMap) + NPerc
        /\ Last(text) = Last(result.percentiles) => stats = result

IsPercentile(latMap, perc, b) ==
    /\ b \in DOMAIN latMap
    /\ Messages(latMap, b) * 100 >= Total(latMap) * perc
    /\ \A a \in DOMAIN latMap :
        a < b => Messages(latMap, a) * 100 < Total(latMap) * perc

\* The latencies of the report, its `lat_50' and `lat_95', are the percentiles
\* of the measured ones: half of the messages, three quarters and so on were
\* not slower.
LatsArePercentiles ==
    at = "report" /\ ~err /\ Total(result.latMap) > 0 =>
        \A i \in DOMAIN Percs : IsPercentile(result.latMap, Percs[i], lats[i])
=============================================================================
