-------------------------- MODULE MCControlSession --------------------------
(***************************************************************************)
(* Small instances of ControlSession for TLC: two clients, the first of    *)
(* which may have options of its own.                                      *)
(***************************************************************************)
EXTENDS ControlSession, TLC

CONSTANTS c1, c2

MCClients == {c1, c2}

Plain == [timeout |-> 0, min |-> Absent, max |-> Absent, count |-> 2, runtime |-> 1]

Setup(faults, few, opts) ==
    [faults |-> faults, few |-> few, opts |-> (c1 :> opts) @@ (c2 :> Plain)]

With(faults, opts) == Setup(faults, {}, opts)

\* Everybody plain, with and without failures of either side; a loader that
\* serves one session; a round of few messages; and a client that wants no
\* connections, no time, a range with its ends exchanged, a half of a range, or
\* one that begins below zero.
MCSetups ==
    {With(faults, Plain) : faults \in {{}, {"client", "slow"}, {"once"}, {"connect", "write"}}} \cup
    {Setup({}, {<<c1, 1>>}, Plain)} \cup
    {With({}, o) : o \in {
        [Plain EXCEPT !.count = 0],
        [Plain EXCEPT !.runtime = 0],
        [Plain EXCEPT !.min = 1, !.max = 5],
        [Plain EXCEPT !.min = 5, !.max = 2],
        [Plain EXCEPT !.max = 5],
        [Plain EXCEPT !.min = -1, !.max = 5]}}
=============================================================================
