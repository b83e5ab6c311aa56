------------------------------ MODULE Options -------------------------------
(***************************************************************************)
(* The options of a test on their way from the command line to the loader: *)
(* the checks and defaults of main and the request of get_run_stats        *)
(* (main.py), and load_from_str (server.cpp).  Of the options only those   *)
(* are here on whose value the control flow depends.                       *)
(***************************************************************************)
EXTENDS Integers

CONSTANTS
    Absent,         \* --min-timeout or --max-timeout is not given (None)
    Word            \* ULONG_MAX + 1

ASSUME WordAssumption == Word \in Nat \ {0}
ASSUME AbsentAssumption == Absent \notin Int

\* Numbers that fit into a word, with a sign or without.
Numbers == (1 - Word)..(Word - 1)

\* What the parser of main makes of a command line.  It takes any number for
\* --runtime and for the number of connections; less than none is left out.
OptionRecords ==
    [timeout: Numbers, min: Numbers \cup {Absent}, max: Numbers \cup {Absent},
     count: Nat, runtime: Nat]

\* Zero and None are false.
Given(value) == value \notin {0, Absent}

Conflict(o) == Given(o.timeout) /\ (Given(o.max) \/ Given(o.min))
HalfGiven(o) == Given(o.max) # Given(o.min)

\* With the order of the two left unchecked.
Unordered(o) == FALSE

WrongOrder(o) == Given(o.max) /\ o.max < o.min

\* main goes on to the tests.
Accepted(o) == ~(Conflict(o) \/ HalfGiven(o) \/ WrongOrder(o))

\* params.timeout
Pause(o) == IF Given(o.max) THEN <<o.min, o.max>> ELSE <<o.timeout, o.timeout>>

\* The request is text; sscanf reads the pauses with %lu.
Unsigned(value) == value % Word
Request(o) == <<Unsigned(Pause(o)[1]), Unsigned(Pause(o)[2])>>

\* min_timeout and max_timeout of a request of seven words that fits.
LoadFromStr(pause) == pause[1] <= pause[2]
=============================================================================
