\* Maps over four latencies; the text whole and cut.
SPECIFICATION Spec
CONSTANTS
    Buckets = {0, 1, 4, 9}
    Counts = {1, 3, 12}
    NumConn = 1
    NPerc = 2
INVARIANTS
    ParsedIsMeasured
\* The result comes to its report.
CHECK_DEADLOCK FALSE
