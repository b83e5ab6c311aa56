\* The latency percentiles of the report against those of the measurement.
SPECIFICATION Spec
CONSTANTS
    Buckets = {0, 1, 4, 9}
    Counts = {1, 3, 12}
    NumConn = 1
    NPerc = 2
INVARIANTS
    LatsArePercentiles
CHECK_DEADLOCK FALSE
