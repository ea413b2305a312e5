\* Two requests, three records, two timestamps, so that some are equal, and two
\* writes at any moment.
CONSTANTS
    Sessions = {s1, s2}
    MaxId = 3
    Times = {1, 2}
    MaxVersion = 2
    MaxWrites = 2
    Limit = 1
SPECIFICATION IndexSpec
SYMMETRY SessionSymmetry
INVARIANTS
    CursorExact
    OffsetDrift
    AcknowledgedIsIndexed
\* Scans, index requests and writes come to an end.
CHECK_DEADLOCK FALSE
