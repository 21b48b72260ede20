\* Three overlapping calls; the threshold is reached by two of them.
SPECIFICATION FairLoadSpec
CONSTANTS
    c1 = c1 c2 = c2 c3 = c3
    Calls = {c1, c2, c3}
    FailureThreshold = 2
    RecoveryTimeout = 2
    Delays <- MCDelays
INVARIANTS TypeOK ClosedBelowThreshold LoadBoundedWhileOpen
PROPERTIES OpenEnds RefusalsEnd OpenLeftByProbe
