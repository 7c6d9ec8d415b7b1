SPECIFICATION FairSpec
CONSTANTS
    Things = {t1}
    Workers = {w1}
    MaxAttempts = 2
    MaxMoves = 2
    MaxVersion = 2
    MaxClosings = 1
    Faults = TRUE
    None = None
    t1 = t1
    w1 = w1
CHECK_DEADLOCK FALSE
INVARIANTS
    KnownConflictsSurface
PROPERTIES
    TicksReplaceWhatWasSeen
    EditsSettle
