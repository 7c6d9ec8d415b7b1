SPECIFICATION FairSpec
CONSTANTS
    Captures = {c1}
    Workers = {w1, w2}
    MaxAttempts = 2
    MaxClosings = 1
    Faults = TRUE
    c1 = c1
    w1 = w1
    w2 = w2
CHECK_DEADLOCK FALSE
INVARIANTS
    
    
    DocketsFollowDeliveries
PROPERTIES
    RefusalsStand
    CapturesSettle
