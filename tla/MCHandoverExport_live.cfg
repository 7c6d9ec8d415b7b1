SPECIFICATION FairSpec
CONSTANTS
    NumExports = 1
    Workers = {w1, w2}
    Tokens = {t1, t2, t3}
    Members = {m1, m2}
    NoToken = NoToken
    SweepBatch = 1
    MaxAttempts = 3
    MaxFaults = 1
    LostAnswers = TRUE
    Holds = TRUE
PROPERTIES ExportsSettle  
