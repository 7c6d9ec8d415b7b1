SPECIFICATION Spec
CONSTANTS
    NumExports = 2
    Workers = {w1, w2}
    Tokens = {t1, t2, t3, t4}
    Members = {m1}
    NoToken = NoToken
    SweepBatch = 2
    MaxAttempts = 2
    MaxFaults = 2
    LostAnswers = FALSE
    Holds = FALSE
SYMMETRY Symmetry
INVARIANTS AttemptsBounded OneHolder 
PROPERTIES ImplementsLifecycle
