SPECIFICATION Spec
CONSTANTS
    Recipients = {r1, r2}
    Workers = {w1, w2}
    Runs = {u1}
    NoRun = NoRun
    NoOne = NoOne
    Period = 2
    MaxFailures = 2
    MaxAge = 1
    MaxTroubles = 1
PROPERTY CancelledStays
 
 
