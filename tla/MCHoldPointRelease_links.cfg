SPECIFICATION Spec
CONSTANTS
    HoldPoints = {h1}
    Internal = {h1}
    Links = {k1, k2, k3}
    Recorded = {}
    Conditions = {c1}
    Requesters = {q1, q2}
    Mailers = {m1}
    Closers = {}
    NoHoldPoint = NoHoldPoint
    NoLinkId = NoLinkId
    MaxRounds = 2
    MaxChases = 1
    SendsMayFail = FALSE
SYMMETRY Symmetric
CHECK_DEADLOCK FALSE
INVARIANT StatusFollowsRound
INVARIANT LinkDecidesOnce
INVARIANT BoundLinksAreCurrent
PROPERTY ImplementsRegister
