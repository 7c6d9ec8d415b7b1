SPECIFICATION Spec
CONSTANTS
    HoldPoints = {h1}
    Internal = {h1}
    Links = {k1, k2, k3}
    Recorded = {"completed", "failed"}
    Conditions = {c1, c2}
    Requesters = {q1}
    Mailers = {m1, m2}
    Closers = {d1, d2}
    NoHoldPoint = NoHoldPoint
    NoLinkId = NoLinkId
    MaxRounds = 1
    MaxChases = 2
    SendsMayFail = TRUE
SYMMETRY Symmetric
CHECK_DEADLOCK FALSE
 
 
 
PROPERTY RoomLinkSurvives
