SPECIFICATION Spec
CONSTANTS
    Lots = {l1}
    Ncrs = {n1, n2}
    Major = {n1}
    Users = {u1, u2}
    Closers = {c1, c2}
    Senders = {s1, s2}
    EvidenceKinds = {"after"}
    HandStatuses = {"in_progress"}
    Faults = TRUE
    None = None
SYMMETRY Symmetry
INVARIANTS MajorClosedIndependently OneNotifier
PROPERTIES ClosureKeepsHeldLots 
CHECK_DEADLOCK FALSE
