SPECIFICATION Spec
CONSTANTS
    Items = {i1, i2}
    TestItems = {i2}
    Users = {sub, hc}
    Subcontractors = {sub}
    Devices = {sub}
    Requests = {r1, r2}
    ResultsInPlay = {"completed", "failed"}
    HandStatuses = {"in_progress"}
    MaxNcrs = 2
    None = None
SYMMETRY Symmetry
INVARIANT SubmissionsKeepAuthor
PROPERTIES FailureStands EditsReplaceWhatWasSeen 
