CONSTANTS
    s1 = s1
    s2 = s2
    e1 = e1
    e2 = e2
    Server = {s1, s2}
    Event = {e1, e2}
    Malformed = {}
    Unrouted = {}
    BatchSize = 2
    QueueCap = 1
    FaultKind = {"restart", "mark", "handler"}
    MaxFaults = 1
SPECIFICATION Spec
CHECK_DEADLOCK FALSE
SYMMETRY Symmetry
INVARIANTS
    OnlyCommittedLeave
    PublishedIsAccountedFor
    RepublishOnlyAfterInterruption
