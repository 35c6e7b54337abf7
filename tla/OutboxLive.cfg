CONSTANTS
    s1 = s1
    e1 = e1
    e2 = e2
    e3 = e3
    Server = {s1}
    Event = {e1, e2, e3}
    Malformed = {e1}
    Unrouted = {e3}
    BatchSize = 2
    QueueCap = 1
    FaultKind = {"restart", "mark", "handler"}
    MaxFaults = 1
SPECIFICATION FairSpec
CHECK_DEADLOCK FALSE
PROPERTIES
    ImplementsPromise
    EventuallyPublished
