CONSTANTS
    c1 = c1
    c2 = c2
    c3 = c3
    c4 = c4
    Caller = {c1, c2, c3, c4}
    Client = {c1}
    MaxFailures = 3
    MaxHalfOpenRequests = 2
    SuccessThreshold = 2
    FailureCap = 4
    NumSteps = 3
    Compensable = {1, 3}
    MaxAttempts = 2
SPECIFICATION FairSagaSpec
INVARIANTS
    TrialsBounded
    HalfOpenIsTesting
PROPERTIES
    NoPeriodLasts
    ImplementsAtomicSaga
