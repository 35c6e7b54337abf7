CONSTANTS
    r1 = r1
    r2 = r2
    data = data
    counter = counter
    Request = {r1, r2}
    Key = {data, counter}
    Data = data
    Counter = counter
    TTL = TRUE
    MaxWrites = 1
    Burst = 1
    Deployment <- LimiterOrCache
SPECIFICATION FairSpec
INVARIANTS
    InvalidationHolds
    OneAuthor
PROPERTIES
    RequestsEnd
    KeptForAWhile
