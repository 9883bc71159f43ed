\* Claims, acknowledgements, retries and recoveries by two workers, one of which
\* may crash or stall.
SPECIFICATION FairSpec
CONSTANTS
    e1 = e1  e2 = e2
    r1 = r1
    w1 = w1  w2 = w2
    Events = {e1, e2}
    Replicas = {r1}
    HomeOf <- OneHome
    RequestId <- OwnRequestId
    Poison = {e2}
    Workers = {w1, w2}
    ClaimIds = {1, 2, 3, 4, 5, 6}
    BatchSize = 2
    MaxAttempts = 2
    OutboxMax = 2
    MaxFaults = 1
INVARIANTS
    NoAcceptedEventLost
    OneRowPerRequestId
    NoParkedEventLost
PROPERTY
    EveryAcceptedEventResolved
