\* One channel, one replica, one prober that may die and start again.
SPECIFICATION FairSpec
CONSTANTS
    c1 = c1  r1 = r1  p1 = p1  f1 = f1
    Channels = {c1}
    Replicas = {r1}
    Probers = {p1}
    Finalizers = {f1}
    MinRequests = 1
    MaxWindow = 1
    MaxProbeFailures = 2
    MaxWrites = 1
    MaxFaults = 1
INVARIANTS
    DisableIsEarned
PROPERTIES
    RoutersNeverGoBack
    RoutersCatchUp
    DegradedResolved
