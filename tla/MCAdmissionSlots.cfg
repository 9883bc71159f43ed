CONSTANTS
    q1 = q1  q2 = q2  q3 = q3
    p1 = p1  p2 = p2
    k1 = k1  k2 = k2
    Requests = {q1, q2, q3}
    Stream = {q1, q2, q3}
    Procs = {p1, p2}
    ProcOf <- TwoProcesses
    Estimate <- SameEstimate
    Usages = {0, 3}
    Gates <- SlotRules
    Limit <- SlotLimitOf
    Quotas = {k1}
    Metric <- MetricOf
    Enforced = {k1}
    QLimit <- QuotaLimitOf
    EmergencyCap = 1
    FaultPoints = {"check", "undo", "count", "router", "client", "settle", "crash"}
    MaxFaults = 1
    MaxRefill = 2
SPECIFICATION Spec
SYMMETRY Symmetry
INVARIANTS
    
    DeniedHoldsNothing
    StreamReleasesSlot
CHECK_DEADLOCK FALSE
