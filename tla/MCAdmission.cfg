CONSTANTS
    q1 = q1  q2 = q2  q3 = q3
    p1 = p1  p2 = p2
    k1 = k1  k2 = k2
    Requests = {q1, q2}
    Stream = {q1}
    Procs = {p1, p2}
    ProcOf <- TwoProcesses
    Estimate <- SameEstimate
    Usages = {1, 3}
    Gates <- TwoRules
    Limit <- LimitOf
    Quotas = {k1, k2}
    Metric <- MetricOf
    Enforced = {k2}
    QLimit <- QuotaLimitOf
    EmergencyCap = 1
    FaultPoints = {"db", "undo", "quota", "settle", "crash"}
    MaxFaults = 2
    MaxRefill = 1
SPECIFICATION FairSpec
INVARIANTS
    
    QuotaBalanced
    OvershootBounded
    
CHECK_DEADLOCK FALSE

    
