CONSTANTS
    Workers = 2
    TTL = 3
    Interval = 1
    MaxLag = 1
    MaxConnect = 1
    ClientLag = 1
    Idle = 1
    MaxDuration = 2
    Stale = 7
    DrainTimeout = 1
    MaxSequence = 1
    MaxRollback = 1
    Clock <- ClockReadings
SPECIFICATION FairSpec
INVARIANTS
    LossIsNoticed
    
    FinalizersDrained
    ToldIsCounted
PROPERTIES
    IdsGrow
    
