\* Three attempts at once against limits of three failures.
SPECIFICATION ThrottleSpec
CONSTANTS
    r1 = r1  r2 = r2  r3 = r3
    Attempts = {r1, r2, r3}
    MaxFailures = 3
    IpMaxFailures = 3
    MaxAborts = 2
SYMMETRY Symmetry
INVARIANTS
    GuessesBounded
    
