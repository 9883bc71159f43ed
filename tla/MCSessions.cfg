\* Two concurrent requests, a login and one more login or rotation, one fault.
SPECIFICATION Spec
CONSTANTS
    r1 = r1  r2 = r2
    s1 = s1  s2 = s2
    NoSession = NoSession
    Requests = {r1, r2}
    Session = {s1, s2}
    MaxFaults = 1
SYMMETRY Symmetry
INVARIANTS
    OneRefreshPerFamily
    ListedSessionsEnd
