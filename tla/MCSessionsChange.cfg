\* One request at a time and no fault: a session whose access record expired.
SPECIFICATION Spec
CONSTANTS
    r1 = r1  r2 = r2
    s1 = s1  s2 = s2
    NoSession = NoSession
    Requests = {r1}
    Session = {s1, s2}
    MaxFaults = 0
INVARIANT OldSessionsEnd
