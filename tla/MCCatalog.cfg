CONSTANTS
    Channels = {c1, c2}
    Keys = {k1}
    Models = {m1, m2}
    Deployments = {d1, d2}
    Grants = {g1, g2}
    Quotas = {q1, q2}
    Limits = {l1, l2}
    Seeded = {c1, m1, m2, d1, g1}
    Requests = {r1, r2}
    None = None
    MaxCommits = 3
SPECIFICATION Spec
SYMMETRY Symmetry
INVARIANTS
    TypeOK
    DeploymentsNeedRace
    IndexRefusesOnlyRaces
PROPERTIES
    DefaultsHandedOver
