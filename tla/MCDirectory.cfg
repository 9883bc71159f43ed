CONSTANTS
    Departments = {d1, d2}
    Users = {u1}
    Roles = {o1}
    Menus = {m1, m2}
    Requests = {r1, r2}
    None = None
    Same = Same
    MaxCommits = 2
SPECIFICATION Spec
SYMMETRY Symmetry
INVARIANTS
    CreatedUnderLive
    RefsNeedRace
    CyclesNeedRace
PROPERTIES
    HooksCoverChanges
