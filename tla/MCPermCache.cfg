CONSTANTS
    role = role
    binding = binding
    Writes = {role, binding}
    Scopes = {"global", "user"}
    ScopeOf <- MCScopeOf
    Readers = {1, 2}
    Queries = 2
    MaxFaults = 1
SPECIFICATION FairSpec
INVARIANTS
    ReadsAreFresh
    EntriesMatchTheirKeys
PROPERTY
    ImplementsFreshRead
    WritesBecomeVisible
