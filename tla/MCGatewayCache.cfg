CONSTANTS
    model = model
    Writes = {model}
    Scopes = {"catalog", "user"}
    ScopeOf <- CatalogScopeOf
    Order <- MCOrder
    Readers = {1, 2}
    Queries = 2
    MaxFaults = 1
SPECIFICATION GatewayFairSpec
INVARIANT
    GatewayTypeOK
PROPERTY
    WritesBecomeVisible
