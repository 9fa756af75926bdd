SPECIFICATION StorageSpec
CONSTANTS
    Key = {k1, k2}
    Value = {v1, v2}
    None = None
    Torn = Torn
    Caller = {c1, c2}
    Storages = {"files", "walks", "transactions"}
    TableOf <- MCTableOf
    ParentOf <- MCParentOf
    Scene <- MCScene
    Docs <- MCDocs
    Filters <- MCFilters
    Limit = 1
INVARIANTS  WalkIsComplete
PROPERTIES KeepsPromise 
