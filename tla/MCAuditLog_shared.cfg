SPECIFICATION AuditSpec
CONSTANTS
    Proc = {studio, site}
    SealKey = TRUE
    MaxEntries = 3
    MaxAuditCrashes = 0
    MaxSealFaults = 0
    MaxTruncations = 0
INVARIANTS
    ChainLinked
