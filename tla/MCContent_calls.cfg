SPECIFICATION FairSpec
CONSTANTS
    Actor = {a1, a2}
    EntryId = {e1, e2}
    Slug = {home, post}
    SystemSlugs = {home}
    Body = {b1}
    None = none
    MaxCalls = 4
    MaxRevision = 3
    MaxFaults = 1
INVARIANTS
    EntriesAreBacked
    SecretsCarriedForward
PROPERTIES
    SettledStays
    ScheduledIsPublished
CHECK_DEADLOCK FALSE
