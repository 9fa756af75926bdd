\* The audit log with one process and the scheduler with two ticks.
SPECIFICATION ServicesSpec
CONSTANTS
    Proc = {studio}
    SealKey = TRUE
    MaxEntries = 4
    MaxAuditCrashes = 2
    MaxSealFaults = 1
    MaxTruncations = 1
    Job = {backup, publish}
    Handled = {backup}
    Tick = {t1, t2}
    MaxAttempts = 2
    Horizon = 1
    MaxThrows = 2
    MaxAuditFaults = 1
    MaxCrashes = 1
INVARIANTS
    LogIsSound
    LossStaysDetected
    AttemptsAreSpent
PROPERTIES
    SettledIsFinal
    JobsSettle
CHECK_DEADLOCK FALSE
