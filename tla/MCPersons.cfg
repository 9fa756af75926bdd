SPECIFICATION PersonsSpec
CONSTANTS
    MaxAttempts = 2
    LockoutTime = 1
    MaxLockout = 3
    MaxNow = 2
    u1 = u1
    u2 = u2
    u3 = u3
    m1 = m1
    m2 = m2
    e1 = e1
    e2 = e2
    p1 = p1
    p2 = p2
    c1 = c1
    none = none
    None = none
    Nobody = none
    Actor = {a1, a2}
    User = {u1, u2, u3}
    Email = {e1, e2}
    Password = {p1, p2}
    Code = {c1}
    Invite = {i1}
    SessionTime = 2
    ChallengeTime = 1
    InviteTime = 1
    MaxCodeTries = 1
    MaxCalls = 3
    MaxSessions = 2
    Worlds <- MCWorlds
    Visitor = {v1, v2}
    Member = {m1, m2}
    Address = {e1}
    Secret = {p1, p2}
    SessionLife = 2
    VerifyLife = 1
    MagicLife = 1
    ResetLife = 1
    MaxVisits = 3
    MaxTokens = 2
    MaxLogins = 2
    Sites <- MCSites
    Proc = {"studio", "site"}
    SecretName = {"n1", "n2"}
    Old = {"n1"}
    MaxCrashes = 1
    Studio = "studio"
    Site = "site"
    Subject = {"ann", "bob"}
    Owner <- MCOwner
    Backup = {"job"}
    Keep = 1
    MaxBackups = 2
    MaxErasures = 1
    MaxRestores = 1
INVARIANTS
    RecordsConsistent
    ActiveOwnerRemains
    SignInsAreEarned
    
    
    SealedIsReadable
    EraseHolds
    BackupsServe
CHECK_DEADLOCK FALSE
