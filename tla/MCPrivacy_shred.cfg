SPECIFICATION PrivacySpec
CONSTANTS
    Proc = {"studio", "site"}
    SecretName = {"n1", "n2"}
    Old = {"n1"}
    MaxCrashes = 1
    Studio = "studio"
    Site = "site"
    Subject = {"ann", "bob"}
    Owner <- MCOwner
    Backup = {"job"}
    Keep = 1
    MaxBackups = 2
    MaxErasures = 1
    MaxRestores = 1
INVARIANT ShredIsComplete
CHECK_DEADLOCK FALSE
