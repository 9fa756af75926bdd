SPECIFICATION FairSpec
CONSTANTS
    Store = {fs, sqlite}
    Initial = fs
    Doc = {page}
    None = none
    MaxVersion = 2
    MaxStarts = 2
    MaxFaults = 1
    MaxCrashes = 1
    Exposures = {{}, {"ungated", "slow-request", "start-again", "early-cleanup", "torn-cutover", "late-fault"}}
 
PROPERTIES MigrationsSettle 
