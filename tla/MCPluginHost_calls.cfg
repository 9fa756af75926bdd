SPECIFICATION FairSpec
CONSTANTS
    Caller = {c1, c2, c3}
    Admin = {a1, a2}
    Worker = {w1, w2, w3}
    None = none
    MaxCalls = 3
    MaxToggles = 2
    MaxExits = 1
INVARIANTS
    WorkersServeCalls

    
CHECK_DEADLOCK FALSE
