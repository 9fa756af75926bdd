SPECIFICATION StudioSpec
CONSTANTS
    User = {ann, bob}
    Request = {r1, r2}
    Wizard = {w1, w2}
    Media = {photo}
    MaxSessions = 2
    MaxCalls = 4
    Menus <- MenusValue
SYMMETRY Alike
INVARIANTS  OneOwnerIsSetUp ListedFilesExist
CHECK_DEADLOCK FALSE
