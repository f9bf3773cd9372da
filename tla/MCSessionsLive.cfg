\* One session, two requests, one exit and restart; saves may fail; fairness.
CONSTANTS
    Login = {l1}
    Call = {c1, c2}
    None = None
    Torn = Torn
    SaveMayFail = TRUE
    MaxCrashes = 1
SPECIFICATION FairSpec
INVARIANTS
    FileIsTheMap
    SignedOutStaysOut
PROPERTIES
    EveryCallAnswered
    ExpiredLeavesMemory
CHECK_DEADLOCK FALSE
