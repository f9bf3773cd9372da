\* One session that expires, one request, a sweep that keeps ticking.
CONSTANTS
    Login = {l1}
    Call = {c1}
    None = None
    Torn = Torn
    SaveMayFail = FALSE
    MaxCrashes = 0
SPECIFICATION FairSpec
PROPERTY ExpiredLeavesFile
CHECK_DEADLOCK FALSE
