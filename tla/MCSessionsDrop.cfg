\* The smallest instance in which a renewal can fail.
CONSTANTS
    Login = {l1}
    Call = {c1}
    None = None
    Torn = Torn
    SaveMayFail = FALSE
    MaxCrashes = 0
SPECIFICATION Spec
INVARIANT DropMeansUnusable
CHECK_DEADLOCK FALSE
