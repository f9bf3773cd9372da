\* One session, three requests, one exit and restart; saves succeed.
CONSTANTS
    Login = {l1}
    Call = {c1, c2, c3}
    None = None
    Torn = Torn
    SaveMayFail = FALSE
    MaxCrashes = 1
SPECIFICATION Spec
SYMMETRY CallSymmetry
INVARIANTS
    RotationExclusive
    NoSpentPresented
    RenewsWhatFailed
    EffectMatchesAnswer
PROPERTY KeepsPromise
CHECK_DEADLOCK FALSE
