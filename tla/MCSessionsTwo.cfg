\* Two sessions, two requests that may use either; no exit; saves succeed.
CONSTANTS
    Login = {l1, l2}
    Call = {c1, c2}
    None = None
    Torn = Torn
    SaveMayFail = FALSE
    MaxCrashes = 0
SPECIFICATION Spec
SYMMETRY Symmetry
INVARIANTS
    TypeOK
    TokensStayHome
CHECK_DEADLOCK FALSE
