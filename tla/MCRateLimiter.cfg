\* One key, four attempts, two places in a window of two ticks.
CONSTANTS
    Attempt = {a1, a2, a3, a4}
    Key = {k1}
    Limit = 2
    Window = 2
    MaxTime = 4
SPECIFICATION FairSpec
INVARIANTS
    TypeOK
    NoMoreThanLimit
    WaitingSuffices
PROPERTIES
    KeepsPromise
    KeepsBudget
    RefusedOnlyWhenFull
    KeysComeFree
CHECK_DEADLOCK FALSE
