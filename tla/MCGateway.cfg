\* Two requests of any kind, concurrently.
CONSTANTS
    Request = {r1, r2}
    Contents <- MCContents
    ErrorPage <- MCErrorPage
    Limit = 2
    Arrivals <- MCArrivals
SPECIFICATION Spec
SYMMETRY Symmetry
INVARIANTS
    TypeOK
    ActsOnce
    SuccessIsReal
    SaysWhatBknSaid
    RecoverableMeansUndone
    PreviewIsWhole
CHECK_DEADLOCK FALSE
