\* Three requests of any kind, two attempts per address and one per account.
CONSTANTS
    lo = lo
    h = h
    x = x
    low = low
    upper = upper
    Request = {r1, r2, r3}
    Address <- MCAddress
    Loopback = lo
    Email <- MCEmail
    Fold <- MCFold
    Claims <- MCClaims
    Limit <- MCLimit
    Arrivals <- MCArrivals
    Environments <- MCEnvironments
SPECIFICATION MCSpec
SYMMETRY Symmetry
INVARIANTS
    TypeOK
    HostBudget
    AttemptsArePaid
    SuccessClears
    ResetFromTheBox
    AutoLoginGuarded
PROPERTY KeepsBudgets
CHECK_DEADLOCK FALSE
