\* A preview while another request changes the file.
CONSTANTS
    Request = {r1, r2}
    Contents <- MCContents
    ErrorPage <- MCErrorPage
    Limit = 2
    Arrivals <- MCArrivals
SPECIFICATION Spec
SYMMETRY Symmetry
INVARIANT ShownIsTheFile
CHECK_DEADLOCK FALSE
