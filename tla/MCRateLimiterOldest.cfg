\* Two attempts decided in the other order than they were stamped, and a third.
CONSTANTS
    Attempt = {a1, a2, a3}
    Key = {k1}
    Limit = 2
    Window = 2
    MaxTime = 4
SPECIFICATION Spec
PROPERTY RefusalNamesTheOldest
CHECK_DEADLOCK FALSE
