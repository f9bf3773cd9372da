\* Three commands of any kind, for one port.
CONSTANTS
    Command = {1, 2, 3}
    Port = {p1}
SPECIFICATION FairSpec
INVARIANTS
    TypeOK
    StoppedWasSilent
    PidFileNamesTheServer
    GivenUpIsGone
    OnlyTheTokenStops
PROPERTIES
    TellsTheServer
    AcceptedStopsHappen
    EveryCommandEnds
CHECK_DEADLOCK FALSE
