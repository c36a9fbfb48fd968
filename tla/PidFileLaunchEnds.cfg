CONSTANTS
    Procs = {p1, p2}
    None = None
    Overlap = TRUE
    IOFaults = TRUE
    Crashes = TRUE
    PidReuse = TRUE
    JoinReturns = TRUE
SPECIFICATION FairSpec
PROPERTIES
    EveryLaunchEnds
CHECK_DEADLOCK FALSE
