CONSTANTS
    Procs = {p1, p2, p3}
    None = None
    Overlap = FALSE
    IOFaults = FALSE
    Crashes = TRUE
    PidReuse = TRUE
    JoinReturns = TRUE
SPECIFICATION FairSpec
INVARIANTS
    TypeOK
    Findable
    CleanExitLeavesNoFile
PROPERTIES
    RestartBringsUp
    OnlyDeadFilesUnlinked
    SingleInstanceSpec
CHECK_DEADLOCK FALSE
