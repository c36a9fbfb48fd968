CONSTANTS
    Procs = {p1, p2, p3}
    None = None
    Overlap = TRUE
    IOFaults = FALSE
    Crashes = TRUE
    PidReuse = FALSE
    JoinReturns = FALSE
SPECIFICATION Spec
INVARIANTS
    OneDaemon
CHECK_DEADLOCK FALSE
