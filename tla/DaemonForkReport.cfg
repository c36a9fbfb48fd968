CONSTANTS
    Deaths <- Everyone
SPECIFICATION FairSpec
INVARIANTS
    TypeOK
    StartedIsTrue
    FailedIsTrue
    OneAnswer
    PidComes
PROPERTIES
    LauncherEnds
CHECK_DEADLOCK FALSE
