CONSTANTS
    MaxFaults = 2
    MaxMessages = 2
    PipeSize = 2
SPECIFICATION FairSpec
INVARIANTS
    Announced
    LastWordOffline
    OneLateMatch
    StateOncePerCaller
PROPERTIES
    Reconnects
    StopObeyed
    DeathTold
