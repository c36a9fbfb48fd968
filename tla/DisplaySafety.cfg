CONSTANTS
    MaxMessages = 2
    Readings = {1, 2}
SPECIFICATION ThreadSpec
INVARIANTS
    StaleOnlyAfterLostSignal
PROPERTIES
    EventPair
    PrintedFrameWhole
    ThreadsStop
