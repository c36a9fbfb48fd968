CONSTANTS
    Text <- MCText
    MaxDraws = 1
    MaxRestarts = 1
    Callers <- SelectAndLwt
    FaultyPorts <- ButtonPort
    NoOne = NoOne
SPECIFICATION Spec
INVARIANTS
    BytesIntact
    BacklightWhole
    LightAsAsked
PROPERTIES
    OverlapOnlyOutsideMutex
