CONSTANTS
    Text <- MCText
    MaxDraws = 1
    MaxRestarts = 0
    Callers <- OneCaller
    FaultyPorts <- Reliable
    NoOne = NoOne
SPECIFICATION Spec
INVARIANTS
    SentIsReceived
