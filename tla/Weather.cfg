CONSTANTS
    Names <- MCNames
    NoKey = NoKey
    Lines <- MCLines
    Window = 17
    Pieces = {0, 3}
SPECIFICATION FairSpec
INVARIANTS
    OneTree
PROPERTIES
    SensorsOfTheLine
    WellFormedTaken
    RoundEnds
