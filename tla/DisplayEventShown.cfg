CONSTANTS
    MaxMessages = 1
    Readings = {1}
SPECIFICATION FairSpec
PROPERTIES
    EventShown
