CONSTANTS
    CmdSize <- MCCmdSize
    ReplySize = 2
    BusWords <- MCBusWords
    MaxFds = 2
    Setups <- MCSetups
SPECIFICATION FairSpec
INVARIANTS
    PointerGood
    DescriptorsReturned
    VoltageMeasured
PROPERTIES
    WholeReply
    PublicationEnds
