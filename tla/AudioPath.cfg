SPECIFICATION FairSpec
CONSTANTS
    Slots = 2
    Block = 9
    Limit = 7
    Rooms = {4, 12}
    Sources <- MCSources
    MaxPackets = 3
    MaxSwitches = 3
INVARIANTS
    TypeOK
    NoneLostNoneTwice
    MixIsSum
    UpsampleKeeps
PROPERTIES
    PacketIsTaken
CHECK_DEADLOCK FALSE
