SPECIFICATION FairSpec
CONSTANTS
    MaxPackets = 3
    Delay = 1
    Blocks = 2
    MaxOffers = 1
    MaxPings = 1
    MaxCandidates = 1
INVARIANTS
    TypeOK
    FramesInOrder
    DeathHasACause
PROPERTIES
    PlaysToTheEnd
    EventIsTaken
CHECK_DEADLOCK FALSE
