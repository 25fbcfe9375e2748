SPECIFICATION Spec
CONSTANTS
    Orders = {"SUBSCRIBE", "PUBLISH"}
    MaxSessions = 2
    MaxOffers = 2
    MaxPings = 1
    MaxCandidates = 1
INVARIANTS
    TypeOK
    ConnectFirst
    WireInOrder
    OneAnswerPerOffer
    OnlyLossKills
    NoWakeupLost
CHECK_DEADLOCK FALSE
