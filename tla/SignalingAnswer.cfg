SPECIFICATION FairSpec
CONSTANTS
    Orders = {"SUBSCRIBE"}
    MaxSessions = 1
    MaxOffers = 1
    MaxPings = 0
    MaxCandidates = 1
PROPERTIES
    AnswerIsSent
CHECK_DEADLOCK FALSE
