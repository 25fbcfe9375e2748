SPECIFICATION FairSpec
CONSTANTS
    Client = {c1}
    RecvMax = 3
    MaxLines = 3
    Slot = {s1}
INVARIANTS
    TypeOK
    PacedCommandsArrive
PROPERTIES
    EscapeEnds
CHECK_DEADLOCK FALSE
