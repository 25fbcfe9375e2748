SPECIFICATION FairSpec
CONSTANTS
    Buffers = 2
    Frames = 4
    MaxPictures = 4
    MaxDevices = 2
    MaxTime = 9
INVARIANTS
    TypeOK
    BuffersConserved
    FramesConserved
    TimesIncrease
PROPERTIES
    SdiSpec
    IngressRefills
CHECK_DEADLOCK FALSE
