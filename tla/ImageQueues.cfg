SPECIFICATION FairSpec
CONSTANTS
    Sink = {s1, s2}
    NoSink = NoSink
    PoolSize = 1
    MaxBuffers = 3
    MaxSessions = 3
    MaxFrames = 4
INVARIANTS
    TypeOK
    EachBufferOnce
    NoBufferLost
    OnlyWholePictures
    InArrivalOrder
PROPERTIES
    FifoSpec
    AcceptedFrameIsShown
