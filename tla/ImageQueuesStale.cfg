SPECIFICATION Spec
CONSTANTS
    Sink = {s1}
    NoSink = NoSink
    PoolSize = 1
    MaxBuffers = 2
    MaxSessions = 2
    MaxFrames = 2
INVARIANTS
    CollectsOwnFrames
