SPECIFICATION Spec
CONSTANTS
    Frames <- MCFrames
    RawEvents <- MCRawEvents
    MaxTasks = 1
    FullProgress = 1
INVARIANTS
    TypeOK
    MowResumeTargets
    MowTaskFollowsSession
PROPERTIES
    CancelStopsDocking
    ReturnIsEnded
    ReturnNotResumed
    RechargeArrives
