SPECIFICATION Spec
CONSTANTS
    Frames <- MCFrames
    RawEvents <- MCRawEvents
    MaxTasks = 1
    MaxLawns = 1
    UploadSteps = 1
    FailurePoints = {}
INVARIANTS
    TypeOK
    CountdownOnPage
    TaskFollowsSession
    SettlesInPhase
PROPERTIES
    SignalsEarnedAnew
    ResumeIsConfirmed
    UploadEndsSession
