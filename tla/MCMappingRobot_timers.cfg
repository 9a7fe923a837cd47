SPECIFICATION Spec
CONSTANTS
    Frames <- MCTimerFrames
    RawEvents = {}
    MaxTasks = 2
    MaxLawns = 1
    UploadSteps = 2
    FailurePoints = {2}
INVARIANTS
    BusyHasTimer
PROPERTIES
    EdgeActionAnswered
    ComesToRest
