SPECIFICATION Spec
CONSTANTS
    Frames <- MCFrames
    RawEvents <- MCResetEvents
    MaxTasks = 1
    MaxLawns = 1
    UploadSteps = 2
    FailurePoints = {}
PROPERTY UploadSuccessEndsSession
