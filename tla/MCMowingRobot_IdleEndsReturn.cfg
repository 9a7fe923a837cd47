SPECIFICATION Spec
CONSTANTS
    Frames <- MCFrames
    RawEvents <- MCRawEvents
    MaxTasks = 1
    FullProgress = 1
PROPERTY
    IdleEndsReturn
