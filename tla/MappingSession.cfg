SPECIFICATION Spec
CONSTANT GateRequired = FALSE
INVARIANTS
    TypeOK
    ResumeTargets
    EstopLatched
    RemoteIsManual
PROPERTIES
    EstopLeftByReset
    TerminalIsFinal
    SceneSaved
    ResumedNamesPhase
    LivesOneTask
