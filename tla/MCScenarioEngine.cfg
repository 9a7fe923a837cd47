SPECIFICATION Spec
CONSTANTS
    Scripts <- MCScripts
    Bodies <- MCBodies
    Endless <- MCEndless
    Datasets <- MCDatasets
    AppEvents <- MCAppEvents
INVARIANTS
    TypeOK
    OverridesScoped
    HeldBeforeStep
PROPERTIES
    StopEndsRun
    FreeRunEnds
