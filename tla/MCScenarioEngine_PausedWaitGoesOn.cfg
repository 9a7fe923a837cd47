SPECIFICATION Spec
CONSTANTS
    Scripts <- MCScripts
    Bodies <- MCBodies
    Endless <- MCEndless
    Datasets <- MCDatasets
    AppEvents <- MCAppEvents
PROPERTY PausedWaitGoesOn
