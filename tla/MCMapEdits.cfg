SPECIFICATION Spec
CONSTANTS
    NoSource = NoSource
    Editors = {a}
    Planners = {p}
    Fixture <- MCFixture
    Deltas <- MCDeltas
    Results <- MCResults
    MaxVersion = 4
    MaxSends = 2
CHECK_DEADLOCK FALSE
INVARIANTS TypeOK VersionNamesMap GroundSharedOut SavedStays CompletedIsStored
