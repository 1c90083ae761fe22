SPECIFICATION MCSpec
CONSTANTS
    Sources <- MCSources
    Leads = {0, 1, 4}
    Periods <- MCPeriods
    Pictures = {1, 2, 3}
    Scoring <- MCScoring
    Cadences = {1, 2, 3}
    Policies <- MCPolicies
    Steps <- MCSteps
    Requests <- MCRequests
    MaxScanned = 6
    Settings <- MCSettings
INVARIANTS
    EveryFrameOnce
    CoreLengthsBounded
    TimelineFollowsClock
    DecodedAsPlanned
    CutsAreNear
    ScenesAreKept
    SamplesCover
    PixelsAreBlended
    CalibratedTilesFit
CHECK_DEADLOCK FALSE
