SPECIFICATION FairSpec
CONSTANTS
    NChunks = 2
    CoreFrames = 2
    FrameBlocks = 3
    RawPipe = 2
    EncPipe = 1
    MaxFaults = 3
INVARIANTS
    VideoIsWhole
    NothingLeftBehind
PROPERTIES
    OnlyExactSegments
    PassEnds
CHECK_DEADLOCK FALSE
