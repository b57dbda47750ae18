SPECIFICATION FairSpec
CONSTANTS
    None = None
    Contents <- MCContents
    MaxFrame = 2
    Capacity = 6
    MaxFrames = 2
    Poses = 2
    MaxTemplates = 2
    MaxSessions = 2
    MaxOutages = 1
CHECK_DEADLOCK FALSE
INVARIANTS
    TypeOK
    FramesWhole
    SavedIsComplete
    ClosedReleases
    HonestEnd
PROPERTIES
    NothingAfterClose
    NeverStuck
