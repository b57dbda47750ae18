SPECIFICATION Spec
CONSTANTS
    None = None
    Frames <- MCFrames
    Gears <- MCGears
    RawConfigs <- MCConfigs
    MinClosed = 1
    MaxClosed = 1
    Window = 1
    MaxFrames = 5
INVARIANTS
    TypeOK
    MoireExact
    BlinksExact
    ChallengeEarned
    AttentionMeasured
    PlanarityDecides
PROPERTIES
    PreviewTold
