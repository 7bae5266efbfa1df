\* Four minutes of four feeds, two minutes to a chunk, one fault.
CONSTANTS
    Feeds <- AllFeeds
    Power = "elec_power"
    Meter = "elec_energy"
    Outside = "outside_temp"
    SimFeeds <- FilledFeeds
    MaxLag = 3
    Steady <- OutsideOnly
    Kinds <- Days
    End = 4
    Chunk = 2
    MinGap = 1
    ShortGap = 3
    Hour = 2
    Temp <- Weather
    MaxFaults = 1
SPECIFICATION FairSpec
INVARIANTS
    MirrorComplete
    FrameHonest
PROPERTIES
    CatchesUp
