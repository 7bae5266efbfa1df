\* Three nights of ten coarse minutes under three tariffs, the command at any time.
CONSTANTS
    TARGET_SWEEP <- MCSweep
    TARGET_TEMP = 195
    Flexed = 180
    Recommended = 185
    Tracks <- MCTracks
    Tariffs <- MCTariffs
    LastOffset = 9
    TARGET_HOUR = 8
    Around = 0
    PreferredDhw = 6
    OffTimes <- MCOffTimes
    Fallback <- MCFallback
    DhwModes <- MCModes
    MIN_NIGHT_SAMPLES = 6
    MIN_DELTA_T = 50
    Span = 1
    Trend = 0
    MinBin = 2
    BinEdges <- MCBinEdges
    Htc = 261
    KMin = 20
    KMax = 60
    KDefault = 50
    LowestRate = 14
    BlendedRate = 18
    RunningW = 50
    DefrostDt <- MCDefrostDt
    EnterDhw = 150
    ExitDhw = 147
SPECIFICATION Spec
INVARIANTS
    TypeOK
    TargetsMonotone
    TotalsOrdered
    PicksAddUp
    DhwAtLowestRate
    FrameStartForgotten
PROPERTY
    ChoiceSpec
