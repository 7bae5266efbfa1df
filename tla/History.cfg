SPECIFICATION Spec
CHECK_DEADLOCK FALSE
CONSTANTS
    Horizon = 10
    Bucket = 2
    MinCharge = 3
    FlowLookback = 4
    LeatherLookback = 5
    Boundary = 4
    RecentEnd = 4
    Day = 5
    WakingStart = 1
    WakingEnd = 4
    Targets = {"heating", "dhw"}
    Windows <- MCWindows
    MaxTurns = 3
INVARIANTS
    ChargesAsRecorded
    MissesAsRecorded
    WiderNeverBlessed
