\* Fourteen minutes around a charge, two runs over different windows, one failure.
CONSTANTS
    Samples <- Day
    End = 14
    Windows = {13, 14}
    MinCharge = 2
    MinRows = 3
    MinPoints = 2
    Settle = 2
    MaxRuns = 2
    MaxFaults = 1
SPECIFICATION Spec
INVARIANTS
    CapacityCounted
    RowsAgree
    CapacityBacked
    RecommendationHolds
CHECK_DEADLOCK FALSE
