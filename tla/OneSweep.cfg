CONSTANTS
    House <- CanonicalHouse
    Outsides <- TableOutsides
    Suns <- TableSuns
    LabHouse <- CanonicalHouse
    Configs <- SomeConfigs
    Telemetry <- FourDays
    Nows <- TwoNows
    Base <- Held
    MaxRuns = 4
    MaxEdits = 1
    MaxScripts = 2
SPECIFICATION Spec
INVARIANT SweepsConverge
CHECK_DEADLOCK FALSE
