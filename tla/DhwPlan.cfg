\* Three days of two weekdays, cycles at every corner of the day.
CONSTANTS
    Configs <- Tariffs
    Instant <- Corners
    Reading <- Temperatures
    Week = 2
    MaxDay = 2
SPECIFICATION Spec
VIEW PlanView
INVARIANTS
    TypeOK
    WindowFollowsLastReading
    OncePerSlot
    CosyNeedLaunched
