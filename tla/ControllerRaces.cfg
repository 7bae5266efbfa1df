\* Two requests at once, racing each other, the control thread and a stop of the
\* service, whose restore-baseline runs beside them all.
CONSTANTS
    Handler = {h1, h2}
    Request <- OnAndOff
    NDays = 0
    MaxSlot = 0
    Outcome = {"done"}
    MaxRequests = 2
    MaxFaults = 1
    MaxCrashes = 0
    MaxStops = 1
SYMMETRY Handlers
SPECIFICATION Spec
INVARIANTS
    ModeSurvives
    StragglerBound
PROPERTY
    ActsAsSwitch
