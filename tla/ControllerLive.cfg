\* Runs without end: one /kill at most, a write that finds no connection, a crash,
\* and a DHW slot that may ask for its launch in every cycle.
CONSTANTS
    Handler = {h1}
    Request <- KillOnly
    NDays = 0
    MaxSlot = 1
    Outcome = {"done", "dropped"}
    MaxRequests = 1
    MaxFaults = 1
    MaxCrashes = 1
    MaxStops = 0
SPECIFICATION FairSpec
INVARIANTS
    LaunchAccounting
PROPERTIES
    CoastEnds
    KillDisables
