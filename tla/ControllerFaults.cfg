\* Two requests, one at a time, a setback among them, a write that ebusd refuses, and a crash at any
\* point.
CONSTANTS
    Handler = {h1}
    Request <- OnOffAndAway
    NDays = 1
    MaxSlot = 0
    Outcome = {"done", "refused"}
    MaxRequests = 2
    MaxFaults = 1
    MaxCrashes = 1
    MaxStops = 0
VIEW WithoutModeHistory
SPECIFICATION Spec
INVARIANTS
    NeverStranded
    DedupFailsSafe
    NightWhileActive
