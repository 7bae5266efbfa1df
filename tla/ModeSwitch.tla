----------------------------- MODULE ModeSwitch -----------------------------
(***************************************************************************)
(* What whoever switches the heating controller may count on, and nothing  *)
(* of how it is done. The mode in force is the one last asked for. It      *)
(* outlives the service once it is saved; a restart falls back on the last *)
(* mode that was. Out of a passive mode the control loop writes no more to *)
(* the heat pump, but for the writes of a cycle that was under way, fewer  *)
(* of them with each, and none at all after a start.                       *)
(***************************************************************************)
EXTENDS Integers

CONSTANTS
    Mode, Passive,   \* the modes, and those of them that write nothing
    FirstMode,       \* the mode of a controller that was never switched
    MaxLate          \* the writes of one cycle

VARIABLES
    mode,    \* in force
    saved,   \* what a restart comes back to
    up,      \* the service runs
    left,    \* the most writes that may still come
    late     \* writes in a passive mode since it took force or the service started

vars == <<mode, saved, up, left, late>>

Init ==
    /\ mode = FirstMode /\ saved = FirstMode
    /\ up = TRUE
    /\ left = MaxLate
    /\ late = 0

\* A request takes effect and is acknowledged, saved or, if the save fails, not.
Switch(m) ==
    /\ up
    /\ mode' = m
    /\ saved' \in {saved, m}
    /\ IF m \in Passive
       THEN left' \in 0..left /\ late' = late
       ELSE left' = MaxLate /\ late' = 0
    /\ up' = up

\* A mode whose save had failed is saved after all.
Save ==
    /\ up
    /\ saved' = mode
    /\ UNCHANGED <<mode, up, left, late>>

\* The cycle under way writes.
Write ==
    /\ up /\ mode \in Passive
    /\ left > 0 /\ left' \in 0..(left - 1)
    /\ late' = late + 1
    /\ UNCHANGED <<mode, saved, up>>

\* It passes over a write it might have sent, or ends.
PassOver ==
    /\ up /\ mode \in Passive
    /\ left' \in 0..left
    /\ UNCHANGED <<mode, saved, up, late>>

GoDown ==
    /\ up' = FALSE
    /\ mode' = saved
    /\ left' = IF saved \in Passive THEN 0 ELSE MaxLate
    /\ UNCHANGED <<saved, late>>

Start ==
    /\ ~up /\ up' = TRUE
    /\ late' = 0
    /\ UNCHANGED <<mode, saved, left>>

Next == (\E m \in Mode : Switch(m)) \/ Save \/ Write \/ PassOver \/ GoDown \/ Start

Spec == Init /\ [][Next]_vars
=============================================================================
