----------------------------- MODULE MCFlowLoop -----------------------------
(* Instances of FlowLoop for TLC. The slopes are 10 * gap ^ 1.25 for the   *)
(* outside temperatures named, with the setpoint at 19 degC.               *)
EXTENDS FlowLoop

Mild == {75, 114, 200, 271, 307} \* 14, 12, 8, 5 and 3.5 degC
Flows == {240, 260, 280, 300, 320, 340}

AllModes == {"Occupied", "ShortAbsence", "AwayUntil"}
=============================================================================
