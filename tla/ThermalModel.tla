---------------------------- MODULE ThermalModel ----------------------------
(* The two lives of the thermal model: the control table that HouseSolver   *)
(* fills in, and the artifacts of Baselines. A table is printed once and    *)
(* reads nothing an artifact command writes, so a behaviour is of one life  *)
(* or of the other.                                                         *)
EXTENDS HouseSolver, Baselines

VARIABLE life

vars == <<life, solverVars, labVars>>

Init ==
    /\ life \in {"table", "artifacts"}
    /\ SolverInit
    /\ LabInit

Next ==
    \/ life = "table" /\ SolverNext /\ UNCHANGED <<life, labVars>>
    \/ life = "artifacts" /\ LabNext /\ UNCHANGED <<life, solverVars>>

Spec == Init /\ [][Next]_vars
=============================================================================
