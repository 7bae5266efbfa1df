------------------------------- MODULE HpStates -------------------------------
(* classify_states of src/analysis.rs: the operating state of each row of a *)
(* loaded frame, by a machine that starts anew with every frame. A row has  *)
(* elec and heat in W, flow in 0.1 l/min and dt, flow less return, in 0.1   *)
(* degC; a cell without a value counts as 0.                                *)
EXTENDS Integers

CONSTANTS
    RunningW,           \* thresholds.elec_running_w
    DefrostDt,          \* thresholds.defrost_dt_threshold
    EnterDhw,           \* thresholds.dhw_enter_flow_rate
    ExitDhw             \* thresholds.dhw_exit_flow_rate

ASSUME HpStatesAssumption ==
    /\ RunningW \in Int /\ DefrostDt \in Int /\ EnterDhw \in Int /\ ExitDhw \in Int
    /\ ExitDhw <= EnterDhw

HpState == {"idle", "heating", "dhw", "defrost"}

\* current and pre_defrost.
Memory == [current : HpState, pre : {"heating", "dhw"}]
Reading == [elec : Int, heat : Int, flow : Int, dt : Int]

Unknown == [current |-> "idle", pre |-> "heating"]

Running(r) == r.elec > RunningW
Reversed(r) == r.heat <= 0 \/ r.dt < DefrostDt

Interrupted(m) ==
    CASE m.current = "defrost" -> m.pre
      [] m.current = "dhw"     -> "dhw"
      [] OTHER                 -> "heating"

\* Mutant: after a defrost the state before it, whatever the flow.
ByFlowAfterDefrost(m, flow) ==
    CASE m.current = "defrost" -> m.pre
      [] m.current # "defrost" /\ flow >= EnterDhw -> "dhw"
      [] m.current # "defrost" /\ flow < ExitDhw -> "heating"
      [] OTHER -> Interrupted(m)

\* Between the two thresholds the valve stays where it was.
ByFlow(m, flow) ==
    CASE flow >= EnterDhw -> "dhw"
      [] flow < ExitDhw   -> "heating"
      [] OTHER            -> Interrupted(m)

Classified(m, r) ==
    CASE ~Running(r)               -> [m EXCEPT !.current = "idle"]
      [] Running(r) /\ Reversed(r) -> [current |-> "defrost", pre |-> Interrupted(m)]
      [] OTHER                     -> [m EXCEPT !.current = ByFlow(m, r.flow)]

\* The states of rows by their instants, none after last, from what is remembered of
\* the rows before them.
ClassifyStates(rows, before, last) ==
    LET memory[t \in 0..last] ==
            LET m == IF t = 0 THEN before ELSE memory[t - 1]
            IN  IF t \in DOMAIN rows THEN Classified(m, rows[t]) ELSE m
    IN  [t \in DOMAIN rows |-> memory[t].current]

\* Rows that call the state whatever was before.
Decisive(r) ==
    ~Running(r) \/ (~Reversed(r) /\ (r.flow >= EnterDhw \/ r.flow < ExitDhw))
=============================================================================
