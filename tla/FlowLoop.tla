------------------------------ MODULE FlowLoop ------------------------------
(***************************************************************************)
(* The two loops that steer the flow temperature: the outer cycle sets a   *)
(* flow target and seeds the heat curve from the thermal model, and then,  *)
(* minute by minute, the inner cycle corrects the curve by the error it    *)
(* reads back (run_outer_cycle, run_inner_cycle).                          *)
(*                                                                         *)
(* Units: temperatures in 0.1 degC, curves in 0.01. The VRC 700 is what    *)
(* curve_for_flow inverts: flow = setpoint + curve * gap ^ exponent, with  *)
(* gap how much colder it is outside than the setpoint. A weather is given *)
(* by that power, the slope: tenths of a degree per whole unit of curve.   *)
(***************************************************************************)
EXTENDS Integers

CONSTANTS
    Slope,     \* the weathers of the instance, actual and forecast
    Target,    \* the flow temperatures the thermal model may ask for
    Period,    \* inner cycles from one outer cycle to the next
    Modes      \* the modes an outer cycle may find itself in

ASSUME FlowLoopAssumption ==
    /\ Slope \subseteq Nat \ {0}
    /\ Target \subseteq Nat
    /\ Period \in Nat \ {0}
    /\ Modes \subseteq {"Occupied", "ShortAbsence", "AwayUntil"}

Setpoint == 190
CurveFloor == 10
CurveCeiling == 400
BaselineCurve == 55
OuterDeadband == 5
InnerDeadband == 5
InnerGain == 2          \* 0.05 per degC, in quarters of 0.01 per 0.1 degC
MaxStep == 20
LowGainBelow == 25
StandbyBelow == 10
WarmSlope == 75         \* the slope 5 degC below the setpoint
WarmMaxFlow == 285

VARIABLES
    slope,     \* the weather
    curve,     \* Hc1HeatCurve
    target,    \* target_flow_c, 0 for None
    pc, tick,  \* outer or inner cycle next, inner cycles since the last outer
    steady     \* history: every inner cycle since then had a live reading

vars == <<slope, curve, target, pc, tick, steady>>

Init ==
    /\ slope \in Slope
    /\ curve = BaselineCurve
    /\ target = 0
    /\ pc = "outer" /\ tick = 0
    /\ steady = FALSE

-----------------------------------------------------------------------------
(* The plant and the model.                                                *)

\* Hc1ActualFlowTempDesired while the heat pump runs.
Flow(c) == Setpoint + (slope * c) \div 100

Clamp(v, low, high) == IF v < low THEN low ELSE IF v > high THEN high ELSE v
Abs(v) == IF v < 0 THEN -v ELSE v

WarmLowLoad(flow, forecast) == forecast <= WarmSlope /\ flow <= WarmMaxFlow

\* The curve the model seeds: the formula inverted, rounded and clamped, or the
\* baseline where the inversion is ill-conditioned.
SeedCurve(flow, forecast) ==
    IF WarmLowLoad(flow, forecast) THEN BaselineCurve
    ELSE Clamp((200 * (flow - Setpoint) + forecast) \div (2 * forecast), CurveFloor, CurveCeiling)

-----------------------------------------------------------------------------
(* The outer cycle.                                                        *)

OuterDone(c, t) ==
    /\ pc = "outer" /\ pc' = "inner" /\ tick' = 0
    /\ curve' = c /\ target' = t
    /\ steady' = TRUE
    /\ UNCHANGED slope

\* should_defer_outer_curve_reset; fd is 0 in standby and when it was not read.
Defer(seed, flow, fd) ==
    fd >= StandbyBelow /\ seed < curve /\ fd < flow - InnerDeadband

\* Occupied and warm enough to heat: target and seed, outside the deadband.
OuterHeat(flow, forecast, fd) ==
    LET seed == SeedCurve(flow, forecast)
        warm == WarmLowLoad(flow, forecast)
        hold == Abs(seed - curve) <= OuterDeadband \/ Defer(seed, flow, fd)
    IN  /\ "Occupied" \in Modes
        /\ OuterDone(IF hold THEN curve ELSE seed, IF warm THEN 0 ELSE flow)

\* Occupied while DHW runs: the target only.
OuterDuringDhw(flow, forecast) ==
    LET warm == WarmLowLoad(flow, forecast)
    IN  /\ "Occupied" \in Modes
        /\ OuterDone(curve, IF warm THEN 0 ELSE flow)

\* Overnight coast: no target. The curve stays where it is.
OuterCoast == "Occupied" \in Modes /\ OuterDone(curve, 0)

\* A defrost, a missing reading, a DHW launch, or no answer from the model.
OuterHeld == OuterDone(curve, target)

OuterShortAbsence ==
    /\ "ShortAbsence" \in Modes
    /\ OuterDone(IF curve - 10 > CurveFloor THEN curve - 10 ELSE CurveFloor, 0)

\* AwayUntil: two fixed stages, then the model, or the baseline when it has no answer.
OuterAwayStage(c) == "AwayUntil" \in Modes /\ OuterDone(c, 0)

OuterAwayWarmUp(flow, forecast) ==
    /\ "AwayUntil" \in Modes
    /\ OuterDone(SeedCurve(flow, forecast), flow)

-----------------------------------------------------------------------------
(* The inner cycle.                                                        *)

InnerDone(c, live) ==
    /\ pc = "inner"
    /\ tick' = tick + 1
    /\ pc' = IF tick' >= Period THEN "outer" ELSE "inner"
    /\ curve' = c
    /\ steady' = (steady /\ live)
    /\ UNCHANGED <<slope, target>>

\* Mutant: the floor guard's comparison is reversed for the gain.
GainReversed(c) == IF c < LowGainBelow THEN InnerGain ELSE InnerGain \div 2

\* Half the gain and twice the deadband near the floor.
Gain(c) == IF c < LowGainBelow THEN InnerGain \div 2 ELSE InnerGain
Deadband(c) == IF c < LowGainBelow THEN 2 * InnerDeadband ELSE InnerDeadband

\* round2: a sum that falls between two hundredths goes to either, as the binary
\* fractions it is made of decide.
Rounded(quarters) == {(quarters + 1) \div 4, (quarters + 2) \div 4}

Corrected(error) ==
    { Clamp(c, CurveFloor, CurveCeiling) :
          c \in Rounded(4 * curve + Clamp(Gain(curve) * error, -4 * MaxStep, 4 * MaxStep)) }

\* Mutant: a register that reads 0 in standby is taken for a flow temperature.
StandbyAsFlow(fd) == FALSE

Standby(fd) == fd < StandbyBelow

\* No target, DHW, defrost, or a reading that is missing.
InnerSkipped(live) ==
    /\ target = 0 \/ ~live
    /\ InnerDone(curve, live)

InnerCycle(fd) ==
    /\ target # 0
    /\ IF Standby(fd) \/ Abs(target - fd) <= Deadband(curve)
       THEN InnerDone(curve, fd # 0)
       ELSE \E c \in Corrected(target - fd) : InnerDone(c, fd # 0)

-----------------------------------------------------------------------------
Reading == {0, Flow(curve)}

Outer ==
    \/ \E flow \in Target, forecast \in Slope :
          \/ \E fd \in Reading : OuterHeat(flow, forecast, fd)
          \/ OuterDuringDhw(flow, forecast)
          \/ OuterAwayWarmUp(flow, forecast)
    \/ OuterCoast \/ OuterHeld \/ OuterShortAbsence
    \/ \E c \in {30, 45, BaselineCurve} : OuterAwayStage(c)

Inner ==
    \/ \E live \in BOOLEAN : InnerSkipped(live)
    \/ \E fd \in Reading : InnerCycle(fd)

Next == Outer \/ Inner

Spec == Init /\ [][Next]_vars

-----------------------------------------------------------------------------
(* Properties.                                                             *)

Error(c) == target - Flow(c)

\* The error is within the deadband, or the curve is at the end that is nearest.
Settled ==
    \/ Abs(Error(curve)) <= Deadband(curve)
    \/ curve = CurveFloor /\ Error(curve) < 0
    \/ curve = CurveCeiling /\ Error(curve) > 0

\* Wherever the outer loop seeds the curve, and however wrong the forecast was, the
\* inner loop has the flow at its target by the time the next outer cycle looks at it,
\* provided the heat pump ran and could be read.
SettledByNextOuter == pc = "outer" /\ steady /\ target # 0 => Settled

\* A correction never leaves the flow further from the target than it found it: not
\* by overshooting in cold weather, where the plant's slope is steep, not next to the
\* floor, and not by following the 0.0 the register shows in standby.
NeverWorse ==
    [][ pc = "inner" /\ curve' # curve
        => Abs(Error(curve')) <= Abs(Error(curve)) ]_vars
=============================================================================
