--------------------------- MODULE FlowLoopProofs ---------------------------
(* Proofs about FlowLoop: in which weather no correction of the curve       *)
(* leaves the flow further from its target.                                 *)
EXTENDS FlowLoop, TLAPS

\* 1.8 degC outside. On a steeper slope rounding alone can make an error of 0.7 degC
\* one of 0.8.
Steepest == 350

\* What a curve adds to the setpoint.
Rise(s, c) == (s * c) \div 100

-----------------------------------------------------------------------------
(* A change d of the curve changes the flow by d slopes, to a tenth.        *)
LEMMA FlowMoves ==
    ASSUME NEW s \in 1..Steepest, NEW c \in Nat, NEW m \in Nat, c <= m, m - c <= 20
    PROVE  /\ Rise(s, c) \in Int /\ Rise(s, m) \in Int /\ Rise(s, c) <= Rise(s, m)
           /\ 100 * (Rise(s, m) - Rise(s, c)) <= Steepest * (m - c) + 99
<1> DEFINE d == m - c
           x == s * c
           y == s * d
<1>1. d \in 0..20 /\ s * m = x + y OBVIOUS
<1>2. y \in Nat BY <1>1
<1>3. y <= Steepest * d
  <2>1. Steepest - s \in Nat BY DEF Steepest
  <2>2. (Steepest - s) * d \in Nat BY <1>1, <2>1
  <2>3. (Steepest - s) * d = Steepest * d - s * d BY <1>1 DEF Steepest
  <2> QED BY <2>2, <2>3 DEF Steepest
<1>4. x \in Nat OBVIOUS
<1> HIDE DEF x, y
<1>5. /\ x \div 100 \in Int /\ (x + y) \div 100 \in Int /\ x \div 100 <= (x + y) \div 100
      /\ 100 * ((x + y) \div 100 - x \div 100) <= y + 99
  BY <1>2, <1>4
<1> QED BY <1>1, <1>3, <1>5 DEF x, Steepest, Rise

\* The corrections of an error e, before the register's ends: each is on the error's
\* side, at most 20 and about half of it.
LEMMA StepBound ==
    ASSUME NEW c \in 10..400, NEW e \in Int, Abs(e) > Deadband(c),
           NEW n \in Rounded(4 * c + Clamp(Gain(c) * e, -4 * MaxStep, 4 * MaxStep))
    PROVE  /\ n \in Int
           /\ e > 0 => c <= n /\ n - c <= 20 /\ 2 * (n - c) <= e + 1
           /\ e < 0 => n <= c /\ c - n <= 20 /\ 2 * (c - n) <= 1 - e
BY DEF Abs, Deadband, Rounded, Clamp, Gain, MaxStep, InnerGain, InnerDeadband, LowGainBelow

LEMMA ClampBound ==
    ASSUME NEW c \in 10..400, NEW n \in Int
    PROVE  LET m == Clamp(n, CurveFloor, CurveCeiling)
           IN  /\ m \in 10..400
               /\ c <= n => c <= m /\ m <= n
               /\ n <= c => m <= c /\ n <= m
BY DEF Clamp, CurveFloor, CurveCeiling

\* What a step towards the target is worth when it is short enough.
LEMMA TowardsTarget ==
    ASSUME NEW e \in Nat, e > InnerDeadband, NEW d \in 0..20, 2 * d <= e + 1,
           NEW a \in Int, NEW b \in Int, a <= b, 100 * (b - a) <= Steepest * d + 99
    PROVE  0 <= b - a /\ b - a <= 2 * e
BY DEF InnerDeadband, Steepest

LEMMA CorrectionHelps ==
    ASSUME NEW s \in 1..Steepest, NEW c \in 10..400, NEW t \in Int, NEW e \in Int,
           e = t - (Setpoint + Rise(s, c)), Abs(e) > Deadband(c),
           NEW n \in Rounded(4 * c + Clamp(Gain(c) * e, -4 * MaxStep, 4 * MaxStep))
    PROVE  LET m == Clamp(n, CurveFloor, CurveCeiling)
           IN  m \in 10..400 /\ Abs(t - (Setpoint + Rise(s, m))) <= Abs(e)
<1> DEFINE m == Clamp(n, CurveFloor, CurveCeiling)
           a == Rise(s, c)
           b == Rise(s, m)
<1>1. /\ n \in Int
      /\ e > 0 => c <= n /\ n - c <= 20 /\ 2 * (n - c) <= e + 1
      /\ e < 0 => n <= c /\ c - n <= 20 /\ 2 * (c - n) <= 1 - e
  BY StepBound
<1>2. /\ m \in 10..400
      /\ c <= n => c <= m /\ m <= n
      /\ n <= c => m <= c /\ n <= m
  BY <1>1, ClampBound
<1>3. e > InnerDeadband \/ -e > InnerDeadband
  BY DEF Abs, Deadband, InnerDeadband, LowGainBelow
<1> HIDE DEF m
<1>4. CASE e > InnerDeadband
  <2>1. e > 0 BY <1>4 DEF InnerDeadband
  <2>2. m - c \in 0..20 /\ 2 * (m - c) <= e + 1 /\ c <= m /\ m \in Nat BY <1>1, <1>2, <2>1
  <2>3. a \in Int /\ b \in Int /\ a <= b /\ 100 * (b - a) <= Steepest * (m - c) + 99
    BY <2>2, FlowMoves
  <2> HIDE DEF a, b
  <2>4. 0 <= b - a /\ b - a <= 2 * e BY <1>4, <2>1, <2>2, <2>3, TowardsTarget
  <2>5. t - (Setpoint + b) = e - (b - a) BY <2>3 DEF a, Setpoint
  <2>6. Abs(t - (Setpoint + b)) <= Abs(e) BY <2>1, <2>3, <2>4, <2>5 DEF Abs
  <2> QED BY <1>2, <2>6 DEF m, b
<1>5. CASE -e > InnerDeadband
  <2>1. -e > 0 /\ -e \in Nat BY <1>5 DEF InnerDeadband
  <2>2. c - m \in 0..20 /\ 2 * (c - m) <= -e + 1 /\ m <= c /\ m \in Nat
    BY <1>1, <1>2, <2>1
  <2>3. a \in Int /\ b \in Int /\ b <= a /\ 100 * (a - b) <= Steepest * (c - m) + 99
    BY <2>2, FlowMoves
  <2> HIDE DEF a, b
  <2>4. 0 <= a - b /\ a - b <= 2 * (-e) BY <1>5, <2>1, <2>2, <2>3, TowardsTarget
  <2>5. t - (Setpoint + b) = e + (a - b) BY <2>3 DEF a, Setpoint
  <2>6. Abs(t - (Setpoint + b)) <= Abs(e) BY <2>1, <2>3, <2>4, <2>5 DEF Abs
  <2> QED BY <1>2, <2>6 DEF m, b
<1> QED BY <1>3, <1>4, <1>5

-----------------------------------------------------------------------------
(* The curve stays between its ends.                                        *)

InRange ==
    /\ slope \in Slope
    /\ curve \in 10..400
    /\ target \in Nat

LEMMA SeedInRange ==
    ASSUME NEW flow \in Nat, NEW forecast \in Nat \ {0}
    PROVE  SeedCurve(flow, forecast) \in 10..400
<1>1. CASE WarmLowLoad(flow, forecast) BY <1>1 DEF SeedCurve, BaselineCurve
<1>2. CASE ~WarmLowLoad(flow, forecast)
  <2> DEFINE q == (200 * (flow - Setpoint) + forecast) \div (2 * forecast)
  <2>1. q \in Int
    <3>1. 200 * (flow - Setpoint) + forecast \in Int /\ 2 * forecast \in Nat \ {0}
      BY DEF Setpoint
    <3> QED BY <3>1
  <2> HIDE DEF q
  <2>2. Clamp(q, CurveFloor, CurveCeiling) \in 10..400
    BY <2>1 DEF Clamp, CurveFloor, CurveCeiling
  <2> QED BY <1>2, <2>2 DEF SeedCurve, q
<1> QED BY <1>1, <1>2

LEMMA RangeInit == Init => InRange
BY DEF Init, InRange, BaselineCurve

LEMMA OuterInRange == ASSUME InRange, Outer PROVE InRange'
<1> USE DEF InRange
<1>0. ASSUME NEW c \in 10..400, NEW t \in Nat, OuterDone(c, t) PROVE InRange'
  BY <1>0 DEF OuterDone
<1>1. ASSUME NEW flow \in Target, NEW forecast \in Slope, NEW fd \in Reading,
             OuterHeat(flow, forecast, fd)
      PROVE  InRange'
  <2>1. flow \in Nat /\ forecast \in Nat \ {0} BY FlowLoopAssumption
  <2>2. SeedCurve(flow, forecast) \in 10..400 BY <2>1, SeedInRange
  <2>3. \E c \in 10..400, t \in Nat : OuterDone(c, t) BY <1>1, <2>1, <2>2 DEF OuterHeat
  <2> QED BY <1>0, <2>3
<1>2. ASSUME NEW flow \in Target, NEW forecast \in Slope, OuterDuringDhw(flow, forecast)
      PROVE  InRange'
  <2>1. flow \in Nat BY FlowLoopAssumption
  <2>2. \E t \in Nat : OuterDone(curve, t) BY <1>2, <2>1 DEF OuterDuringDhw
  <2> QED BY <1>0, <2>2
<1>3. ASSUME NEW flow \in Target, NEW forecast \in Slope, OuterAwayWarmUp(flow, forecast)
      PROVE  InRange'
  <2>1. flow \in Nat /\ forecast \in Nat \ {0} BY FlowLoopAssumption
  <2>2. SeedCurve(flow, forecast) \in 10..400 BY <2>1, SeedInRange
  <2> QED BY <1>0, <1>3, <2>1, <2>2 DEF OuterAwayWarmUp
<1>4. CASE OuterCoast BY <1>0, <1>4 DEF OuterCoast
<1>5. CASE OuterHeld BY <1>0, <1>5 DEF OuterHeld
<1>6. CASE OuterShortAbsence
  <2>1. (IF curve - 10 > CurveFloor THEN curve - 10 ELSE CurveFloor) \in 10..400
    BY DEF CurveFloor
  <2> QED BY <1>0, <1>6, <2>1 DEF OuterShortAbsence
<1>7. ASSUME NEW c \in {30, 45, BaselineCurve}, OuterAwayStage(c) PROVE InRange'
  <2>1. c \in 10..400 BY DEF BaselineCurve
  <2> QED BY <1>0, <1>7, <2>1 DEF OuterAwayStage
<1> QED BY <1>1, <1>2, <1>3, <1>4, <1>5, <1>6, <1>7 DEF Outer

\* An inner cycle leaves the curve alone or corrects it, and leaves the rest alone.
LEMMA InnerEffect ==
    ASSUME InRange, \A s \in Slope : s <= Steepest, Inner
    PROVE  /\ UNCHANGED <<slope, target>>
           /\ curve' \in 10..400
           /\ curve' # curve => Abs(Error(curve')) <= Abs(Error(curve))
<1>0. slope \in 1..Steepest /\ curve \in 10..400 /\ target \in Nat
  BY FlowLoopAssumption DEF InRange, Steepest
<1>1. ASSUME NEW live \in BOOLEAN, InnerSkipped(live)
      PROVE  UNCHANGED <<slope, target, curve>>
  BY <1>1 DEF InnerSkipped, InnerDone
<1>2. ASSUME NEW fd \in Reading, InnerCycle(fd)
      PROVE  /\ UNCHANGED <<slope, target>>
             /\ curve' \in 10..400
             /\ curve' # curve => Abs(Error(curve')) <= Abs(Error(curve))
  <2>1. CASE Standby(fd) \/ Abs(target - fd) <= Deadband(curve)
    BY <1>0, <1>2, <2>1 DEF InnerCycle, InnerDone
  <2>2. CASE ~Standby(fd) /\ ~(Abs(target - fd) <= Deadband(curve))
    <3> DEFINE e == target - (Setpoint + Rise(slope, curve))
    <3>1. fd = Flow(curve) BY <2>2 DEF Reading, Standby, StandbyBelow
    <3>2. target - fd = e BY <3>1 DEF Flow, Rise
    <3>3. Rise(slope, curve) \in Int BY <1>0 DEF Rise
    <3>4. e \in Int BY <1>0, <3>3 DEF Setpoint
    <3>a. e = target - (Setpoint + Rise(slope, curve)) OBVIOUS
    <3> HIDE DEF e
    <3>5. Abs(e) \in Int /\ Deadband(curve) \in Int
      BY <1>0, <3>4 DEF Abs, Deadband, InnerDeadband
    <3>6. Abs(e) > Deadband(curve) BY <2>2, <3>2, <3>5
    <3>7. PICK m \in Corrected(e) : InnerDone(m, fd # 0)
      BY <1>2, <2>2, <3>2 DEF InnerCycle
    <3>8. PICK n \in Rounded(4 * curve + Clamp(Gain(curve) * e, -4 * MaxStep, 4 * MaxStep)) :
              m = Clamp(n, CurveFloor, CurveCeiling)
      BY <3>7 DEF Corrected
    <3>9. m \in 10..400 /\ Abs(target - (Setpoint + Rise(slope, m))) <= Abs(e)
      <4>1. target \in Int BY <1>0
      <4> QED BY <1>0, <3>a, <3>4, <3>6, <3>8, <4>1, CorrectionHelps
    <3>10. curve' = m /\ UNCHANGED <<slope, target>> BY <3>7 DEF InnerDone
    <3>11. Error(curve') = target - (Setpoint + Rise(slope, m)) /\ Error(curve) = e
      BY <3>10 DEF Error, Flow, Rise, e
    <3> QED BY <3>9, <3>10, <3>11
  <2> QED BY <2>1, <2>2
<1>3. UNCHANGED curve => curve' \in 10..400 BY <1>0
<1> QED BY <1>1, <1>2, <1>3 DEF Inner

(* A correction never leaves the flow further from its target than it found *)
(* it, for any targets, modes and rhythm of the loops, as long as it is no  *)
(* colder outside than 1.8 degC (run_inner_cycle: gain, deadband, low-gain  *)
(* guard, largest step and the ends of the register together).              *)
THEOREM CorrectionsNeverWorse ==
    ASSUME \A s \in Slope : s <= Steepest
    PROVE  Spec => NeverWorse
<1>1. Init => InRange BY RangeInit
<1>2. InRange /\ [Next]_vars => InRange'
  <2> SUFFICES ASSUME InRange, [Next]_vars PROVE InRange' OBVIOUS
  <2>1. CASE Outer BY <2>1, OuterInRange
  <2>2. CASE Inner BY <2>2, InnerEffect DEF InRange
  <2>3. CASE UNCHANGED vars BY <2>3 DEF vars, InRange
  <2> QED BY <2>1, <2>2, <2>3 DEF Next
<1>3. InRange /\ [Next]_vars
      => [pc = "inner" /\ curve' # curve => Abs(Error(curve')) <= Abs(Error(curve))]_vars
  <2> SUFFICES ASSUME InRange, Next, pc = "inner", curve' # curve
               PROVE  Abs(Error(curve')) <= Abs(Error(curve))
    BY DEF vars
  <2>1. ~Outer
    BY DEF Outer, OuterHeat, OuterDuringDhw, OuterAwayWarmUp, OuterCoast, OuterHeld,
           OuterShortAbsence, OuterAwayStage, OuterDone
  <2>2. Inner BY <2>1 DEF Next
  <2> QED BY <2>2, InnerEffect
<1> QED BY <1>1, <1>2, <1>3, PTL DEF Spec, NeverWorse
=============================================================================
