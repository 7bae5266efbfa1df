----------------------- MODULE HeatingControllerProofs -----------------------
(***************************************************************************)
(* Proofs about HeatingController for every set of handlers and endpoints, *)
(* every number of weekdays and slots, and every bound.                    *)
(***************************************************************************)
EXTENDS HeatingController, TLAPS

(* The steps, one name each, as the proofs go through them.                *)
LEMMA StepCases ==
    ASSUME Next
    PROVE  \/ BootCheck
           \/ \E out \in Outcome : BootZ1(out)
           \/ \E out \in Outcome : BootMinFlow(out)
           \/ BootClear
           \/ \E i \in Inputs : BeginOuter(i)
           \/ TimerUnchanged
           \/ \E d \in Day, morning \in BOOLEAN, out \in Outcome : SyncTimer(d, morning, out)
           \/ NoLaunch
           \/ \E out \in Outcome : LaunchDhw(out)
           \/ HeatBlocked
           \/ \E target \in BOOLEAN : HeatDuringDhw(target)
           \/ CoastAgain
           \/ \E out \in Outcome : CoastBegin(out)
           \/ \E out \in Outcome : CoastEnd(out)
           \/ HeatOn
           \/ \E target \in BOOLEAN : CurveHeld(target)
           \/ \E target \in BOOLEAN, out \in Outcome : CurveWritten(target, out)
           \/ \E ok \in BOOLEAN : SaveOuter(ok)
           \/ BeginInner
           \/ InnerHeld
           \/ \E out \in Outcome : InnerWrite(out)
           \/ \E h \in Handler, r \in Request : RequestMode(h, r)
           \/ \E h \in Handler : RequestKill(h)
           \/ \E h \in Handler, out \in Outcome : KillRestore(h, out)
           \/ \E h \in Handler : KillSetMode(h)
           \/ \E h \in Handler, out \in Outcome : ReinitZ1(h, out)
           \/ \E h \in Handler, out \in Outcome : ReinitMinFlow(h, out)
           \/ \E h \in Handler, ok \in BOOLEAN : ApplyMode(h, ok)
           \/ Crash
           \/ Stop
           \/ \E out \in Outcome : StopRestore(out)
           \/ StopKill
           \/ Start
           \/ NextSlot
<1>1. NextTarget \subseteq BOOLEAN
  BY DEF NextTarget
<1>2. CASE Control
  BY <1>1, <1>2, SMTT(60) DEF Control, Boot, Outer, Inner
<1>3. ASSUME NEW h \in Handler, Serve(h) \/ Client(h)
      PROVE  \/ \E r \in Request : RequestMode(h, r)
             \/ RequestKill(h)
             \/ \E out \in Outcome : KillRestore(h, out)
             \/ KillSetMode(h)
             \/ \E out \in Outcome : ReinitZ1(h, out)
             \/ \E out \in Outcome : ReinitMinFlow(h, out)
             \/ \E ok \in BOOLEAN : ApplyMode(h, ok)
  BY <1>3 DEF Serve, Client
<1>4. CASE Manager
  BY <1>4 DEF Manager
<1> QED
  BY <1>2, <1>3, <1>4 DEF Next
-----------------------------------------------------------------------------
(* The pieces the steps are made of keep their types.                      *)

LEMMA RegisterTypes ==
    ASSUME vrc \in Registers
    PROVE  /\ \A m \in {"auto", "night", "off"} : [vrc EXCEPT !.Z1OpMode = m] \in Registers
           /\ \A c \in {"baseline", "adapted"} : [vrc EXCEPT !.Hc1HeatCurve = c] \in Registers
           /\ \A f \in {19, 20} : [vrc EXCEPT !.MinFlow = f] \in Registers
           /\ \A m \in {"auto", "load"} : [vrc EXCEPT !.HwcSFMode = m] \in Registers
           /\ \A d \in Day, b \in BOOLEAN :
                 [vrc EXCEPT !.timer = [@ EXCEPT ![d] = b]] \in Registers
BY DEF Registers

LEMMA RestoreTypes ==
    ASSUME vrc \in Registers, NEW k \in 1..LastRestore
    PROVE  RestoreTarget(k) \in Registers
<1>1. k > 4 => k - 4 \in Day
  BY ConstantsAssumption DEF LastRestore, Day
<1>2. CASE k \in {1, 2, 3, 4}
  BY <1>2, RegisterTypes DEF RestoreTarget
<1>3. CASE k > 4
  <2>1. RestoreTarget(k) = [vrc EXCEPT !.timer = [@ EXCEPT ![k - 4] = TRUE]]
    BY <1>3 DEF RestoreTarget
  <2> QED
    BY <1>1, <1>3, <2>1, RegisterTypes
<1> QED
  BY <1>2, <1>3 DEF LastRestore

LEMMA StateTypes ==
    ASSUME NEW s \in RuntimeState
    PROVE  /\ ClearTimerDedup(s) \in RuntimeState
           /\ \A m \in Mode : [s EXCEPT !.mode = m] \in RuntimeState
           /\ \A b \in BOOLEAN : [s EXCEPT !.target_flow_c = b] \in RuntimeState
           /\ \A b \in BOOLEAN : [s EXCEPT !.heating_off = b] \in RuntimeState
           /\ \A b, c \in BOOLEAN :
                 [s EXCEPT !.target_flow_c = b, !.heating_off = c] \in RuntimeState
           /\ \A d \in Day, b \in BOOLEAN :
                 [s EXCEPT !.timer_weekday = d, !.timer_morning = b] \in RuntimeState
           /\ \A k \in Slot : [s EXCEPT !.scheduler_slot = k] \in RuntimeState
BY DEF RuntimeState, ClearTimerDedup

LEMMA DefaultTypes ==
    /\ DefaultState \in RuntimeState
    /\ Baseline \in Registers
    /\ NoInputs \in Sensed
    /\ FreeHandler \in HandlerState
<1>1. 1 \in 1..(4 + NDays)
  BY ConstantsAssumption
<1> QED
  BY <1>1 DEF DefaultState, RuntimeState, Baseline, Registers, NoInputs, Sensed,
              FreeHandler, HandlerState, Mode

LEMMA MergedType ==
    ASSUME rt \in RuntimeState, loc \in RuntimeState
    PROVE  Merged \in RuntimeState
BY DEF Merged, RuntimeState

LEMMA WriteTypes ==
    ASSUME NEW target \in Registers, NEW out, TypeOK, WriteRegister(target, out)
    PROVE  vrc' \in Registers /\ faults' \in 0..MaxFaults
BY ConstantsAssumption DEF WriteRegister, TypeOK

LEMMA ControlWriteTypes ==
    ASSUME NEW target \in Registers, NEW out, TypeOK, ControlWrite(target, out)
    PROVE  vrc' \in Registers /\ faults' \in 0..MaxFaults /\ late' \in Nat
BY WriteTypes DEF ControlWrite, TypeOK

LEMMA GotoTypes ==
    ASSUME TypeOK, NEW s \in RuntimeState, NEW next \in ControlPc,
           Goto(next, s) \/ Abort
    PROVE  pc' \in ControlPc /\ loc' \in RuntimeState /\ inp' \in Sensed
<1>1. [inp EXCEPT !.launch = 0] \in Sensed
  BY DEF TypeOK, Sensed
<1>2. CASE Goto(next, s)
  BY <1>1, <1>2, DefaultTypes DEF Goto, TypeOK
<1>3. CASE Abort
  BY <1>3, DefaultTypes DEF Abort, ControlPc
<1> QED
  BY <1>2, <1>3

LEMMA HandlerTypes ==
    ASSUME TypeOK, NEW h \in Handler
    PROVE  /\ \A s \in HandlerState : [hs EXCEPT ![h] = s] \in [Handler -> HandlerState]
           /\ hs[h] \in HandlerState
           /\ hs[h].want \in Mode /\ hs[h].next \in 1..LastRestore
           /\ hs[h].next < LastRestore => [hs[h] EXCEPT !.next = @ + 1] \in HandlerState
           /\ \A p \in {"free", "read", "restore", "z1", "minflow", "apply"} :
                 [hs[h] EXCEPT !.pc = p] \in HandlerState
           /\ \A p \in {"free", "read", "restore", "z1", "minflow", "apply"} :
                 [hs[h] EXCEPT !.pc = p, !.next = 1] \in HandlerState
           /\ \A p \in {"read", "restore"}, m \in Mode :
                 [FreeHandler EXCEPT !.pc = p, !.want = m] \in HandlerState
<1>1. hs[h] \in HandlerState
  BY DEF TypeOK
<1>2. 1 \in 1..(4 + NDays)
  BY ConstantsAssumption
<1>3. hs[h].want \in Mode /\ hs[h].next \in 1..LastRestore
  BY <1>1 DEF HandlerState, LastRestore
<1>4. hs[h].next < LastRestore => hs[h].next + 1 \in 1..(4 + NDays)
  BY <1>3, ConstantsAssumption DEF LastRestore
<1>5. ASSUME hs[h].next < LastRestore
      PROVE  [hs[h] EXCEPT !.next = @ + 1] \in HandlerState
  BY <1>1, <1>4, <1>5 DEF HandlerState
<1> QED
  BY <1>1, <1>2, <1>3, <1>5, DefaultTypes DEF TypeOK, HandlerState

LEMMA HandlerPcTypes ==
    ASSUME TypeOK, NEW h \in Handler, NEW b \in BOOLEAN
    PROVE  [hs[h] EXCEPT !.pc = IF b THEN "minflow" ELSE "apply"] \in HandlerState
BY HandlerTypes

LEMMA ReadModeTypes ==
    ASSUME TypeOK, NEW h \in Handler, NEW want \in Mode, ReadMode(h, want)
    PROVE  hs' \in [Handler -> HandlerState]
<1>1. 1 \in 1..(4 + NDays)
  BY ConstantsAssumption
<1>2. [ pc |-> IF rt.mode \in Passive /\ want \notin Passive THEN "z1" ELSE "apply",
        want |-> want, activating |-> rt.mode \in Passive /\ want \notin Passive,
        next |-> 1 ] \in HandlerState
  BY <1>1 DEF HandlerState
<1> QED
  BY <1>2, HandlerTypes DEF ReadMode, SetHandler

-----------------------------------------------------------------------------
(* Type correctness.                                                       *)

LEMMA InitTypes == Init => TypeOK
<1> SUFFICES ASSUME Init PROVE TypeOK
  OBVIOUS
<1>1. now \in Slot \union {0}
  BY ConstantsAssumption DEF Init, Slot
<1>2. hs \in [Handler -> HandlerState] /\ cli \in 0..(5 + NDays)
  BY ConstantsAssumption, DefaultTypes DEF Init
<1>3. since \in SUBSET Mode /\ pc \in ControlPc
  BY DEF Init, Mode, ControlPc
<1> QED
  BY <1>1, <1>2, <1>3, ConstantsAssumption, DefaultTypes DEF Init, TypeOK

LEMMA StepTypes ==
    ASSUME TypeOK, [Next]_vars
    PROVE  TypeOK'
<1> USE DEF bounds, history, NoWrite
<1>1. CASE UNCHANGED vars
  BY <1>1 DEF vars, TypeOK
<1>2. CASE BootCheck
  BY <1>2 DEF BootCheck, TypeOK, ControlPc
<1>3. ASSUME NEW out \in Outcome, BootZ1(out) PROVE TypeOK'
  BY <1>3, ControlWriteTypes, RegisterTypes DEF BootZ1, TypeOK, ControlPc
<1>4. ASSUME NEW out \in Outcome, BootMinFlow(out) PROVE TypeOK'
  BY <1>4, ControlWriteTypes, RegisterTypes DEF BootMinFlow, TypeOK, ControlPc
<1>5. CASE BootClear
  BY <1>5, StateTypes DEF BootClear, TypeOK, ControlPc
<1>6. ASSUME NEW i \in Inputs, BeginOuter(i) PROVE TypeOK'
  BY <1>6 DEF BeginOuter, TypeOK, ControlPc, Inputs
<1>7. CASE TimerUnchanged
  BY <1>7, GotoTypes DEF TimerUnchanged, TypeOK, ControlPc
<1>8. ASSUME NEW d \in Day, NEW morning \in BOOLEAN, NEW out \in Outcome,
             SyncTimer(d, morning, out)
      PROVE  TypeOK'
  <2>1. /\ vrc' \in Registers /\ faults' \in 0..MaxFaults /\ late' \in Nat
    BY <1>8, ControlWriteTypes, RegisterTypes DEF SyncTimer, TypeOK
  <2>2. pc' \in ControlPc /\ loc' \in RuntimeState /\ inp' \in Sensed
    BY <1>8, GotoTypes, StateTypes DEF SyncTimer, TypeOK, ControlPc
  <2> QED
    BY <1>8, <2>1, <2>2 DEF SyncTimer, TypeOK
<1>9. CASE NoLaunch
  BY <1>9, GotoTypes DEF NoLaunch, TypeOK, ControlPc
<1>10. ASSUME NEW out \in Outcome, LaunchDhw(out) PROVE TypeOK'
  <2>1. inp.launch \in Slot
    BY <1>10 DEF LaunchDhw, LaunchWanted, TypeOK, Sensed
  <2>2. /\ vrc' \in Registers /\ faults' \in 0..MaxFaults /\ late' \in Nat
    BY <1>10, ControlWriteTypes, RegisterTypes DEF LaunchDhw, TypeOK
  <2>3. pc' \in ControlPc /\ loc' \in RuntimeState /\ inp' \in Sensed
    BY <1>10, <2>1, GotoTypes, StateTypes DEF LaunchDhw, TypeOK, ControlPc
  <2>4. launches' \in [Slot -> Nat]
    BY <1>10, <2>1 DEF LaunchDhw, TypeOK
  <2> QED
    BY <1>10, <2>2, <2>3, <2>4 DEF LaunchDhw, TypeOK
<1>11. CASE HeatBlocked
  BY <1>11, GotoTypes DEF HeatBlocked, TypeOK, ControlPc
<1>12. ASSUME NEW target \in BOOLEAN, HeatDuringDhw(target) PROVE TypeOK'
  <2>1. pc' \in ControlPc /\ loc' \in RuntimeState /\ inp' \in Sensed
    BY <1>12, GotoTypes, StateTypes DEF HeatDuringDhw, TypeOK, ControlPc
  <2> QED
    BY <1>12, <2>1 DEF HeatDuringDhw, TypeOK
<1>13. CASE CoastAgain
  <2>1. pc' \in ControlPc /\ loc' \in RuntimeState /\ inp' \in Sensed
    BY <1>13, GotoTypes, StateTypes DEF CoastAgain, TypeOK, ControlPc
  <2> QED
    BY <1>13, <2>1 DEF CoastAgain, TypeOK
<1>14. ASSUME NEW out \in Outcome, CoastBegin(out) PROVE TypeOK'
  <2>1. /\ vrc' \in Registers /\ faults' \in 0..MaxFaults /\ late' \in Nat
    BY <1>14, ControlWriteTypes, RegisterTypes DEF CoastBegin, TypeOK
  <2>2. pc' \in ControlPc /\ loc' \in RuntimeState /\ inp' \in Sensed
    BY <1>14, GotoTypes, StateTypes DEF CoastBegin, TypeOK, ControlPc
  <2> QED
    BY <1>14, <2>1, <2>2 DEF CoastBegin, TypeOK
<1>15. ASSUME NEW out \in Outcome, CoastEnd(out) PROVE TypeOK'
  <2>1. /\ vrc' \in Registers /\ faults' \in 0..MaxFaults /\ late' \in Nat
    BY <1>15, ControlWriteTypes, RegisterTypes DEF CoastEnd, TypeOK
  <2>2. pc' \in ControlPc /\ loc' \in RuntimeState /\ inp' \in Sensed
    BY <1>15, GotoTypes, StateTypes DEF CoastEnd, TypeOK, ControlPc
  <2> QED
    BY <1>15, <2>1, <2>2 DEF CoastEnd, TypeOK
<1>16. CASE HeatOn
  BY <1>16, GotoTypes DEF HeatOn, TypeOK, ControlPc
<1>17. ASSUME NEW target \in BOOLEAN, CurveHeld(target) PROVE TypeOK'
  <2>1. pc' \in ControlPc /\ loc' \in RuntimeState /\ inp' \in Sensed
    BY <1>17, GotoTypes, StateTypes DEF CurveHeld, TypeOK, ControlPc
  <2> QED
    BY <1>17, <2>1 DEF CurveHeld, TypeOK
<1>18. ASSUME NEW target \in BOOLEAN, NEW out \in Outcome, CurveWritten(target, out)
       PROVE  TypeOK'
  <2>1. /\ vrc' \in Registers /\ faults' \in 0..MaxFaults /\ late' \in Nat
    BY <1>18, ControlWriteTypes, RegisterTypes DEF CurveWritten, TypeOK
  <2>2. pc' \in ControlPc /\ loc' \in RuntimeState /\ inp' \in Sensed
    BY <1>18, GotoTypes, StateTypes DEF CurveWritten, TypeOK, ControlPc
  <2> QED
    BY <1>18, <2>1, <2>2 DEF CurveWritten, TypeOK
<1>19. ASSUME NEW ok \in BOOLEAN, SaveOuter(ok) PROVE TypeOK'
  <2>1. rt' \in RuntimeState
    BY <1>19, MergedType DEF SaveOuter, TypeOK
  <2>2. file' \in RuntimeState /\ faults' \in 0..MaxFaults
    BY <1>19, <2>1, ConstantsAssumption DEF SaveOuter, SaveState, TypeOK
  <2> QED
    BY <1>19, <2>1, <2>2, DefaultTypes DEF SaveOuter, TypeOK, ControlPc
<1>20. CASE BeginInner
  BY <1>20, DefaultTypes DEF BeginInner, TypeOK, ControlPc
<1>21. CASE InnerHeld
  BY <1>21, DefaultTypes DEF InnerHeld, TypeOK, ControlPc
<1>22. ASSUME NEW out \in Outcome, InnerWrite(out) PROVE TypeOK'
  BY <1>22, ControlWriteTypes, RegisterTypes, DefaultTypes
     DEF InnerWrite, TypeOK, ControlPc
<1>23. ASSUME NEW h \in Handler, NEW r \in Request, RequestMode(h, r) PROVE TypeOK'
  <2>1. r[1] \in Mode
    BY <1>23, ConstantsAssumption DEF RequestMode, ModeRequest
  <2>2. hs' \in [Handler -> HandlerState]
    BY <1>23, <2>1, ReadModeTypes DEF RequestMode
  <2> QED
    BY <1>23, <2>2, ConstantsAssumption DEF RequestMode, Accept, TypeOK
<1>24. ASSUME NEW h \in Handler, RequestKill(h) PROVE TypeOK'
  <2>1. hs' \in [Handler -> HandlerState]
    BY <1>24, HandlerTypes DEF RequestKill, SetHandler, Mode
  <2> QED
    BY <1>24, <2>1, ConstantsAssumption DEF RequestKill, Accept, TypeOK
<1>25. ASSUME NEW h \in Handler, NEW out \in Outcome, KillRestore(h, out) PROVE TypeOK'
  <2>1. vrc' \in Registers /\ faults' \in 0..MaxFaults
    BY <1>25, HandlerTypes, RestoreTypes, WriteTypes DEF KillRestore, TypeOK
  <2>2. hs' \in [Handler -> HandlerState]
    BY <1>25, HandlerTypes DEF KillRestore, SetHandler
  <2> QED
    BY <1>25, <2>1, <2>2 DEF KillRestore, TypeOK
<1>26. ASSUME NEW h \in Handler, KillSetMode(h) PROVE TypeOK'
  <2>1. hs' \in [Handler -> HandlerState]
    BY <1>26, HandlerTypes, ReadModeTypes DEF KillSetMode
  <2> QED
    BY <1>26, <2>1 DEF KillSetMode, TypeOK
<1>27. ASSUME NEW h \in Handler, NEW out \in Outcome, ReinitZ1(h, out) PROVE TypeOK'
  <2>1. vrc' \in Registers /\ faults' \in 0..MaxFaults
    BY <1>27, RegisterTypes, WriteTypes DEF ReinitZ1, TypeOK
  <2>2. hs' \in [Handler -> HandlerState]
    BY <1>27, HandlerTypes, HandlerPcTypes DEF ReinitZ1, SetHandler
  <2> QED
    BY <1>27, <2>1, <2>2 DEF ReinitZ1, TypeOK
<1>28. ASSUME NEW h \in Handler, NEW out \in Outcome, ReinitMinFlow(h, out) PROVE TypeOK'
  <2>1. vrc' \in Registers /\ faults' \in 0..MaxFaults
    BY <1>28, RegisterTypes, WriteTypes DEF ReinitMinFlow, TypeOK
  <2>2. hs' \in [Handler -> HandlerState]
    BY <1>28, HandlerTypes DEF ReinitMinFlow, SetHandler
  <2> QED
    BY <1>28, <2>1, <2>2 DEF ReinitMinFlow, TypeOK
<1>29. ASSUME NEW h \in Handler, NEW ok \in BOOLEAN, ApplyMode(h, ok) PROVE TypeOK'
  <2>1. hs[h].want \in Mode
    BY HandlerTypes
  <2>2. rt' \in RuntimeState
    BY <1>29, <2>1, StateTypes DEF ApplyMode, WithMode, TypeOK
  <2>3. file' \in RuntimeState /\ faults' \in 0..MaxFaults
    BY <1>29, <2>2, ConstantsAssumption DEF ApplyMode, SaveState, TypeOK
  <2>4. hs' \in [Handler -> HandlerState]
    BY <1>29, HandlerTypes, DefaultTypes DEF ApplyMode, SetHandler
  <2>5. since' \in SUBSET Mode /\ late' \in Nat
    BY <1>29, <2>1 DEF ApplyMode, TypeOK
  <2> QED
    BY <1>29, <2>2, <2>3, <2>4, <2>5 DEF ApplyMode, TypeOK
<1>30. CASE Crash
  BY <1>30, DefaultTypes, ConstantsAssumption DEF Crash, GoDown, TypeOK, ControlPc
<1>31. CASE Stop
  BY <1>31, ConstantsAssumption DEF Stop, TypeOK
<1>32. ASSUME NEW out \in Outcome, StopRestore(out) PROVE TypeOK'
  <2>1. vrc' \in Registers /\ faults' \in 0..MaxFaults
    BY <1>32, RestoreTypes, WriteTypes DEF StopRestore, TypeOK
  <2>2. cli' \in 0..(5 + NDays)
    BY <1>32, ConstantsAssumption DEF StopRestore, LastRestore
  <2> QED
    BY <1>32, <2>1, <2>2 DEF StopRestore, TypeOK
<1>33. CASE StopKill
  BY <1>33, DefaultTypes, ConstantsAssumption DEF StopKill, GoDown, TypeOK, ControlPc
<1>34. CASE Start
  BY <1>34 DEF Start, TypeOK, ControlPc
<1>35. CASE NextSlot
  BY <1>35, ConstantsAssumption DEF NextSlot, TypeOK, Slot
<1> QED
  BY <1>1, <1>2, <1>3, <1>4, <1>5, <1>6, <1>7, <1>8, <1>9, <1>10, <1>11, <1>12, <1>13,
     <1>14, <1>15, <1>16, <1>17, <1>18, <1>19, <1>20, <1>21, <1>22, <1>23, <1>24, <1>25,
     <1>26, <1>27, <1>28, <1>29, <1>30, <1>31, <1>32, <1>33, <1>34, <1>35, StepCases

\* Every reachable state is of the types TypeOK lists: no handler or restore runs
\* past the last register of restore_baseline, and every bound is kept.
THEOREM TypeCorrect == Spec => []TypeOK
<1>1. Init => TypeOK
  BY InitTypes
<1>2. TypeOK /\ [Next]_vars => TypeOK'
  BY StepTypes
<1> QED
  BY <1>1, <1>2, PTL DEF Spec

-----------------------------------------------------------------------------
(* A mode survives: SaveOuter merges around the mode of the guard, and only *)
(* ApplyMode changes it, recording it in since as it does.                 *)

\* What ModeSurvives says of every reachable state, for any number of concurrent
\* requests: neither a cycle's merge nor a restart undoes an acknowledged mode.
THEOREM ModesSurvive == Spec => []ModeSurvives
<1>1. Init => ModeSurvives
  BY DEF Init, ModeSurvives, DefaultState
<1>2. TypeOK /\ ModeSurvives /\ [Next]_vars => ModeSurvives'
  <2> SUFFICES ASSUME TypeOK, ModeSurvives, [Next]_vars PROVE ModeSurvives'
    OBVIOUS
  <2> USE DEF bounds, history
  <2>1. ASSUME NEW ok \in BOOLEAN, SaveOuter(ok) PROVE ModeSurvives'
    <3>1. rt'.mode = rt.mode
      BY <2>1 DEF SaveOuter, Merged, TypeOK, RuntimeState
    <3>2. file' = rt' \/ file' = file
      BY <2>1 DEF SaveOuter, SaveState
    <3>3. since' = since
      BY <2>1 DEF SaveOuter
    <3> QED
      BY <3>1, <3>2, <3>3 DEF ModeSurvives
  <2>2. ASSUME NEW h \in Handler, NEW ok \in BOOLEAN, ApplyMode(h, ok)
        PROVE  ModeSurvives'
    <3>1. rt'.mode = hs[h].want
      BY <2>2 DEF ApplyMode, WithMode, ClearTimerDedup, TypeOK, RuntimeState
    <3>2. file' = IF ok THEN rt' ELSE file
      BY <2>2 DEF ApplyMode, SaveState
    <3>3. since' = (IF ok THEN {} ELSE since) \union {hs[h].want}
      BY <2>2 DEF ApplyMode
    <3> QED
      BY <3>1, <3>2, <3>3 DEF ModeSurvives
  <2>3. CASE Crash \/ StopKill
    BY <2>3 DEF Crash, StopKill, GoDown, ModeSurvives
  <2>4. CASE BootClear
    BY <2>4 DEF BootClear, ClearTimerDedup, ModeSurvives, TypeOK, RuntimeState
  <2>5. CASE UNCHANGED <<rt, file, since>>
    BY <2>5 DEF ModeSurvives
  <2>6. \/ UNCHANGED <<rt, file, since>>
        \/ BootClear \/ Crash \/ StopKill
        \/ \E ok \in BOOLEAN : SaveOuter(ok)
        \/ \E h \in Handler, ok \in BOOLEAN : ApplyMode(h, ok)
    BY StepCases
       DEF vars, BootCheck, BootZ1, BootMinFlow, BeginOuter, TimerUnchanged, SyncTimer,
           NoLaunch, LaunchDhw, HeatBlocked, HeatDuringDhw, CoastAgain, CoastBegin,
           CoastEnd, HeatOn, CurveHeld, CurveWritten, BeginInner, InnerHeld, InnerWrite,
           RequestMode, RequestKill, KillRestore, KillSetMode, ReinitZ1, ReinitMinFlow,
           Stop, StopRestore, Start, NextSlot
  <2> QED
    BY <2>1, <2>2, <2>3, <2>4, <2>5, <2>6
<1> QED
  BY <1>1, <1>2, TypeCorrect, PTL DEF Spec

-----------------------------------------------------------------------------
(* The straggler bound. A cycle clones an active mode or writes nothing, so *)
(* what the control thread has sent while it should be silent is at most   *)
(* what the cycle under way has sent so far.                               *)

SentBy(where) ==
    IF where \in {"boot", "bootz1", "timer", "innerwrite"} THEN 0
    ELSE IF where \in {"bootminflow", "plan", "heat"} THEN 1
    ELSE IF where \in {"bootclear", "curve"} THEN 2
    ELSE MaxLate

LateInv ==
    /\ Up /\ rt.mode \notin Passive => late = 0
    /\ late <= SentBy(pc)

\* A write by the control thread keeps LateInv if the place it goes to allows for
\* one write more than the place it comes from.
LEMMA LateStep ==
    ASSUME TypeOK, LateInv, Up, rt' = rt,
           late' = IF rt.mode \in Passive THEN late + 1 ELSE late,
           SentBy(pc') >= SentBy(pc) + 1
    PROVE  LateInv'
<1>1. late \in Nat /\ SentBy(pc) \in Nat /\ SentBy(pc') \in Nat
  BY DEF TypeOK, SentBy, MaxLate
<1>2. late' <= SentBy(pc')
  BY <1>1 DEF LateInv
<1>3. Up' /\ rt'.mode \notin Passive => late' = 0
  BY DEF LateInv
<1> QED
  BY <1>2, <1>3 DEF LateInv

\* After Disabled or MonitorOnly takes force, the control thread sends three writes
\* at most, however many cycles, requests, faults, crashes and stops follow.
THEOREM StragglersBounded == Spec => []StragglerBound
<1>1. Init => LateInv
  BY DEF Init, LateInv, SentBy, MaxLate
<1>2. TypeOK /\ LateInv /\ [Next]_vars => LateInv'
  <2> SUFFICES ASSUME TypeOK, LateInv, [Next]_vars PROVE LateInv'
    OBVIOUS
  <2> USE DEF bounds, history, MaxLate
  <2>1. CASE UNCHANGED <<rt, pc, late>>
    BY <2>1 DEF LateInv, Up
  <2>2. CASE BootCheck
    <3>1. pc = "boot" /\ rt' = rt /\ late' = late /\ pc' \in {"bootclear", "bootz1"}
      BY <2>2 DEF BootCheck
    <3>2. late <= 0
      BY <3>1 DEF LateInv, SentBy
    <3>3. SentBy(pc') \in {0, 2}
      BY <3>1 DEF SentBy
    <3>4. Up
      BY <3>1 DEF Up
    <3> QED
      BY <3>1, <3>2, <3>3, <3>4 DEF LateInv, TypeOK
  <2>3. ASSUME NEW out \in Outcome, BootZ1(out) PROVE LateInv'
    <3>1. pc = "bootz1" /\ rt' = rt /\ pc' \in {"bootminflow", "bootclear"}
      BY <2>3 DEF BootZ1
    <3>2. late' = IF rt.mode \in Passive THEN late + 1 ELSE late
      BY <2>3 DEF BootZ1, ControlWrite
    <3>3. Up /\ SentBy(pc') >= SentBy(pc) + 1
      BY <3>1 DEF SentBy, Up
    <3> QED
      BY <3>1, <3>2, <3>3, LateStep
  <2>4. ASSUME NEW out \in Outcome, BootMinFlow(out) PROVE LateInv'
    <3>1. pc = "bootminflow" /\ rt' = rt /\ pc' = "bootclear"
      BY <2>4 DEF BootMinFlow
    <3>2. late' = IF rt.mode \in Passive THEN late + 1 ELSE late
      BY <2>4 DEF BootMinFlow, ControlWrite
    <3>3. Up /\ SentBy(pc') >= SentBy(pc) + 1
      BY <3>1 DEF SentBy, Up
    <3> QED
      BY <3>1, <3>2, <3>3, LateStep
  <2>5. CASE BootClear
    BY <2>5 DEF BootClear, ClearTimerDedup, LateInv, Up, SentBy, TypeOK, RuntimeState
  <2>6. ASSUME NEW i \in Inputs, BeginOuter(i) PROVE LateInv'
    BY <2>6 DEF BeginOuter, LateInv, Up, SentBy
  <2>7. CASE TimerUnchanged \/ NoLaunch \/ HeatBlocked \/ CoastAgain \/ HeatOn
             \/ \E target \in BOOLEAN : HeatDuringDhw(target) \/ CurveHeld(target)
    BY <2>7 DEF TimerUnchanged, NoLaunch, HeatBlocked, CoastAgain, HeatOn, HeatDuringDhw,
                CurveHeld, Goto, NoWrite, LateInv, Up, SentBy, TypeOK
  <2>8. ASSUME NEW d \in Day, NEW morning \in BOOLEAN, NEW out \in Outcome,
               SyncTimer(d, morning, out)
        PROVE  LateInv'
    <3>1. pc = "timer" /\ rt' = rt /\ (pc' = "plan" \/ pc' = "inner")
      BY <2>8 DEF SyncTimer, Goto, Abort
    <3>2. late' = IF rt.mode \in Passive THEN late + 1 ELSE late
      BY <2>8 DEF SyncTimer, ControlWrite
    <3>3. Up /\ SentBy(pc') >= SentBy(pc) + 1
      BY <3>1 DEF SentBy, Up
    <3> QED
      BY <3>1, <3>2, <3>3, LateStep
  <2>9. ASSUME NEW out \in Outcome, LaunchDhw(out) PROVE LateInv'
    <3>1. pc = "plan" /\ rt' = rt /\ (pc' = "save" \/ pc' = "inner")
      BY <2>9 DEF LaunchDhw, Goto, Abort
    <3>2. late' = IF rt.mode \in Passive THEN late + 1 ELSE late
      BY <2>9 DEF LaunchDhw, ControlWrite
    <3>3. Up /\ SentBy(pc') >= SentBy(pc) + 1
      BY <3>1 DEF SentBy, Up
    <3> QED
      BY <3>1, <3>2, <3>3, LateStep
  <2>10. ASSUME NEW out \in Outcome, CoastBegin(out) \/ CoastEnd(out) PROVE LateInv'
    <3>1. pc = "heat" /\ rt' = rt /\ (pc' = "save" \/ pc' = "curve" \/ pc' = "inner")
      BY <2>10 DEF CoastBegin, CoastEnd, Goto, Abort
    <3>2. late' = IF rt.mode \in Passive THEN late + 1 ELSE late
      BY <2>10 DEF CoastBegin, CoastEnd, ControlWrite
    <3>3. Up /\ SentBy(pc') >= SentBy(pc) + 1
      BY <3>1 DEF SentBy, Up
    <3> QED
      BY <3>1, <3>2, <3>3, LateStep
  <2>11. ASSUME NEW target \in BOOLEAN, NEW out \in Outcome, CurveWritten(target, out)
         PROVE  LateInv'
    <3>1. pc = "curve" /\ rt' = rt /\ (pc' = "save" \/ pc' = "inner")
      BY <2>11 DEF CurveWritten, Goto, Abort
    <3>2. late' = IF rt.mode \in Passive THEN late + 1 ELSE late
      BY <2>11 DEF CurveWritten, ControlWrite
    <3>3. Up /\ SentBy(pc') >= SentBy(pc) + 1
      BY <3>1 DEF SentBy, Up
    <3> QED
      BY <3>1, <3>2, <3>3, LateStep
  <2>12. ASSUME NEW ok \in BOOLEAN, SaveOuter(ok) PROVE LateInv'
    BY <2>12 DEF SaveOuter, Merged, LateInv, Up, SentBy, TypeOK, RuntimeState
  <2>13. CASE BeginInner \/ InnerHeld
    BY <2>13 DEF BeginInner, InnerHeld, LateInv, Up, SentBy, TypeOK
  <2>14. ASSUME NEW out \in Outcome, InnerWrite(out) PROVE LateInv'
    <3>1. pc = "innerwrite" /\ rt' = rt /\ pc' = "sleep"
      BY <2>14 DEF InnerWrite
    <3>2. late' = IF rt.mode \in Passive THEN late + 1 ELSE late
      BY <2>14 DEF InnerWrite, ControlWrite
    <3>3. Up /\ SentBy(pc') >= SentBy(pc) + 1
      BY <3>1 DEF SentBy, Up
    <3> QED
      BY <3>1, <3>2, <3>3, LateStep
  <2>15. ASSUME NEW h \in Handler, NEW ok \in BOOLEAN, ApplyMode(h, ok) PROVE LateInv'
    <3>1. rt'.mode = hs[h].want
      BY <2>15 DEF ApplyMode, WithMode, ClearTimerDedup, TypeOK, RuntimeState
    <3>2. late' = (IF hs[h].want \in Passive THEN late ELSE 0) /\ pc' = pc
      BY <2>15 DEF ApplyMode
    <3> QED
      BY <3>1, <3>2 DEF LateInv, Up, SentBy, TypeOK
  <2>16. CASE Crash \/ StopKill \/ Start
    BY <2>16 DEF Crash, StopKill, Start, GoDown, LateInv, Up, SentBy, TypeOK
  <2>17. \/ UNCHANGED <<rt, pc, late>>
         \/ \E h \in Handler, ok \in BOOLEAN : ApplyMode(h, ok)
         \/ Crash \/ StopKill \/ Start
         \/ BootCheck \/ BootClear
         \/ \E out \in Outcome : BootZ1(out) \/ BootMinFlow(out)
         \/ \E i \in Inputs : BeginOuter(i)
         \/ TimerUnchanged \/ NoLaunch \/ HeatBlocked \/ CoastAgain \/ HeatOn
         \/ \E target \in BOOLEAN : HeatDuringDhw(target) \/ CurveHeld(target)
         \/ \E d \in Day, morning \in BOOLEAN, out \in Outcome : SyncTimer(d, morning, out)
         \/ \E out \in Outcome : LaunchDhw(out) \/ CoastBegin(out) \/ CoastEnd(out)
         \/ \E target \in BOOLEAN, out \in Outcome : CurveWritten(target, out)
         \/ \E ok \in BOOLEAN : SaveOuter(ok)
         \/ BeginInner \/ InnerHeld
         \/ \E out \in Outcome : InnerWrite(out)
    BY StepCases
       DEF vars, RequestMode, RequestKill, KillRestore, KillSetMode, ReinitZ1,
           ReinitMinFlow, Stop, StopRestore, NextSlot
  <2> QED
    BY <2>1, <2>2, <2>3, <2>4, <2>5, <2>6, <2>7, <2>8, <2>9, <2>10, <2>11, <2>12, <2>13,
       <2>14, <2>15, <2>16, <2>17
<1>3. TypeOK /\ LateInv => StragglerBound
  BY DEF LateInv, SentBy, StragglerBound, MaxLate, TypeOK
<1> QED
  BY <1>1, <1>2, <1>3, TypeCorrect, PTL DEF Spec

-----------------------------------------------------------------------------
(* Launches are paid for. A slot is launched only while the process does   *)
(* not remember it or a later one, remembers it from then on, and forgets  *)
(* only with a fault, a crash or a stop. A stop is counted when it begins, *)
(* while the process it ends still runs.                                   *)

Cycle == {"timer", "plan", "heat", "curve", "save"}

\* The latest slot the control thread knows to be launched.
Remembered == IF pc \in Cycle THEN loc.scheduler_slot ELSE rt.scheduler_slot

Failures == faults + crashes + stops

Paid(s) ==
    launches[s] + (IF cli = 0 THEN 0 ELSE 1) <= Failures + (IF s <= Remembered THEN 1 ELSE 0)

\* No slot that is to come is remembered or asked for.
SlotsPast ==
    /\ rt.scheduler_slot <= now /\ file.scheduler_slot <= now
    /\ pc \in Cycle => loc.scheduler_slot <= now
    /\ inp.launch <= now
    /\ pc \in {"timer", "plan"} /\ inp.launch # 0 => loc.scheduler_slot <= inp.launch

LaunchInv == SlotsPast /\ \A s \in Slot : Paid(s)

\* The numbers LaunchInv is about.
LaunchTypes ==
    /\ Failures \in Nat /\ now \in Nat /\ inp.launch \in Nat
    /\ rt.scheduler_slot \in Nat /\ file.scheduler_slot \in Nat
    /\ loc.scheduler_slot \in Nat
    /\ Remembered \in Nat
    /\ \A s \in Slot : s \in Nat /\ launches[s] \in Nat
    /\ cli \in Nat /\ faults \in Nat /\ crashes \in Nat /\ stops \in Nat

LEMMA LaunchTyped == (TypeOK => LaunchTypes) /\ (TypeOK' => LaunchTypes')
<1>1. TypeOK => LaunchTypes
  BY ConstantsAssumption
     DEF LaunchTypes, TypeOK, Failures, Remembered, RuntimeState, Slot, Sensed
<1>2. (TypeOK => LaunchTypes)'
  BY <1>1, PTL
<1> QED BY <1>1, <1>2

LEMMA FailuresGrow ==
    ASSUME TypeOK, TypeOK'
    PROVE  /\ faults' >= faults /\ crashes' = crashes /\ stops' = stops => Failures' >= Failures
           /\ faults' = faults /\ crashes' = crashes + 1 /\ stops' = stops
              => Failures' >= Failures + 1
           /\ UNCHANGED <<faults, crashes, stops>> => Failures' = Failures /\ Failures' >= Failures
<1>1. /\ faults \in Nat /\ crashes \in Nat /\ stops \in Nat
      /\ faults' \in Nat /\ crashes' \in Nat /\ stops' \in Nat
  BY ConstantsAssumption DEF TypeOK
<1>2. ASSUME NEW f \in Nat, NEW c \in Nat, NEW g \in Nat, NEW s \in Nat
      PROVE  /\ g >= f => g + c + s >= f + c + s
             /\ f + (c + 1) + s >= f + c + s + 1
  OBVIOUS
<1>3. ASSUME faults' >= faults, crashes' = crashes, stops' = stops
      PROVE  Failures' >= Failures
  BY <1>1, <1>2, <1>3 DEF Failures
<1>4. ASSUME faults' = faults, crashes' = crashes + 1, stops' = stops
      PROVE  Failures' >= Failures + 1
  BY <1>1, <1>2, <1>4 DEF Failures
<1>5. UNCHANGED <<faults, crashes, stops>> => Failures' = Failures /\ Failures' >= Failures
  BY <1>1 DEF Failures
<1> QED
  BY <1>3, <1>4, <1>5

LEMMA PaidStep ==
    ASSUME TypeOK, TypeOK', LaunchInv,
           launches' = launches,
           \/ cli' = cli /\ Failures' >= Failures /\ Remembered' >= Remembered
           \/ cli' = cli /\ Failures' >= Failures + 1
           \/ cli' = 0 /\ cli # 0 /\ Failures' >= Failures
           \/ cli' # 0 /\ Failures' >= Failures /\ cli # 0 /\ Remembered' >= Remembered
    PROVE  \A s \in Slot : Paid(s)'
<1> SUFFICES ASSUME NEW s \in Slot PROVE Paid(s)'
  OBVIOUS
<1>1. Paid(s) BY DEF LaunchInv
<1>2. /\ Failures \in Nat /\ Remembered \in Nat /\ s \in Nat /\ launches[s] \in Nat
      /\ Failures' \in Nat /\ Remembered' \in Nat
  BY LaunchTyped DEF LaunchTypes
<1> QED BY <1>1, <1>2 DEF Paid

LEMMA LaunchStep == TypeOK /\ TypeOK' /\ LaunchInv /\ [Next]_vars => LaunchInv'
<1> SUFFICES ASSUME TypeOK, TypeOK', LaunchInv, [Next]_vars PROVE LaunchInv'
  OBVIOUS
<1> USE DEF bounds, history, NoWrite
<1>t. LaunchTypes /\ LaunchTypes'
  BY LaunchTyped
<1>s. SlotsPast /\ \A s \in Slot : Paid(s)
  BY DEF LaunchInv
<1>1. ASSUME UNCHANGED <<rt, file, pc, loc, inp, cli, now, crashes, stops, launches>>,
             faults' >= faults
      PROVE  LaunchInv'
  <2>1. Remembered' = Remembered /\ Failures' >= Failures
    BY <1>1, FailuresGrow DEF Remembered
  <2>2. SlotsPast'
    BY <1>1, <1>s DEF SlotsPast
  <2> QED
    BY <1>1, <2>1, <2>2, <1>t, PaidStep DEF LaunchInv, LaunchTypes
\* Out of an outer cycle before and after.
<1>2. ASSUME UNCHANGED <<file, inp, cli, now, crashes, stops, launches>>,
             pc \notin Cycle, pc' \notin Cycle,
             rt'.scheduler_slot = rt.scheduler_slot, faults' >= faults
      PROVE  LaunchInv'
  <2>1. Remembered' = Remembered /\ Failures' >= Failures
    BY <1>2, FailuresGrow DEF Remembered
  <2>2. SlotsPast'
    BY <1>2, <1>s DEF SlotsPast, Cycle
  <2> QED
    BY <1>2, <2>1, <2>2, <1>t, PaidStep DEF LaunchInv, LaunchTypes
\* From place to place of one outer cycle.
<1>3. ASSUME NEW next \in Cycle \ {"timer"}, NEW s, Goto(next, s),
             next = "plan" => pc = "timer",
             s.scheduler_slot = loc.scheduler_slot,
             UNCHANGED <<rt, file, cli, now, crashes, stops, launches>>,
             pc \in Cycle, faults' >= faults
      PROVE  LaunchInv'
  <2>1. /\ pc' \in Cycle /\ loc'.scheduler_slot = loc.scheduler_slot
        /\ inp'.launch \in {0, inp.launch}
        /\ pc' = "plan" => pc = "timer" /\ inp' = inp
        /\ pc' # "timer"
    BY <1>3 DEF Goto, TypeOK, Sensed, NoInputs, Cycle
  <2>2. Remembered' = Remembered
    BY <1>3, <2>1 DEF Remembered
  <2>3. SlotsPast'
    BY <1>3, <2>1, <1>s, <1>t DEF SlotsPast, LaunchTypes
  <2>4. Failures' >= Failures
    BY <1>3, FailuresGrow
  <2> QED
    BY <1>3, <2>2, <2>3, <2>4, <1>t, PaidStep DEF LaunchInv, LaunchTypes
<1>4. ASSUME Abort, UNCHANGED <<rt, file, cli, now, crashes, stops, launches>>,
             faults' = faults + 1
      PROVE  LaunchInv'
  BY <1>4, <1>t, <1>s, PaidStep
     DEF LaunchInv, SlotsPast, LaunchTypes, Failures, Abort, NoInputs, Cycle
<1>5. CASE UNCHANGED vars
  BY <1>5, <1>1, <1>t DEF vars, LaunchTypes
<1>6. CASE BootCheck
  BY <1>6, <1>2, <1>t DEF BootCheck, Cycle, LaunchTypes
<1>7. ASSUME NEW out \in Outcome, BootZ1(out) \/ BootMinFlow(out) PROVE LaunchInv'
  BY <1>7, <1>2, <1>t DEF BootZ1, BootMinFlow, ControlWrite, WriteRegister, Cycle, LaunchTypes
<1>8. CASE BootClear
  BY <1>8, <1>2, <1>t DEF BootClear, ClearTimerDedup, Cycle, LaunchTypes, TypeOK, RuntimeState
<1>9. ASSUME NEW i \in Inputs, BeginOuter(i) PROVE LaunchInv'
  <2>1. /\ pc = "sleep" /\ pc' \in Cycle /\ loc' = rt /\ i.launch \in {0, now} /\ inp' = i
        /\ UNCHANGED <<rt, file, cli, now, faults, crashes, stops, launches>>
    BY <1>9 DEF BeginOuter, Cycle
  <2>2. Remembered' = Remembered
    BY <2>1 DEF Remembered, Cycle
  <2>3. SlotsPast'
    BY <2>1, <1>s, <1>t DEF SlotsPast, LaunchTypes
  <2> QED
    BY <2>1, <2>2, <2>3, <1>t, PaidStep DEF LaunchInv, LaunchTypes, Failures
<1>10. CASE TimerUnchanged \/ NoLaunch \/ HeatBlocked \/ CoastAgain \/ HeatOn
            \/ \E target \in BOOLEAN : HeatDuringDhw(target) \/ CurveHeld(target)
  <2>1. /\ UNCHANGED <<rt, file, cli, now, crashes, stops, launches, faults>>
        /\ pc \in Cycle
    BY <1>10 DEF TimerUnchanged, NoLaunch, HeatBlocked, CoastAgain, HeatOn, HeatDuringDhw,
                 CurveHeld, Cycle
  <2>2. \/ pc = "timer" /\ Goto("plan", loc)
        \/ Goto("heat", loc)
        \/ Goto("save", loc) \/ Goto("curve", loc)
        \/ Goto("save", [loc EXCEPT !.target_flow_c = FALSE])
        \/ \E target \in BOOLEAN : Goto("save", [loc EXCEPT !.target_flow_c = target])
    BY <1>10 DEF TimerUnchanged, NoLaunch, HeatBlocked, CoastAgain, HeatOn, HeatDuringDhw,
                 CurveHeld
  <2>3. \A b : [loc EXCEPT !.target_flow_c = b].scheduler_slot = loc.scheduler_slot
    BY DEF TypeOK, RuntimeState
  <2>4. faults' >= faults
    BY <2>1, <1>t DEF LaunchTypes
  <2> QED
    BY <2>1, <2>2, <2>3, <2>4, <1>3 DEF Cycle
<1>11. ASSUME NEW d \in Day, NEW morning \in BOOLEAN, NEW out \in Outcome,
              SyncTimer(d, morning, out)
       PROVE  LaunchInv'
  <2>1. /\ UNCHANGED <<rt, file, cli, now, crashes, stops, launches>>
        /\ pc = "timer" /\ faults' = faults + (IF out = "done" THEN 0 ELSE 1)
    BY <1>11 DEF SyncTimer, ControlWrite, WriteRegister
  <2>2. CASE ~ReturnedOk(out)
    BY <1>11, <1>4, <2>1, <2>2 DEF SyncTimer, ReturnedOk
  <2>3. CASE ReturnedOk(out)
    <3> DEFINE s == IF out = "refused" THEN ClearTimerDedup(loc)
                    ELSE [loc EXCEPT !.timer_weekday = d, !.timer_morning = morning]
    <3>1. Goto("plan", s)
      BY <1>11, <2>3 DEF SyncTimer
    <3>2. s.scheduler_slot = loc.scheduler_slot
      BY DEF TypeOK, RuntimeState, ClearTimerDedup
    <3>3. faults' >= faults
      BY <2>1, <1>t DEF LaunchTypes
    <3> QED
      BY <3>1, <3>2, <3>3, <1>3, <2>1 DEF Cycle
  <2> QED
    BY <2>2, <2>3
<1>12. ASSUME NEW out \in Outcome, LaunchDhw(out) PROVE LaunchInv'
  <2>1. /\ UNCHANGED <<rt, file, cli, now, crashes, stops>>
        /\ pc = "plan" /\ inp.launch # 0 /\ inp.launch # loc.scheduler_slot
        /\ faults' = faults + (IF out = "done" THEN 0 ELSE 1)
        /\ launches' = IF out \in {"done", "lost"}
                       THEN [launches EXCEPT ![inp.launch] = @ + 1] ELSE launches
    BY <1>12 DEF LaunchDhw, LaunchWanted, ControlWrite, WriteRegister
  <2>2. loc.scheduler_slot < inp.launch /\ inp.launch <= now
    BY <2>1, <1>s, <1>t DEF SlotsPast, LaunchTypes
  <2>3. Remembered = loc.scheduler_slot
    BY <2>1 DEF Remembered, Cycle
  <2>4. ASSUME NEW s \in Slot
        PROVE  launches'[s] <= launches[s] + (IF s = inp.launch THEN 1 ELSE 0)
    BY <2>1, <2>4, <1>t DEF LaunchTypes, TypeOK
  <2>5. CASE ReturnedOk(out)
    <3>1. Goto("save", [loc EXCEPT !.scheduler_slot = inp.launch])
      BY <1>12, <2>5 DEF LaunchDhw
    <3>2. pc' = "save" /\ loc'.scheduler_slot = inp.launch /\ inp' = NoInputs
      BY <3>1 DEF Goto, TypeOK, RuntimeState
    <3>3. Remembered' = inp.launch
      BY <3>2 DEF Remembered, Cycle
    <3>4. SlotsPast'
      BY <2>1, <2>2, <3>2, <1>s, <1>t DEF SlotsPast, NoInputs, LaunchTypes
    <3>5. ASSUME NEW s \in Slot PROVE Paid(s)'
      <4>1. Paid(s) /\ Failures' >= Failures
        BY <1>s, <2>1, <1>t DEF Failures, LaunchTypes
      <4> QED
        BY <4>1, <2>1, <2>2, <2>3, <2>4, <3>3, <1>t DEF Paid, LaunchTypes
    <3> QED
      BY <3>4, <3>5 DEF LaunchInv
  <2>6. CASE ~ReturnedOk(out)
    <3>1. Abort /\ faults' = faults + 1
      BY <1>12, <2>1, <2>6 DEF LaunchDhw, ReturnedOk
    <3>2. SlotsPast'
      BY <2>1, <3>1, <1>s, <1>t DEF SlotsPast, Abort, NoInputs, Cycle, LaunchTypes
    <3>3. ASSUME NEW s \in Slot PROVE Paid(s)'
      <4>1. Paid(s) /\ Failures' = Failures + 1
        BY <1>s, <2>1, <3>1, <1>t DEF Failures, LaunchTypes
      <4> QED
        BY <4>1, <2>1, <2>2, <2>3, <2>4, <1>t DEF Paid, LaunchTypes
    <3> QED
      BY <3>2, <3>3 DEF LaunchInv
  <2> QED
    BY <2>5, <2>6
<1>13. ASSUME NEW out \in Outcome, CoastBegin(out) PROVE LaunchInv'
  <2>1. /\ UNCHANGED <<rt, file, cli, now, crashes, stops, launches>>
        /\ pc = "heat" /\ faults' = faults + (IF out = "done" THEN 0 ELSE 1)
    BY <1>13 DEF CoastBegin, ControlWrite, WriteRegister
  <2>2. CASE ~ReturnedOk(out)
    BY <1>13, <1>4, <2>1, <2>2 DEF CoastBegin, ReturnedOk
  <2>3. CASE ReturnedOk(out)
    <3> DEFINE s == [loc EXCEPT !.target_flow_c = FALSE, !.heating_off = TRUE]
    <3>1. Goto("save", s)
      BY <1>13, <2>3 DEF CoastBegin
    <3>2. s.scheduler_slot = loc.scheduler_slot
      BY DEF TypeOK, RuntimeState
    <3> HIDE DEF s
    <3>3. faults' >= faults
      BY <2>1, <1>t DEF LaunchTypes
    <3> QED
      BY <3>1, <3>2, <3>3, <1>3, <2>1 DEF Cycle
  <2> QED
    BY <2>2, <2>3
<1>14. ASSUME NEW out \in Outcome, CoastEnd(out) PROVE LaunchInv'
  <2>1. /\ UNCHANGED <<rt, file, cli, now, crashes, stops, launches>>
        /\ pc = "heat" /\ faults' = faults + (IF out = "done" THEN 0 ELSE 1)
    BY <1>14 DEF CoastEnd, ControlWrite, WriteRegister
  <2>2. CASE ~ReturnedOk(out)
    BY <1>14, <1>4, <2>1, <2>2 DEF CoastEnd, ReturnedOk
  <2>3. CASE ReturnedOk(out)
    <3>1. Goto("curve", [loc EXCEPT !.heating_off = FALSE])
      BY <1>14, <2>3 DEF CoastEnd
    <3>2. [loc EXCEPT !.heating_off = FALSE].scheduler_slot = loc.scheduler_slot
      BY DEF TypeOK, RuntimeState
    <3>3. faults' >= faults
      BY <2>1, <1>t DEF LaunchTypes
    <3> QED
      BY <3>1, <3>2, <3>3, <1>3, <2>1 DEF Cycle
  <2> QED
    BY <2>2, <2>3
<1>15. ASSUME NEW target \in BOOLEAN, NEW out \in Outcome, CurveWritten(target, out)
       PROVE  LaunchInv'
  <2>1. /\ UNCHANGED <<rt, file, cli, now, crashes, stops, launches>>
        /\ pc = "curve" /\ faults' = faults + (IF out = "done" THEN 0 ELSE 1)
    BY <1>15 DEF CurveWritten, ControlWrite, WriteRegister
  <2>2. CASE ~ReturnedOk(out)
    BY <1>15, <1>4, <2>1, <2>2 DEF CurveWritten, ReturnedOk
  <2>3. CASE ReturnedOk(out)
    <3>1. Goto("save", [loc EXCEPT !.target_flow_c = target])
      BY <1>15, <2>3 DEF CurveWritten
    <3>2. [loc EXCEPT !.target_flow_c = target].scheduler_slot = loc.scheduler_slot
      BY DEF TypeOK, RuntimeState
    <3>3. faults' >= faults
      BY <2>1, <1>t DEF LaunchTypes
    <3> QED
      BY <3>1, <3>2, <3>3, <1>3, <2>1 DEF Cycle
  <2> QED
    BY <2>2, <2>3
<1>16. ASSUME NEW ok \in BOOLEAN, SaveOuter(ok) PROVE LaunchInv'
  <2>1. /\ pc = "save" /\ pc' = "inner" /\ inp' = NoInputs
        /\ UNCHANGED <<cli, now, crashes, stops, launches>>
        /\ rt'.scheduler_slot = loc.scheduler_slot /\ file' \in {rt', file}
        /\ faults' = faults + (IF ok THEN 0 ELSE 1)
    BY <1>16 DEF SaveOuter, SaveState, Merged, TypeOK, RuntimeState
  <2>2. Remembered' = Remembered
    BY <2>1 DEF Remembered, Cycle
  <2>3. SlotsPast'
    BY <2>1, <1>s, <1>t DEF SlotsPast, NoInputs, Cycle, LaunchTypes
  <2> QED
    BY <2>1, <2>2, <2>3, <1>t, PaidStep DEF LaunchInv, LaunchTypes, Failures
<1>17. CASE BeginInner \/ InnerHeld
  BY <1>17, <1>2, <1>t DEF BeginInner, InnerHeld, Cycle, LaunchTypes
<1>18. ASSUME NEW out \in Outcome, InnerWrite(out) PROVE LaunchInv'
  BY <1>18, <1>2, <1>t DEF InnerWrite, ControlWrite, WriteRegister, Cycle, LaunchTypes
<1>19. ASSUME NEW h \in Handler, NEW out \in Outcome,
              KillRestore(h, out) \/ ReinitZ1(h, out) \/ ReinitMinFlow(h, out)
       PROVE  LaunchInv'
  BY <1>19, <1>1, <1>t DEF KillRestore, ReinitZ1, ReinitMinFlow, WriteRegister, LaunchTypes
<1>20. ASSUME NEW h \in Handler, NEW ok \in BOOLEAN, ApplyMode(h, ok) PROVE LaunchInv'
  <2>1. /\ UNCHANGED <<pc, loc, inp, cli, now, crashes, stops, launches>>
        /\ rt'.scheduler_slot = rt.scheduler_slot /\ file' \in {rt', file}
        /\ faults' = faults + (IF ok THEN 0 ELSE 1)
    BY <1>20 DEF ApplyMode, SaveState, WithMode, ClearTimerDedup, TypeOK, RuntimeState
  <2>2. Remembered' = Remembered
    BY <2>1 DEF Remembered
  <2>3. SlotsPast'
    BY <2>1, <1>s, <1>t DEF SlotsPast, LaunchTypes
  <2> QED
    BY <2>1, <2>2, <2>3, <1>t, PaidStep DEF LaunchInv, LaunchTypes, Failures
<1>21. CASE Crash \/ StopKill
  <2>1. /\ pc' = "down" /\ rt' = file /\ inp' = NoInputs
        /\ UNCHANGED <<file, now, faults, stops, launches>>
        /\ \/ cli' = cli /\ crashes' = crashes + 1
           \/ cli # 0 /\ cli' = 0 /\ crashes' = crashes
    BY <1>21, ConstantsAssumption DEF Crash, StopKill, GoDown, LastRestore
  <2>2. SlotsPast'
    BY <2>1, <1>s, <1>t DEF SlotsPast, NoInputs, Cycle, LaunchTypes
  <2>3. \/ cli' = cli /\ Failures' >= Failures + 1
        \/ cli' = 0 /\ cli # 0 /\ Failures' >= Failures
    BY <2>1, FailuresGrow
  <2> QED
    BY <2>1, <2>2, <2>3, PaidStep DEF LaunchInv
<1>22. CASE Stop
  <2>1. /\ cli = 0 /\ stops' = stops + 1
        /\ UNCHANGED <<rt, file, pc, loc, inp, now, faults, crashes, launches>>
    BY <1>22 DEF Stop
  <2>2. Remembered' = Remembered /\ Failures' = Failures + 1
    BY <2>1, <1>t DEF Remembered, Failures, LaunchTypes
  <2>3. ASSUME NEW s \in Slot PROVE Paid(s)'
    BY <1>s, <2>1, <2>2, <1>t DEF Paid, LaunchTypes
  <2> QED
    BY <2>1, <2>3, <1>s DEF LaunchInv, SlotsPast
<1>23. ASSUME NEW out \in Outcome, StopRestore(out) PROVE LaunchInv'
  <2>1. /\ cli # 0 /\ cli' # 0 /\ faults' >= faults
        /\ UNCHANGED <<rt, file, pc, loc, inp, now, crashes, stops, launches>>
    BY <1>23, <1>t, ConstantsAssumption DEF StopRestore, WriteRegister, LastRestore, LaunchTypes
  <2>2. Remembered' = Remembered /\ Failures' >= Failures
    BY <2>1, FailuresGrow DEF Remembered
  <2> QED
    BY <2>1, <2>2, <1>s, <1>t, PaidStep DEF LaunchInv, SlotsPast, LaunchTypes
<1>24. CASE Start
  BY <1>24, <1>2, <1>t DEF Start, Cycle, LaunchTypes
<1>25. CASE NextSlot
  <2>1. /\ now' = now + 1
        /\ UNCHANGED <<rt, file, pc, loc, inp, cli, faults, crashes, stops, launches>>
    BY <1>25 DEF NextSlot
  <2>2. SlotsPast'
    BY <2>1, <1>s, <1>t DEF SlotsPast, LaunchTypes
  <2> QED
    BY <2>1, <2>2, <1>t, PaidStep DEF LaunchInv, LaunchTypes, Failures, Remembered
<1>26. \/ \E h \in Handler, r \in Request : RequestMode(h, r)
       \/ \E h \in Handler : RequestKill(h) \/ KillSetMode(h)
       => LaunchInv'
  BY <1>1, <1>t DEF RequestMode, RequestKill, KillSetMode, LaunchTypes
<1> QED
  BY <1>5, <1>6, <1>7, <1>8, <1>9, <1>10, <1>11, <1>12, <1>13, <1>14, <1>15, <1>16, <1>17,
     <1>18, <1>19, <1>20, <1>21, <1>22, <1>23, <1>24, <1>25, <1>26, StepCases

\* A DHW slot is launched once and once more for each fault, crash or stop at most,
\* for any number of slots, outcomes and requests.
THEOREM LaunchesPaidFor == Spec => []LaunchAccounting
<1>1. Init => LaunchInv
  BY ConstantsAssumption
     DEF Init, LaunchInv, SlotsPast, Paid, Remembered, Failures, DefaultState, NoInputs,
         Slot, Cycle
<1>2. TypeOK /\ LaunchInv => LaunchAccounting
  BY LaunchTyped DEF LaunchInv, Paid, LaunchAccounting, LaunchTypes, Failures
<1> QED
  BY <1>1, <1>2, LaunchStep, TypeCorrect, PTL DEF Spec

-----------------------------------------------------------------------------
(* The remembered timer. Between cycles the shared state is right about it,*)
(* during a cycle the cycle's clone is; the kill and the stop may rewrite  *)
(* the registers behind it, and only ever keep a morning window.           *)

KeptIfBelieved(s) == s.timer_weekday # 0 /\ s.timer_morning => vrc.timer[s.timer_weekday]

DedupInv ==
    /\ pc \in {"sleep", "inner", "innerwrite"} => KeptIfBelieved(rt)
    /\ pc \in Cycle => KeptIfBelieved(loc)

TimersKept == \A d \in Day : vrc.timer[d] => vrc'.timer[d]

\* A write that takes no morning window away leaves what is believed true.
LEMMA BeliefKept ==
    ASSUME TimersKept, NEW s \in RuntimeState, NEW t,
           KeptIfBelieved(s),
           \/ t.timer_weekday = s.timer_weekday /\ t.timer_morning = s.timer_morning
           \/ t.timer_weekday = 0
    PROVE  t.timer_weekday # 0 /\ t.timer_morning => vrc'.timer[t.timer_weekday]
BY DEF TimersKept, KeptIfBelieved, RuntimeState

LEMMA OtherRegister ==
    ASSUME TypeOK
    PROVE  /\ \A m : [vrc EXCEPT !.Z1OpMode = m].timer = vrc.timer
           /\ \A m : [vrc EXCEPT !.Hc1HeatCurve = m].timer = vrc.timer
           /\ \A m : [vrc EXCEPT !.MinFlow = m].timer = vrc.timer
           /\ \A m : [vrc EXCEPT !.HwcSFMode = m].timer = vrc.timer
BY DEF TypeOK, Registers

LEMMA RestoreKeepsTimers ==
    ASSUME TypeOK, NEW k \in 1..LastRestore, NEW out, WriteRegister(RestoreTarget(k), out)
    PROVE  TimersKept
<1>1. ASSUME NEW d \in Day, vrc.timer[d] PROVE RestoreTarget(k).timer[d]
  <2>1. CASE k \in {1, 2, 3, 4}
    <3>1. RestoreTarget(k).timer = vrc.timer
      BY <2>1, OtherRegister DEF RestoreTarget
    <3> QED
      BY <3>1, <1>1
  <2>2. CASE k > 4
    <3>1. RestoreTarget(k) = [vrc EXCEPT !.timer = [@ EXCEPT ![k - 4] = TRUE]]
      BY <2>2 DEF RestoreTarget
    <3>2. RestoreTarget(k).timer = [vrc.timer EXCEPT ![k - 4] = TRUE]
      BY <3>1 DEF TypeOK, Registers
    <3> QED
      BY <3>2, <1>1 DEF TypeOK, Registers
  <2> QED
    BY <2>1, <2>2 DEF LastRestore
<1> QED
  BY <1>1 DEF WriteRegister, TimersKept

LEMMA DedupStep ==
    ASSUME Outcome \subseteq {"done", "refused"}
    PROVE  TypeOK /\ TypeOK' /\ DedupInv /\ [Next]_vars => DedupInv'
<1> SUFFICES ASSUME TypeOK, TypeOK', DedupInv, [Next]_vars PROVE DedupInv'
  OBVIOUS
<1> USE DEF bounds, history, NoWrite
<1>r. rt \in RuntimeState /\ loc \in RuntimeState
  BY DEF TypeOK
<1>o. \A out \in Outcome : ReturnedOk(out)
  BY DEF ReturnedOk
<1>k. vrc' = vrc => TimersKept
  BY DEF TimersKept
<1>c. Cycle \intersect {"sleep", "inner", "innerwrite"} = {}
  BY DEF Cycle
\* Everything but the control thread.
<1>1. ASSUME TimersKept, UNCHANGED <<pc, loc>>,
             \/ UNCHANGED <<rt.timer_weekday, rt.timer_morning>>
             \/ rt'.timer_weekday = 0
      PROVE  DedupInv'
  <2>1. pc \in {"sleep", "inner", "innerwrite"} => KeptIfBelieved(rt)'
    BY <1>1, <1>r, BeliefKept DEF DedupInv, KeptIfBelieved
  <2>2. pc \in Cycle => KeptIfBelieved(loc)'
    BY <1>1, <1>r, BeliefKept DEF DedupInv, KeptIfBelieved
  <2> QED
    BY <1>1, <2>1, <2>2 DEF DedupInv
\* The control thread outside an outer cycle.
<1>2. ASSUME TimersKept, pc' \notin Cycle, rt' = rt,
             pc' \in {"sleep", "inner", "innerwrite"} => pc \in {"sleep", "inner", "innerwrite"}
      PROVE  DedupInv'
  BY <1>2, <1>r, BeliefKept DEF DedupInv, KeptIfBelieved
\* From place to place of one outer cycle.
<1>3. ASSUME TimersKept, pc \in Cycle, NEW next \in Cycle, NEW s, Goto(next, s),
             \/ s.timer_weekday = loc.timer_weekday /\ s.timer_morning = loc.timer_morning
             \/ s.timer_weekday = 0
      PROVE  DedupInv'
  <2>1. pc' \in Cycle /\ loc' = s
    BY <1>3 DEF Goto
  <2>2. KeptIfBelieved(loc)'
    BY <1>3, <2>1, <1>r, BeliefKept DEF DedupInv, KeptIfBelieved
  <2> QED
    BY <2>1, <2>2, <1>c DEF DedupInv
<1>4. CASE UNCHANGED vars
  BY <1>4, <1>1, <1>k DEF vars
<1>5. CASE BootCheck \/ InnerHeld \/ BeginInner
  BY <1>5, <1>2, <1>k DEF BootCheck, InnerHeld, BeginInner, Cycle
<1>6. ASSUME NEW out \in Outcome, BootZ1(out) \/ BootMinFlow(out) \/ InnerWrite(out)
      PROVE  DedupInv'
  <2>1. TimersKept
    BY <1>6, OtherRegister
       DEF BootZ1, BootMinFlow, InnerWrite, ControlWrite, WriteRegister, TimersKept
  <2> QED
    BY <1>6, <2>1, <1>2 DEF BootZ1, BootMinFlow, InnerWrite, Cycle
<1>7. CASE BootClear
  <2>1. rt'.timer_weekday = 0 /\ pc' = "sleep"
    BY <1>7, <1>r DEF BootClear, ClearTimerDedup, RuntimeState
  <2> QED
    BY <2>1 DEF DedupInv, KeptIfBelieved, Cycle
<1>8. ASSUME NEW i \in Inputs, BeginOuter(i) PROVE DedupInv'
  <2>1. pc = "sleep" /\ pc' \in Cycle /\ loc' = rt /\ vrc' = vrc
    BY <1>8 DEF BeginOuter, Cycle
  <2> QED
    BY <2>1, <1>c DEF DedupInv, KeptIfBelieved
<1>9. CASE TimerUnchanged \/ NoLaunch \/ HeatBlocked \/ CoastAgain \/ HeatOn
           \/ \E target \in BOOLEAN : HeatDuringDhw(target) \/ CurveHeld(target)
  <2>1. vrc' = vrc /\ pc \in Cycle
    BY <1>9 DEF TimerUnchanged, NoLaunch, HeatBlocked, CoastAgain, HeatOn, HeatDuringDhw,
                CurveHeld, Cycle
  <2>2. \/ Goto("plan", loc) \/ Goto("heat", loc)
        \/ Goto("save", loc) \/ Goto("curve", loc)
        \/ \E target \in BOOLEAN : Goto("save", [loc EXCEPT !.target_flow_c = target])
    BY <1>9 DEF TimerUnchanged, NoLaunch, HeatBlocked, CoastAgain, HeatOn, HeatDuringDhw,
                CurveHeld
  <2>3. \A b : /\ [loc EXCEPT !.target_flow_c = b].timer_weekday = loc.timer_weekday
               /\ [loc EXCEPT !.target_flow_c = b].timer_morning = loc.timer_morning
    BY <1>r DEF RuntimeState
  <2> QED
    BY <2>1, <2>2, <2>3, <1>k, <1>3 DEF Cycle
<1>10. ASSUME NEW d \in Day, NEW morning \in BOOLEAN, NEW out \in Outcome,
              SyncTimer(d, morning, out)
       PROVE  DedupInv'
  <2>1. CASE out = "refused"
    <3>1. vrc' = vrc /\ pc = "timer" /\ Goto("plan", ClearTimerDedup(loc))
      BY <1>10, <2>1, <1>o DEF SyncTimer, ControlWrite, WriteRegister
    <3>2. ClearTimerDedup(loc).timer_weekday = 0
      BY <1>r DEF ClearTimerDedup, RuntimeState
    <3> QED
      BY <3>1, <3>2, <1>k, <1>3 DEF Cycle
  <2>2. CASE out = "done"
    <3>1. /\ vrc' = [vrc EXCEPT !.timer = [@ EXCEPT ![d] = morning]]
          /\ Goto("plan", [loc EXCEPT !.timer_weekday = d, !.timer_morning = morning])
      BY <1>10, <2>2, <1>o DEF SyncTimer, ControlWrite, WriteRegister
    <3>2. vrc'.timer[d] = morning
      BY <3>1 DEF TypeOK, Registers
    <3>3. pc' = "plan" /\ loc'.timer_weekday = d /\ loc'.timer_morning = morning
      BY <3>1, <1>r DEF Goto, RuntimeState
    <3> QED
      BY <3>2, <3>3 DEF DedupInv, KeptIfBelieved, Cycle
  <2> QED
    BY <2>1, <2>2
<1>11. ASSUME NEW out \in Outcome,
              \/ LaunchDhw(out) \/ CoastBegin(out) \/ CoastEnd(out)
              \/ \E target \in BOOLEAN : CurveWritten(target, out)
       PROVE  DedupInv'
  <2>1. TimersKept /\ pc \in Cycle
    BY <1>11, OtherRegister
       DEF LaunchDhw, CoastBegin, CoastEnd, CurveWritten, ControlWrite, WriteRegister,
           TimersKept, Cycle
  <2>2. \/ Goto("save", [loc EXCEPT !.scheduler_slot = inp.launch])
        \/ Goto("save", [loc EXCEPT !.target_flow_c = FALSE, !.heating_off = TRUE])
        \/ Goto("curve", [loc EXCEPT !.heating_off = FALSE])
        \/ \E target \in BOOLEAN : Goto("save", [loc EXCEPT !.target_flow_c = target])
    BY <1>11, <1>o DEF LaunchDhw, CoastBegin, CoastEnd, CurveWritten
  <2> DEFINE SameTimer(s) == /\ s.timer_weekday = loc.timer_weekday
                             /\ s.timer_morning = loc.timer_morning
  <2>3. /\ SameTimer([loc EXCEPT !.scheduler_slot = inp.launch])
        /\ SameTimer([loc EXCEPT !.target_flow_c = FALSE, !.heating_off = TRUE])
        /\ SameTimer([loc EXCEPT !.heating_off = FALSE])
        /\ \A target \in BOOLEAN : SameTimer([loc EXCEPT !.target_flow_c = target])
    BY <1>r DEF RuntimeState
  <2>4. \E s : (Goto("save", s) \/ Goto("curve", s)) /\ SameTimer(s)
    <3> HIDE DEF SameTimer
    <3> QED
      BY <2>2, <2>3
  <2> QED
    BY <2>1, <2>4, <1>3 DEF Cycle
<1>12. ASSUME NEW ok \in BOOLEAN, SaveOuter(ok) PROVE DedupInv'
  <2>1. /\ pc = "save" /\ pc' = "inner" /\ vrc' = vrc
        /\ rt'.timer_weekday = loc.timer_weekday /\ rt'.timer_morning = loc.timer_morning
    BY <1>12, <1>r DEF SaveOuter, Merged, RuntimeState
  <2> QED
    BY <2>1 DEF DedupInv, KeptIfBelieved, Cycle
<1>13. ASSUME NEW h \in Handler, NEW out \in Outcome, KillRestore(h, out) PROVE DedupInv'
  BY <1>13, <1>1, HandlerTypes, RestoreKeepsTimers DEF KillRestore
<1>14. ASSUME NEW h \in Handler, NEW out \in Outcome,
              ReinitZ1(h, out) \/ ReinitMinFlow(h, out)
       PROVE  DedupInv'
  <2>1. TimersKept
    BY <1>14, OtherRegister DEF ReinitZ1, ReinitMinFlow, WriteRegister, TimersKept
  <2> QED
    BY <1>14, <2>1, <1>1 DEF ReinitZ1, ReinitMinFlow
<1>15. ASSUME NEW h \in Handler, NEW ok \in BOOLEAN, ApplyMode(h, ok) PROVE DedupInv'
  <2>1. /\ UNCHANGED <<vrc, pc, loc>>
        /\ \/ UNCHANGED <<rt.timer_weekday, rt.timer_morning>>
           \/ rt'.timer_weekday = 0
    BY <1>15, <1>r DEF ApplyMode, WithMode, ClearTimerDedup, RuntimeState
  <2> QED
    BY <2>1, <1>1, <1>k
<1>16. CASE Crash \/ StopKill \/ Start
  BY <1>16 DEF Crash, StopKill, Start, GoDown, DedupInv, Cycle
<1>17. ASSUME NEW out \in Outcome, StopRestore(out) PROVE DedupInv'
  BY <1>17, <1>1, RestoreKeepsTimers DEF StopRestore
<1>18. CASE \/ \E h \in Handler, r \in Request : RequestMode(h, r)
            \/ \E h \in Handler : RequestKill(h) \/ KillSetMode(h)
            \/ Stop \/ NextSlot
  BY <1>18, <1>1, <1>k DEF RequestMode, RequestKill, KillSetMode, Stop, NextSlot
<1> QED
  BY <1>4, <1>5, <1>6, <1>7, <1>8, <1>9, <1>10, <1>11, <1>12, <1>13, <1>14, <1>15, <1>16,
     <1>17, <1>18, StepCases

\* The remembered timer is never wrong in the dangerous direction while every write
\* is answered, with or without an error: any number of weekdays, handlers, kills,
\* stops, crashes and failed saves.
THEOREM DedupSafe ==
    ASSUME Outcome \subseteq {"done", "refused"}
    PROVE  Spec => []DedupFailsSafe
<1>1. Init => DedupInv
  BY DEF Init, DedupInv, Cycle
<1>2. DedupInv => DedupFailsSafe
  BY DEF DedupInv, DedupFailsSafe, KeptIfBelieved
<1>3. TypeOK /\ TypeOK' /\ DedupInv /\ [Next]_vars => DedupInv'
  BY DedupStep
<1> QED
  BY <1>1, <1>2, <1>3, TypeCorrect, PTL DEF Spec

-----------------------------------------------------------------------------
(* Zone 1 off. A crash can leave the zone off with nothing in the state    *)
(* file to say so; the start that follows turns it on again unless the     *)
(* mode is passive, and a mode that leaves the passive ones turns it on    *)
(* first. What must not happen is a request that found the mode active     *)
(* (and so turns nothing on) and takes effect after one that switched off. *)

Hidden == vrc.Z1OpMode = "off" /\ ~rt.heating_off

\* h will make the mode active and write Z1OpMode no more.
Homewards(h) == hs[h].pc \in {"minflow", "apply"} /\ hs[h].want \notin Passive
\* h will make the mode passive and write Z1OpMode no more.
Offwards(h) == \/ hs[h].pc \in {"read", "z1", "minflow", "apply"} /\ hs[h].want \in Passive
               \/ hs[h].pc = "restore" /\ hs[h].next > 2

Resting == rt.mode \in Passive /\ \A h \in Handler : ~Homewards(h)

\* One request at a time, or no way to a passive mode but /kill, which turns the
\* zone on before it gets there, or no restart.
OffByKillOnly == \A r \in Request : r[1] \in Passive => r = Kill
OneAtATime ==
    \/ \A g, h \in Handler : g = h
    \/ OffByKillOnly
    \/ MaxCrashes = 0 /\ MaxStops = 0

StrandInv ==
    /\ pc \in {"timer", "plan", "heat"} => ~Hidden /\ loc.heating_off = rt.heating_off
    /\ pc = "curve" /\ vrc.Z1OpMode = "off" => loc.heating_off
    /\ pc = "save" /\ vrc.Z1OpMode = "off" /\ ~loc.heating_off => ~rt.heating_off /\ Resting
    /\ pc \in {"bootclear", "sleep", "inner", "innerwrite"} /\ Hidden => Resting
    /\ pc = "bootminflow" => ~Hidden
    /\ pc = "boot" /\ Hidden =>
          /\ crashes > 0 \/ stops > 0
          /\ rt.mode \in Passive => Resting
          /\ OffByKillOnly => \A h \in Handler : ~Offwards(h)

RestartInv ==
    /\ pc = "down" => hs = [h \in Handler |-> FreeHandler] /\ (crashes > 0 \/ stops > 0)
    /\ cli # 0 => stops > 0

LEMMA RestartStep == TypeOK /\ TypeOK' /\ RestartInv /\ [Next]_vars => RestartInv'
<1> SUFFICES ASSUME TypeOK, TypeOK', RestartInv, [Next]_vars PROVE RestartInv'
  OBVIOUS
<1> USE DEF bounds, history, NoWrite
<1>1. CASE UNCHANGED <<pc, hs, cli, crashes, stops>>
  BY <1>1 DEF RestartInv
<1>2. CASE pc' # "down" /\ UNCHANGED <<cli, stops>>
  BY <1>2 DEF RestartInv
<1>3. CASE Crash \/ StopKill
  <2>1. /\ hs' = [h \in Handler |-> FreeHandler]
        /\ \/ cli' = cli /\ crashes' = crashes + 1 /\ stops' = stops
           \/ cli' = 0 /\ cli # 0 /\ stops' = stops
    BY <1>3, ConstantsAssumption DEF Crash, StopKill, GoDown, LastRestore
  <2>2. crashes \in Nat /\ stops \in Nat
    BY DEF TypeOK
  <2> QED
    BY <2>1, <2>2 DEF RestartInv
<1>4. CASE Stop
  <2>1. pc' # "down" /\ stops' = stops + 1
    BY <1>4 DEF Stop, Up
  <2>2. stops \in Nat
    BY DEF TypeOK
  <2> QED
    BY <2>1, <2>2 DEF RestartInv
<1>5. ASSUME NEW out \in Outcome, StopRestore(out) PROVE RestartInv'
  <2>1. cli # 0 /\ UNCHANGED <<pc, hs, crashes, stops>>
    BY <1>5, ConstantsAssumption DEF StopRestore
  <2> QED
    BY <2>1 DEF RestartInv
<1>6. \/ UNCHANGED <<pc, hs, cli, crashes, stops>>
      \/ pc' # "down" /\ UNCHANGED <<cli, stops>>
      \/ Crash \/ StopKill \/ Stop \/ \E out \in Outcome : StopRestore(out)
  BY StepCases
     DEF vars, BootCheck, BootClear, BootZ1, BootMinFlow, BeginOuter, TimerUnchanged,
         SyncTimer, NoLaunch, LaunchDhw, HeatBlocked, HeatDuringDhw, CoastAgain, CoastBegin,
         CoastEnd, HeatOn, CurveHeld, CurveWritten, SaveOuter, BeginInner, InnerHeld,
         InnerWrite, RequestMode, RequestKill, KillRestore, KillSetMode, ReinitZ1,
         ReinitMinFlow, ApplyMode, Start, NextSlot, Accept, At, Up, Goto, Abort
<1> QED
  BY <1>1, <1>2, <1>3, <1>4, <1>5, <1>6

\* Among steps without a failure, every step leaves the count at zero: it did not
\* fail, and each write did what it was to do.
LEMMA NoFault ==
    ASSUME TypeOK, NEW target, NEW out, WriteRegister(target, out), faults' = 0
    PROVE  faults = 0 /\ vrc' = target /\ out = "done"
<1>1. faults \in Nat
  BY DEF TypeOK
<1> QED
  BY <1>1 DEF WriteRegister

LEMMA SavedNoFault ==
    ASSUME TypeOK, NEW s, NEW ok \in BOOLEAN, SaveState(s, ok), faults' = 0
    PROVE  faults = 0 /\ ok
<1>1. faults \in Nat
  BY DEF TypeOK
<1> QED
  BY <1>1 DEF SaveState

LEMMA ZoneWrites ==
    ASSUME TypeOK
    PROVE  /\ \A m \in {"auto", "night", "off"} : [vrc EXCEPT !.Z1OpMode = m].Z1OpMode = m
           /\ \A m : [vrc EXCEPT !.Hc1HeatCurve = m].Z1OpMode = vrc.Z1OpMode
           /\ \A m : [vrc EXCEPT !.MinFlow = m].Z1OpMode = vrc.Z1OpMode
           /\ \A m : [vrc EXCEPT !.HwcSFMode = m].Z1OpMode = vrc.Z1OpMode
           /\ \A d, b : [vrc EXCEPT !.timer = [@ EXCEPT ![d] = b]].Z1OpMode = vrc.Z1OpMode
           /\ \A k \in 1..LastRestore :
                 RestoreTarget(k).Z1OpMode = IF k = 2 THEN "auto" ELSE vrc.Z1OpMode
<1>1. /\ \A m \in {"auto", "night", "off"} : [vrc EXCEPT !.Z1OpMode = m].Z1OpMode = m
      /\ \A m : [vrc EXCEPT !.Hc1HeatCurve = m].Z1OpMode = vrc.Z1OpMode
      /\ \A m : [vrc EXCEPT !.MinFlow = m].Z1OpMode = vrc.Z1OpMode
      /\ \A m : [vrc EXCEPT !.HwcSFMode = m].Z1OpMode = vrc.Z1OpMode
      /\ \A d, b : [vrc EXCEPT !.timer = [@ EXCEPT ![d] = b]].Z1OpMode = vrc.Z1OpMode
  BY DEF TypeOK, Registers
<1>2. ASSUME NEW k \in 1..LastRestore
      PROVE  RestoreTarget(k).Z1OpMode = IF k = 2 THEN "auto" ELSE vrc.Z1OpMode
  <2>1. CASE k = 1
    <3>1. RestoreTarget(k) = [vrc EXCEPT !.Hc1HeatCurve = "baseline"]
      BY <2>1 DEF RestoreTarget
    <3> QED
      BY <2>1, <3>1 DEF TypeOK, Registers
  <2>2. CASE k = 2
    <3>1. RestoreTarget(k) = [vrc EXCEPT !.Z1OpMode = "auto"]
      BY <2>2 DEF RestoreTarget
    <3> QED
      BY <2>2, <3>1, <1>1
  <2>3. CASE k = 3
    <3>1. RestoreTarget(k) = [vrc EXCEPT !.MinFlow = 20]
      BY <2>3 DEF RestoreTarget
    <3> QED
      BY <2>3, <3>1 DEF TypeOK, Registers
  <2>4. CASE k = 4
    <3>1. RestoreTarget(k) = [vrc EXCEPT !.HwcSFMode = "auto"]
      BY <2>4 DEF RestoreTarget
    <3> QED
      BY <2>4, <3>1 DEF TypeOK, Registers
  <2>5. CASE k > 4 BY <2>5, <1>1 DEF RestoreTarget
  <2> QED BY <2>1, <2>2, <2>3, <2>4, <2>5 DEF LastRestore
<1> QED
  BY <1>1, <1>2

\* One handler moves on, or the restore beside the service does.
LEMMA StrandElsewhere ==
    ASSUME TypeOK, TypeOK', StrandInv,
           UNCHANGED <<rt, pc, loc, crashes>>, stops' >= stops,
           vrc'.Z1OpMode = vrc.Z1OpMode \/ vrc'.Z1OpMode # "off",
           vrc'.Z1OpMode = "off" /\ Resting => \A h \in Handler : ~Homewards(h)',
           vrc'.Z1OpMode = "off" /\ OffByKillOnly /\ (\A h \in Handler : ~Offwards(h))
              => \A h \in Handler : ~Offwards(h)'
    PROVE  StrandInv'
<1>1. Hidden' => Hidden /\ vrc'.Z1OpMode = "off"
  BY DEF Hidden
<1>2. vrc'.Z1OpMode = "off" /\ Resting => Resting'
  BY DEF Resting
<1>3. crashes > 0 \/ stops > 0 => crashes' > 0 \/ stops' > 0
  <2>1. stops \in Nat /\ stops' \in Nat
    BY DEF TypeOK
  <2> QED
    BY <2>1
<1>4. OffByKillOnly' = OffByKillOnly
  BY DEF OffByKillOnly
<1>5. pc \in {"timer", "plan", "heat"} => ~Hidden' /\ loc'.heating_off = rt'.heating_off
  BY <1>1 DEF StrandInv
<1>6. pc = "boot" /\ Hidden' =>
          /\ crashes' > 0 \/ stops' > 0
          /\ rt'.mode \in Passive => Resting'
          /\ OffByKillOnly => \A h \in Handler : ~Offwards(h)'
  BY <1>1, <1>2, <1>3 DEF StrandInv
<1>7. pc \in {"bootclear", "sleep", "inner", "innerwrite"} /\ Hidden' => Resting'
  BY <1>1, <1>2 DEF StrandInv
<1>8. pc = "save" /\ vrc'.Z1OpMode = "off" /\ ~loc'.heating_off => ~rt'.heating_off /\ Resting'
  BY <1>2 DEF StrandInv
<1> QED
  BY <1>1, <1>4, <1>5, <1>6, <1>7, <1>8 DEF StrandInv

LEMMA StrandStep ==
    ASSUME OneAtATime
    PROVE  /\ TypeOK /\ TypeOK' /\ RestartInv /\ (faults = 0 => StrandInv) /\ [Next]_vars
           => (faults' = 0 => StrandInv')
<1> SUFFICES ASSUME TypeOK, TypeOK', RestartInv, faults = 0 => StrandInv, [Next]_vars,
                    faults' = 0
             PROVE  StrandInv'
  OBVIOUS
<1> USE DEF bounds, history, NoWrite
<1>v. vrc \in Registers
  BY DEF TypeOK
<1>r. rt \in RuntimeState /\ loc \in RuntimeState /\ stops \in Nat /\ crashes \in Nat
  BY DEF TypeOK
<1>h. /\ \A h \in Handler : hs[h] \in HandlerState
      /\ \A h \in Handler : \A s : [hs EXCEPT ![h] = s][h] = s
      /\ \A g, h \in Handler : \A s : g # h => [hs EXCEPT ![h] = s][g] = hs[g]
  BY DEF TypeOK
<1>1. CASE UNCHANGED vars
  BY <1>1, <1>r, StrandElsewhere DEF vars, Resting, Homewards, Offwards
<1>2. CASE BootCheck
  BY <1>2 DEF BootCheck, StrandInv, Hidden, Resting, Homewards
<1>3. ASSUME NEW out \in Outcome, BootZ1(out) PROVE StrandInv'
  <2>1. vrc'.Z1OpMode = "night" /\ pc' \in {"bootminflow", "bootclear"}
    BY <1>3, <1>v, NoFault DEF BootZ1, ControlWrite, Registers
  <2> QED
    BY <2>1 DEF StrandInv, Hidden
<1>4. ASSUME NEW out \in Outcome, BootMinFlow(out) PROVE StrandInv'
  <2>1. /\ faults = 0 /\ vrc'.Z1OpMode = vrc.Z1OpMode
        /\ pc = "bootminflow" /\ pc' = "bootclear" /\ rt' = rt
    BY <1>4, <1>v, NoFault DEF BootMinFlow, ControlWrite, Registers
  <2> QED
    BY <2>1 DEF StrandInv, Hidden
<1>5. CASE BootClear
  <2>1. /\ rt'.heating_off = rt.heating_off /\ rt'.mode = rt.mode
        /\ pc = "bootclear" /\ pc' = "sleep" /\ UNCHANGED <<vrc, hs, faults>>
    BY <1>5, <1>r DEF BootClear, ClearTimerDedup, RuntimeState
  <2> QED
    BY <2>1 DEF StrandInv, Hidden, Resting, Homewards
<1>6. ASSUME NEW i \in Inputs, BeginOuter(i) PROVE StrandInv'
  <2>1. /\ pc = "sleep" /\ loc' = rt /\ UNCHANGED <<vrc, rt, hs, faults>>
        /\ pc' = IF rt.mode \in Passive THEN "save" ELSE "timer"
    BY <1>6 DEF BeginOuter
  <2>2. Hidden => Resting
    BY <2>1 DEF StrandInv
  <2>3. Hidden' = Hidden /\ Resting' = Resting
    BY <2>1 DEF Hidden, Resting, Homewards
  <2>4. CASE rt.mode \in Passive
    BY <2>1, <2>2, <2>3, <2>4 DEF StrandInv, Hidden
  <2>5. CASE rt.mode \notin Passive
    BY <2>1, <2>2, <2>3, <2>5 DEF StrandInv, Resting
  <2> QED
    BY <2>4, <2>5
<1>7. CASE TimerUnchanged \/ NoLaunch
  <2>1. /\ pc \in {"timer", "plan"} /\ pc' \in {"plan", "heat"}
        /\ UNCHANGED <<vrc, rt, loc, faults>>
    BY <1>7 DEF TimerUnchanged, NoLaunch, Goto
  <2> QED
    BY <2>1 DEF StrandInv, Hidden
<1>8. ASSUME NEW d \in Day, NEW morning \in BOOLEAN, NEW out \in Outcome,
             SyncTimer(d, morning, out)
      PROVE  StrandInv'
  <2>1. out = "done" /\ faults = 0 /\ vrc'.Z1OpMode = vrc.Z1OpMode
    BY <1>8, <1>v, NoFault DEF SyncTimer, ControlWrite, Registers
  <2>2. /\ Goto("plan", [loc EXCEPT !.timer_weekday = d, !.timer_morning = morning])
        /\ pc = "timer" /\ rt' = rt
    BY <1>8, <2>1 DEF SyncTimer, ReturnedOk
  <2>3. pc' = "plan" /\ loc'.heating_off = loc.heating_off
    BY <2>2, <1>r DEF Goto, RuntimeState
  <2> QED
    BY <2>1, <2>2, <2>3 DEF StrandInv, Hidden
\* A cycle that does not switch the zone, on its way to the merge.
<1>9. ASSUME faults = 0, vrc'.Z1OpMode = vrc.Z1OpMode, rt' = rt,
             pc \in {"timer", "plan", "heat", "curve"}, pc' \in {"save", "curve"},
             loc'.heating_off = loc.heating_off
      PROVE  StrandInv'
  <2>1. vrc.Z1OpMode = "off" => loc.heating_off
    BY <1>9 DEF StrandInv, Hidden
  <2> QED
    BY <1>9, <2>1 DEF StrandInv
<1>10. ASSUME NEW out \in Outcome, LaunchDhw(out) PROVE StrandInv'
  <2>1. out = "done" /\ faults = 0 /\ vrc'.Z1OpMode = vrc.Z1OpMode
    BY <1>10, <1>v, NoFault DEF LaunchDhw, ControlWrite, Registers
  <2>2. /\ Goto("save", [loc EXCEPT !.scheduler_slot = inp.launch])
        /\ pc = "plan" /\ rt' = rt
    BY <1>10, <2>1 DEF LaunchDhw, ReturnedOk
  <2>3. pc' = "save" /\ loc'.heating_off = loc.heating_off
    BY <2>2, <1>r DEF Goto, RuntimeState
  <2> QED
    BY <2>1, <2>2, <2>3, <1>9
<1>11. CASE HeatBlocked \/ CoastAgain \/ HeatOn
            \/ \E target \in BOOLEAN : HeatDuringDhw(target) \/ CurveHeld(target)
  <2>1. UNCHANGED <<vrc, rt, faults>> /\ pc \in {"heat", "curve"}
    BY <1>11 DEF HeatBlocked, CoastAgain, HeatOn, HeatDuringDhw, CurveHeld
  <2>2. \/ Goto("save", loc) \/ Goto("curve", loc)
        \/ \E target \in BOOLEAN : Goto("save", [loc EXCEPT !.target_flow_c = target])
    BY <1>11 DEF HeatBlocked, CoastAgain, HeatOn, HeatDuringDhw, CurveHeld
  <2>3. pc' \in {"save", "curve"} /\ loc'.heating_off = loc.heating_off
    BY <2>2, <1>r DEF Goto, RuntimeState
  <2> QED
    BY <2>1, <2>3, <1>9
<1>12. ASSUME NEW out \in Outcome, CoastBegin(out) PROVE StrandInv'
  <2>1. out = "done"
    BY <1>12, NoFault DEF CoastBegin, ControlWrite
  <2>2. Goto("save", [loc EXCEPT !.target_flow_c = FALSE, !.heating_off = TRUE])
    BY <1>12, <2>1 DEF CoastBegin, ReturnedOk
  <2>3. pc' = "save" /\ loc'.heating_off
    BY <2>2, <1>r DEF Goto, RuntimeState
  <2> QED
    BY <2>3 DEF StrandInv
<1>13. ASSUME NEW out \in Outcome, CoastEnd(out) PROVE StrandInv'
  <2>1. out = "done" /\ vrc'.Z1OpMode = "night"
    BY <1>13, <1>v, NoFault DEF CoastEnd, ControlWrite, Registers
  <2>2. pc' = "curve"
    BY <1>13, <2>1 DEF CoastEnd, ReturnedOk, Goto
  <2> QED
    BY <2>1, <2>2 DEF StrandInv
<1>14. ASSUME NEW target \in BOOLEAN, NEW out \in Outcome, CurveWritten(target, out)
       PROVE  StrandInv'
  <2>1. out = "done" /\ faults = 0 /\ vrc'.Z1OpMode = vrc.Z1OpMode
    BY <1>14, <1>v, NoFault DEF CurveWritten, ControlWrite, Registers
  <2>2. /\ Goto("save", [loc EXCEPT !.target_flow_c = target])
        /\ pc = "curve" /\ rt' = rt
    BY <1>14, <2>1 DEF CurveWritten, ReturnedOk
  <2>3. pc' = "save" /\ loc'.heating_off = loc.heating_off
    BY <2>2, <1>r DEF Goto, RuntimeState
  <2> QED
    BY <2>1, <2>2, <2>3, <1>9
<1>15. ASSUME NEW ok \in BOOLEAN, SaveOuter(ok) PROVE StrandInv'
  <2>1. /\ pc = "save" /\ pc' = "inner" /\ UNCHANGED <<vrc, hs>>
        /\ rt'.heating_off = loc.heating_off /\ rt'.mode = rt.mode
    BY <1>15, <1>r DEF SaveOuter, Merged, RuntimeState
  <2>2. faults = 0
    BY <1>15, SavedNoFault DEF SaveOuter
  <2> QED
    BY <2>1, <2>2 DEF StrandInv, Hidden, Resting, Homewards
<1>16. CASE BeginInner \/ InnerHeld
  <2>1. /\ pc \in {"sleep", "inner", "innerwrite"} /\ pc' \in {"sleep", "innerwrite"}
        /\ UNCHANGED <<vrc, rt, hs, faults>>
    BY <1>16 DEF BeginInner, InnerHeld
  <2> QED
    BY <2>1 DEF StrandInv, Hidden, Resting, Homewards
<1>17. ASSUME NEW out \in Outcome, InnerWrite(out) PROVE StrandInv'
  <2>1. /\ faults = 0 /\ vrc'.Z1OpMode = vrc.Z1OpMode
        /\ pc = "innerwrite" /\ pc' = "sleep" /\ UNCHANGED <<rt, hs>>
    BY <1>17, <1>v, NoFault DEF InnerWrite, ControlWrite, Registers
  <2> QED
    BY <2>1 DEF StrandInv, Hidden, Resting, Homewards
\* A handler moves on without a word to the control thread.
<1>18. ASSUME faults = 0, NEW h \in Handler, NEW s, hs' = [hs EXCEPT ![h] = s],
              UNCHANGED <<rt, pc, loc, crashes, stops>>,
              vrc'.Z1OpMode = vrc.Z1OpMode \/ vrc'.Z1OpMode # "off",
              vrc'.Z1OpMode = "off" /\ Resting /\ s.pc \in {"minflow", "apply"}
                 => s.want \in Passive,
              vrc'.Z1OpMode = "off" /\ OffByKillOnly /\ ~Offwards(h) =>
                 /\ s.pc \in {"read", "z1", "minflow", "apply"} => s.want \notin Passive
                 /\ s.pc = "restore" => s.next <= 2
       PROVE  StrandInv'
  <2>1. /\ hs'[h] = s
        /\ \A g \in Handler : g # h => hs'[g] = hs[g]
    BY <1>18, <1>h
  <2>2. vrc'.Z1OpMode = "off" /\ Resting => \A g \in Handler : ~Homewards(g)'
    BY <1>18, <2>1 DEF Resting, Homewards
  <2>3. vrc'.Z1OpMode = "off" /\ OffByKillOnly /\ (\A g \in Handler : ~Offwards(g))
           => \A g \in Handler : ~Offwards(g)'
    <3> SUFFICES ASSUME vrc'.Z1OpMode = "off", OffByKillOnly,
                        \A g \in Handler : ~Offwards(g), NEW g \in Handler
                 PROVE  ~Offwards(g)'
      OBVIOUS
    <3>1. CASE g # h
      BY <3>1, <2>1 DEF Offwards
    <3>2. CASE g = h
      <4>1. hs'[h].next \in Nat
        BY DEF TypeOK, HandlerState
      <4> QED
        BY <3>2, <4>1, <2>1, <1>18 DEF Offwards
    <3> QED
      BY <3>1, <3>2
  <2>4. stops' >= stops
    BY <1>18, <1>r
  <2> QED
    BY <1>18, <2>2, <2>3, <2>4, StrandElsewhere
<1>19. ASSUME NEW h \in Handler, NEW r \in Request, RequestMode(h, r) PROVE StrandInv'
  <2> DEFINE s == [ pc |-> IF rt.mode \in Passive /\ r[1] \notin Passive THEN "z1" ELSE "apply",
                    want |-> r[1], activating |-> rt.mode \in Passive /\ r[1] \notin Passive,
                    next |-> 1 ]
  <2>1. /\ hs' = [hs EXCEPT ![h] = s] /\ r # Kill
        /\ UNCHANGED <<vrc, rt, pc, loc, crashes, stops, faults>>
    BY <1>19 DEF RequestMode, ReadMode, SetHandler
  <2>2. Resting /\ s.pc \in {"minflow", "apply"} => s.want \in Passive
    BY DEF Resting
  <2>3. OffByKillOnly => s.want \notin Passive
    BY <2>1 DEF OffByKillOnly
  <2>4. s.pc # "restore"
    OBVIOUS
  <2> HIDE DEF s
  <2> QED
    BY <2>1, <2>2, <2>3, <2>4, <1>18
<1>20. ASSUME NEW h \in Handler, RequestKill(h) PROVE StrandInv'
  <2> DEFINE s == IF rt.mode = "Disabled"
                  THEN [FreeHandler EXCEPT !.pc = "read", !.want = "Occupied"]
                  ELSE [FreeHandler EXCEPT !.pc = "restore", !.want = "Disabled"]
  <2>1. /\ hs' = [hs EXCEPT ![h] = s]
        /\ UNCHANGED <<vrc, rt, pc, loc, crashes, stops, faults>>
    BY <1>20 DEF RequestKill, SetHandler
  <2>2. /\ (s.pc = "read" /\ s.want = "Occupied") \/ s.pc = "restore"
        /\ s.next = 1
    BY DEF FreeHandler
  <2> HIDE DEF s
  <2>3. /\ s.pc \in {"read", "z1", "minflow", "apply"} => s.want \notin Passive
        /\ s.pc \notin {"minflow", "apply"} /\ s.next <= 2
    BY <2>2 DEF Passive
  <2> QED
    BY <2>1, <2>3, <1>18
<1>21. ASSUME NEW h \in Handler, NEW out \in Outcome, KillRestore(h, out) PROVE StrandInv'
  <2> DEFINE s == IF ReturnedOk(out) /\ hs[h].next < LastRestore
                  THEN [hs[h] EXCEPT !.next = @ + 1]
                  ELSE [hs[h] EXCEPT !.pc = "read", !.next = 1]
  <2>1. /\ hs' = [hs EXCEPT ![h] = s] /\ hs[h].pc = "restore"
        /\ UNCHANGED <<rt, pc, loc, crashes, stops>>
    BY <1>21 DEF KillRestore, SetHandler, At
  <2>2. hs[h].next \in 1..LastRestore
    BY HandlerTypes
  <2>3. /\ faults = 0 /\ out = "done"
        /\ vrc'.Z1OpMode = IF hs[h].next = 2 THEN "auto" ELSE vrc.Z1OpMode
    BY <1>21, <2>2, NoFault, ZoneWrites DEF KillRestore
  <2>4. s.pc \in {"restore", "read"}
    BY <2>1, <1>h DEF HandlerState
  <2>5. vrc'.Z1OpMode = "off" /\ ~Offwards(h) => s.pc = "restore" /\ s.next = 2
    BY <2>1, <2>2, <2>3, <1>h, ConstantsAssumption
       DEF Offwards, LastRestore, ReturnedOk, HandlerState
  <2> HIDE DEF s
  <2>6. vrc'.Z1OpMode = "off" /\ ~Offwards(h) =>
           /\ s.pc \notin {"read", "z1", "minflow", "apply"}
           /\ s.next <= 2
    BY <2>5
  <2>7. s.pc \notin {"minflow", "apply"}
    BY <2>4
  <2>8. vrc'.Z1OpMode = vrc.Z1OpMode \/ vrc'.Z1OpMode # "off"
    BY <2>3
  <2> QED
    BY <2>1, <2>3, <2>6, <2>7, <2>8, <1>18
<1>22. ASSUME NEW h \in Handler, KillSetMode(h) PROVE StrandInv'
  <2> DEFINE w == hs[h].want
             s == [ pc |-> IF rt.mode \in Passive /\ w \notin Passive THEN "z1" ELSE "apply",
                    want |-> w, activating |-> rt.mode \in Passive /\ w \notin Passive,
                    next |-> 1 ]
  <2>1. /\ hs' = [hs EXCEPT ![h] = s] /\ hs[h].pc = "read"
        /\ UNCHANGED <<vrc, rt, pc, loc, crashes, stops, faults>>
    BY <1>22 DEF KillSetMode, ReadMode, SetHandler, At
  <2>2. Resting /\ s.pc \in {"minflow", "apply"} => s.want \in Passive
    BY DEF Resting
  <2>3. ~Offwards(h) => s.want \notin Passive
    BY <2>1 DEF Offwards
  <2>4. s.pc # "restore"
    OBVIOUS
  <2> HIDE DEF s
  <2> QED
    BY <2>1, <2>2, <2>3, <2>4, <1>18
<1>23. ASSUME NEW h \in Handler, NEW out \in Outcome, ReinitZ1(h, out) PROVE StrandInv'
  <2>1. PICK s : hs' = [hs EXCEPT ![h] = s]
    BY <1>23 DEF ReinitZ1, SetHandler
  <2>2. faults = 0 /\ vrc'.Z1OpMode = "night"
    BY <1>23, <1>v, NoFault DEF ReinitZ1, Registers
  <2>3. UNCHANGED <<rt, pc, loc, crashes, stops>>
    BY <1>23 DEF ReinitZ1
  <2> QED
    BY <2>1, <2>2, <2>3, <1>18
<1>24. ASSUME NEW h \in Handler, NEW out \in Outcome, ReinitMinFlow(h, out) PROVE StrandInv'
  <2> DEFINE s == [hs[h] EXCEPT !.pc = "apply"]
  <2>1. /\ hs' = [hs EXCEPT ![h] = s] /\ hs[h].pc = "minflow"
        /\ UNCHANGED <<rt, pc, loc, crashes, stops>>
    BY <1>24 DEF ReinitMinFlow, SetHandler, At
  <2>2. faults = 0 /\ vrc'.Z1OpMode = vrc.Z1OpMode
    BY <1>24, <1>v, NoFault DEF ReinitMinFlow, Registers
  <2>3. s.pc = "apply" /\ s.want = hs[h].want
    BY <1>h DEF HandlerState
  <2>4. Resting => s.want \in Passive
    BY <2>1, <2>3 DEF Resting, Homewards
  <2>5. ~Offwards(h) => s.want \notin Passive
    BY <2>1, <2>3 DEF Offwards
  <2> HIDE DEF s
  <2> QED
    BY <2>1, <2>2, <2>3, <2>4, <2>5, <1>18
<1>25. ASSUME NEW h \in Handler, NEW ok \in BOOLEAN, ApplyMode(h, ok) PROVE StrandInv'
  <2>1. /\ rt'.mode = hs[h].want /\ rt'.heating_off = rt.heating_off
        /\ UNCHANGED <<vrc, pc, loc, crashes, stops>> /\ hs[h].pc = "apply"
    BY <1>25, <1>r DEF ApplyMode, WithMode, ClearTimerDedup, RuntimeState, At
  <2>2. faults = 0
    BY <1>25, SavedNoFault DEF ApplyMode
  <2>3. /\ hs'[h] = FreeHandler
        /\ \A g \in Handler : g # h => hs'[g] = hs[g]
    BY <1>25, <1>h DEF ApplyMode, SetHandler
  <2>4. ~Homewards(h)' /\ ~Offwards(h)'
    BY <2>3 DEF Homewards, Offwards, FreeHandler
  <2>5. \A g \in Handler : g # h => /\ Homewards(g)' = Homewards(g)
                                    /\ Offwards(g)' = Offwards(g)
    BY <2>3 DEF Homewards, Offwards
  <2>6. Resting => Resting'
    BY <2>1, <2>4, <2>5 DEF Resting, Homewards
  <2>7. Hidden' = Hidden
    BY <2>1 DEF Hidden
  <2>8. ASSUME pc = "boot", Hidden, rt'.mode \in Passive PROVE Resting'
    <3>1. Offwards(h) /\ (crashes > 0 \/ stops > 0)
      BY <2>1, <2>2, <2>8 DEF Offwards, StrandInv
    <3>2. ~OffByKillOnly
      BY <2>2, <2>8, <3>1 DEF StrandInv
    <3>3. ~(MaxCrashes = 0 /\ MaxStops = 0)
      BY <3>1, ConstantsAssumption DEF TypeOK
    <3>4. \A g \in Handler : g = h
      BY <3>2, <3>3 DEF OneAtATime
    <3> QED
      BY <2>4, <2>8, <3>4 DEF Resting
  <2>9. OffByKillOnly' = OffByKillOnly
    BY DEF OffByKillOnly
  <2>10. pc = "boot" /\ Hidden' =>
            /\ crashes' > 0 \/ stops' > 0
            /\ rt'.mode \in Passive => Resting'
            /\ OffByKillOnly => \A g \in Handler : ~Offwards(g)'
    BY <2>1, <2>2, <2>4, <2>5, <2>7, <2>8 DEF StrandInv
  <2>11. pc = "save" /\ vrc'.Z1OpMode = "off" /\ ~loc'.heating_off =>
            ~rt'.heating_off /\ Resting'
    BY <2>1, <2>2, <2>6 DEF StrandInv
  <2> QED
    BY <2>1, <2>2, <2>6, <2>7, <2>9, <2>10, <2>11 DEF StrandInv
<1>26. CASE Crash \/ StopKill
  BY <1>26 DEF Crash, StopKill, GoDown, StrandInv
<1>27. CASE Stop \/ NextSlot
  <2>1. UNCHANGED <<vrc, rt, pc, loc, hs, crashes, faults>> /\ stops' >= stops
    BY <1>27, <1>r DEF Stop, NextSlot
  <2> QED
    BY <2>1, StrandElsewhere DEF Resting, Homewards, Offwards
<1>28. ASSUME NEW out \in Outcome, StopRestore(out) PROVE StrandInv'
  <2>1. /\ faults = 0
        /\ vrc'.Z1OpMode = vrc.Z1OpMode \/ vrc'.Z1OpMode # "off"
    BY <1>28, NoFault, ZoneWrites DEF StopRestore
  <2>2. UNCHANGED <<rt, pc, loc, hs, crashes>> /\ stops' >= stops
    BY <1>28, <1>r DEF StopRestore
  <2> QED
    BY <2>1, <2>2, StrandElsewhere DEF Resting, Homewards, Offwards
<1>29. CASE Start
  <2>1. /\ pc' = "boot" /\ hs' = [h \in Handler |-> FreeHandler]
        /\ crashes' > 0 \/ stops' > 0
    BY <1>29 DEF Start, RestartInv
  <2>2. \A h \in Handler : ~Homewards(h)' /\ ~Offwards(h)'
    BY <2>1 DEF Homewards, Offwards, FreeHandler
  <2> QED
    BY <2>1, <2>2 DEF StrandInv, Resting
<1> QED
  BY <1>1, <1>2, <1>3, <1>4, <1>5, <1>6, <1>7, <1>8, <1>10, <1>11, <1>12, <1>13, <1>14,
     <1>15, <1>16, <1>17, <1>19, <1>20, <1>21, <1>22, <1>23, <1>24, <1>25, <1>26, <1>27,
     <1>28, <1>29, StepCases

\* Zone 1 is never off behind the controller's back while no write has failed: one
\* request at a time, or /kill the only way off, or no restart; any number of the rest.
THEOREM Stranding ==
    ASSUME OneAtATime
    PROVE  Spec => []NeverStranded
<1>1. Init => RestartInv /\ (faults = 0 => StrandInv)
  BY DEF Init, RestartInv, StrandInv, Hidden, Baseline
<1>2. (faults = 0 => StrandInv) => NeverStranded
  BY DEF StrandInv, NeverStranded, Hidden, Resting, Active
<1>3. TypeOK /\ TypeOK' /\ RestartInv /\ [Next]_vars => RestartInv'
  BY RestartStep
<1>4. TypeOK /\ TypeOK' /\ RestartInv /\ (faults = 0 => StrandInv) /\ [Next]_vars
         => (faults = 0 => StrandInv)'
  BY StrandStep
<1> QED
  BY <1>1, <1>2, <1>3, <1>4, TypeCorrect, PTL DEF Spec

-----------------------------------------------------------------------------
(* Zone 1 left to the VRC 700. With one request at a time, what sets the   *)
(* zone to auto while the controller is active is a request on its way to  *)
(* a passive mode, and what then makes the mode active writes the zone     *)
(* first.                                                                  *)


\* Only /kill restores, on its way to Disabled.
KillInv == \A h \in Handler : hs[h].pc = "restore" => hs[h].want \in Passive

AutoInv ==
    vrc.Z1OpMode = "auto" /\ cli = 0 /\ pc \notin {"down", "bootz1"} =>
        /\ rt.mode \notin Passive /\ pc # "boot" => \E h \in Handler : Offwards(h)
        /\ rt.mode \in Passive => \A h \in Handler : ~Homewards(h)

LEMMA KillStep == TypeOK /\ KillInv /\ [Next]_vars => KillInv'
<1> SUFFICES ASSUME TypeOK, KillInv, [Next]_vars PROVE KillInv'
  OBVIOUS
<1> USE DEF bounds, history, NoWrite
<1>1. CASE UNCHANGED hs
  BY <1>1 DEF KillInv
<1>2. CASE hs' = [h \in Handler |-> FreeHandler]
  BY <1>2 DEF KillInv, FreeHandler
<1>3. ASSUME NEW h \in Handler, NEW s, hs' = [hs EXCEPT ![h] = s],
             s.pc = "restore" => s.want \in Passive
      PROVE  KillInv'
  BY <1>3 DEF KillInv, TypeOK
<1>4. ASSUME NEW h \in Handler, NEW want, ReadMode(h, want) PROVE KillInv'
  <2> DEFINE s == [ pc |-> IF rt.mode \in Passive /\ want \notin Passive THEN "z1" ELSE "apply",
                    want |-> want, activating |-> rt.mode \in Passive /\ want \notin Passive,
                    next |-> 1 ]
  <2>1. hs' = [hs EXCEPT ![h] = s] /\ s.pc # "restore"
    BY <1>4 DEF ReadMode, SetHandler
  <2> HIDE DEF s
  <2> QED
    BY <2>1, <1>3
<1>5. ASSUME NEW h \in Handler, RequestKill(h) PROVE KillInv'
  <2> DEFINE s == IF rt.mode = "Disabled"
                  THEN [FreeHandler EXCEPT !.pc = "read", !.want = "Occupied"]
                  ELSE [FreeHandler EXCEPT !.pc = "restore", !.want = "Disabled"]
  <2>1. hs' = [hs EXCEPT ![h] = s]
    BY <1>5 DEF RequestKill, SetHandler
  <2>2. s.pc = "restore" => s.want \in Passive
    BY DEF FreeHandler, Passive
  <2> HIDE DEF s
  <2> QED
    BY <2>1, <2>2, <1>3
<1>6. ASSUME NEW h \in Handler, NEW out \in Outcome,
             KillRestore(h, out) \/ ReinitZ1(h, out) \/ ReinitMinFlow(h, out)
      PROVE  KillInv'
  <2>1. hs[h] \in HandlerState
    BY DEF TypeOK
  <2> DEFINE Kept(s) == s.pc = "restore" => s.want \in Passive
  <2>2. /\ hs[h].pc = "restore" => Kept([hs[h] EXCEPT !.next = @ + 1])
        /\ \A p : p # "restore" => /\ Kept([hs[h] EXCEPT !.pc = p])
                                  /\ Kept([hs[h] EXCEPT !.pc = p, !.next = 1])
    BY <2>1 DEF KillInv, HandlerState
  <2>3. \/ hs[h].pc = "restore" /\ hs' = [hs EXCEPT ![h] = [hs[h] EXCEPT !.next = @ + 1]]
        \/ hs' = [hs EXCEPT ![h] = [hs[h] EXCEPT !.pc = "read", !.next = 1]]
        \/ hs' = [hs EXCEPT ![h] = [hs[h] EXCEPT !.pc = "minflow"]]
        \/ hs' = [hs EXCEPT ![h] = [hs[h] EXCEPT !.pc = "apply"]]
    BY <1>6 DEF KillRestore, ReinitZ1, ReinitMinFlow, SetHandler, At
  <2>4. \E s : hs' = [hs EXCEPT ![h] = s] /\ Kept(s)
    <3> HIDE DEF Kept
    <3> QED
      BY <2>2, <2>3
  <2> QED
    BY <2>4, <1>3
<1>7. ASSUME NEW h \in Handler, NEW ok \in BOOLEAN, ApplyMode(h, ok) PROVE KillInv'
  BY <1>7, <1>3 DEF ApplyMode, SetHandler, FreeHandler
<1>8. \/ UNCHANGED hs
      \/ hs' = [h \in Handler |-> FreeHandler]
      \/ \E h \in Handler, want \in {r[1] : r \in Request} : ReadMode(h, want)
      \/ \E h \in Handler : RequestKill(h) \/ ReadMode(h, hs[h].want)
      \/ \E h \in Handler, out \in Outcome :
            KillRestore(h, out) \/ ReinitZ1(h, out) \/ ReinitMinFlow(h, out)
      \/ \E h \in Handler, ok \in BOOLEAN : ApplyMode(h, ok)
  BY StepCases
     DEF vars, BootCheck, BootClear, BootZ1, BootMinFlow, BeginOuter, TimerUnchanged,
         SyncTimer, NoLaunch, LaunchDhw, HeatBlocked, HeatDuringDhw, CoastAgain, CoastBegin,
         CoastEnd, HeatOn, CurveHeld, CurveWritten, SaveOuter, BeginInner, InnerHeld,
         InnerWrite, RequestMode, KillSetMode, Crash, GoDown, Stop, StopRestore, StopKill,
         Start, NextSlot
<1> QED
  BY <1>1, <1>2, <1>4, <1>5, <1>6, <1>7, <1>8

LEMMA AutoStep ==
    ASSUME \A g, h \in Handler : g = h
    PROVE  /\ TypeOK /\ TypeOK' /\ KillInv /\ RestartInv /\ (faults = 0 => AutoInv)
           /\ [Next]_vars
           => (faults' = 0 => AutoInv')
<1> SUFFICES ASSUME TypeOK, TypeOK', KillInv, RestartInv, faults = 0 => AutoInv,
                    [Next]_vars, faults' = 0
             PROVE  AutoInv'
  OBVIOUS
<1> USE DEF bounds, history, NoWrite
<1>v. vrc \in Registers /\ rt \in RuntimeState /\ loc \in RuntimeState
  BY DEF TypeOK
<1>h. /\ \A h \in Handler : hs[h] \in HandlerState
      /\ \A h \in Handler : \A s : [hs EXCEPT ![h] = s][h] = s
  BY DEF TypeOK
\* The control thread moves on, past its start or within it.
<1>1. ASSUME faults = 0, UNCHANGED <<cli, hs>>, rt'.mode = rt.mode,
             vrc'.Z1OpMode = vrc.Z1OpMode \/ vrc'.Z1OpMode # "auto",
             pc \in {"boot", "down", "bootz1"} => pc' = pc
      PROVE  AutoInv'
  BY <1>1 DEF AutoInv, Offwards, Homewards
<1>2. CASE UNCHANGED vars
  BY <1>2, <1>1 DEF vars
<1>3. CASE BootCheck
  BY <1>3 DEF BootCheck, AutoInv, Homewards
<1>4. ASSUME NEW out \in Outcome, BootZ1(out) PROVE AutoInv'
  <2>1. vrc'.Z1OpMode = "night"
    BY <1>4, <1>v, NoFault DEF BootZ1, ControlWrite, Registers
  <2> QED
    BY <2>1 DEF AutoInv
<1>5. ASSUME NEW out \in Outcome, BootMinFlow(out) \/ InnerWrite(out) PROVE AutoInv'
  <2>1. faults = 0 /\ vrc'.Z1OpMode = vrc.Z1OpMode
    BY <1>5, <1>v, NoFault DEF BootMinFlow, InnerWrite, ControlWrite, Registers
  <2> QED
    BY <1>5, <2>1, <1>1 DEF BootMinFlow, InnerWrite
<1>6. CASE BootClear
  <2>1. rt'.mode = rt.mode
    BY <1>6, <1>v DEF BootClear, ClearTimerDedup, RuntimeState
  <2> QED
    BY <1>6, <2>1, <1>1 DEF BootClear
<1>7. CASE BeginInner \/ InnerHeld \/ \E i \in Inputs : BeginOuter(i)
  BY <1>7, <1>1 DEF BeginInner, InnerHeld, BeginOuter
<1>8. CASE TimerUnchanged \/ NoLaunch \/ HeatBlocked \/ CoastAgain \/ HeatOn
           \/ \E target \in BOOLEAN : HeatDuringDhw(target) \/ CurveHeld(target)
  <2>1. UNCHANGED <<vrc, rt, hs, cli, faults>> /\ pc \notin {"boot", "down", "bootz1"}
    BY <1>8 DEF TimerUnchanged, NoLaunch, HeatBlocked, CoastAgain, HeatOn, HeatDuringDhw,
                CurveHeld
  <2> QED
    BY <2>1, <1>1
<1>9. ASSUME NEW out \in Outcome,
             \/ \E d \in Day, morning \in BOOLEAN : SyncTimer(d, morning, out)
             \/ LaunchDhw(out) \/ CoastBegin(out) \/ CoastEnd(out)
             \/ \E target \in BOOLEAN : CurveWritten(target, out)
      PROVE  AutoInv'
  <2>1. /\ UNCHANGED <<rt, hs, cli>> /\ pc \notin {"boot", "down", "bootz1"}
        /\ \E target : ControlWrite(target, out) /\ \/ target.Z1OpMode = vrc.Z1OpMode
                                                    \/ target.Z1OpMode # "auto"
    <3>1. CASE \E d \in Day, morning \in BOOLEAN : SyncTimer(d, morning, out)
      BY <3>1, <1>v DEF SyncTimer, Registers
    <3>2. CASE LaunchDhw(out)
      BY <3>2, <1>v DEF LaunchDhw, Registers
    <3>3. CASE CoastBegin(out)
      BY <3>3, <1>v DEF CoastBegin, Registers
    <3>4. CASE CoastEnd(out)
      BY <3>4, <1>v DEF CoastEnd, Registers
    <3>5. CASE \E target \in BOOLEAN : CurveWritten(target, out)
      BY <3>5, <1>v DEF CurveWritten, Registers
    <3> QED
      BY <1>9, <3>1, <3>2, <3>3, <3>4, <3>5
  <2>2. faults = 0 /\ (vrc'.Z1OpMode = vrc.Z1OpMode \/ vrc'.Z1OpMode # "auto")
    BY <2>1, NoFault DEF ControlWrite
  <2> QED
    BY <2>1, <2>2, <1>1
<1>10. ASSUME NEW ok \in BOOLEAN, SaveOuter(ok) PROVE AutoInv'
  <2>1. rt'.mode = rt.mode /\ faults = 0
    BY <1>10, <1>v, SavedNoFault DEF SaveOuter, Merged, RuntimeState
  <2> QED
    BY <1>10, <2>1, <1>1 DEF SaveOuter
\* The one handler moves on to s.
<1>11. ASSUME faults = 0, NEW h \in Handler, NEW s, hs' = [hs EXCEPT ![h] = s],
              UNCHANGED <<pc, cli>>,
              vrc'.Z1OpMode = "auto" /\ rt'.mode \notin Passive /\ pc # "boot"
                 /\ (vrc.Z1OpMode = "auto" /\ rt.mode \notin Passive => Offwards(h))
                 => Offwards(h)',
              vrc'.Z1OpMode = "auto" /\ rt'.mode \in Passive
                 /\ (vrc.Z1OpMode = "auto" /\ rt.mode \in Passive => ~Homewards(h))
                 => ~Homewards(h)'
       PROVE  AutoInv'
  <2>1. \A g \in Handler : g = h
    OBVIOUS
  <2> QED
    BY <1>11, <2>1 DEF AutoInv
<1>12. ASSUME NEW h \in Handler, NEW w, ReadMode(h, w), UNCHANGED <<vrc, rt, pc, cli, faults>>,
              \/ hs[h].pc = "free"
              \/ hs[h].pc = "read" /\ hs[h].want = w
       PROVE  AutoInv'
  <2> DEFINE s == [ pc |-> IF rt.mode \in Passive /\ w \notin Passive THEN "z1" ELSE "apply",
                    want |-> w, activating |-> rt.mode \in Passive /\ w \notin Passive,
                    next |-> 1 ]
  <2>1. hs' = [hs EXCEPT ![h] = s] /\ hs'[h] = s
    BY <1>12, <1>h DEF ReadMode, SetHandler
  <2>2. Offwards(h) => Offwards(h)'
    BY <1>12, <2>1 DEF Offwards
  <2>3. rt.mode \in Passive => ~Homewards(h)'
    BY <2>1 DEF Homewards
  <2> HIDE DEF s
  <2> QED
    BY <1>12, <2>1, <2>2, <2>3, <1>11
<1>13. ASSUME NEW h \in Handler, NEW r \in Request, RequestMode(h, r) PROVE AutoInv'
  BY <1>13, <1>12 DEF RequestMode, Accept, At
<1>14. ASSUME NEW h \in Handler, KillSetMode(h) PROVE AutoInv'
  BY <1>14, <1>12 DEF KillSetMode, At
<1>15. ASSUME NEW h \in Handler, RequestKill(h) PROVE AutoInv'
  <2> DEFINE s == IF rt.mode = "Disabled"
                  THEN [FreeHandler EXCEPT !.pc = "read", !.want = "Occupied"]
                  ELSE [FreeHandler EXCEPT !.pc = "restore", !.want = "Disabled"]
  <2>1. /\ hs' = [hs EXCEPT ![h] = s] /\ hs'[h] = s /\ hs[h].pc = "free"
        /\ UNCHANGED <<vrc, rt, pc, cli, faults>>
    BY <1>15, <1>h DEF RequestKill, SetHandler, Accept, At
  <2>2. s.pc \in {"read", "restore"}
    BY DEF FreeHandler
  <2> HIDE DEF s
  <2>3. ~Offwards(h) /\ ~Homewards(h)'
    BY <2>1, <2>2 DEF Offwards, Homewards
  <2> QED
    BY <2>1, <2>3, <1>11
<1>16. ASSUME NEW h \in Handler, NEW out \in Outcome, KillRestore(h, out) PROVE AutoInv'
  <2> DEFINE s == IF ReturnedOk(out) /\ hs[h].next < LastRestore
                  THEN [hs[h] EXCEPT !.next = @ + 1]
                  ELSE [hs[h] EXCEPT !.pc = "read", !.next = 1]
  <2>1. /\ hs' = [hs EXCEPT ![h] = s] /\ hs'[h] = s /\ hs[h].pc = "restore"
        /\ UNCHANGED <<rt, pc, cli>>
    BY <1>16, <1>h DEF KillRestore, SetHandler, At
  <2>2. hs[h].next \in 1..LastRestore /\ hs[h].want \in Passive
    BY <2>1, HandlerTypes DEF KillInv
  <2>3. /\ faults = 0 /\ out = "done"
        /\ vrc'.Z1OpMode = IF hs[h].next = 2 THEN "auto" ELSE vrc.Z1OpMode
    BY <1>16, <2>2, NoFault, ZoneWrites DEF KillRestore
  <2>4. s.pc \in {"restore", "read"}
    BY <2>1, <1>h DEF HandlerState
  <2>5. hs[h].next >= 2 => \/ s.pc = "read" /\ s.want \in Passive
                           \/ s.pc = "restore" /\ s.next > 2
    <3>1. CASE ReturnedOk(out) /\ hs[h].next < LastRestore
      <4>1. s.pc = "restore" /\ s.next = hs[h].next + 1
        BY <2>1, <3>1, <1>h DEF HandlerState
      <4> QED
        BY <4>1, <2>2
    <3>2. CASE ~(ReturnedOk(out) /\ hs[h].next < LastRestore)
      <4>1. s.pc = "read" /\ s.want = hs[h].want
        BY <3>2, <1>h DEF HandlerState
      <4> QED
        BY <4>1, <2>2
    <3> QED
      BY <3>1, <3>2
  <2>6. hs[h].next < 2 => ~Offwards(h) /\ vrc'.Z1OpMode = vrc.Z1OpMode
    <3>1. hs[h].next < 2 => hs[h].next # 2 /\ ~(hs[h].next > 2)
      BY <2>2
    <3> QED
      BY <2>1, <2>3, <3>1 DEF Offwards
  <2> HIDE DEF s
  <2>7. ~Homewards(h)' /\ (hs[h].next >= 2 => Offwards(h)')
    BY <2>1, <2>4, <2>5 DEF Offwards, Homewards
  <2>8. hs[h].next >= 2 \/ hs[h].next < 2
    BY <2>2
  <2> QED
    BY <2>1, <2>3, <2>6, <2>7, <2>8, <1>11
<1>17. ASSUME NEW h \in Handler, NEW out \in Outcome, ReinitZ1(h, out) PROVE AutoInv'
  <2>1. vrc'.Z1OpMode = "night"
    BY <1>17, <1>v, NoFault DEF ReinitZ1, Registers
  <2> QED
    BY <2>1 DEF AutoInv
<1>18. ASSUME NEW h \in Handler, NEW out \in Outcome, ReinitMinFlow(h, out) PROVE AutoInv'
  <2> DEFINE s == [hs[h] EXCEPT !.pc = "apply"]
  <2>1. /\ hs' = [hs EXCEPT ![h] = s] /\ hs'[h] = s /\ hs[h].pc = "minflow"
        /\ UNCHANGED <<rt, pc, cli>>
    BY <1>18, <1>h DEF ReinitMinFlow, SetHandler, At
  <2>2. faults = 0 /\ vrc'.Z1OpMode = vrc.Z1OpMode
    BY <1>18, <1>v, NoFault DEF ReinitMinFlow, Registers
  <2>3. s.pc = "apply" /\ s.want = hs[h].want
    BY <1>h DEF HandlerState
  <2> HIDE DEF s
  <2>4. /\ Offwards(h) => Offwards(h)'
        /\ Homewards(h)' => Homewards(h)
    BY <2>1, <2>3 DEF Offwards, Homewards
  <2> QED
    BY <2>1, <2>2, <2>4, <1>11
<1>19. ASSUME NEW h \in Handler, NEW ok \in BOOLEAN, ApplyMode(h, ok) PROVE AutoInv'
  <2>1. /\ rt'.mode = hs[h].want /\ hs[h].pc = "apply"
        /\ UNCHANGED <<vrc, pc, cli>> /\ hs' = [hs EXCEPT ![h] = FreeHandler]
        /\ hs'[h] = FreeHandler
    BY <1>19, <1>v, <1>h
       DEF ApplyMode, WithMode, ClearTimerDedup, RuntimeState, At, SetHandler
  <2>2. faults = 0
    BY <1>19, SavedNoFault DEF ApplyMode
  <2>3. ~Homewards(h)'
    BY <2>1 DEF Homewards, FreeHandler
  <2>4. rt'.mode \notin Passive => Homewards(h) /\ ~Offwards(h)
    BY <2>1 DEF Homewards, Offwards
  <2>5. \A g \in Handler : g = h
    OBVIOUS
  <2>6. vrc.Z1OpMode = "auto" /\ cli = 0 /\ pc \notin {"down", "bootz1", "boot"} =>
           rt'.mode \in Passive
    BY <2>2, <2>4, <2>5 DEF AutoInv
  <2> QED
    BY <2>1, <2>3, <2>5, <2>6 DEF AutoInv
<1>20. CASE Crash \/ StopKill
  BY <1>20 DEF Crash, StopKill, GoDown, AutoInv
<1>21. CASE Stop
  BY <1>21 DEF Stop, AutoInv
<1>22. ASSUME NEW out \in Outcome, StopRestore(out) PROVE AutoInv'
  <2>1. cli' # 0
    BY <1>22, ConstantsAssumption DEF StopRestore, LastRestore
  <2> QED
    BY <2>1 DEF AutoInv
<1>23. CASE Start
  <2>1. pc' = "boot" /\ hs' = [h \in Handler |-> FreeHandler]
    BY <1>23 DEF Start, RestartInv
  <2>2. \A h \in Handler : ~Homewards(h)'
    BY <2>1 DEF Homewards, FreeHandler
  <2> QED
    BY <2>1, <2>2 DEF AutoInv
<1>24. CASE NextSlot
  BY <1>24, <1>1 DEF NextSlot
<1> QED
  BY <1>2, <1>3, <1>4, <1>5, <1>6, <1>7, <1>8, <1>9, <1>10, <1>13, <1>14, <1>15, <1>16,
     <1>17, <1>18, <1>19, <1>20, <1>21, <1>22, <1>23, <1>24, StepCases

\* Requests served one after the other never leave an active controller on the VRC
\* 700's timer program, whatever crashes and stops come between.
THEOREM NightWhenAlone ==
    ASSUME \A g, h \in Handler : g = h
    PROVE  Spec => []NightWhileActive
<1>1. Init => RestartInv /\ KillInv /\ (faults = 0 => AutoInv)
  BY DEF Init, RestartInv, KillInv, AutoInv, Homewards, FreeHandler
<1>2. (faults = 0 => AutoInv) => NightWhileActive
  BY DEF AutoInv, NightWhileActive, Idle, Active, Offwards
<1>3. TypeOK /\ TypeOK' /\ RestartInv /\ [Next]_vars => RestartInv'
  BY RestartStep
<1>4. TypeOK /\ KillInv /\ [Next]_vars => KillInv'
  BY KillStep
<1>5. TypeOK /\ TypeOK' /\ KillInv /\ RestartInv /\ (faults = 0 => AutoInv) /\ [Next]_vars
         => (faults = 0 => AutoInv)'
  BY AutoStep
<1> QED
  BY <1>1, <1>2, <1>3, <1>4, <1>5, TypeCorrect, PTL DEF Spec
-----------------------------------------------------------------------------
(* The controller as a switch. Every step is one of ModeSwitch or changes    *)
(* nothing that ModeSwitch speaks of; four lemmas say which, by what a step  *)
(* does to the mode, to the place of the control thread and to late.         *)

Left == IF Active(rt) THEN MaxLate ELSE WritesToCome

LEMMA WritesBounded == WritesToCome \in 0..MaxLate
BY DEF WritesToCome, MaxLate

\* A write of the control thread, to a place from which fewer may come.
LEMMA WriteIsSwitchWrite ==
    ASSUME TypeOK, Up, Up', rt' = rt, file' = file,
           late' = IF rt.mode \in Passive THEN late + 1 ELSE late,
           WritesToCome' < WritesToCome, WritesToCome' \in 0..MaxLate
    PROVE  [Switch!Next]_Switch!vars
<1> USE WritesBounded DEF MaxLate
<1>1. CASE rt.mode \in Passive
  <2>1. Left = WritesToCome /\ Left' = WritesToCome'
    BY <1>1 DEF Left, Active
  <2>2. Left > 0 /\ Left' \in 0..(Left - 1)
    BY <2>1
  <2>3. Switch!Write
    BY <1>1, <2>2 DEF Switch!Write, Left
  <2> QED
    BY <2>3 DEF Switch!Next
<1>2. CASE rt.mode \notin Passive
  BY <1>2 DEF Switch!vars, Active, Up
<1> QED
  BY <1>1, <1>2

\* A step without a write, which in a passive mode leads nowhere more may come from.
LEMMA PassIsSwitchPass ==
    ASSUME Up, Up', rt'.mode = rt.mode, file'.mode = file.mode, late' = late,
           WritesToCome' \in 0..MaxLate,
           rt.mode \in Passive => WritesToCome' <= WritesToCome
    PROVE  [Switch!Next]_Switch!vars
<1> USE WritesBounded DEF MaxLate
<1>1. CASE rt.mode \in Passive
  <2>1. Left = WritesToCome /\ Left' = WritesToCome'
    BY <1>1 DEF Left, Active
  <2>2. Left' \in 0..Left
    BY <1>1, <2>1
  <2>3. Switch!PassOver
    BY <1>1, <2>2 DEF Switch!PassOver, Left
  <2> QED
    BY <2>3 DEF Switch!Next
<1>2. CASE rt.mode \notin Passive
  BY <1>2 DEF Switch!vars, Active, Up
<1> QED
  BY <1>1, <1>2

\* Spec implements ModeSwitch: of all steps only ApplyMode switches, only it and the
\* end of a cycle save, and a crash or a stop falls back on what is saved. With
\* it, what ModeSwitch promises holds for any handlers, endpoints and bounds.
THEOREM ControllerIsSwitch == Spec => ActsAsSwitch
<1>1. Init => Switch!Init
  BY DEF Init, Switch!Init, Active, Up, DefaultState, Passive
<1>2. TypeOK /\ TypeOK' /\ [Next]_vars => [Switch!Next]_Switch!vars
  <2> SUFFICES ASSUME TypeOK, TypeOK', [Next]_vars PROVE [Switch!Next]_Switch!vars
    OBVIOUS
  <2> USE DEF bounds, history
  <2>w. WritesToCome' \in 0..MaxLate
    BY DEF WritesToCome, MaxLate
  <2>1. CASE UNCHANGED <<rt, file, pc, late>>
    BY <2>1 DEF Switch!vars, Active, Up, WritesToCome
  <2>2. CASE BootCheck
    <3>1. /\ pc = "boot" /\ rt' = rt /\ file' = file /\ late' = late
          /\ pc' = IF rt.mode \in Passive THEN "bootclear" ELSE "bootz1"
      BY <2>2 DEF BootCheck
    <3>2. Up /\ Up'
      BY <3>1 DEF Up
    <3>3. rt.mode \in Passive => WritesToCome' <= WritesToCome
      BY <3>1 DEF WritesToCome
    <3> QED
      BY <2>w, <3>1, <3>2, <3>3, PassIsSwitchPass
  <2>3. ASSUME NEW out \in Outcome, BootZ1(out) PROVE [Switch!Next]_Switch!vars
    <3>1. pc = "bootz1" /\ rt' = rt /\ file' = file /\ pc' \in {"bootminflow", "bootclear"}
      BY <2>3 DEF BootZ1
    <3>2. late' = IF rt.mode \in Passive THEN late + 1 ELSE late
      BY <2>3 DEF BootZ1, ControlWrite
    <3>3. Up /\ Up' /\ WritesToCome' < WritesToCome
      BY <3>1 DEF WritesToCome, Up
    <3> QED
      BY <2>w, <3>1, <3>2, <3>3, WriteIsSwitchWrite
  <2>4. ASSUME NEW out \in Outcome, BootMinFlow(out) PROVE [Switch!Next]_Switch!vars
    <3>1. pc = "bootminflow" /\ rt' = rt /\ file' = file /\ pc' = "bootclear"
      BY <2>4 DEF BootMinFlow
    <3>2. late' = IF rt.mode \in Passive THEN late + 1 ELSE late
      BY <2>4 DEF BootMinFlow, ControlWrite
    <3>3. Up /\ Up' /\ WritesToCome' < WritesToCome
      BY <3>1 DEF WritesToCome, Up
    <3> QED
      BY <2>w, <3>1, <3>2, <3>3, WriteIsSwitchWrite
  <2>5. CASE BootClear
    <3>1. /\ pc = "bootclear" /\ pc' = "sleep" /\ file' = file /\ late' = late
          /\ rt'.mode = rt.mode
      BY <2>5 DEF BootClear, ClearTimerDedup, TypeOK, RuntimeState
    <3>2. Up /\ Up' /\ WritesToCome' <= WritesToCome
      BY <3>1 DEF WritesToCome, Up
    <3> QED
      BY <2>w, <3>1, <3>2, PassIsSwitchPass
  <2>6. ASSUME NEW i \in Inputs, BeginOuter(i) PROVE [Switch!Next]_Switch!vars
    <3>1. /\ pc = "sleep" /\ rt' = rt /\ file' = file /\ late' = late
          /\ pc' = IF rt.mode \in Passive THEN "save" ELSE "timer"
      BY <2>6 DEF BeginOuter
    <3>2. Up /\ Up' /\ (rt.mode \in Passive => WritesToCome' <= WritesToCome)
      BY <3>1 DEF WritesToCome, Up
    <3> QED
      BY <2>w, <3>1, <3>2, PassIsSwitchPass
  <2>7. CASE TimerUnchanged \/ NoLaunch \/ HeatBlocked \/ CoastAgain \/ HeatOn
             \/ \E target \in BOOLEAN : HeatDuringDhw(target) \/ CurveHeld(target)
    <3>1. /\ rt' = rt /\ file' = file /\ late' = late
          /\ \/ pc = "timer" /\ pc' = "plan"
             \/ pc = "plan" /\ pc' = "heat"
             \/ pc = "heat" /\ pc' \in {"curve", "save"}
             \/ pc = "curve" /\ pc' = "save"
      BY <2>7 DEF TimerUnchanged, NoLaunch, HeatBlocked, CoastAgain, HeatOn, HeatDuringDhw,
                  CurveHeld, Goto, NoWrite
    <3>2. Up /\ Up' /\ WritesToCome' <= WritesToCome
      BY <3>1 DEF WritesToCome, Up
    <3> QED
      BY <2>w, <3>1, <3>2, PassIsSwitchPass
  <2>8. ASSUME NEW d \in Day, NEW morning \in BOOLEAN, NEW out \in Outcome,
               SyncTimer(d, morning, out)
        PROVE  [Switch!Next]_Switch!vars
    <3>1. pc = "timer" /\ rt' = rt /\ file' = file /\ pc' \in {"plan", "inner"}
      BY <2>8 DEF SyncTimer, Goto, Abort
    <3>2. late' = IF rt.mode \in Passive THEN late + 1 ELSE late
      BY <2>8 DEF SyncTimer, ControlWrite
    <3>3. Up /\ Up' /\ WritesToCome' < WritesToCome
      BY <3>1 DEF WritesToCome, Up
    <3> QED
      BY <2>w, <3>1, <3>2, <3>3, WriteIsSwitchWrite
  <2>9. ASSUME NEW out \in Outcome, LaunchDhw(out) PROVE [Switch!Next]_Switch!vars
    <3>1. pc = "plan" /\ rt' = rt /\ file' = file /\ pc' \in {"save", "inner"}
      BY <2>9 DEF LaunchDhw, Goto, Abort
    <3>2. late' = IF rt.mode \in Passive THEN late + 1 ELSE late
      BY <2>9 DEF LaunchDhw, ControlWrite
    <3>3. Up /\ Up' /\ WritesToCome' < WritesToCome
      BY <3>1 DEF WritesToCome, Up
    <3> QED
      BY <2>w, <3>1, <3>2, <3>3, WriteIsSwitchWrite
  <2>10. ASSUME NEW out \in Outcome, CoastBegin(out) \/ CoastEnd(out)
         PROVE  [Switch!Next]_Switch!vars
    <3>1. pc = "heat" /\ rt' = rt /\ file' = file /\ pc' \in {"save", "curve", "inner"}
      BY <2>10 DEF CoastBegin, CoastEnd, Goto, Abort
    <3>2. late' = IF rt.mode \in Passive THEN late + 1 ELSE late
      BY <2>10 DEF CoastBegin, CoastEnd, ControlWrite
    <3>3. Up /\ Up' /\ WritesToCome' < WritesToCome
      BY <3>1 DEF WritesToCome, Up
    <3> QED
      BY <2>w, <3>1, <3>2, <3>3, WriteIsSwitchWrite
  <2>11. ASSUME NEW target \in BOOLEAN, NEW out \in Outcome, CurveWritten(target, out)
         PROVE  [Switch!Next]_Switch!vars
    <3>1. pc = "curve" /\ rt' = rt /\ file' = file /\ pc' \in {"save", "inner"}
      BY <2>11 DEF CurveWritten, Goto, Abort
    <3>2. late' = IF rt.mode \in Passive THEN late + 1 ELSE late
      BY <2>11 DEF CurveWritten, ControlWrite
    <3>3. Up /\ Up' /\ WritesToCome' < WritesToCome
      BY <3>1 DEF WritesToCome, Up
    <3> QED
      BY <2>w, <3>1, <3>2, <3>3, WriteIsSwitchWrite
  <2>12. ASSUME NEW ok \in BOOLEAN, SaveOuter(ok) PROVE [Switch!Next]_Switch!vars
    <3>1. /\ pc = "save" /\ pc' = "inner" /\ late' = late /\ rt'.mode = rt.mode
          /\ file' = IF ok THEN rt' ELSE file
      BY <2>12 DEF SaveOuter, SaveState, Merged, TypeOK, RuntimeState
    <3>2. Up /\ Up' /\ WritesToCome = 0 /\ WritesToCome' = 0
      BY <3>1 DEF WritesToCome, Up
    <3>3. Left' = Left /\ Active(rt)' = Active(rt)
      BY <3>1, <3>2 DEF Left, Active
    <3>4. CASE ok
      <4>1. Switch!Save
        BY <3>1, <3>2, <3>3, <3>4 DEF Switch!Save, Left
      <4> QED
        BY <4>1 DEF Switch!Next
    <3>5. CASE ~ok
      BY <3>1, <3>2, <3>3, <3>5 DEF Switch!vars, Left
    <3> QED
      BY <3>4, <3>5
  <2>13. CASE BeginInner \/ InnerHeld
    <3>1. /\ rt' = rt /\ file' = file /\ late' = late
          /\ \/ pc \in {"sleep", "inner"} /\ (pc' = "sleep" \/ rt.mode \notin Passive)
             \/ pc = "innerwrite" /\ pc' = "sleep"
          /\ pc' \in {"sleep", "innerwrite"}
      BY <2>13 DEF BeginInner, InnerHeld
    <3>2. Up /\ Up' /\ (rt.mode \in Passive => WritesToCome' <= WritesToCome)
      BY <3>1 DEF WritesToCome, Up
    <3> QED
      BY <2>w, <3>1, <3>2, PassIsSwitchPass
  <2>14. ASSUME NEW out \in Outcome, InnerWrite(out) PROVE [Switch!Next]_Switch!vars
    <3>1. pc = "innerwrite" /\ rt' = rt /\ file' = file /\ pc' = "sleep"
      BY <2>14 DEF InnerWrite
    <3>2. late' = IF rt.mode \in Passive THEN late + 1 ELSE late
      BY <2>14 DEF InnerWrite, ControlWrite
    <3>3. Up /\ Up' /\ WritesToCome' < WritesToCome
      BY <3>1 DEF WritesToCome, Up
    <3> QED
      BY <2>w, <3>1, <3>2, <3>3, WriteIsSwitchWrite
  <2>15. ASSUME NEW h \in Handler, NEW ok \in BOOLEAN, ApplyMode(h, ok)
         PROVE  [Switch!Next]_Switch!vars
    <3>1. hs[h].want \in Mode
      BY HandlerTypes
    <3>2. rt'.mode = hs[h].want
      BY <2>15 DEF ApplyMode, WithMode, ClearTimerDedup, TypeOK, RuntimeState
    <3>3. /\ pc' = pc /\ late' = (IF hs[h].want \in Passive THEN late ELSE 0)
          /\ file'.mode = IF ok THEN hs[h].want ELSE file.mode
          /\ Up /\ Up'
      BY <2>15, <3>2 DEF ApplyMode, SaveState, At, Up
    <3>4. WritesToCome' = WritesToCome
      BY <3>3 DEF WritesToCome
    <3>5. /\ Left' = IF hs[h].want \in Passive THEN WritesToCome ELSE MaxLate
          /\ hs[h].want \in Passive => Left' \in 0..Left
      BY <3>2, <3>4, WritesBounded DEF Left, Active, MaxLate
    <3>6. Switch!Switch(hs[h].want)
      BY <3>2, <3>3, <3>5 DEF Switch!Switch, Left
    <3> QED
      BY <3>1, <3>6 DEF Switch!Next
  <2>16. CASE Crash \/ StopKill
    <3>1. pc' = "down" /\ rt' = file /\ file' = file /\ late' = late
      BY <2>16 DEF Crash, StopKill, GoDown
    <3>2. ~Up' /\ WritesToCome' = 0
      BY <3>1 DEF Up, WritesToCome
    <3>3. Left' = IF file.mode \in Passive THEN 0 ELSE MaxLate
      BY <3>1, <3>2 DEF Left, Active
    <3>4. Switch!GoDown
      BY <3>1, <3>2, <3>3 DEF Switch!GoDown, Left
    <3> QED
      BY <3>4 DEF Switch!Next
  <2>17. CASE Start
    <3>1. pc = "down" /\ pc' = "boot" /\ rt' = rt /\ file' = file /\ late' = 0
      BY <2>17 DEF Start
    <3>2. ~Up /\ Up' /\ WritesToCome' = WritesToCome
      BY <3>1 DEF Up, WritesToCome
    <3>3. Switch!Start
      BY <3>1, <3>2 DEF Switch!Start, Active
    <3> QED
      BY <3>3 DEF Switch!Next
  <2>18. \/ UNCHANGED <<rt, file, pc, late>>
         \/ \E h \in Handler, ok \in BOOLEAN : ApplyMode(h, ok)
         \/ Crash \/ StopKill \/ Start
         \/ BootCheck \/ BootClear
         \/ \E out \in Outcome : BootZ1(out) \/ BootMinFlow(out)
         \/ \E i \in Inputs : BeginOuter(i)
         \/ TimerUnchanged \/ NoLaunch \/ HeatBlocked \/ CoastAgain \/ HeatOn
         \/ \E target \in BOOLEAN : HeatDuringDhw(target) \/ CurveHeld(target)
         \/ \E d \in Day, morning \in BOOLEAN, out \in Outcome : SyncTimer(d, morning, out)
         \/ \E out \in Outcome : LaunchDhw(out) \/ CoastBegin(out) \/ CoastEnd(out)
         \/ \E target \in BOOLEAN, out \in Outcome : CurveWritten(target, out)
         \/ \E ok \in BOOLEAN : SaveOuter(ok)
         \/ BeginInner \/ InnerHeld
         \/ \E out \in Outcome : InnerWrite(out)
    BY StepCases
       DEF vars, RequestMode, RequestKill, KillRestore, KillSetMode, ReinitZ1,
           ReinitMinFlow, Stop, StopRestore, NextSlot
  <2> QED
    BY <2>1, <2>2, <2>3, <2>4, <2>5, <2>6, <2>7, <2>8, <2>9, <2>10, <2>11, <2>12, <2>13,
       <2>14, <2>15, <2>16, <2>17, <2>18
<1> QED
  BY <1>1, <1>2, TypeCorrect, PTL DEF Spec, ActsAsSwitch, Switch!Spec
=============================================================================
