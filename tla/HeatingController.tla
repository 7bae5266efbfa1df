-------------------------- MODULE HeatingController --------------------------
(***************************************************************************)
(* The adaptive heating controller (src/bin/adaptive-heating-mvp.rs): the  *)
(* control thread, the HTTP handlers and the restore-baseline command, the *)
(* RuntimeState they share behind one mutex, its copy in the state file,   *)
(* and the VRC 700 registers they all write over eBUS.                     *)
(*                                                                         *)
(* The mutex is held only while the state is copied, merged or edited, and *)
(* never across an eBUS command; so one step here is one critical section  *)
(* or one eBUS command, and everything in between may interleave.          *)
(* Temperatures, curves and flow targets are abstracted to what control    *)
(* depends on: whether a flow target is set, and whether the curve         *)
(* register holds the VRC 700 baseline.                                    *)
(***************************************************************************)
EXTENDS Integers, FiniteSets

CONSTANTS
    Handler,      \* HTTP requests that may be served at the same time
    Request,      \* the endpoints clients call in this instance
    NDays,        \* weekdays that have a HwcTimer register
    MaxSlot,      \* DHW scheduling slots of the instance, 1 the earliest
    Outcome,      \* what may happen to one eBUS write command
    MaxRequests,  \* bound on HTTP requests
    MaxFaults,    \* bound on eBUS writes and saves that go wrong
    MaxCrashes,   \* bound on crashes of the service
    MaxStops      \* bound on stops of the service

Mode == {"Occupied", "ShortAbsence", "AwayUntil", "Disabled", "MonitorOnly"}
Passive == {"Disabled", "MonitorOnly"}
ModeRequest == Mode \X {"mode"}
Kill == <<"Disabled", "kill">>

(* What a write command comes to: "done", applied and acknowledged;        *)
(* "refused", ebusd answers ERR: and nothing is applied; "cut", nothing is *)
(* applied and the connection closes, which reads as an empty reply;       *)
(* "dropped", no connection; "lost", applied, but the reply times out.     *)
AnyOutcome == {"done", "refused", "cut", "dropped", "lost"}

ASSUME ConstantsAssumption ==
    /\ Request \subseteq (ModeRequest \union {Kill})
    /\ NDays \in Nat /\ MaxSlot \in Nat
    /\ Outcome \subseteq AnyOutcome
    /\ MaxRequests \in Nat /\ MaxFaults \in Nat /\ MaxCrashes \in Nat /\ MaxStops \in Nat

Day == 1..NDays
Slot == 1..MaxSlot

\* 0 stands for None in the weekday and slot fields.
RuntimeState == [ mode: Mode,
                  target_flow_c: BOOLEAN,          \* Some / None
                  heating_off: BOOLEAN,
                  timer_weekday: Day \union {0},
                  timer_morning: BOOLEAN,
                  scheduler_slot: Slot \union {0} ]

DefaultState == [ mode |-> "Occupied", target_flow_c |-> FALSE,
                  heating_off |-> FALSE, timer_weekday |-> 0,
                  timer_morning |-> FALSE, scheduler_slot |-> 0 ]

Registers == [ Z1OpMode: {"auto", "night", "off"},
               Hc1HeatCurve: {"baseline", "adapted"},
               MinFlow: {19, 20},
               HwcSFMode: {"auto", "load"},
               timer: [Day -> BOOLEAN] ]           \* morning window kept

Baseline == [ Z1OpMode |-> "auto", Hc1HeatCurve |-> "baseline", MinFlow |-> 20,
              HwcSFMode |-> "auto", timer |-> [d \in Day |-> TRUE] ]

(* What an outer cycle reads at its start: DHW running, a defrost or a     *)
(* missing core sensor, the overnight coast conditions, and the slot whose *)
(* DHW charge plan_dhw_schedule wants launched (0: none). Readings that no *)
(* branch looks at are left at FALSE or 0.                                 *)
Sensed == [ dhw: BOOLEAN, blocked: BOOLEAN, coast: BOOLEAN,
            launch: Slot \union {0} ]
Inputs == { i \in Sensed : /\ i.dhw => i.launch = 0
                           /\ i.dhw \/ i.blocked => ~i.coast }
NoInputs == [ dhw |-> FALSE, blocked |-> FALSE, coast |-> FALSE, launch |-> 0 ]

VARIABLES
    vrc,       \* the VRC 700 registers
    rt,        \* Arc<Mutex<RuntimeState>>
    file,      \* the state file
    pc,        \* where the control thread is
    loc, inp,  \* the cycle's clone of the state, and its sensor sweep
    hs,        \* the HTTP handlers
    cli,       \* the restore-baseline command: 0, or its next write
    now,       \* the DHW slot of the current time, 0 before the first
    requests, faults, crashes, stops,    \* what has been used of the bounds
    late,      \* history: writes by the control thread since it was
               \* told to be passive
    since,     \* history: modes applied since the last acknowledged one
    launches   \* history: load commands acknowledged per slot

bounds == <<requests, faults, crashes, stops>>
history == <<late, since, launches>>
vars == <<vrc, rt, file, pc, loc, inp, hs, cli, now, bounds, history>>

HandlerState == [ pc: {"free", "read", "restore", "z1", "minflow", "apply"},
                  want: Mode, activating: BOOLEAN, next: 1..(4 + NDays) ]
FreeHandler == [ pc |-> "free", want |-> "Occupied", activating |-> FALSE, next |-> 1 ]

ControlPc == { "down", "boot", "bootz1", "bootminflow", "bootclear", "sleep",
               "timer", "plan", "heat", "curve", "save", "inner", "innerwrite" }

TypeOK ==
    /\ vrc \in Registers
    /\ rt \in RuntimeState /\ file \in RuntimeState /\ loc \in RuntimeState
    /\ pc \in ControlPc
    /\ inp \in Sensed
    /\ hs \in [Handler -> HandlerState]
    /\ cli \in 0..(5 + NDays)
    /\ now \in Slot \union {0}
    /\ requests \in 0..MaxRequests
    /\ faults \in 0..MaxFaults
    /\ crashes \in 0..MaxCrashes
    /\ stops \in 0..MaxStops
    /\ late \in Nat
    /\ since \in SUBSET Mode
    /\ launches \in [Slot -> Nat]

Init ==
    /\ vrc = Baseline
    /\ rt = DefaultState /\ file = DefaultState /\ loc = DefaultState
    /\ pc = "boot"
    /\ inp = NoInputs
    /\ hs = [h \in Handler |-> FreeHandler]
    /\ cli = 0
    /\ now = 0
    /\ requests = 0 /\ faults = 0 /\ crashes = 0 /\ stops = 0
    /\ late = 0
    /\ since = {"Occupied"}
    /\ launches = [s \in Slot |-> 0]

-----------------------------------------------------------------------------
(* Shared pieces.                                                          *)

\* One write command: the registers become target unless the command is lost
\* on the way, and the bound on faults pays for anything but "done".
WriteRegister(target, out) ==
    /\ out \in Outcome
    /\ vrc' = IF out \in {"done", "lost"} THEN target ELSE vrc
    /\ faults' = faults + (IF out = "done" THEN 0 ELSE 1)
    /\ faults' <= MaxFaults

NoWrite == UNCHANGED <<vrc, faults, late>>

\* ebusd_write returned Ok: there was a reply, or an orderly end of the stream.
ReturnedOk(out) == out \in {"done", "refused", "cut"}

\* The control thread writes: count it if the mode in force forbids writing.
ControlWrite(target, out) ==
    /\ WriteRegister(target, out)
    /\ late' = IF rt.mode \in Passive THEN late + 1 ELSE late

\* save_runtime_state(s): the file takes s, or the save fails.
SaveState(s, ok) ==
    /\ file' = IF ok THEN s ELSE file
    /\ faults' = faults + (IF ok THEN 0 ELSE 1)
    /\ faults' <= MaxFaults

ClearTimerDedup(s) == [s EXCEPT !.timer_weekday = 0, !.timer_morning = FALSE]

\* The k-th write of restore_baseline.
RestoreTarget(k) ==
    CASE k = 1 -> [vrc EXCEPT !.Hc1HeatCurve = "baseline"]
      [] k = 2 -> [vrc EXCEPT !.Z1OpMode = "auto"]
      [] k = 3 -> [vrc EXCEPT !.MinFlow = 20]
      [] k = 4 -> [vrc EXCEPT !.HwcSFMode = "auto"]
      [] OTHER -> [vrc EXCEPT !.timer = [@ EXCEPT ![k - 4] = TRUE]]
LastRestore == 4 + NDays

-----------------------------------------------------------------------------
(* The control thread starts: control_loop before its loop.                *)

\* Mutant: control starts without putting the registers in a known state.
BootCheckSkipsInit ==
    /\ pc = "boot"
    /\ pc' = "bootclear"
    /\ UNCHANGED <<vrc, rt, file, loc, inp, hs, cli, now, bounds, history>>

\* Mutant: start-up writes its registers in any mode.
BootCheckAnyMode ==
    /\ pc = "boot"
    /\ pc' = "bootz1"
    /\ UNCHANGED <<vrc, rt, file, loc, inp, hs, cli, now, bounds, history>>

BootCheck ==
    /\ pc = "boot"
    /\ pc' = IF rt.mode \in Passive THEN "bootclear" ELSE "bootz1"
    /\ UNCHANGED <<vrc, rt, file, loc, inp, hs, cli, now, bounds, history>>

BootZ1(out) ==
    /\ pc = "bootz1"
    /\ ControlWrite([vrc EXCEPT !.Z1OpMode = "night"], out)
    /\ pc' = IF ReturnedOk(out) THEN "bootminflow" ELSE "bootclear"
    /\ UNCHANGED <<rt, file, loc, inp, hs, cli, now, requests, crashes, stops, since, launches>>

BootMinFlow(out) ==
    /\ pc = "bootminflow"
    /\ ControlWrite([vrc EXCEPT !.MinFlow = 19], out)
    /\ pc' = "bootclear"
    /\ UNCHANGED <<rt, file, loc, inp, hs, cli, now, requests, crashes, stops, since, launches>>

BootClear ==
    /\ pc = "bootclear"
    /\ rt' = ClearTimerDedup(rt)
    /\ pc' = "sleep"
    /\ UNCHANGED <<vrc, file, loc, inp, hs, cli, now, bounds, history>>

-----------------------------------------------------------------------------
(* The outer cycle: run_outer_cycle. It works on a clone of the state and  *)
(* merges five fields of it back at the end; an eBUS command that fails    *)
(* ends the cycle there and then, clone and all.                           *)

\* The cycle returns early with an error: the clone is dropped.
Abort == pc' = "inner" /\ loc' = DefaultState /\ inp' = NoInputs
Goto(next, s) ==
    /\ pc' = next /\ loc' = s
    /\ inp' = CASE next = "save" -> NoInputs
                [] next \in {"heat", "curve"} -> [inp EXCEPT !.launch = 0]
                [] OTHER -> inp

BeginOuter(i) ==
    /\ pc = "sleep"
    /\ i.launch \in {0, now}
    /\ loc' = rt
    /\ inp' = i
    /\ pc' = IF rt.mode \in Passive THEN "save" ELSE "timer"
    /\ UNCHANGED <<vrc, rt, file, hs, cli, now, bounds, history>>

\* sync_morning_dhw_timer with no T1 reading, or with the timer believed set.
TimerUnchanged ==
    /\ pc = "timer"
    /\ Goto("plan", loc)
    /\ NoWrite
    /\ UNCHANGED <<rt, file, hs, cli, now, requests, crashes, stops, since, launches>>

\* Mutant: a refused write counts as written.
SyncTimerIgnoresRefusal(d, morning, out) ==
    /\ pc = "timer"
    /\ ~(loc.timer_weekday = d /\ loc.timer_morning = morning)
    /\ ControlWrite([vrc EXCEPT !.timer = [@ EXCEPT ![d] = morning]], out)
    /\ IF ~ReturnedOk(out)
       THEN Abort
       ELSE Goto("plan", [loc EXCEPT !.timer_weekday = d, !.timer_morning = morning])
    /\ UNCHANGED <<rt, file, hs, cli, now, requests, crashes, stops, since, launches>>

\* sync_morning_dhw_timer rewrites the timer of weekday d.
SyncTimer(d, morning, out) ==
    /\ pc = "timer"
    /\ ~(loc.timer_weekday = d /\ loc.timer_morning = morning)
    /\ ControlWrite([vrc EXCEPT !.timer = [@ EXCEPT ![d] = morning]], out)
    /\ IF ~ReturnedOk(out)
       THEN Abort
       ELSE Goto("plan", IF out = "refused"
                         THEN ClearTimerDedup(loc)
                         ELSE [loc EXCEPT !.timer_weekday = d, !.timer_morning = morning])
    /\ UNCHANGED <<rt, file, hs, cli, now, requests, crashes, stops, since, launches>>

\* Mutant: the slot already launched is not looked at.
LaunchWantedAgain == ~inp.dhw /\ inp.launch # 0

LaunchWanted == ~inp.dhw /\ inp.launch # 0 /\ inp.launch # loc.scheduler_slot

NoLaunch ==
    /\ pc = "plan"
    /\ ~LaunchWanted
    /\ Goto("heat", loc)
    /\ NoWrite
    /\ UNCHANGED <<rt, file, hs, cli, now, requests, crashes, stops, since, launches>>

\* A launch makes the action differ from "hold": no heating control this time.
LaunchDhw(out) ==
    /\ pc = "plan"
    /\ LaunchWanted
    /\ ControlWrite([vrc EXCEPT !.HwcSFMode = "load"], out)
    /\ launches' = IF out \in {"done", "lost"}
                   THEN [launches EXCEPT ![inp.launch] = @ + 1]
                   ELSE launches
    /\ IF ReturnedOk(out)
       THEN Goto("save", [loc EXCEPT !.scheduler_slot = inp.launch])
       ELSE Abort
    /\ UNCHANGED <<rt, file, hs, cli, now, requests, crashes, stops, since>>

HeatBlocked ==
    /\ pc = "heat"
    /\ inp.blocked
    /\ Goto("save", loc)
    /\ NoWrite
    /\ UNCHANGED <<rt, file, hs, cli, now, requests, crashes, stops, since, launches>>

\* Occupied while DHW runs: only the flow target is kept up to date.
HeatDuringDhw(target) ==
    /\ pc = "heat" /\ ~inp.blocked
    /\ loc.mode = "Occupied" /\ inp.dhw
    /\ Goto("save", [loc EXCEPT !.target_flow_c = target])
    /\ NoWrite
    /\ UNCHANGED <<rt, file, hs, cli, now, requests, crashes, stops, since, launches>>

Coasting == loc.mode = "Occupied" /\ ~inp.dhw /\ inp.coast

CoastAgain ==
    /\ pc = "heat" /\ ~inp.blocked
    /\ Coasting /\ loc.heating_off
    /\ Goto("save", [loc EXCEPT !.target_flow_c = FALSE])
    /\ NoWrite
    /\ UNCHANGED <<rt, file, hs, cli, now, requests, crashes, stops, since, launches>>

CoastBegin(out) ==
    /\ pc = "heat" /\ ~inp.blocked
    /\ Coasting /\ ~loc.heating_off
    /\ ControlWrite([vrc EXCEPT !.Z1OpMode = "off"], out)
    /\ IF ReturnedOk(out)
       THEN Goto("save", [loc EXCEPT !.target_flow_c = FALSE, !.heating_off = TRUE])
       ELSE Abort
    /\ UNCHANGED <<rt, file, hs, cli, now, requests, crashes, stops, since, launches>>

RestoreNeeded == loc.mode = "Occupied" /\ ~inp.dhw /\ ~inp.coast /\ loc.heating_off

CoastEnd(out) ==
    /\ pc = "heat" /\ ~inp.blocked
    /\ RestoreNeeded
    /\ ControlWrite([vrc EXCEPT !.Z1OpMode = "night"], out)
    /\ IF ReturnedOk(out) THEN Goto("curve", [loc EXCEPT !.heating_off = FALSE]) ELSE Abort
    /\ UNCHANGED <<rt, file, hs, cli, now, requests, crashes, stops, since, launches>>

\* Occupied and already on, or a setback mode: straight to the curve.
HeatOn ==
    /\ pc = "heat" /\ ~inp.blocked
    /\ loc.mode = "Occupied" => ~inp.dhw /\ ~inp.coast /\ ~loc.heating_off
    /\ Goto("curve", loc)
    /\ NoWrite
    /\ UNCHANGED <<rt, file, hs, cli, now, requests, crashes, stops, since, launches>>

\* The flow target a cycle may leave: the model's when Occupied (the old one if
\* the model has no answer), none for a setback, either on the way home.
NextTarget == IF loc.mode = "ShortAbsence" THEN {FALSE} ELSE BOOLEAN

CurveHeld(target) ==
    /\ pc = "curve"
    /\ Goto("save", [loc EXCEPT !.target_flow_c = target])
    /\ NoWrite
    /\ UNCHANGED <<rt, file, hs, cli, now, requests, crashes, stops, since, launches>>

CurveWritten(target, out) ==
    /\ pc = "curve"
    /\ ControlWrite([vrc EXCEPT !.Hc1HeatCurve = "adapted"], out)
    /\ IF ReturnedOk(out) THEN Goto("save", [loc EXCEPT !.target_flow_c = target]) ELSE Abort
    /\ UNCHANGED <<rt, file, hs, cli, now, requests, crashes, stops, since, launches>>

\* Mutant: the whole clone replaces the shared state.
MergedWhole == loc

\* Mutant: heating_off stays behind in the clone.
MergedForgetsOff == [rt EXCEPT !.target_flow_c = loc.target_flow_c,
                               !.timer_weekday = loc.timer_weekday,
                               !.timer_morning = loc.timer_morning,
                               !.scheduler_slot = loc.scheduler_slot]

\* The fields the cycle owns go back under the lock; the mode is the guard's.
Merged == [rt EXCEPT !.target_flow_c = loc.target_flow_c,
                     !.heating_off = loc.heating_off,
                     !.timer_weekday = loc.timer_weekday,
                     !.timer_morning = loc.timer_morning,
                     !.scheduler_slot = loc.scheduler_slot]

SaveOuter(ok) ==
    /\ pc = "save"
    /\ rt' = Merged
    /\ SaveState(rt', ok)
    /\ pc' = "inner" /\ loc' = DefaultState /\ inp' = NoInputs
    /\ UNCHANGED <<vrc, hs, cli, now, requests, crashes, stops, history>>

-----------------------------------------------------------------------------
(* The inner cycle: run_inner_cycle, after an outer cycle or on its own.   *)

\* Mutant: the inner cycle follows its flow target in any mode.
BeginInnerAnyMode ==
    /\ pc \in {"sleep", "inner"}
    /\ IF rt.target_flow_c
       THEN pc' = "innerwrite" /\ loc' = rt
       ELSE pc' = "sleep" /\ loc' = DefaultState
    /\ UNCHANGED <<vrc, rt, file, inp, hs, cli, now, bounds, history>>

BeginInner ==
    /\ pc \in {"sleep", "inner"}
    /\ IF rt.target_flow_c /\ rt.mode \notin Passive
       THEN pc' = "innerwrite" /\ loc' = rt
       ELSE pc' = "sleep" /\ loc' = DefaultState
    /\ UNCHANGED <<vrc, rt, file, inp, hs, cli, now, bounds, history>>

\* DHW, defrost, standby, a missing reading or an error within the deadband.
InnerHeld ==
    /\ pc = "innerwrite"
    /\ pc' = "sleep" /\ loc' = DefaultState
    /\ UNCHANGED <<vrc, rt, file, inp, hs, cli, now, bounds, history>>

InnerWrite(out) ==
    /\ pc = "innerwrite"
    /\ ControlWrite([vrc EXCEPT !.Hc1HeatCurve = "adapted"], out)
    /\ pc' = "sleep" /\ loc' = DefaultState
    /\ UNCHANGED <<rt, file, inp, hs, cli, now, requests, crashes, stops, since, launches>>

-----------------------------------------------------------------------------
(* The HTTP handlers: set_mode and api_kill.                               *)

Up == pc # "down"
SetHandler(h, s) == hs' = [hs EXCEPT ![h] = s]
At(h, p) == Up /\ hs[h].pc = p

\* Mutant: a resume that writes no registers.
ReadModeNeverActivates(h, want) ==
    SetHandler(h, [ pc |-> "apply", want |-> want, activating |-> FALSE, next |-> 1 ])

\* set_mode reads the previous mode, lets go of the lock, and decides whether
\* it is activating from what it read.
ReadMode(h, want) ==
    LET activating == rt.mode \in Passive /\ want \notin Passive
    IN  SetHandler(h, [ pc |-> IF activating THEN "z1" ELSE "apply", want |-> want,
                        activating |-> activating, next |-> 1 ])

Accept(h) == At(h, "free") /\ requests < MaxRequests /\ requests' = requests + 1

RequestMode(h, r) ==
    /\ Accept(h)
    /\ r \in Request \ {Kill}
    /\ ReadMode(h, r[1])
    /\ UNCHANGED <<vrc, rt, file, pc, loc, inp, cli, now, faults, crashes, stops, history>>

\* /kill decides from the mode whether it resumes or restores.
RequestKill(h) ==
    /\ Accept(h)
    /\ Kill \in Request
    /\ SetHandler(h, IF rt.mode = "Disabled"
                     THEN [FreeHandler EXCEPT !.pc = "read", !.want = "Occupied"]
                     ELSE [FreeHandler EXCEPT !.pc = "restore", !.want = "Disabled"])
    /\ UNCHANGED <<vrc, rt, file, pc, loc, inp, cli, now, faults, crashes, stops, history>>

\* Mutant: an error of restore_baseline ends the request.
KillRestoreGivesUp(h, out) ==
    /\ At(h, "restore")
    /\ WriteRegister(RestoreTarget(hs[h].next), out)
    /\ SetHandler(h, IF ~ReturnedOk(out) THEN FreeHandler
                     ELSE IF hs[h].next < LastRestore
                     THEN [hs[h] EXCEPT !.next = @ + 1]
                     ELSE [hs[h] EXCEPT !.pc = "read", !.next = 1])
    /\ UNCHANGED <<rt, file, pc, loc, inp, cli, now, requests, crashes, stops, history>>

\* restore_baseline stops at its first error; api_kill goes on to set_mode.
KillRestore(h, out) ==
    /\ At(h, "restore")
    /\ WriteRegister(RestoreTarget(hs[h].next), out)
    /\ SetHandler(h, IF ReturnedOk(out) /\ hs[h].next < LastRestore
                     THEN [hs[h] EXCEPT !.next = @ + 1]
                     ELSE [hs[h] EXCEPT !.pc = "read", !.next = 1])
    /\ UNCHANGED <<rt, file, pc, loc, inp, cli, now, requests, crashes, stops, history>>

KillSetMode(h) ==
    /\ At(h, "read")
    /\ ReadMode(h, hs[h].want)
    /\ UNCHANGED <<vrc, rt, file, pc, loc, inp, cli, now, bounds, history>>

\* reinitialize_ebus; its errors are logged and set_mode carries on.
ReinitZ1(h, out) ==
    /\ At(h, "z1")
    /\ WriteRegister([vrc EXCEPT !.Z1OpMode = "night"], out)
    /\ SetHandler(h, [hs[h] EXCEPT !.pc = IF ReturnedOk(out) THEN "minflow" ELSE "apply"])
    /\ UNCHANGED <<rt, file, pc, loc, inp, cli, now, requests, crashes, stops, history>>

ReinitMinFlow(h, out) ==
    /\ At(h, "minflow")
    /\ WriteRegister([vrc EXCEPT !.MinFlow = 19], out)
    /\ SetHandler(h, [hs[h] EXCEPT !.pc = "apply"])
    /\ UNCHANGED <<rt, file, pc, loc, inp, cli, now, requests, crashes, stops, history>>

\* The second critical section of set_mode.
WithMode(h) ==
    LET s == [rt EXCEPT !.mode = hs[h].want]
    IN  IF hs[h].activating THEN ClearTimerDedup(s) ELSE s

ApplyMode(h, ok) ==
    /\ At(h, "apply")
    /\ rt' = WithMode(h)
    /\ SaveState(rt', ok)
    /\ SetHandler(h, FreeHandler)
    /\ late' = IF hs[h].want \in Passive THEN late ELSE 0
    /\ since' = (IF ok THEN {} ELSE since) \union {hs[h].want}
    /\ UNCHANGED <<vrc, pc, loc, inp, cli, now, requests, crashes, stops, launches>>

-----------------------------------------------------------------------------
(* The service manager: a crash, a stop (ExecStop runs restore-baseline in *)
(* a process of its own while the service still runs, then kills it) and a *)
(* start, which reads the state file. External to the program.             *)

GoDown ==
    /\ pc' = "down"
    /\ rt' = file /\ loc' = DefaultState /\ inp' = NoInputs
    /\ hs' = [h \in Handler |-> FreeHandler]

Crash ==
    /\ Up /\ crashes < MaxCrashes
    /\ GoDown
    /\ crashes' = crashes + 1
    /\ UNCHANGED <<vrc, file, cli, now, requests, faults, stops, history>>

Stop ==
    /\ Up /\ cli = 0 /\ stops < MaxStops
    /\ cli' = 1
    /\ stops' = stops + 1
    /\ UNCHANGED <<vrc, rt, file, pc, loc, inp, hs, now, requests, faults, crashes, history>>

StopRestore(out) ==
    /\ cli \in 1..LastRestore
    /\ WriteRegister(RestoreTarget(cli), out)
    /\ cli' = IF ReturnedOk(out) THEN cli + 1 ELSE LastRestore + 1
    /\ UNCHANGED <<rt, file, pc, loc, inp, hs, now, requests, crashes, stops, history>>

StopKill ==
    /\ cli = LastRestore + 1
    /\ GoDown
    /\ cli' = 0
    /\ UNCHANGED <<vrc, file, now, bounds, history>>

Start ==
    /\ pc = "down" /\ cli = 0
    /\ pc' = "boot"
    /\ late' = 0
    /\ UNCHANGED <<vrc, rt, file, loc, inp, hs, cli, now, bounds, since, launches>>

NextSlot ==
    /\ now < MaxSlot
    /\ now' = now + 1
    /\ UNCHANGED <<vrc, rt, file, pc, loc, inp, hs, cli, bounds, history>>

-----------------------------------------------------------------------------
Boot == BootCheck \/ BootClear \/ \E out \in Outcome : BootZ1(out) \/ BootMinFlow(out)

Outer ==
    \/ TimerUnchanged \/ NoLaunch \/ HeatBlocked \/ CoastAgain \/ HeatOn
    \/ \E d \in Day, morning \in BOOLEAN, out \in Outcome : SyncTimer(d, morning, out)
    \/ \E out \in Outcome : LaunchDhw(out) \/ CoastBegin(out) \/ CoastEnd(out)
    \/ \E target \in BOOLEAN : HeatDuringDhw(target)
    \/ \E target \in NextTarget :
          CurveHeld(target) \/ \E out \in Outcome : CurveWritten(target, out)
    \/ \E ok \in BOOLEAN : SaveOuter(ok)

Inner == BeginInner \/ InnerHeld \/ \E out \in Outcome : InnerWrite(out)

Control == Boot \/ (\E i \in Inputs : BeginOuter(i)) \/ Outer \/ Inner

Serve(h) ==
    \/ KillSetMode(h)
    \/ \E out \in Outcome : KillRestore(h, out) \/ ReinitZ1(h, out) \/ ReinitMinFlow(h, out)
    \/ \E ok \in BOOLEAN : ApplyMode(h, ok)

Client(h) == RequestKill(h) \/ \E r \in Request : RequestMode(h, r)

Manager == Crash \/ Stop \/ StopKill \/ Start \/ \E out \in Outcome : StopRestore(out)

Next ==
    \/ Control
    \/ \E h \in Handler : Serve(h) \/ Client(h)
    \/ Manager
    \/ NextSlot

Spec == Init /\ [][Next]_vars
(* Fairness. The control thread runs a loop of bounded steps (an eBUS      *)
(* command times out after 3 s); a handler that was called is polled until *)
(* it returns; Restart=on-failure restarts the service. No cycle need ever *)
(* find what it takes to heat, but in the long run some do: mornings come, *)
(* and DHW, defrosts and missing readings end. Which of them want a DHW    *)
(* launch is left open.                                                    *)
Heatable == { i \in Inputs : ~i.dhw /\ ~i.blocked /\ ~i.coast }

Fairness ==
    /\ WF_vars(Boot \/ Outer \/ Inner)
    /\ SF_vars(\E i \in Heatable : BeginOuter(i))
    /\ \A h \in Handler : WF_vars(Serve(h))
    /\ WF_vars(Start) /\ WF_vars(StopKill \/ \E out \in Outcome : StopRestore(out))

FairSpec == Spec /\ Fairness

-----------------------------------------------------------------------------
(* Properties.                                                             *)

Idle == pc = "sleep" /\ cli = 0 /\ \A h \in Handler : hs[h].pc = "free"
Active(s) == s.mode \notin Passive

\* A mode the API acknowledged is never undone by anything but a later request:
\* not by an outer cycle that cloned the state before the request and merges its
\* fields afterwards, and not by a restart from the state file. Only modes whose
\* own save failed since then may show instead.
ModeSurvives == rt.mode \in since /\ file.mode \in since

\* Once Disabled or MonitorOnly is in force the control thread sends at most the
\* writes of the one outer cycle that was under way (timer, zone mode, curve); no
\* cycle it begins afterwards writes anything, whatever the inner loop's old flow
\* target says.
MaxLate == 3
StragglerBound == late <= MaxLate

\* How many more writes the control thread may send without looking at the mode
\* again: those of the start-up, the outer or the inner cycle it is in.
WritesToCome ==
    CASE pc = "timer" -> 3
      [] pc \in {"plan", "heat", "bootz1"} -> 2
      [] pc \in {"curve", "bootminflow", "innerwrite"} -> 1
      [] OTHER -> 0

\* Seen from outside, the controller is a switch with a memory: the mode in force is
\* the one last applied, whatever stale clones are merged around it; a restart comes
\* back to the last one saved; and the writes that may follow a switch-off become
\* fewer with every one of them and are not renewed by anything but an active mode.
Switch == INSTANCE ModeSwitch
    WITH FirstMode <- DefaultState.mode, mode <- rt.mode, saved <- file.mode, up <- Up,
         left <- IF Active(rt) THEN MaxLate ELSE WritesToCome

ActsAsSwitch == Switch!Spec

\* A DHW slot is launched once. Each further launch of the same slot was caused
\* by a fault or a crash that kept the slot from being recorded.
LaunchAccounting == \A s \in Slot : launches[s] <= 1 + faults + crashes + stops

\* While no write has failed, zone 1 is never off behind the controller's back:
\* between cycles of an active mode, Z1OpMode=off is known to heating_off, the
\* flag the next warm-up depends on. Resumes, kills, stops and crashes in the middle
\* of a cycle included, as long as requests come one at a time, or only /kill
\* switches off, or nothing restarts the service (OneAtATime in the proofs): a
\* request that found an active mode and applies one after another request has
\* switched off resumes without turning zone 1 on.
NeverStranded ==
    faults = 0 /\ pc = "sleep" /\ Active(rt) /\ vrc.Z1OpMode = "off" => rt.heating_off

\* While no write has failed, an active mode runs on the controller's own settings:
\* at rest, zone 1 is never left to the VRC 700's timer program, to which /kill and
\* a stop set it back. Every way back to an active mode (a /kill toggle, a request,
\* a start) must write Z1OpMode=night before or as it takes effect.
NightWhileActive == faults = 0 /\ Idle /\ Active(rt) => vrc.Z1OpMode # "auto"

\* Where the remembered timer is out of date it errs on the safe side: between
\* cycles, a weekday whose morning window the controller believes it kept has that
\* window in the register. A kill or a stop that rewrites the timers behind a cycle
\* in flight can make the memory wrong, and never that way round. This is for
\* writes that ebusd answers, with an error or without: one whose connection closes
\* early counts as written, and one that is lost has changed the register unseen.
DedupFailsSafe ==
    pc = "sleep" /\ rt.timer_weekday # 0 /\ rt.timer_morning => vrc.timer[rt.timer_weekday]

\* Left to itself, the controller ends every coast: with no request and no failed
\* write, zone 1 does not stay off. Crashes included, and DHW launches, each of
\* which takes a whole outer cycle away from heating, cannot put it off for ever.
CoastEnds ==
    vrc.Z1OpMode = "off" ~> vrc.Z1OpMode # "off" \/ faults > 0 \/ requests > 0

\* A /kill that found the controller on ends with it Disabled, whatever the eBUS
\* writes of restore_baseline come to, unless the process itself goes down.
KillDisables ==
    \A h \in Handler : hs[h].pc = "restore" ~> rt.mode = "Disabled" \/ ~Up
=============================================================================
