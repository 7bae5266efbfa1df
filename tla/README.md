# A verification project for heatpump-analysis

TLA+ modules, TLC runs and TLAPS proofs for the parts of this repository where
order, failure or boundaries decide: the adaptive heating controller
(`src/bin/adaptive-heating-mvp.rs`), a service that steers a Vaillant heat pump
by writing registers of its VRC 700 over eBUS, and the pipeline behind it, from
the bytes on the bus and the mirrored feeds to the classifiers, the overnight
optimiser, the review of the evidence and the thermal model with its baselines.
Paths below are relative to the repository; `model/`, `lat.md/` and `docs/` are
its own directories.

Contents: [Inventory](#inventory) · [Plan](#plan) ·
[HeatingController](#heatingcontroller) · [FlowLoop](#flowloop) ·
[DhwPlan](#dhwplan) · [FeedMirror](#feedmirror) ·
[EbusLine](#ebusline-and-telegramchannel) · [HpStates](#hpstates) ·
[DhwSessions](#dhwsessions) · [Overnight](#overnight-and-nightchoice) ·
[History](#history-and-historyreview) · [ThermalModel](#thermalmodel) ·
[Runs](#runs) · [Proofs](#proofs) · [Findings](#findings) ·
[Known divergences](#known-divergences) ·
[What is not modelled](#what-is-not-modelled)

To repeat a run: `tlc -config <cfg> <module>` with the pairs of the table under
[Runs](#runs); to repeat the proofs: `tlapm` on the eight modules whose names end in
`Proofs`.

## Inventory

| Component | State it keeps | Operations | Talks to |
|---|---|---|---|
| Adaptive heating controller, `src/bin/adaptive-heating-mvp.rs` | `RuntimeState` (mode, away time, flow target, `heating_off`, timer and slot memory) behind one mutex; its copy in a TOML file; a forecast cache; the VRC 700 registers, which outlive it | `control_loop` (start-up, outer cycle every 15 min, inner cycle every minute), HTTP handlers (`/mode/*`, `/kill`, `/status`), `restore-baseline` command, ctrl-c task | ebusd over TCP, InfluxDB/PostgreSQL for sensors, Open-Meteo, Octopus, the service manager |
| Service unit, `deploy/adaptive-heating-mvp.service` | running or not | start, `Restart=on-failure`, a stop whose `ExecStop` is `restore-baseline` | the controller, as a second process on the same bus |
| Heat-curve arithmetic, same file | the curve register and `target_flow_c` | seed from the thermal model, deferral, deadbands, inner feedback, setback curves | the VRC 700's own heat-curve formula |
| DHW planning, same file | last launched slot, timer memory | tariff windows, active slot, morning-timer payload | Octopus tariff cache, T1 sensor |
| `ebus-core` | bytes of the frame being received | framer, reducer, parser with two CRCs | a byte stream from the bus adapter |
| emoncms mirror, `src/db.rs`, `src/gaps.rs` | SQLite samples, `sync_state` marks, simulated samples, gap log | `sync_all` (chunks, commit per chunk, mark at the end), gap filling, the frame analyses load | the emoncms HTTP API |
| State classification, `src/analysis.rs` | last state, state before the defrost, anew for each frame | `classify_states` | the frame |
| DHW sessions, `src/thermal/dhw_sessions.rs` | open charge and draw; tables `dhw_inflection`, `dhw_capacity` | detection, inflection analysis, recommendation, row-by-row writes | PostgreSQL |
| Overnight optimiser, `src/overnight.rs` | none that lasts | extraction, two calibrations, schedules, backtest, choice per night, totals | the frame, the tariff book |
| Evidence review, `src/thermal/history.rs`, `history-review` in `src/main.rs` | none | windowed, bucketed queries, charge and comfort periods, verdicts | PostgreSQL |
| Thermal model, `src/thermal/` | none that lasts | energy balance, solver and control table, calibration, validation, fit diagnostics, operational validation | PostgreSQL, geometry and config files |
| Artifacts and baselines, `src/thermal/artifact.rs`, `snapshot.rs`, `src/bin/thermal-regression-check.rs`, `scripts/` | artifact files, committed baselines and thresholds, config, snapshots with manifests | the commands that write artifacts, the regression script, refresh, export, import | the file tree |
| `cosy-scheduler` (retired) | none | writes `Z1OpMode` from cron | the same register as the controller |
| Command line, tariff import, polling and deployment scripts, Python inventory tools | none that lasts | dispatch, one-shot reads and prints | the above |

How they interact. In the controller's process everything that can go wrong in
time meets. Its mutex is held while the state is copied, merged or edited, never
across an eBUS command or a query. A cycle therefore works on a clone that may
be minutes old when it is merged back, HTTP handlers decide on what they read
before their own bus commands, and `restore-baseline` writes the same registers
from another process. Registers survive what the process does not. Everything
else is a pipeline: bus to records, feeds to a mirror, mirror to a frame, frame
to labels, labels to calibrations and totals; each stage reads a record that
goes on growing, over windows that begin and end anywhere, and some of them are
run again, beside each other or only half.

What is hard, and what correct means, component by component:

- **Controller**: overlapping requests and cycles, merges of stale clones, writes
  that are refused, cut off or acknowledged too late, crashes between a register
  and the state file. Correct: an acknowledged mode stays; zone 1 is never off
  without the controller knowing; what is remembered of the timers errs towards
  hot water; a switch-off is followed by a bounded number of writes; a slot's
  charge is launched once but for failures; coasts end; `/kill` disables.
- **Curve loops**: two loops with different periods on one register, a gain that
  meets a plant whose slope depends on the weather, a register that reads 0 in
  standby. Correct: the inner loop converges between outer cycles and never
  makes the error worse.
- **DHW planning**: windows inclusive at both ends, days that wrap. Correct: the
  coming morning's timer fits the last reading; a slot's charge is launched when
  needed, and once.
- **ebus-core**: lost, spliced, garbled and overlong frames. Correct: what is
  heard was sent, in order and at most once; what arrives whole is heard.
- **emoncms mirror**: a run that stops between chunks, samples that arrive late,
  one feed that fails, a fill beside a sync. Correct: the mark never passes a
  sample that was there to fetch; simulated values are flagged; the mirror
  catches up.
- **Classification**: hysteresis and a memory that starts anew with each frame.
  Correct: from a row that decides the state on, the start of the frame no
  longer matters.
- **DHW sessions**: a charge and a draw open at once, two sources with gaps, runs
  over overlapping windows that may fail between rows. Correct: a measurement
  counts what flowed, runs agree, a recommendation rests on rows that are there.
- **Overnight optimiser**: the choice per night is made three times over for
  totals printed side by side. Correct: the totals are ordered and add up,
  relaxing the target never costs more.
- **Evidence review**: windows that cut buckets, charges and nights. Correct: the
  periods printed are those of the record, and a failure does not vanish by
  asking about more.
- **Thermal model**: nested searches; parameters the score does not see.
  Correct: the searches bracket what they look for, the sweeps reach the
  equilibrium (they do not: see [Findings](#findings)).
- **Artifacts and baselines**: multi-file steps that can be killed or stop
  half-way. Correct: a passed check and a finished import vouch for what they
  say.

`PROJECT.json` lists the hazards line by line with the property that watches each.

## Plan

Done: `HeatingController` with its theorems and the abstract `ModeSwitch` that it
implements; `FlowLoop`, `DhwPlan` and `FeedMirror` with theirs; `EbusLine` with the
abstract `TelegramChannel`; `DhwSessions` with its theorems; `HpStates` and `Overnight`
with the abstract `NightChoice`, the theorems of all three and the refinement, proved;
`History` and `HistoryReview` with their theorems; `HousePhysics`, `CanonicalHouse`, `HouseSolver`, `ModelFit`, `Baselines` and their
composition `ThermalModel` with the theorems about the scripts.

Left, in this order:

1. `SettledByNextOuter` for a range of slopes.
2. `HeatingController`, rest: a torn state file, the ctrl-c task.
3. Composing `DhwPlan`'s slots with the launch memory of `HeatingController`
   (`MaxSlot`, `LaunchWanted`).

## HeatingController

One step is one critical section of the mutex or one eBUS command; between any
two, every other process may move. State and code:

| Variable | Code |
|---|---|
| `vrc` | the registers `Z1OpMode`, `Hc1HeatCurve`, `Hc1MinFlowTempDesired` (`MinFlow`), `HwcSFMode`, and per weekday whether `HwcTimer_<Weekday>` keeps its morning window |
| `rt`, `file` | `RuntimeState` in its mutex, and the state file. `target_flow_c` is set or not; 0 is `None` |
| `pc`, `loc`, `inp` | the control thread's place, the outer or inner cycle's clone, and what the sensor sweep found |
| `hs` | each HTTP handler's place in `set_mode` or `api_kill`, the mode wanted, whether it activates, the next register of `restore_baseline` |
| `cli` | the `restore-baseline` process of `ExecStop`: its next register |
| `now` | the DHW slot of the current time |
| `late`, `since`, `launches` | history: writes after a switch-off, modes applied since the last one that was saved, launches per slot |

A write command has five outcomes. `done`: applied and acknowledged. `refused`:
ebusd answers `ERR:`, which `ebusd_write` returns as `Ok`. `cut`: the
connection closes first, an empty reply and also `Ok`. `dropped`: no
connection. `lost`: applied, but the reply times out. The last two are `Err`,
on which an outer cycle returns, dropping its clone.

| Actions | Code |
|---|---|
| `BootCheck`, `BootZ1`, `BootMinFlow`, `BootClear` | `control_loop` before its loop, with `reinitialize_ebus` |
| `BeginOuter` | the clone and the sensor sweep; in a passive mode straight to the merge |
| `TimerUnchanged`, `SyncTimer` | `sync_morning_dhw_timer` |
| `NoLaunch`, `LaunchDhw` | the slot check and `HwcSFMode=load` |
| `HeatBlocked`, `HeatDuringDhw`, `CoastAgain`, `CoastBegin`, `CoastEnd`, `HeatOn` | the branches of the outer cycle up to the curve |
| `CurveHeld`, `CurveWritten` | the curve write of each mode and its flow target |
| `SaveOuter` | merge and `save_runtime_state`, one critical section |
| `BeginInner`, `InnerHeld`, `InnerWrite` | `run_inner_cycle` |
| `RequestMode`, `RequestKill`, `KillRestore`, `KillSetMode`, `ReinitZ1`, `ReinitMinFlow`, `ApplyMode` | `set_mode` (two critical sections with bus commands between) and `api_kill` |
| `Crash`, `Stop`, `StopRestore`, `StopKill`, `Start` | the service manager; a start reads `file` |
| `NextSlot` | time reaches the next slot |

The sensors are inputs: any combination the branches tell apart may be read in
any cycle, so no property rests on how the house behaves. Which weekday's timer
is due and whether the planner wants a launch are inputs as well (`DhwPlan` pins
them down).

Bounds: `MaxRequests`, `MaxFaults` (writes and saves that go wrong),
`MaxCrashes`, `MaxStops`, `NDays`, `MaxSlot`. Cycles are not bounded.

Properties (each is stated in full where it is defined): `TypeOK`,
`ModeSurvives`, `StragglerBound`, `NeverStranded`, `NightWhileActive`,
`DedupFailsSafe`, `LaunchAccounting`, the refinement `ActsAsSwitch`, and the
liveness properties `CoastEnds` and `KillDisables`.

`ModeSwitch` is what whoever switches the controller may count on: a `mode` in
force, the one `saved` for a restart, `up`, and, in a passive mode, how many writes
have come (`late`) and at most may still come (`left`). `ActsAsSwitch` is the
refinement: `mode` is `rt.mode`, `saved` is `file.mode`, and `left` is 3
(`MaxLate`) in an active mode, else what the control thread can still send before
the cycle ends, read off its place (`WritesToCome`). The clones, the merges and the
order of registers and file are what the mapping hides; the late writes are what
it cannot.

Fairness and why the code justifies it. The control thread is a loop of steps
each of which ends: an eBUS command has a 3 s timeout, queries have theirs; so
weak fairness of its steps. A handler that was called is polled until it
returns: weak fairness of each handler. The unit says `Restart=on-failure`: weak
fairness of `Start`, and of the stop sequence. `CoastEnds` also needs mornings:
strong fairness of beginning a cycle whose readings call for heat (no DHW, no
defrost, not coasting). It does *not* say that such a cycle is free of a DHW
launch, which takes the cycle away from heating: that those run out is what the
property has to show.

## FlowLoop

The heat curve as a number (0.01), temperatures in 0.1 °C. The VRC 700 is taken
at the code's own word, the formula that `curve_for_flow` inverts; a weather is
the slope of that formula, ten times the outside gap to the power 1.25. The
plant has no memory: `Hc1ActualFlowTempDesired` is computed by the VRC 700 from
the curve, it is not a measured temperature. What the thermal solver asks for is
an input, `Target`, and so is the forecast, which need not be the weather. Gain,
deadbands and the largest step are those of `model/adaptive-heating-mvp.toml`
(the default gain in the source, 0.10, is twice the deployed one). `round2` at a
tie may go either way, since 0.05 is no binary fraction. Comparisons at exactly a
deadband are made as in exact arithmetic.

The actions are the ways an outer cycle can leave the curve and the target
(`OuterHeat`, `OuterDuringDhw`, `OuterCoast`, `OuterHeld`, `OuterShortAbsence`,
`OuterAwayStage`, `OuterAwayWarmUp`) and an inner cycle the curve
(`InnerSkipped`, `InnerCycle`). `SettledByNextOuter` says that the inner loop is
done before the outer loop looks again, `NeverWorse` that no correction enlarges
the error.

## DhwPlan

What the outer cycle does for hot water, with the clock this time. A cycle is one
action, `Cycle`: `sync_morning_dhw_timer` and then, unless DHW runs,
`plan_dhw_schedule` and the launch. Around it the clock goes on (`LaterToday`,
`NextDay`), an hour comes twice in October (`ClocksGoBack`), the baseline is
restored (`Restore`) and the service restarts (`Restart`). The next cycle may be any
of the instances' instants away, so cycles are missed for hours and days.

`Restore` is `restore_baseline`: all seven weekday registers get their morning window
back, whatever the controller remembers of them. It may come at any time. Before a
`Restart` it is the `ExecStop` of `deploy/adaptive-heating-mvp.service`, beside a
service that still runs cycles until it is killed; a `Restart` without it is one after
a crash. Before hours without cycles it is `/kill`, whose way back forgets the timer
in `set_mode` as `control_loop` does at a start, so that `Restart` stands for it. With
nothing after it it is the command run by hand. All registers change in one step: a
cycle writes one register, so that what it comes to beside a restore is decided by
which of the two writes that register last. Failed writes are `HeatingController`'s,
and so is a cycle that outlasts both a `/kill` and the way back and then merges what
it remembered before (`DedupFailsSafe`: it errs towards the morning).

Times count half minutes, because `within_window` and the weekday roll compare
seconds while `hours_until_time` cuts them off. T1 readings are inputs: nothing
is assumed of the cylinder. `timer` holds what was written to each weekday's
register, with `-:-` read as the end of the day. Windows, slots, the two
normalisations of midnight and the prediction are operators that bear the code's
names in short.

`WindowFollowsLastReading` compares the register that the VRC 700 will act on
this morning with a reference: the decay over all the hours from the last
reading to waking, and the tariff's windows with midnight as minute 1440. After a
restore the register has the morning, which a warm reading does not call for. The
history variable `restored` says for how long that may be so: `Restart` forgets what
was written, so the first reading after it writes the register anew; beside a service
that runs on, the dedup memory hides the restore until a reading calls for another
weekday or the other choice. A cold reading always has its morning. Were the timer
memory taken from the state file at a start (`RestartRemembers`), a restart would
leave the morning in against the readings.
`CosyNeedLaunched` compares with the same reference windows.
`OncePerSlot` says that remembering only the last slot suffices.

The windows are a set. That `sorted_cosy_windows` sorts them by start is kept as
what the order decides: how many windows come before one (`Before`), and which is
the n-th of the day (`Nth`, the empty set where there is none). Starts are
distinct, because octopus-tariff merges the adjacent half hours of one rate
(`lat.md/domain.md:139`); with equal starts the sort, which is stable, would keep
the order of the config.

## FeedMirror

The mirror of the emoncms feeds. `StartSync`, `FetchChunk`, `CloseFeed` and
`SyncFails` are `sync_all`: one request and one transaction per chunk, the mark
in a transaction of its own at the end of the feed, and `?` on the first error.
`StartFill`, `FillGap` and `FillFails` are `fill-gaps`, a second process: the
gaps and the model are taken at its start, then one transaction per gap. `Tick`
and `Deliver` are the world: minutes pass, and emoncms has them up to `MaxLag`
minutes later; the outside temperature (`Steady`) goes on through an outage of
the power logger. The gaps left to fill are a set, of which the earliest is next. The model of a lost minute is `TempBinModel` with its bins and
the neighbouring bins it falls back on, the scaling to the meter's energy, and
`INSERT OR IGNORE`.

`Cell` and `IsSimulated` are the frame with simulated samples: the values go
feed by feed, the flag by the power feed alone. `FrameHonest` says they agree.
`MirrorComplete` and `CatchesUp` except what is `Overtaken`: asked for before
emoncms had it, and a later sample stored since; a fetch starts at the mark and
never looks back, so that such a sample is lost for good. `late` and `belated`
are history.

Fairness (`FairSpec`): time passes, the logger delivers, and `sync`, a command
that is run by hand (`README.md`, "Quick Start"), is run again and again and goes
on when it is neither refused nor killed. Failures are bounded and fills owe
nothing.

## EbusLine and TelegramChannel

`EbusLine` sends telegrams with their CRCs and byte stuffing, byte by byte, over
a line that loses and garbles bytes, to `Framer::feed`, `reduce` and
`parse_wire`. The exchange may be acknowledged, refused and sent again,
unanswered, or answered again after a NAK. CRC-8 and both tables are computed as
in `crc.rs`. `TelegramChannel` is what a listener may count on: telegrams are
heard in the order they were sent, at most once each, as they were sent; any may
be missed. `HeardAsSent` is the refinement, with `heard` mapped to what
`parse_wire` returned.

A fault is one byte lost or garbled, one at most between two SYNs that arrive.
This is the reach of an eight-bit CRC, and the parser's: two faults in one frame
can forge a telegram, and a burst can splice the head of one to the tail of the
next. Also visible in the model: a repetition after a NAK is never parsed
(`Answer`), and anything but a NAK passes for an ACK.

## HpStates

`classify_states` as a machine with a memory of the current state and the state
before a defrost. A null cell counts as 0, so that a row with power and no heat
is labelled a defrost. It is a module of operators; `Overnight` uses it as
`enrich` does, and `OvernightProofs` proves about it. A frame has its rows by their
minutes, and `ClassifyStates` runs over the minutes with a recursive function,
`memory`, that a minute without a row leaves as it was. What a frame that starts
earlier would have remembered is `track.before`.

## DhwSessions

One instant is a minute, a volume half a litre. `Record` is the recorder, with
rows of the meter and of the poll that may be missing; `Run`, `WriteRow`,
`Finish` and `RunFails` are the command: everything is read first, then the
inflection rows go in one by one, in no transaction, then the recommendation.
`Charges` and `Draws` are the two detectors of `find_events`: each loop over the
time grid, with its flag and its start, finds the `Spells` of a set of instants,
`High` or `Flowing`. `Result` is `analyse_draw`; its points are a function on
instants.

`CapacityCounted` is stated as the code permits: the register is read at the
draw's start while the flow is integrated from two minutes before it, so those
two minutes count twice. `RowsAgree` compares runs over different windows. It
speaks of runs that saw the draw and the charge before it whole (`SawWhole`): the
draw has settled, and the poll had a row in the window before the charge began. That
the window began before the charge is not enough: with rows missing, a detector that
knows nothing yet is off, and the charge begins late. `CapacityBacked` and
`RecommendationHolds` relate the two tables.

## Overnight and NightChoice

`Overnight` takes the recorded nights through the command, one action per stage:
`Start` (extraction), `Calibrate`, `Generate`, `BacktestNight`, `TallyNext`,
`Report`, and `TariffFails` for the errors. Temperatures in 0.1 °C, a night of
ten coarse minutes, the constants those of the source scaled to it. A night has its
rows by their offsets, so a gap is an offset outside the domain, and the code's
neighbours in the list of minutes are the offsets `Within` so many samples. Each sum
the code accumulates over minutes and nights is `Summed`, a recursive function over
the offsets; the indoor temperature of a simulation is one as well (`indoors`).

`NightChoice` is what the command promises of its choices, whatever the results
of the backtests are: their types, the totals, the picks and what is printed.
`ChoiceSpec` as a property of `Overnight` says that the detailed command does
nothing else. It is checked by the run and proved, so that what is proved about
`NightChoice` for any backtest holds of the command with its own.

Left as the code has it, and visible in the model: a record that ends before
07:00 counts its first reading as that of 07:00; the monthly totals, labelled
adaptive, take the warmest strategy where none meets the target; the window that
looks for a long idle is clipped at the ends of a night; an OFF strategy whose
heating is due back before it goes off never goes off; a temperature between two
heating bins gets a constant guess.

## History and HistoryReview

`History` has the queries of `history.rs` as operators over a store with holes:
`LastValue` with its lookbacks, `Bucketed` with its first bucket before the
window, `PeriodsFromActive` with its baseline, and the two summaries. Rows are a
function on their times and periods a set: where the code walks along a series with
`prev_active` and `current_start`, the model names what the walk knows at a row
(`WasActive`) and where it closes what is open (`EndAfter`).
`HistoryReview` has a plant that turns and loggers that fail, and the command run
at any moment over any of the windows.

`ChargesAsRecorded` and `MissesAsRecorded` compare what is printed with the
record itself. A charge of the minimum plus a bucket, less one tick, is never
lost at a cut; a shorter one may be. The waking hours are those of UTC, as
`main.rs` converts the window: in summer they are an hour off. The queries of a
summary are no snapshot; the model takes them as one, since the rows of a past
window do not change and `until` bounds the open one.

## ThermalModel

`HousePhysics` is the energy balance of a room in integers (1/20 °C, 1/10 W/K,
1/200 W, rates in mK/h), `CanonicalHouse` the thirteen rooms of
`thermal_geometry.json` as `build_rooms` and its kin make them, `HouseSolver` the
solver and the printed control table, `ModelFit` calibration, validation, fit
diagnostics and operational validation, `Baselines` the artifact commands, the
two shell scripts, export and import. `ThermalModel` composes them: the table
reads nothing an artifact command writes, only the geometry is shared, so a
behaviour is one `life` or the other.

In `HouseSolver` a step is one sweep over the rooms. The bisection writes each
probe into the shared map, as the code does; that is what `SweepsConverge` finds.
`None` in the table (not even the hottest water suffices) does not occur between
-5 and 20 °C. Powers to 1.3 are straight lines between knots, the search stops
one unit wide.

In `Baselines` a step is one file of a script or one command. Scripts may be
killed between steps, the config edited at any time, a snapshot altered while no
script runs (between the hash and the copy of one file nothing happens). A
content is its own hash. Visible in the model and not counted as violations:

- Refresh and import copy file by file; a stop in between leaves a mixture.
  `ImportRestores` is about an import that ran to its end.
- Refresh and export leave out the operational baseline, although the regression
  script requires it, with the same config hash: after a change of config the
  procedure of `artifacts/thermal/baselines/README.md` cannot pass at its third step.
- The errors of an empty summary are NaN, null in the artifact, on which
  `get_f64` fails: that a drop gate skips a zero-sized baseline (`lat.md/tests.md`)
  is never reached.
- The config hash does not cover the geometry, and an absolute config path makes
  an import fail at its last file, after the others were overwritten.
- The error of a night is a whole number of mK/h, which may make ties that floats
  would not; what the priors add to it is exact.

## Runs

| Run | cfg, module | What it asks | Bounds, and why they are enough |
|---|---|---|---|
| `controller_faults` | `ControllerFaults.cfg`, `MCHeatingController` | `NeverStranded`, `DedupFailsSafe`, `NightWhileActive` under refused writes and a crash | two requests one after the other (on, a setback or off), one weekday (days do not interact), one fault, one crash. One handler: with two overlapping requests the previous mode that one of them read may no longer hold, see [Proofs](#proofs) |
| `controller_races` | `ControllerRaces.cfg`, same | `ModeSurvives`, `StragglerBound`, `ActsAsSwitch` (the refinement) with everything concurrent | two handlers at once, each on or off, one failing save, one service stop whose restore runs beside them. No weekday or slot: the properties do not read them. Symmetric handlers |
| `controller_live` | `ControllerLive.cfg`, same | `LaunchAccounting`, `CoastEnds`, `KillDisables` under `FairSpec` | one `/kill`, one slot that may want its launch in every cycle, one dropped write, one crash. No symmetry: the properties are temporal |
| `flow_loop` | `FlowLoop.cfg`, `MCFlowLoop` | `SettledByNextOuter`, `NeverWorse` | outside 3.5, 5, 8, 12 and 14 °C, each with each as forecast; flow targets from 24 to 34 °C; 15 inner cycles per outer one, the deployed ratio; all three modes. `NeverWorse` is proved down to 1.8 °C; below about 3 °C the loop need not settle, see [Known divergences](#known-divergences) |
| `dhw_plan` | `DhwPlan.cfg`, `MCDhwPlan` | `TypeOK`, `WindowFollowsLastReading`, `OncePerSlot`, `CosyNeedLaunched` | three days and two weekdays, so that a register comes round again with what it had; eight instants, the corners of the windows, of waking and of midnight; three tariffs, both encodings of midnight; T1 readings that are cold, cold from before 00:29 only, and warm; restores and restarts at any time |
| `feed_mirror` | `FeedMirror.cfg`, `MCFeedMirror` | `MirrorComplete`, `FrameHonest`, `CatchesUp` under `FairSpec` | four feeds, the least that has a power feed, a meter, the weather and one more; four minutes in chunks of two, so that a run has a cut chunk and a second run resumes; emoncms up to three minutes behind; one fault, after which everything must recover |
| `ebus_line` | `EbusLine.cfg`, `MCEbusLine` | `HeardAsSent` (the refinement), `WholeIsHeard` | three telegrams, one per type of target, in every course of an exchange; three faults; a buffer of 20 bytes, which a lost SYN overflows. The data hold SYN and ESC |
| `dhw_sessions` | `DhwSessions.cfg`, `MCDhwSessions` | `CapacityCounted`, `RowsAgree`, `CapacityBacked`, `RecommendationHolds` | fourteen minutes with a charge and up to three draws, one of them open with the charge; missing rows; two runs over two windows, one failure |
| `overnight` | `Overnight.cfg`, `MCOvernight` | `TypeOK`, `TargetsMonotone`, `TotalsOrdered`, `PicksAddUp`, `DhwAtLowestRate`, `FrameStartForgotten`, `ChoiceSpec` (the refinement) | three nights out of ten tracks with gaps, defrosts, a charge under way at the start, a truncated record; four tariffs, one without a low rate |
| `history` | `History.cfg`, `MCHistoryReview` | `ChargesAsRecorded`, `MissesAsRecorded`, `WiderNeverBlessed` | ten ticks, two per bucket, five per day, a minimum charge of three: windows begin inside buckets, charges and nights; three turns of plant and loggers; four windows, one empty |
| `thermal_model` | `ThermalModel.cfg`, `MCThermalModel` | `BisectionSound`, `TableMonotone`, `BlindParameters`, `BaselineAcceptsItself`, `GateVouches`, `ImportRestores` | the whole table of 26 temperatures and four suns; four artifact commands, one edit or tampering, two scripts, a kill anywhere; three configs, one of which cannot be calibrated; two times of running |
| `solver_one_sweep` | `OneSweep.cfg`, same | `SweepsConverge`, which is violated | the first point of the table |

The type invariants of `HeatingController` and `FeedMirror` are proved and in no
run; `Overnight` and `DhwPlan` keep theirs, in which a weekday or a sum could go
out of range.

`controller_faults` uses a VIEW that leaves out `late` and `since`: no action
reads them and none of its properties does.

`dhw_plan` uses a VIEW in which the last reading is only its day, whether it came
after 07:00 and the morning it called for. `Cycle` asks no more of it than the
morning; and where `WindowFollowsLastReading` counts the hours from the reading to
the waking that is coming, they are those the call was made with. So two states
that agree in the view agree in every step and every property. States become a
quarter.

Deadlock is checked except where a behaviour really ends, because traffic, the
record or the number of commands is bounded: `ebus_line`, `dhw_sessions`,
`history`, `thermal_model` and `solver_one_sweep`.

What the passing runs have no property for is listed among the hazards: the
unread reply to `Z1OpMode=night` and a torn state file.

## Proofs

All but the theorems that name a hypothesis hold for every value of the constants
that the assumptions of the modules type.

`HeatingControllerProofs`, for every set of handlers and endpoints, any number of
weekdays and slots, every set of write outcomes and every bound:

- `TypeCorrect`: `Spec => []TypeOK`. `TypeOK` is inductive by itself. Lemmas
  state what the helpers preserve (`RegisterTypes`, `RestoreTypes`,
  `StateTypes`, `WriteTypes`, `GotoTypes`, `HandlerTypes`, ...), `StepCases`
  takes `Next` apart, and `StepTypes` has one step per action.
- `ModesSurvive`: `Spec => []ModeSurvives`. Inductive together with `TypeOK`. It
  is about the merge: of all steps only `ApplyMode` changes the mode in memory,
  and it adds that mode to `since`; `SaveOuter` writes the shared mode, not the
  clone's, to the file, so a stale clone never reaches it; a crash takes `rt`
  back to `file`, whose mode is in `since` too.
- `StragglersBounded`: `Spec => []StragglerBound`. Not inductive: "at most three"
  does not say how many are still to come. `LateInv` adds that `late` is 0 while
  an active mode is in force and that `late <= SentBy(pc)`, where `SentBy` is the
  number of writes a cycle can have sent by the time it is at `pc`. Every write
  moves the thread to a place that allows for one more (`LateStep`), every other
  step to a place that allows for no fewer, and a cycle that begins
  in a passive mode goes nowhere it could write.
- `ControllerIsSwitch`: `Spec => ActsAsSwitch`. Every step of the controller is a
  step of `ModeSwitch` or leaves its variables alone. `WritesBounded` bounds the
  image of `left`; `WriteIsSwitchWrite` has a write in a passive mode use up one of
  the writes to come; `PassIsSwitchPass` has a step that only moves the thread
  never add to them.
- `LaunchesPaidFor`: `Spec => []LaunchAccounting`. `LaunchInv` pays for every
  launch of a slot: with the memory of that slot in the state that the next cycle
  will copy, or with a fault, a crash or a stop; slots that have passed
  (`SlotsPast`) are never launched again. The case to think of is a clone that has
  launched and not been merged, while the others still believe the slot open.
- `DedupSafe`: `DedupFailsSafe` for `Outcome \subseteq {"done", "refused"}`, that
  is while ebusd answers every write. `DedupInv` has the belief true of the shared
  state while the thread rests and of the clone during a cycle; a restore only adds
  morning windows. The hypothesis is needed: a `cut` write counts as written, so
  that a morning window believed restored is not there; a `lost` one has taken
  the window away while the cycle that sent it is dropped with its memory.
- `Stranding`: `NeverStranded`, if requests come one at a time, or only `/kill`
  switches off, or nothing restarts the service (`OneAtATime`). `StrandInv` follows
  the zone through every place of the cycle and of the start-up: what is off and
  unknown to `heating_off` (`Hidden`) is only so while a passive mode is in force
  that no request is on its way out of (`Resting`). It takes all three of two overlapping
  requests, a plain switch to a passive mode and a restart to break the property,
  and then it does break.
- `NightWhenAlone`: `NightWhileActive` for one handler. `AutoInv` says that a zone
  on `auto` is about to be switched off, or that no request is on its way back to
  an active mode past the write that would turn it on. With two overlapping
  requests it is false, see [Known divergences](#known-divergences).

`DhwPlanProofs`, for any readings, instants and numbers of days and weekdays:

- `PlanTyped`: `Spec => []TypeOK`, inductive by itself.
- `SlotsLaunchedOnce`: `OncePerSlot`, for tariffs whose windows neither overlap nor
  touch (`Apart`), none of them beginning between 01:00 and 02:00
  (`NoneInTheHour`). The memory holds one slot, the invariant says why that is
  enough: slots have ranks in the order of the day, the slot remembered has the
  highest rank of those launched today (`LaunchInv`), each of which has been reached
  (`Reached`), and no slot of lower rank can be current again (`NoWayBack`). The
  second October hour is the exception that `NoneInTheHour` takes away.
- `NeedsLaunched`: `CosyNeedLaunched`, for tariffs whose windows are `Apart`. Where
  a need was found the current slot was that window's (`CosyIsCurrent`), and a
  launch is withheld only for a slot that is in `launched` (`MemoryInv`).
- `MorningFollowsReading`: `WindowFollowsLastReading`, for tariffs of up to three
  windows, which is what a register holds: of a fourth, which may be any once
  the morning is dropped, `dhw_timer_payload` says nothing. What is remembered as
  written is what the last reading called for, and after a restore and a restart
  nothing is remembered (`MemoInv`); what the last reading called for stands in the
  register of the day it was for, or a restore does (`SeenInv`); a reading is of the
  past, but for the hour that comes twice (`PastInv`). With these the property is
  arithmetic on the hours to waking (`MorningAsRead`) and on the two encodings of
  midnight (`RailsCases`).

The Cosy tariff satisfies the hypotheses: 04-07, 13-16 and 22-00.

`FlowLoopProofs`: `CorrectionsNeverWorse`, `Spec => NeverWorse` if no slope exceeds
`Steepest`, 1.8 °C outside, for any targets, forecasts, modes and rhythm of the two
loops. A correction moves the curve towards the target by a twentieth of the error
(or one step of 0.2); `FlowMoves` bounds what that does to the flow and
`CorrectionHelps` compares the two errors with the rounding of both. The bound is
sharp: on the next steeper slope (351) a curve of 0.47 and a target of 36.1 °C turn
an error of 0.7 into one of -0.8.

`FeedMirrorProofs`, for any feeds, lag, chunk and number of faults: `MirrorTyped`,
`MirrorsComplete` (`Spec => []MirrorComplete`) and `FramesHonest`
(`Spec => []FrameHonest`). The inductive `IInv` has four parts: `BaseInv`, the
types; `MarkInv`, that a mark stands at a stored sample below which everything
reported is there or came late; `SyncInv`, the same up to where the run under way
has asked, with its `last` equal to the mark that it has not moved; `SimInv`, that
what is simulated, or in a gap that will be, lies before a later power sample, so
that its own sample is `belated` if it comes at all.

`ThermalModelProofs`, for any house, configurations and telemetry: `ImportsRestore`,
`GateVouchesAlways`, `BaselinesAcceptThemselves` and `BlindParametersHold`. `Shape`
has what the scripts keep, `ImportInv` what an import at its n-th file has put back,
`FilesInv` and `SnapshotInv` that every file in its place is an artifact of its
command, `CheckInv` that the pairs compared so far passed. The assumptions:

- `BaseAssumption`: the configuration the committed baselines were made with can be
  calibrated.
- `TelemetryAssumption`: every series belongs to a room of the geometry, since
  `build_room_series` keeps no other.
- `ConfigsAssumption`: bounds and priors are whole numbers (per cent), and a range
  has a positive step; with another `frange` would not end.
- `FiguresAssumption`: the figures of every report are integers. It stands for a
  proof, because means and sums are folds over data, of which the provers know
  nothing. The figures of a fit need none (`FitFigures`).

TLC evaluates all of them for the house of the run. `BaselinesAcceptThemselves` is
about artifacts whose figures are numbers: NaN fails every comparison.

`BlindParametersHold` exchanges one value of the best candidate for another of the
same range. A room's predicted rate depends on the air changes of that room alone
(`SameElsewhere`), so the error of a night does not change with those of a room left
out (`SameRmse`), and two scores differ only by what the priors add (`Exchange`). The
first conservatory value is then as good and was tried before; a landing value
nearer its prior would be better.

`DhwSessionsProofs`, for any samples, windows and bounds on runs, faults and length
of the series, from `DhwSessionsAssumption` (the storage is followed for no less than
the margin around a draw: five minutes and two in the code):

- `RecommendationsBacked`: `Spec => []CapacityBacked`, and `RecommendationsHold`:
  `Spec => []RecommendationHolds`. Neither is inductive. A second run over the same
  window, after one that failed half-way or one that ended, writes rows of that
  window again, and a row more would change what an old recommendation rests on.
  `TablesInv` says why it does not: as long as nothing is recorded, a window has the
  same results (`JobInv`), every row of it is one of theirs (`RowsInv`), and of those
  that a recommendation rests on none is missing (`CapacityInv`); once more is
  recorded no run has that window again. What is written is sound: a result's
  measurement, mains temperature and category are what the later arithmetic expects
  (`ResultsAreSound`), and the regression's answer is never below the best
  (`RegressionIs`, `RecommendedIs`).
- `MeasurementsCounted`: `Spec => []CapacityCounted`. The trapezoids over rows that
  miss no minute are differences of the register (`IntegralIs`), which only grows
  (`RegisterGrows`). The property compares a row with a series that goes on, so
  `CountInv` carries the bound (`Measurement`) and `MeasurementKept` keeps it.
- `RunsAgree`: `Spec => []RowsAgree`. First two windows over one series: from the
  first poll row before the charge on they know the same values (`ValuesAgree`), so
  they find the same spells, the same charge before the draw, and the same points
  (`SpellAgrees`, `ChargeAgrees`, `PrecedingAgrees`, `FreshAgree`); the rows are of
  either window's draw. Then one window while the series grows: what lies in it does
  not change once the draw has settled (`ResultKept`), which is what `FreshInv` says
  of every row.

The sums are recursive functions over instants; `SumsExist` has them from the
library's theorem on functions defined over the naturals, and what is proved of them
(`TotalIs`, `TotalGrows`, `TotalAdds`) takes the least counterexample, not induction.

`OvernightProofs` first proves of `NightChoice`, for any results of any number of
nights and strategies, any targets that satisfy `NightChoiceAssumption`, and any
order of runs:

- `SweepIsMonotone`: `ChoiceSpec => []TargetsMonotone`. With it the subtraction
  of unsigned counts in the key insight cannot wrap.
- `PrintedTotalsOrdered`: `ChoiceSpec => []TotalsOrdered`.

Both follow from the inductive `IInv`, which adds to them that the totals are
numbers, that no strategy met more nights than were tallied and that nothing is
spent before the first night. The argument is one night's: the cheapest feasible
strategy exists and is least (`LeastNatural`, `CheapestIsLeast`), what is chosen
costs no more than what was measured (`ChosenWell`), a lower target has more to
choose from (`ChosenMonotone`), and the fallback on the warmest is taken only
where it is no dearer (`SummarisedWell`). `TallyInv` adds the night.

- `PicksAgree`: `ChoiceSpec => []PicksAddUp`. `PicksInv` states the sums at every
  step of a run, after a panic or an error too, with the types of the picks. A
  night changes one summand of each sum (`SummedChange`), and which one is where
  the savings of the night go (`PicksTally`).

Then of `Overnight`, for any tracks, tariffs, hot-water modes, OFF times, bins and
thresholds that `OvernightAssumption` types (in it only three facts are more than
types: the modes have names of their own, the default rate of cooling lies between
the bounds, and a night and a bin need at least one sample):

- `BacktestIsAChoice`: `Spec => ChoiceSpec`, the refinement. The variables of
  `NightChoice` are those of `Overnight`, so the mapping is the identity; what has to
  be shown is that `Generate` lists strategies and `BacktestNight` delivers a result
  of the right type, one simulation per strategy. That needs the whole computation:
  the nights are nights of the record, by date (`NightsKnown`); a bin's power is no
  less than zero (`BinsCalibrated`), so that a look-up between, below or above the bins
  is (`HeatingLookedUp`), and with it every minute of a simulation (`IndoorsAlong`,
  `PowerTyped`) and its bill (`BillTyped`, `SimulatedTyped`).
- `RunsAddUp`: `Spec => [](TargetsMonotone /\ TotalsOrdered /\ PicksAddUp)`, from the
  refinement and the three theorems about `NightChoice`.
- `RunsTypeCorrect`: `Spec => []TypeOK`. The rate of cooling is within its bounds
  whatever was recorded (`CoolingBounded`).
- `HotWaterIsCheap`: `Spec => []DhwAtLowestRate`. Every schedule puts its hot water
  inside the window it was made for (`ContinuousFits`, `OffFits`, `GeneratedFit`), so
  the minutes of a night that it covers are all at the lowest rate of a night with
  that window (`CosyCovers`).
- `NightLabelsForgetTheStart`: `Spec => []FrameStartForgotten`, and
  `FrameStartNeverMatters`, its form for rows without end: two classifiers that
  start from any memories agree for good from the first decisive row on, for any
  thresholds with `ExitDhw <= EnterDhw`. `AgreeOnceSettled` is stronger than "the same
  label": within a defrost the state to return to must agree too (`Agree`).
  `DecisiveForgets` establishes it, `AgreementKept` keeps it; `FramesAgree` takes both
  to a recorded night with gaps.

All but the last follow from one inductive invariant, `RunsInv`: the log and the
nights are of the record (`LogOK`, `NightsOK`), the model is typed and k bounded
(`ModelInv`), the stage says what is there (`RunInv`), every schedule is one of a known
mode and every result has a simulation for each (`ResultsInv`), and each simulated
night pays the lowest rate where it should (`CoveredInv`). The last part is needed
because a result outlives the step that computed it: the property compares it with
the schedules and the tariff of a later state. One step per action keeps it
(`StartRuns`, `CalibrateRuns`, ..., `ReportRuns`).

What is proved of the sums rests on `RecursionExists`, which has them from the
library's theorem on functions defined over the naturals, and on `UpToInduction`, an
argument by least counterexample; `Flattened` does the same for the concatenation of
the lists of schedules.

`HistoryProofs`, for any record, windows of it, targets and scale that satisfies
`ScaleAssumption` (a bucket is shorter than the minimum charge: 30 s and 5 minutes):

- `ChargesAreTheRecords`: `Spec => []ChargesAsRecorded`.
- `MissesAreTheRecords`: `Spec => []MissesAsRecorded`.
- `WiderIsNeverBlessed`: `Spec => []WiderNeverBlessed`.

`ReviewInv` has the store typed and, of a report, what the three properties need
(`ReportOK`). Its charges and misses are compared with readings of the store, which
no later step changes; and since the report keeps of the summary only the verdict, it
also says what a verdict "failing" had to show: a miss, or a low T1 row. What is
proved is mostly about one series (`SeriesOK`) of rows that are on or off: in a period
it is on (`PeriodIsOn`), where it is on there is a period that goes on to the next row
that is off (`OnIsInPeriod`), and two periods are apart (`PeriodsAreApart`). Then the
series is tied to the store. For the room the series is on where the reading in force
is cold (`ColdIsOn`), since the latest row before an instant, or the lookback of the
baseline, is what is in force (`RowInForce`, `BaselineInForce`); clipping is arithmetic
on days (`ClipInstants`). For the flow a stamp stands for the last row of its bucket,
which is the last of all buckets up to it (`FlowRowsAre`), so a period speaks of the
ends of buckets (`ChargePeriodRuns`), and a run must last one bucket more than the
minimum to be sure of its period (`RunIsInPeriod`). A wider window finds the same
reading in force (`ForceWidens`) and the same rows (`LowWidens`).

Only model-checked:

- `SettledByNextOuter`: whether the loop settles depends on the slope, the gain and
  the rounding together, and below about 3 °C it need not.
- `HeardAsSent` and `WholeIsHeard` of `EbusLine`: the CRC is bitwise arithmetic, whose
  module cannot be used where theorems are.
- `BisectionSound` and `TableMonotone`: they are about the table of one house; a house
  whose heat flow is not monotone in a room's temperature has none such.
- `CoastEnds`, `KillDisables` and `CatchesUp`: liveness under fairness is out of the
  prover's reach.

## Findings

`solver_one_sweep`: `src/thermal/display.rs:421` describes sweeps repeated "until
all rooms converge". The bisection of each room writes its probes into the shared
map, so that what `temps.insert(name, new_t)` returns is the last probe, next to
the result; the largest change is always below the tolerance
(`src/thermal/display.rs:307`) and the loop ends after one sweep from 19 °C. Run
to convergence (17 to 22 sweeps) the model asks for other water temperatures for
20.5 °C in Leather: 33.4 instead of 30.9 °C at -2 °C outside, 30.6 instead of
29.1 at 5, 28.3 instead of 27.7 at 10, 25.8 instead of 26.1 at 15.
`TableMonotone` and `BisectionSound` hold of the table as it is printed.

## Known divergences

Places where the code and its documentation part, met while modelling. The
models follow the code; no run is kept for them.

- `lat.md/heating-control.md:76` has `heating_off` track `Z1OpMode=off`. After a
  crash in a coast, start-up writes `night` and keeps the flag that the state
  file brought back; as long as the coast conditions hold, the cycle logs a coast
  and the zone heats.
- The same paragraph restores `night` "before any active heating write". Only the
  `Occupied` branch does; a setback mode requested in a coast writes curves with
  zone 1 off.
- `lat.md/heating-control.md:61` gives Disabled "No eBUS writes". A cycle under
  way goes on from its clone: up to three writes (`StragglerBound`).
- `lat.md/heating-control.md:152` has the timer memory cleared when a write fails.
  When a *later* write of the cycle fails, the clone with the new memory is
  dropped while the register keeps the new timer.
- `lat.md/heating-control.md:66` has every transition from Disabled to an active mode
  run the start-up writes, and `lat.md/infrastructure.md:174` has `Z1OpMode=night`
  during adaptive control. `set_mode` reads the previous mode first
  (`src/bin/adaptive-heating-mvp.rs:2494-2497`) and applies the new one later
  (`:2515`): a request for Occupied that read an active mode just before a `/kill`
  ended takes Disabled to Occupied without those writes, and the zone stays on
  `auto` with a minimum flow of 20 °C. Two handlers, `/mode/occupied` and `/kill`,
  no faults and no crashes violate `NightWhileActive`.
- `src/bin/adaptive-heating-mvp.rs:2299`, "inner loop converges regardless", and
  `lat.md/heating-control.md:29`, "Converges in 1–2 ticks". At -5 °C a whole unit of
  curve is worth 53 °C, so that a gain of 0.05 corrects an error 2.65 times over
  (half the gain below a curve of 0.25, and still 1.3 times). With slope 531 and
  a target of 34, 38 or 42 °C the curve swings for ever, as in 0.55, 0.35, 0.17, 0.32, 0.22,
  0.30, 0.25, 0.34, 0.19, ...
- `lat.md/heating-control.md:42` leaves no flow target in a warm-end fallback
  tick. The last stage of AwayUntil sets one all the same.
- A cycle between 07:00:00 and 07:00:59 predicts T1 for the next morning with no
  decay, since the hours until 07:00 are 0 and the weekday has rolled
  (`lat.md/tests.md:191`). The timer is wrong until the next cycle with a reading.
- A moment after 23:59 belongs to no slot, and a tariff with two Cosy windows to
  none at all, although `lat.md/heating-control.md:135` launches "during any Cosy
  window". Both are left out of `CosyNeedLaunched`, by name.
- `README.md` has filled gaps "energy-scaled to match meters". A short gap is a
  straight line, whatever the meter says, and where every estimate is zero there
  is nothing to scale (`src/gaps.rs:471`).
- A load is stuck when its charge "never starts" (`docs/vrc700-settings-audit.md:143`).
  The warning (`src/thermal/history.rs:520`) asks for a period that ends within
  ten minutes, and a charge shorter than the minimum is no period: it is given
  for a charge that has just begun.
- `lat.md/thermal-model.md:132` has the solver use the calibrated discharge
  coefficient and air changes; `src/thermal/display.rs` takes 0.20 and those of
  the geometry.

## What is not modelled

- The ctrl-c task of the controller: the same race as `ExecStop`, with the
  control thread still running beside a restore; planned.
- A state file torn by a crash inside `fs::write`; planned.
- Sensor queries, status page, decision log, forecast cache: they read, or write
  what no decision reads.
- Temperatures and times in `HeatingController`: `FlowLoop` has the curve,
  `DhwPlan` the clock. The overnight trajectory and the conditions of a
  coast are arithmetic on one reading.
- How long a DHW charge runs. A restore sets `HwcSFMode=auto`, which ends a charge
  under way; its slot counts as launched after the restart.
- `master_of`, `slave_of` and `is_slave` of `ebus-core`, which nothing calls.
- Feed metadata and daily totals of `src/db.rs`, which only read or replace rows.
- The Polars aggregations, COP tables and design comparison of `src/analysis.rs`,
  and the DHW cycle statistics of the optimiser: data queries and prints.
- Solar geometry and the Open-Meteo queries (their results are inputs of
  `ModelFit`), the SQL of `tsdb.rs`, whole-house watts and per-room summaries,
  which are only printed; the `cargo fmt` and `clippy` gates of the regression
  script.
- Argument handling and dispatch, the tariff import, polling and deployment
  scripts, the Python inventory tools: one-shot, without state.
- `cosy-scheduler`: retired (`docs/vrc700-settings-audit.md:200`).
