------------------------------ MODULE Baselines ------------------------------
(* The life of the thermal model's artifacts: the commands of src/thermal   *)
(* that write them, thermal-regression-check, the two shell scripts that    *)
(* copy and compare baselines, and the export and import of snapshots.      *)
EXTENDS ModelFit

CONSTANTS
    LabHouse,           \* the geometry the commands load
    Configs,            \* name of a thermal-config.toml -> what it says
    Telemetry,          \* what the database will have recorded
    Nows,               \* when a command may run, in half hours
    Base,               \* the config the repository holds at first, and when its
                        \* baselines were made
    MaxRuns,            \* commands that write an artifact
    MaxEdits,           \* edits of the config, and of a snapshot's files
    MaxScripts          \* scripts started

Commands == {"calibrate", "validate", "fit-diagnostics", "operational"}
Refreshed == <<"calibrate", "validate", "fit-diagnostics">>
Compared == <<"calibrate", "validate", "fit-diagnostics", "operational">>
Exported == <<"calibrate", "validate", "fit-diagnostics", "thresholds", "config">>

ASSUME BaselinesAssumption ==
    Base.config \in DOMAIN Configs /\ Base.at \in Nows /\ Nows \subseteq Nat

(* A series is kept for the rooms of the geometry alone.                    *)
ASSUME TelemetryAssumption ==
    /\ {"rooms", "walls", "doors"} \subseteq DOMAIN LabHouse
    /\ DOMAIN Telemetry.rooms \subseteq DOMAIN LabHouse.rooms

ASSUME ConfigsAssumption ==
    \A c \in DOMAIN Configs :
        /\ \A p \in Calibrated \cup {"cd"} :
              LET b == Configs[c].bounds[p]
              IN  b.min \in Int /\ b.max \in Int /\ b.step \in Nat \ {0}
        /\ Configs[c].priorWeight \in Int
        /\ Configs[c].priors.landing \in Int /\ Configs[c].priors.cd \in Int

VARIABLES
    tree,               \* path -> content: baselines, thresholds, config
    latest,             \* command -> its newest artifact
    now,
    shell,              \* the script that runs and the step it is at
    checked,            \* what the regression script compared, and its end
    snapshot,           \* directory of the last export
    restored,           \* what an import of that snapshot has written
    used                \* runs, edits and scripts so far

labVars == <<tree, latest, now, shell, checked, snapshot, restored, used>>

Absent == [kind |-> "absent"]
Altered == [kind |-> "altered"]
Thresholds == [kind |-> "thresholds"]
ConfigFile(c) == [kind |-> "config", config |-> c]
Artifact(command, c, t, fit, report) ==
    [kind |-> "artifact", command |-> command, config |-> c, at |-> t, fit |-> fit,
     report |-> report]

File(path) == IF path \in DOMAIN tree THEN tree[path] ELSE Absent
Write(path, content) == tree' = Inserted(tree, path, content)

(* A content is its own hash.                                               *)
Sha(content) == content

-----------------------------------------------------------------------------

Fitted == Tabled([c \in DOMAIN Configs |-> CalibrateModel(LabHouse, Configs[c], Telemetry)])

(* What a command reports of a fit, or None when it stops with an error.    *)
Report(fit, command, c, t) ==
    CASE command = "calibrate"       -> Some(fit)
      [] command = "validate"        -> Validation(LabHouse, Configs[c], Telemetry, fit)
      [] command = "fit-diagnostics" -> FitDiagnostics(LabHouse, Configs[c], Telemetry, fit, t)
      [] command = "operational"     -> Operational(LabHouse, Configs[c], Telemetry, fit, t)

(* The artifact of a command under a config, if it comes to one. Every      *)
(* command calibrates the model anew before anything else.                  *)
Computed ==
    LET fits == Fitted
        made(command, c, t) ==
            UNION {{Artifact(command, c, t, fit, report) : report \in Report(fit, command, c, t)} :
                       fit \in fits[c]}
    IN  Tabled([x \in Commands \X (DOMAIN Configs) \X Nows |-> made(x[1], x[2], x[3])])

(* What a report says in numbers, and what it counts.                       *)
Figures(command, y) ==
    CASE command = "validate"        -> {y.metrics.rmse, y.metrics.bias, y.metrics.within}
      [] command = "fit-diagnostics" -> y.cooling.rmse \cup y.cooling.mae \cup y.ratio
      [] command = "operational"     -> y.all.rmse \cup y.all.mae \cup y.all.bias
      [] OTHER                       -> {}

Counts(command, y) ==
    CASE command = "fit-diagnostics" -> {y.records, y.cooling.n}
      [] command = "operational"     -> {y.records}
      [] OTHER                       -> {}

(* The commands came to the artifacts the repository holds, and what they   *)
(* report is in numbers.                                                    *)
ASSUME BaseAssumption ==
    \A command \in Commands : Computed[<<command, Base.config, Base.at>>] # {}

ASSUME FiguresAssumption ==
    \A x \in Commands \X (DOMAIN Configs) \X Nows : \A a \in Computed[x] :
        Figures(a.command, a.report) \subseteq Int /\ Counts(a.command, a.report) \subseteq Nat

-----------------------------------------------------------------------------
(* thermal-regression-check, with the values of regression-thresholds.toml. *)

CloseTo(a, b, delta) == AbsOf(b - a) <= delta
\* Mutant: what is kept held against what may be dropped.
KeptNotDropped(baseline, candidate, drop) ==
    baseline = 0 \/ candidate * 1000 <= drop * baseline

KeptOf(baseline, candidate, drop) ==
    baseline = 0 \/ Max({baseline - candidate, 0}) * 1000 <= drop * baseline

(* A field that is null makes the comparison fail with an error.            *)
CloseNumbers(a, b, delta) == a # None /\ b # None /\ CloseTo(TheOne(a), TheOne(b), delta)

ParamsClose(a, b) ==
    \A p \in DOMAIN a.fit.params : CloseTo(a.fit.params[p], b.fit.params[p], 25)

CalibrationClose(a, b) ==
    /\ CloseTo(Final(a.fit), Final(b.fit), 50)
    /\ CloseTo(a.fit.night1, b.fit.night1, 50)
    /\ CloseTo(a.fit.night2, b.fit.night2, 50)

ValidationClose(x, y) ==
    /\ CloseTo(x.metrics.rmse, y.metrics.rmse, 50)
    /\ CloseTo(x.metrics.bias, y.metrics.bias, 100)
    /\ x.metrics.within - y.metrics.within <= 30
    /\ y.pass

FitClose(x, y) ==
    /\ CloseNumbers(x.cooling.rmse, y.cooling.rmse, 50)
    /\ CloseNumbers(x.cooling.mae, y.cooling.mae, 50)
    /\ x.ratio = None \/ y.ratio = None \/ CloseNumbers(x.ratio, y.ratio, 30)
    /\ KeptOf(x.records, y.records, 150)
    /\ KeptOf(x.cooling.n, y.cooling.n, 150)

OperationalClose(x, y) ==
    /\ CloseNumbers(x.all.rmse, y.all.rmse, 50)
    /\ CloseNumbers(x.all.mae, y.all.mae, 50)
    /\ CloseNumbers(x.all.bias, y.all.bias, 100)
    /\ KeptOf(x.records, y.records, 150)

GatePasses(baseline, candidate) ==
    /\ {baseline.kind, candidate.kind} = {"artifact"}
    /\ baseline.command = candidate.command
    /\ baseline.config = candidate.config
    /\ ParamsClose(baseline, candidate)
    /\ LET x == baseline.report
           y == candidate.report
       IN  CASE baseline.command = "calibrate"       -> CalibrationClose(baseline, candidate)
             [] baseline.command = "validate"        -> CalibrationClose(baseline, candidate) /\ ValidationClose(x, y)
             [] baseline.command = "fit-diagnostics" -> FitClose(x, y)
             [] baseline.command = "operational"     -> OperationalClose(x, y)

-----------------------------------------------------------------------------

NoScript == [script |-> "none", step |-> 0]
Begin(script) == shell' = [script |-> script, step |-> 1]
Onwards == shell' = [shell EXCEPT !.step = @ + 1]
Stop == shell' = NoScript
Running(script) == shell.script = script
Doing(names) == names[shell.step]
More(names) == shell.step <= Len(names)

NotChecked == [pairs |-> <<>>, verdict |-> "none"]
NoSnapshot == [kept |-> <<>>, manifest |-> <<>>, complete |-> FALSE]
NothingRestored == [wrote |-> <<>>, complete |-> FALSE]

LabInit ==
    /\ tree = [path \in Commands \cup {"thresholds", "config"} |->
                   CASE path = "thresholds" -> Thresholds
                     [] path = "config" -> ConfigFile(Base.config)
                     [] OTHER -> TheOne(Computed[<<path, Base.config, Base.at>>])]
    /\ latest = [command \in Commands |-> Absent]
    /\ now = Min(Nows)
    /\ shell = NoScript
    /\ checked = NotChecked
    /\ snapshot = NoSnapshot
    /\ restored = NothingRestored
    /\ used = [runs |-> 0, edits |-> 0, scripts |-> 0]

(* thermal-calibrate, -validate, -fit-diagnostics or -operational: an       *)
(* artifact of a new name, or an error and nothing written.                 *)
RunCommand(command) ==
    LET c == File("config").config
    IN  /\ used.runs < MaxRuns
        /\ File("config").kind = "config"
        /\ \E artifact \in Computed[<<command, c, now>>] :
               latest' = [latest EXCEPT ![command] = artifact]
        /\ used' = [used EXCEPT !.runs = @ + 1]
        /\ UNCHANGED <<tree, now, shell, checked, snapshot, restored>>

EditConfig(c) ==
    /\ used.edits < MaxEdits
    /\ File("config") # ConfigFile(c)
    /\ Write("config", ConfigFile(c))
    /\ used' = [used EXCEPT !.edits = @ + 1]
    /\ UNCHANGED <<latest, now, shell, checked, snapshot, restored>>

(* More telemetry is recorded.                                              *)
TimePasses(t) ==
    /\ t > now
    /\ now' = t
    /\ UNCHANGED <<tree, latest, shell, checked, snapshot, restored, used>>

(* Somebody, or a merge, changes a file of the snapshot as it lies there.   *)
AlterSnapshot(path) ==
    /\ used.edits < MaxEdits
    /\ snapshot.complete /\ shell = NoScript
    /\ snapshot' = [snapshot EXCEPT !.kept[path] = Altered]
    /\ used' = [used EXCEPT !.edits = @ + 1]
    /\ UNCHANGED <<tree, latest, now, shell, checked, restored>>

(* A script is started by hand, the two of snapshots with an approval and a *)
(* reason. An export makes a directory of its own.                          *)
StartScript(script) ==
    /\ shell = NoScript
    /\ used.scripts < MaxScripts
    /\ script = "import" => snapshot.complete
    /\ Begin(script)
    /\ checked' = IF script = "ci" THEN [pairs |-> <<>>, verdict |-> "running"] ELSE checked
    /\ snapshot' = IF script = "export" THEN NoSnapshot ELSE snapshot
    /\ restored' = IF script \in {"export", "import"} THEN NothingRestored ELSE restored
    /\ used' = [used EXCEPT !.scripts = @ + 1]
    /\ UNCHANGED <<tree, latest, now>>

Killed ==
    /\ shell # NoScript
    /\ Stop
    /\ checked' = IF Running("ci") THEN NotChecked ELSE checked
    /\ UNCHANGED <<tree, latest, now, snapshot, restored, used>>

(* refresh-thermal-baselines.sh copies the newest artifact of each command  *)
(* but the last over its baseline, and stops where there is none.           *)
RefreshOne ==
    /\ Running("refresh")
    /\ IF More(Refreshed) /\ latest[Doing(Refreshed)] # Absent
       THEN Onwards /\ Write(Doing(Refreshed), latest[Doing(Refreshed)])
       ELSE Stop /\ UNCHANGED tree
    /\ UNCHANGED <<latest, now, checked, snapshot, restored, used>>

\* Mutant: a failed comparison is reported and the next one made.
CompareAnyway ==
    LET command == Doing(Compared)
        baseline == File(command)
        candidate == IF latest[command] = Absent THEN baseline ELSE latest[command]
        passes == baseline # Absent /\ GatePasses(baseline, candidate)
        pair == [command |-> command, baseline |-> baseline, candidate |-> candidate]
    IN  /\ Running("ci")
        /\ checked' = [pairs   |-> Append(checked.pairs, pair),
                       verdict |-> IF shell.step < Len(Compared) THEN "running"
                                   ELSE IF passes THEN "passed" ELSE "failed"]
        /\ IF shell.step < Len(Compared) THEN Onwards ELSE Stop
        /\ UNCHANGED <<tree, latest, now, snapshot, restored, used>>

(* thermal-regression-ci.sh: a baseline without an artifact stands for it.  *)
CompareOne ==
    LET command == Doing(Compared)
        baseline == File(command)
        candidate == IF latest[command] = Absent THEN baseline ELSE latest[command]
        passes == baseline # Absent /\ GatePasses(baseline, candidate)
        pair == [command |-> command, baseline |-> baseline, candidate |-> candidate]
    IN  /\ Running("ci")
        /\ checked' = [pairs   |-> Append(checked.pairs, pair),
                       verdict |-> CASE ~passes -> "failed"
                                     [] passes /\ shell.step = Len(Compared) -> "passed"
                                     [] OTHER -> "running"]
        /\ IF passes /\ shell.step < Len(Compared) THEN Onwards ELSE Stop
        /\ UNCHANGED <<tree, latest, now, snapshot, restored, used>>

(* snapshot_export: a file is copied and the copy hashed; the manifest is   *)
(* the last thing written.                                                  *)
ExportOne ==
    /\ Running("export")
    /\ CASE More(Exported) /\ File(Doing(Exported)) # Absent ->
              LET path == Doing(Exported)
              IN  /\ snapshot' = [snapshot EXCEPT !.kept = Inserted(@, path, File(path)),
                                                  !.manifest = Inserted(@, path, Sha(File(path)))]
                  /\ Onwards
         [] More(Exported) /\ File(Doing(Exported)) = Absent ->
              Stop /\ UNCHANGED snapshot
         [] ~More(Exported) ->
              Stop /\ snapshot' = [snapshot EXCEPT !.complete = TRUE]
    /\ UNCHANGED <<tree, latest, now, checked, restored, used>>

\* Mutant: the files are copied back without a look at their hashes.
ImportUnchecked ==
    /\ Running("import")
    /\ IF More(Exported)
       THEN LET path == Doing(Exported)
            IN  /\ Write(path, snapshot.kept[path])
                /\ restored' = [restored EXCEPT !.wrote = Inserted(@, path, snapshot.kept[path])]
                /\ Onwards
       ELSE Stop /\ UNCHANGED tree /\ restored' = [restored EXCEPT !.complete = TRUE]
    /\ UNCHANGED <<latest, now, checked, snapshot, used>>

(* snapshot_import: each file of the manifest is hashed and, when the hash  *)
(* is right, copied back before the next is looked at.                      *)
ImportOne ==
    /\ Running("import")
    /\ CASE More(Exported) /\ Sha(snapshot.kept[Doing(Exported)]) = snapshot.manifest[Doing(Exported)] ->
              LET path == Doing(Exported)
              IN  /\ Write(path, snapshot.kept[path])
                  /\ restored' = [restored EXCEPT !.wrote = Inserted(@, path, snapshot.kept[path])]
                  /\ Onwards
         [] More(Exported) /\ Sha(snapshot.kept[Doing(Exported)]) # snapshot.manifest[Doing(Exported)] ->
              Stop /\ UNCHANGED <<tree, restored>>
         [] ~More(Exported) ->
              Stop /\ UNCHANGED tree /\ restored' = [restored EXCEPT !.complete = TRUE]
    /\ UNCHANGED <<latest, now, checked, snapshot, used>>

LabNext ==
    \/ \E command \in Commands : RunCommand(command)
    \/ \E c \in DOMAIN Configs : EditConfig(c)
    \/ \E t \in Nows : TimePasses(t)
    \/ \E path \in DOMAIN snapshot.kept : AlterSnapshot(path)
    \/ \E script \in {"refresh", "ci", "export", "import"} : StartScript(script)
    \/ Killed
    \/ RefreshOne
    \/ CompareOne
    \/ ExportOne
    \/ ImportOne
-----------------------------------------------------------------------------

Artifacts == {a \in {latest[command] : command \in Commands} \cup {tree[path] : path \in DOMAIN tree} :
                  a.kind = "artifact"}

(* What the grid search says of a room it leaves out of the score is not    *)
(* about the room: a balance at measured temperatures depends on the air    *)
(* changes of its own room alone, so every value of conservatory_ach scores *)
(* the same and the first of its range is reported, and landing_ach is the  *)
(* value nearest its prior, whatever was measured.                          *)
BlindParameters ==
    \A a \in Artifacts :
        LET cfg == Configs[a.config]
            off(v) == AbsOf(v - cfg.priors.landing)
        IN  /\ "conservatory" \in cfg.exclude =>
                   a.fit.params.conservatory = cfg.bounds.conservatory.min
            /\ "landing" \in cfg.exclude /\ cfg.priorWeight > 0 =>
                   \A v \in FRange(cfg.bounds.landing) : off(a.fit.params.landing) <= off(v)

(* An import that runs to its end has put back what the export hashed, file *)
(* by file, whatever happened to the snapshot in between.                   *)
ImportRestores ==
    restored.complete =>
        \A i \in DOMAIN Exported :
            Sha(restored.wrote[Exported[i]]) = snapshot.manifest[Exported[i]]

(* When the regression script reports that all checks passed, it has looked *)
(* at all four commands, each pair came from one configuration and fitted   *)
(* nearly the same house, and the candidate meets the holdout thresholds.   *)
GateVouches ==
    checked.verdict = "passed" =>
        /\ {p.command : p \in ToSet(checked.pairs)} = Commands
        /\ \A p \in ToSet(checked.pairs) :
               /\ p.baseline.config = p.candidate.config
               /\ ParamsClose(p.baseline, p.candidate)
               /\ p.command = "validate" => p.candidate.report.pass

(* A baseline compared with itself fails only for what is wrong with it on  *)
(* its own: it misses the holdout thresholds, or it summarises no record.   *)
BaselineAcceptsItself ==
    checked.verdict = "failed" =>
        LET p == Last(checked.pairs)
        IN  p.baseline = p.candidate /\ p.baseline # Absent =>
                \/ p.command = "validate" /\ ~p.baseline.report.pass
                \/ p.command = "fit-diagnostics" /\ p.baseline.report.cooling.n = 0
                \/ p.command = "operational" /\ p.baseline.report.all.n = 0
=============================================================================
