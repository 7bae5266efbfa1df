------------------------- MODULE ThermalModelProofs -------------------------
(* Proofs about ThermalModel, for every house, configuration, telemetry and *)
(* bound: the files the scripts copy are where they belong, an import puts  *)
(* back what was exported, the regression script vouches for what it says,  *)
(* and a fit says nothing of the rooms its score leaves out.                *)
EXTENDS ThermalModel, FiniteSetTheorems, SequenceTheorems, TLAPS

Paths == Commands \cup {"thresholds", "config"}

-----------------------------------------------------------------------------
(* Maps, sequences and least elements.                                      *)

LEMMA InsertedDomain ==
    ASSUME NEW map, NEW key, NEW value
    PROVE  DOMAIN Inserted(map, key, value) = DOMAIN map \cup {key}
BY DEF Inserted

LEMMA InsertedHere ==
    ASSUME NEW map, NEW key, NEW value
    PROVE  Inserted(map, key, value)[key] = value
BY DEF Inserted

LEMMA InsertedElsewhere ==
    ASSUME NEW map, NEW key, NEW value, NEW k \in DOMAIN map, k # key
    PROVE  Inserted(map, key, value)[k] = map[k]
BY DEF Inserted

LEMMA TabledIs ==
    ASSUME NEW f
    PROVE  Tabled(f) = f
BY DEF Tabled

LEMMA LeastNatural ==
    ASSUME NEW T \in SUBSET Nat, T # {}
    PROVE  \E x \in T : \A y \in T : x <= y
<1> DEFINE R == OpToRel(<, Nat)
<1>1. IsWellFoundedOn(R, Nat) BY NatLessThanWellFounded
<1> HIDE DEF R
<1>2. PICK x \in T : \A y \in T : ~ (<<y, x>> \in R) BY <1>1, WFMin
<1>3. ASSUME NEW y \in T PROVE x <= y
  <2>1. x \in Nat /\ y \in Nat OBVIOUS
  <2>2. y < x => <<y, x>> \in R BY <2>1 DEF R, OpToRel
  <2> QED BY <1>2, <2>1, <2>2
<1> QED BY <1>2, <1>3

LEMMA MinOfNows == Min(Nows) \in Nows
<1>1. Nows \in SUBSET Nat /\ Nows # {} BY BaselinesAssumption
<1>2. \E x \in Nows : \A y \in Nows : x <= y BY <1>1, LeastNatural
<1> QED BY <1>2 DEF Min

\* A sequence of whatever its elements are.
IsSeq(s) == s \in Seq(ToSet(s))

LEMMA AppendIs ==
    ASSUME NEW s, IsSeq(s), NEW e
    PROVE  /\ IsSeq(Append(s, e)) /\ Len(s) \in Nat
           /\ Len(Append(s, e)) = Len(s) + 1
           /\ \A i \in 1..Len(s) : Append(s, e)[i] = s[i]
           /\ Append(s, e)[Len(s) + 1] = e
<1> DEFINE S == ToSet(s) \cup {e}
<1>1. s \in Seq(S) BY SeqMonotonic DEF IsSeq
<1>2. /\ Append(s, e) \in Seq(S)
      /\ Len(Append(s, e)) = Len(s) + 1
      /\ \A i \in 1..Len(s) : Append(s, e)[i] = s[i]
      /\ Append(s, e)[Len(s) + 1] = e
  BY <1>1, AppendProperties
<1>3. /\ Len(s) \in Nat
      /\ DOMAIN Append(s, e) = 1..Len(Append(s, e))
      /\ Append(s, e) = [i \in 1..Len(Append(s, e)) |-> Append(s, e)[i]]
  BY <1>1, <1>2, LenProperties
<1>4. Append(s, e) \in [1..Len(Append(s, e)) -> ToSet(Append(s, e))]
  BY <1>3 DEF ToSet
<1>5. Append(s, e) \in Seq(ToSet(Append(s, e)))
  BY <1>2, <1>3, <1>4, SeqDef
<1> QED BY <1>2, <1>3, <1>5 DEF IsSeq

-----------------------------------------------------------------------------
(* The steps of ThermalModel, and the shape of what the scripts keep.       *)

Scripts == {"refresh", "ci", "export", "import"}

LEMMA Steps ==
    [Next]_vars =>
        \/ UNCHANGED labVars
        \/ \E command \in Commands : RunCommand(command)
        \/ \E c \in DOMAIN Configs : EditConfig(c)
        \/ \E t \in Nows : TimePasses(t)
        \/ \E path \in DOMAIN snapshot.kept : AlterSnapshot(path)
        \/ \E script \in Scripts : StartScript(script)
        \/ Killed \/ RefreshOne \/ CompareOne \/ ExportOne \/ ImportOne
BY DEF Next, LabNext, vars, Scripts

LEMMA ExportCases ==
    ASSUME ExportOne
    PROVE  \/ /\ More(Exported) /\ File(Doing(Exported)) # Absent
              /\ snapshot' = [snapshot EXCEPT
                     !.kept = Inserted(@, Doing(Exported), File(Doing(Exported))),
                     !.manifest = Inserted(@, Doing(Exported), Sha(File(Doing(Exported))))]
              /\ Onwards
           \/ More(Exported) /\ Stop /\ UNCHANGED snapshot
           \/ ~More(Exported) /\ Stop /\ snapshot' = [snapshot EXCEPT !.complete = TRUE]
<1>1. CASE More(Exported) /\ File(Doing(Exported)) # Absent BY <1>1 DEF ExportOne
<1>2. CASE More(Exported) /\ File(Doing(Exported)) = Absent BY <1>2 DEF ExportOne
<1>3. CASE ~More(Exported) BY <1>3 DEF ExportOne
<1> QED BY <1>1, <1>2, <1>3

LEMMA ImportCases ==
    ASSUME ImportOne
    PROVE  \/ /\ More(Exported)
              /\ snapshot.kept[Doing(Exported)] = snapshot.manifest[Doing(Exported)]
              /\ Write(Doing(Exported), snapshot.kept[Doing(Exported)])
              /\ restored' = [restored EXCEPT
                     !.wrote = Inserted(@, Doing(Exported), snapshot.kept[Doing(Exported)])]
              /\ Onwards
           \/ More(Exported) /\ Stop /\ UNCHANGED <<tree, restored>>
           \/ ~More(Exported) /\ Stop /\ UNCHANGED tree
                  /\ restored' = [restored EXCEPT !.complete = TRUE]
<1> DEFINE match == Sha(snapshot.kept[Doing(Exported)]) = snapshot.manifest[Doing(Exported)]
<1>1. CASE More(Exported) /\ match BY <1>1 DEF ImportOne, Sha
<1>2. CASE More(Exported) /\ ~match BY <1>2 DEF ImportOne
<1>3. CASE ~More(Exported) BY <1>3 DEF ImportOne
<1> QED BY <1>1, <1>2, <1>3

Shape ==
    /\ shell \in [script : Scripts \cup {"none"}, step : Nat]
    /\ shell.script # "none" => shell.step # 0
    /\ DOMAIN snapshot = {"kept", "manifest", "complete"} /\ snapshot.complete \in BOOLEAN
    /\ DOMAIN restored = {"wrote", "complete"} /\ restored.complete \in BOOLEAN

LEMMA ShapeInit == Init => Shape
BY DEF Init, LabInit, Shape, NoScript, NoSnapshot, NothingRestored

LEMMA ShapeStep == Shape /\ [Next]_vars => Shape'
<1> SUFFICES ASSUME Shape, [Next]_vars PROVE Shape' OBVIOUS
<1> USE DEF Shape
<1>1. CASE UNCHANGED labVars BY <1>1 DEF labVars
<1>2. ASSUME NEW command \in Commands, RunCommand(command) PROVE Shape' BY <1>2 DEF RunCommand
<1>3. ASSUME NEW c \in DOMAIN Configs, EditConfig(c) PROVE Shape' BY <1>3 DEF EditConfig
<1>4. ASSUME NEW t \in Nows, TimePasses(t) PROVE Shape' BY <1>4 DEF TimePasses
<1>5. ASSUME NEW path \in DOMAIN snapshot.kept, AlterSnapshot(path) PROVE Shape'
  BY <1>5 DEF AlterSnapshot
<1>6. ASSUME NEW script \in Scripts, StartScript(script) PROVE Shape'
  <2>1. shell' = [script |-> script, step |-> 1] BY <1>6 DEF StartScript, Begin
  <2>2. /\ snapshot' = snapshot \/ snapshot' = NoSnapshot
        /\ restored' = restored \/ restored' = NothingRestored
    BY <1>6 DEF StartScript
  <2>3. DOMAIN snapshot' = {"kept", "manifest", "complete"} /\ snapshot'.complete \in BOOLEAN
    <3>1. CASE snapshot' = snapshot BY <3>1
    <3>2. CASE snapshot' = NoSnapshot BY <3>2 DEF NoSnapshot
    <3> QED BY <2>2, <3>1, <3>2
  <2>4. DOMAIN restored' = {"wrote", "complete"} /\ restored'.complete \in BOOLEAN
    <3>1. CASE restored' = restored BY <3>1
    <3>2. CASE restored' = NothingRestored BY <3>2 DEF NothingRestored
    <3> QED BY <2>2, <3>1, <3>2
  <2> QED BY <2>1, <2>3, <2>4
<1>7. CASE Killed BY <1>7 DEF Killed, Stop, NoScript
<1>8. CASE RefreshOne BY <1>8 DEF RefreshOne, Onwards, Stop, NoScript
<1>9. CASE CompareOne BY <1>9 DEF CompareOne, Onwards, Stop, NoScript
<1>10. CASE ExportOne
  <2>1. UNCHANGED restored BY <1>10 DEF ExportOne
  <2>2. Onwards \/ Stop BY <1>10, ExportCases
  <2>3. /\ shell' \in [script : Scripts \cup {"none"}, step : Nat]
        /\ shell'.script # "none" => shell'.step # 0
    BY <2>2 DEF Onwards, Stop, NoScript
  <2>4. DOMAIN snapshot' = {"kept", "manifest", "complete"} /\ snapshot'.complete \in BOOLEAN
    BY <1>10, ExportCases
  <2> QED BY <2>1, <2>3, <2>4
<1>11. CASE ImportOne
  <2>1. UNCHANGED snapshot BY <1>11 DEF ImportOne
  <2>2. Onwards \/ Stop BY <1>11, ImportCases
  <2>3. /\ shell' \in [script : Scripts \cup {"none"}, step : Nat]
        /\ shell'.script # "none" => shell'.step # 0
    BY <2>2 DEF Onwards, Stop, NoScript
  <2>4. DOMAIN restored' = {"wrote", "complete"} /\ restored'.complete \in BOOLEAN
    BY <1>11, ImportCases
  <2> QED BY <2>1, <2>3, <2>4
<1> QED BY <1>1, <1>2, <1>3, <1>4, <1>5, <1>6, <1>7, <1>8, <1>9, <1>10, <1>11, Steps

LEMMA AlteredKept ==
    ASSUME Shape, NEW path, AlterSnapshot(path)
    PROVE  /\ snapshot'.manifest = snapshot.manifest
           /\ snapshot'.complete = snapshot.complete
           /\ shell = NoScript /\ shell' = shell
BY DEF Shape, AlterSnapshot

-----------------------------------------------------------------------------
(* Import.                                                                  *)

PutBack(i) ==
    /\ Exported[i] \in DOMAIN restored.wrote
    /\ restored.wrote[Exported[i]] = snapshot.manifest[Exported[i]]

\* An import under way has put back the files before the one it is at. A finished one
\* has put back all of them, and the next export forgets it.
ImportInv ==
    /\ restored.complete => shell.script \notin {"import", "export"}
    /\ \A i \in 1..5 : restored.complete \/ (shell.script = "import" /\ i < shell.step) => PutBack(i)

LEMMA ImportStep == Shape /\ ImportInv /\ [Next]_vars => ImportInv'
<1> SUFFICES ASSUME Shape, ImportInv, [Next]_vars PROVE ImportInv' OBVIOUS
<1> USE DEF Shape, ImportInv, PutBack
<1>1. CASE UNCHANGED labVars BY <1>1 DEF labVars
<1>2. ASSUME NEW command \in Commands, RunCommand(command) PROVE ImportInv'
  BY <1>2 DEF RunCommand
<1>3. ASSUME NEW c \in DOMAIN Configs, EditConfig(c) PROVE ImportInv' BY <1>3 DEF EditConfig
<1>4. ASSUME NEW t \in Nows, TimePasses(t) PROVE ImportInv' BY <1>4 DEF TimePasses
<1>5. ASSUME NEW path \in DOMAIN snapshot.kept, AlterSnapshot(path) PROVE ImportInv'
  <2>1. UNCHANGED restored BY <1>5 DEF AlterSnapshot
  <2> QED BY <1>5, <2>1, AlteredKept
<1>6. ASSUME NEW script \in Scripts, StartScript(script) PROVE ImportInv'
  BY <1>6 DEF StartScript, Begin, NoSnapshot, NothingRestored, NoScript
<1>7. CASE Killed BY <1>7 DEF Killed, Stop, NoScript
<1>8. CASE RefreshOne BY <1>8 DEF RefreshOne, Running, Onwards, Stop, NoScript
<1>9. CASE CompareOne BY <1>9 DEF CompareOne, Running, Onwards, Stop, NoScript
<1>10. CASE ExportOne
  <2>1. shell.script = "export" /\ UNCHANGED restored BY <1>10 DEF ExportOne, Running
  <2> QED BY <1>10, <2>1, ExportCases DEF Onwards, Stop, NoScript
<1>11. CASE ImportOne
  <2>1. shell.script = "import" /\ UNCHANGED snapshot BY <1>11 DEF ImportOne, Running
  <2>2. ~restored.complete BY <2>1
  <2> DEFINE path == Doing(Exported)
             value == snapshot.kept[path]
  <2>3. ASSUME value = snapshot.manifest[path],
               restored' = [restored EXCEPT !.wrote = Inserted(@, path, value)],
               Onwards
        PROVE  ImportInv'
    <3>1. /\ restored'.wrote = Inserted(restored.wrote, path, value)
          /\ ~restored'.complete
          /\ shell'.script = "import" /\ shell'.step = shell.step + 1
      BY <2>1, <2>2, <2>3 DEF Onwards
    <3>2. path = Exported[shell.step] BY DEF Doing
    <3> HIDE DEF path, value
    <3>3. /\ DOMAIN restored'.wrote = DOMAIN restored.wrote \cup {path}
          /\ restored'.wrote[path] = value
          /\ \A k \in DOMAIN restored.wrote : k # path => restored'.wrote[k] = restored.wrote[k]
      <4>0. DOMAIN Inserted(restored.wrote, path, value) = DOMAIN restored.wrote \cup {path}
        BY InsertedDomain
      <4>1. DOMAIN restored'.wrote = DOMAIN restored.wrote \cup {path} BY <3>1, <4>0
      <4>2. restored'.wrote[path] = value BY <3>1, InsertedHere
      <4>3. ASSUME NEW k \in DOMAIN restored.wrote, k # path
            PROVE  restored'.wrote[k] = restored.wrote[k]
        BY <3>1, <4>3, InsertedElsewhere
      <4> QED BY <4>1, <4>2, <4>3
    <3>4. ASSUME NEW i \in 1..5, i < shell.step + 1 PROVE PutBack(i)'
      <4>1. CASE Exported[i] = path BY <4>1, <3>3, <2>3, <2>1
      <4>2. CASE Exported[i] # path
        <5>1. i < shell.step BY <3>2, <3>4, <4>2
        <5>2. PutBack(i) BY <2>1, <5>1
        <5> QED BY <5>2, <4>2, <3>3, <2>1
      <4> QED BY <4>1, <4>2
    <3> QED BY <3>1, <3>4
  <2>4. CASE Stop /\ UNCHANGED restored BY <2>2, <2>4 DEF Stop, NoScript
  <2>5. CASE ~More(Exported) /\ Stop /\ restored' = [restored EXCEPT !.complete = TRUE]
    <3>1. ~(shell.step <= 5) BY <2>5 DEF More, Exported
    <3>2. restored'.wrote = restored.wrote BY <2>5
    <3> QED BY <2>1, <2>5, <3>1, <3>2 DEF Stop, NoScript
  <2> QED BY <1>11, <2>3, <2>4, <2>5, ImportCases
<1> QED BY <1>1, <1>2, <1>3, <1>4, <1>5, <1>6, <1>7, <1>8, <1>9, <1>10, <1>11, Steps

(* An import that ends well has put back every file as it was when it was   *)
(* exported, whatever became of the snapshot, the tree and other scripts    *)
(* before it ended (snapshot_import, src/thermal/snapshot.rs).              *)
THEOREM ImportsRestore == Spec => []ImportRestores
<1>1. Init => Shape /\ ImportInv
  BY ShapeInit DEF Init, LabInit, ImportInv, NothingRestored, NoScript
<1>2. Shape /\ ImportInv /\ [Next]_vars => Shape' /\ ImportInv'
  BY ShapeStep, ImportStep
<1>3. ImportInv => ImportRestores
  <2> SUFFICES ASSUME ImportInv, restored.complete, NEW i \in DOMAIN Exported
               PROVE  Sha(restored.wrote[Exported[i]]) = snapshot.manifest[Exported[i]]
    BY DEF ImportRestores
  <2>1. i \in 1..5 BY DEF Exported
  <2> QED BY <2>1 DEF ImportInv, PutBack, Sha
<1> QED BY <1>1, <1>2, <1>3, PTL DEF Spec

-----------------------------------------------------------------------------
(* What lies where: a baseline is an artifact of its command, the config is *)
(* one of the configurations, in the tree and in a snapshot.                *)

LEMMA ComputedIs ==
    ASSUME NEW command \in Commands, NEW c \in DOMAIN Configs, NEW t \in Nows,
           NEW a \in Computed[<<command, c, t>>]
    PROVE  \E fit, report : /\ a = Artifact(command, c, t, fit, report)
                            /\ report \in Report(fit, command, c, t)
                            /\ fit \in Fitted[c]
<1> DEFINE made(x, y, z) ==
               UNION {{Artifact(x, y, z, fit, report) : report \in Report(fit, x, y, z)} :
                          fit \in Fitted[y]}
           F == [x \in Commands \X (DOMAIN Configs) \X Nows |-> made(x[1], x[2], x[3])]
<1>1. Computed = Tabled(F) BY DEF Computed
<1>2. Computed = F BY <1>1, TabledIs
<1>3. F[<<command, c, t>>] = made(command, c, t) OBVIOUS
<1>4. a \in made(command, c, t) BY <1>2, <1>3
<1> QED BY <1>4

Filed(path, content) ==
    /\ path \in Commands =>
           \E c \in DOMAIN Configs, t \in Nows : content \in Computed[<<path, c, t>>]
    /\ path = "config" => \E c \in DOMAIN Configs : content = ConfigFile(c)
    /\ path = "thresholds" => content = Thresholds

LEMMA FiledArtifact ==
    ASSUME NEW command \in Commands, NEW a, Filed(command, a)
    PROVE  a.kind = "artifact" /\ a.command = command /\ a # Absent
<1>1. PICK c \in DOMAIN Configs, t \in Nows : a \in Computed[<<command, c, t>>] BY DEF Filed
<1>2. PICK fit, report : a = Artifact(command, c, t, fit, report) BY <1>1, ComputedIs
<1> QED BY <1>2 DEF Artifact, Absent

FilesInv ==
    /\ now \in Nows
    /\ DOMAIN tree = Paths
    /\ \A path \in Paths : Filed(path, tree[path])
    /\ DOMAIN latest = Commands
    /\ \A command \in Commands : latest[command] = Absent \/ Filed(command, latest[command])

Kept(i) ==
    /\ Exported[i] \in DOMAIN snapshot.manifest
    /\ Filed(Exported[i], snapshot.manifest[Exported[i]])

\* The manifest of an export under way has the files before the one it is at, a whole
\* one all of them.
SnapshotInv ==
    /\ shell.script = "export" => ~snapshot.complete
    /\ shell.script = "import" => snapshot.complete
    /\ \A i \in 1..5 : snapshot.complete \/ (shell.script = "export" /\ i < shell.step) => Kept(i)

LEMMA ExportedPaths ==
    /\ Len(Exported) = 5 /\ \A i \in 1..5 : Exported[i] \in Paths
    /\ Len(Refreshed) = 3 /\ \A i \in 1..3 : Refreshed[i] \in Commands
    /\ Len(Compared) = 4 /\ \A i \in 1..4 : Compared[i] \in Commands
    /\ Commands = {Compared[i] : i \in 1..4}
BY DEF Exported, Refreshed, Compared, Commands, Paths

LEMMA FilesInit == Init => FilesInv /\ SnapshotInv
<1> SUFFICES ASSUME Init PROVE FilesInv /\ SnapshotInv OBVIOUS
<1>1. LabInit BY DEF Init
<1>2. now \in Nows BY <1>1, MinOfNows DEF LabInit
<1>3. DOMAIN tree = Paths BY <1>1 DEF LabInit, Paths
<1>4. ASSUME NEW path \in Paths PROVE Filed(path, tree[path])
  <2>1. CASE path \in Commands
    <3>1. path # "thresholds" /\ path # "config" BY <2>1 DEF Commands
    <3>2. tree[path] = TheOne(Computed[<<path, Base.config, Base.at>>])
      BY <1>1, <2>1, <3>1 DEF LabInit
    <3>3. Computed[<<path, Base.config, Base.at>>] # {} BY <2>1, BaseAssumption
    <3>4. tree[path] \in Computed[<<path, Base.config, Base.at>>]
      BY <3>2, <3>3 DEF TheOne
    <3> QED BY <3>1, <3>4, BaselinesAssumption DEF Filed
  <2>2. CASE path = "config"
    <3>1. tree[path] = ConfigFile(Base.config) BY <1>1, <2>2 DEF LabInit
    <3>2. path \notin Commands BY <2>2 DEF Commands
    <3> QED BY <2>2, <3>1, <3>2, BaselinesAssumption DEF Filed
  <2>3. CASE path = "thresholds"
    <3>1. tree[path] = Thresholds BY <1>1, <2>3 DEF LabInit
    <3> QED BY <2>3, <3>1 DEF Filed, Commands
  <2> QED BY <2>1, <2>2, <2>3 DEF Paths
<1>5. DOMAIN latest = Commands /\ \A command \in Commands : latest[command] = Absent
  BY <1>1 DEF LabInit
<1>6. SnapshotInv BY <1>1 DEF LabInit, SnapshotInv, NoScript, NoSnapshot
<1> QED BY <1>2, <1>3, <1>4, <1>5, <1>6 DEF FilesInv

\* A file that is as it should be, written where it belongs.
LEMMA FiledWrite ==
    ASSUME FilesInv, NEW path \in Paths, NEW content, Filed(path, content),
           Write(path, content), UNCHANGED <<latest, now>>
    PROVE  FilesInv'
<1>1. tree' = Inserted(tree, path, content) BY DEF Write
<1>2. DOMAIN Inserted(tree, path, content) = DOMAIN tree \cup {path} BY InsertedDomain
<1>3. DOMAIN tree' = Paths BY <1>1, <1>2 DEF FilesInv
<1>4. ASSUME NEW p \in Paths PROVE Filed(p, tree'[p])
  <2>1. CASE p = path BY <1>1, <2>1, InsertedHere
  <2>2. CASE p # path
    <3>1. p \in DOMAIN tree BY DEF FilesInv
    <3>2. Inserted(tree, path, content)[p] = tree[p] BY <2>2, <3>1, InsertedElsewhere
    <3> QED BY <1>1, <3>2 DEF FilesInv
  <2> QED BY <2>1, <2>2
<1>5. UNCHANGED <<latest, now>> OBVIOUS
<1> QED BY <1>3, <1>4, <1>5 DEF FilesInv

LEMMA FilesStep == Shape /\ FilesInv /\ SnapshotInv /\ [Next]_vars => FilesInv'
<1> SUFFICES ASSUME Shape, FilesInv, SnapshotInv, [Next]_vars PROVE FilesInv' OBVIOUS
<1>0. UNCHANGED <<tree, latest, now>> => FilesInv' BY DEF FilesInv
<1>1. CASE UNCHANGED labVars BY <1>0, <1>1 DEF labVars
<1>2. ASSUME NEW command \in Commands, RunCommand(command) PROVE FilesInv'
  <2> DEFINE c == File("config").config
  <2>1. "config" \in Paths BY DEF Paths
  <2>2. PICK d \in DOMAIN Configs : tree["config"] = ConfigFile(d) BY <2>1 DEF FilesInv, Filed
  <2>3. c = d BY <2>1, <2>2 DEF FilesInv, File, ConfigFile
  <2>4. PICK a \in Computed[<<command, c, now>>] : latest' = [latest EXCEPT ![command] = a]
    BY <1>2 DEF RunCommand
  <2>5. now \in Nows BY DEF FilesInv
  <2>6. "config" \notin Commands /\ "thresholds" \notin Commands BY DEF Commands
  <2>7. Filed(command, a) BY <2>3, <2>4, <2>5, <2>6 DEF Filed
  <2>8. UNCHANGED <<tree, now>> BY <1>2 DEF RunCommand
  <2>9. DOMAIN latest' = Commands BY <2>4 DEF FilesInv
  <2>10. ASSUME NEW x \in Commands PROVE latest'[x] = Absent \/ Filed(x, latest'[x])
    BY <2>4, <2>7 DEF FilesInv
  <2> QED BY <2>8, <2>9, <2>10 DEF FilesInv
<1>3. ASSUME NEW c \in DOMAIN Configs, EditConfig(c) PROVE FilesInv'
  <2>1. Write("config", ConfigFile(c)) /\ UNCHANGED <<latest, now>> BY <1>3 DEF EditConfig
  <2>2. "config" \in Paths /\ Filed("config", ConfigFile(c)) BY DEF Paths, Filed, Commands
  <2> QED BY <2>1, <2>2, FiledWrite
<1>4. ASSUME NEW t \in Nows, TimePasses(t) PROVE FilesInv'
  BY <1>4 DEF TimePasses, FilesInv
<1>5. ASSUME NEW path \in DOMAIN snapshot.kept, AlterSnapshot(path) PROVE FilesInv'
  BY <1>0, <1>5 DEF AlterSnapshot
<1>6. ASSUME NEW script \in Scripts, StartScript(script) PROVE FilesInv'
  BY <1>0, <1>6 DEF StartScript
<1>7. CASE Killed BY <1>0, <1>7 DEF Killed
<1>8. CASE RefreshOne
  <2> DEFINE command == Doing(Refreshed)
  <2>1. UNCHANGED <<latest, now>> /\ shell.script = "refresh" BY <1>8 DEF RefreshOne, Running
  <2>2. CASE More(Refreshed) /\ latest[command] # Absent
    <3>1. shell.step \in 1..3 BY <2>1, <2>2, ExportedPaths DEF Shape, More
    <3>2. command \in Commands /\ command \in Paths BY <3>1, ExportedPaths DEF Doing, Paths
    <3>3. Filed(command, latest[command]) BY <2>2, <3>2 DEF FilesInv
    <3>4. Write(command, latest[command]) BY <1>8, <2>2 DEF RefreshOne
    <3> HIDE DEF command
    <3> QED BY <2>1, <3>2, <3>3, <3>4, FiledWrite
  <2>3. CASE ~(More(Refreshed) /\ latest[command] # Absent)
    BY <1>0, <1>8, <2>3 DEF RefreshOne
  <2> QED BY <2>2, <2>3
<1>9. CASE CompareOne BY <1>0, <1>9 DEF CompareOne
<1>10. CASE ExportOne BY <1>0, <1>10 DEF ExportOne
<1>11. CASE ImportOne
  <2> DEFINE path == Doing(Exported)
             content == snapshot.kept[path]
  <2>1. UNCHANGED <<latest, now>> /\ shell.script = "import" BY <1>11 DEF ImportOne, Running
  <2>2. CASE More(Exported) /\ content = snapshot.manifest[path] /\ Write(path, content)
    <3>1. shell.step \in 1..5 BY <2>1, <2>2, ExportedPaths DEF Shape, More
    <3>2. Kept(shell.step) BY <2>1, <3>1 DEF SnapshotInv
    <3>3. path \in Paths /\ Filed(path, content)
      BY <2>2, <3>1, <3>2, ExportedPaths DEF Kept, Doing
    <3>4. Write(path, content) BY <2>2
    <3> HIDE DEF path, content
    <3> QED BY <2>1, <3>3, <3>4, FiledWrite
  <2>3. CASE UNCHANGED tree BY <1>0, <2>1, <2>3
  <2> QED BY <1>11, <2>2, <2>3, ImportCases
<1> QED BY <1>1, <1>2, <1>3, <1>4, <1>5, <1>6, <1>7, <1>8, <1>9, <1>10, <1>11, Steps

LEMMA SnapshotStep == Shape /\ FilesInv /\ SnapshotInv /\ [Next]_vars => SnapshotInv'
<1> SUFFICES ASSUME Shape, FilesInv, SnapshotInv, [Next]_vars PROVE SnapshotInv' OBVIOUS
<1>0. UNCHANGED <<shell, snapshot>> => SnapshotInv' BY DEF SnapshotInv, Kept
<1>1. CASE UNCHANGED labVars BY <1>0, <1>1 DEF labVars
<1>2. ASSUME NEW command \in Commands, RunCommand(command) PROVE SnapshotInv'
  BY <1>0, <1>2 DEF RunCommand
<1>3. ASSUME NEW c \in DOMAIN Configs, EditConfig(c) PROVE SnapshotInv'
  BY <1>0, <1>3 DEF EditConfig
<1>4. ASSUME NEW t \in Nows, TimePasses(t) PROVE SnapshotInv' BY <1>0, <1>4 DEF TimePasses
<1>5. ASSUME NEW path \in DOMAIN snapshot.kept, AlterSnapshot(path) PROVE SnapshotInv'
  BY <1>5, AlteredKept DEF SnapshotInv, Kept
<1>6. ASSUME NEW script \in Scripts, StartScript(script) PROVE SnapshotInv'
  <2>1. /\ shell = NoScript /\ shell' = [script |-> script, step |-> 1]
        /\ script = "import" => snapshot.complete
        /\ snapshot' = IF script = "export" THEN NoSnapshot ELSE snapshot
    BY <1>6 DEF StartScript, Begin
  <2>2. CASE script = "export" BY <2>1, <2>2 DEF SnapshotInv, NoSnapshot
  <2>3. CASE script # "export" BY <2>1, <2>3 DEF SnapshotInv, Kept
  <2> QED BY <2>2, <2>3
<1>7. CASE Killed BY <1>7 DEF Killed, Stop, NoScript, SnapshotInv, Kept
<1>8. CASE RefreshOne
  <2>1. /\ shell.script = "refresh" /\ UNCHANGED snapshot
        /\ Onwards \/ Stop
    BY <1>8 DEF RefreshOne, Running
  <2>2. shell'.script \in {"refresh", "none"} BY <2>1 DEF Onwards, Stop, NoScript, Shape
  <2> QED BY <2>1, <2>2 DEF SnapshotInv, Kept
<1>9. CASE CompareOne
  <2>1. /\ shell.script = "ci" /\ UNCHANGED snapshot
        /\ Onwards \/ Stop
    BY <1>9 DEF CompareOne, Running
  <2>2. shell'.script \in {"ci", "none"} BY <2>1 DEF Onwards, Stop, NoScript, Shape
  <2> QED BY <2>1, <2>2 DEF SnapshotInv, Kept
<1>10. CASE ExportOne
  <2>1. shell.script = "export" /\ ~snapshot.complete
    BY <1>10 DEF ExportOne, Running, SnapshotInv
  <2> DEFINE path == Doing(Exported)
             kept == Inserted(snapshot.kept, path, File(path))
             manifest == Inserted(snapshot.manifest, path, File(path))
  <2>2. ASSUME More(Exported), Onwards,
               snapshot' = [snapshot EXCEPT !.kept = kept, !.manifest = manifest]
        PROVE  SnapshotInv'
    <3>1. shell.step \in 1..5 BY <2>1, <2>2, ExportedPaths DEF Shape, More
    <3>2. path = Exported[shell.step] /\ path \in Paths BY <3>1, ExportedPaths DEF Doing
    <3>3. Filed(path, File(path)) BY <3>2 DEF FilesInv, File
    <3> HIDE DEF path, kept
    <3>4. /\ snapshot'.manifest = manifest /\ ~snapshot'.complete
          /\ shell'.script = "export" /\ shell'.step = shell.step + 1
      BY <2>1, <2>2 DEF Shape, Onwards
    <3>5. DOMAIN manifest = DOMAIN snapshot.manifest \cup {path} BY InsertedDomain
    <3>6. manifest[path] = File(path) BY InsertedHere
    <3>7. \A p \in DOMAIN snapshot.manifest : p # path => manifest[p] = snapshot.manifest[p]
      BY InsertedElsewhere
    <3> HIDE DEF manifest
    <3>8. ASSUME NEW i \in 1..5, i < shell.step + 1 PROVE Kept(i)'
      <4>1. CASE Exported[i] = path
        BY <4>1, <3>3, <3>4, <3>5, <3>6 DEF Kept
      <4>2. CASE Exported[i] # path
        <5>1. i < shell.step BY <3>1, <3>2, <3>8, <4>2
        <5>2. Kept(i) BY <2>1, <5>1 DEF SnapshotInv
        <5> QED BY <5>2, <4>2, <3>4, <3>5, <3>7 DEF Kept
      <4> QED BY <4>1, <4>2
    <3> QED BY <3>4, <3>8 DEF SnapshotInv
  <2>3. CASE Stop /\ UNCHANGED snapshot
    BY <2>1, <2>3 DEF Stop, NoScript, SnapshotInv
  <2>4. CASE ~More(Exported) /\ Stop /\ snapshot' = [snapshot EXCEPT !.complete = TRUE]
    <3>1. ~(shell.step <= 5) BY <2>4, ExportedPaths DEF More
    <3>2. /\ snapshot'.manifest = snapshot.manifest
          /\ shell'.script = "none"
      BY <2>4 DEF Shape, Stop, NoScript
    <3>3. ASSUME NEW i \in 1..5 PROVE Kept(i)'
      <4>1. Kept(i) BY <2>1, <3>1 DEF SnapshotInv, Shape
      <4> QED BY <3>2, <4>1 DEF Kept
    <3> QED BY <3>2, <3>3 DEF SnapshotInv
  <2> QED BY <1>10, <2>2, <2>3, <2>4, ExportCases DEF Sha
<1>11. CASE ImportOne
  <2>1. /\ shell.script = "import" /\ UNCHANGED snapshot
        /\ Onwards \/ Stop
    BY <1>11, ImportCases DEF ImportOne, Running
  <2>2. shell'.script \in {"import", "none"} BY <2>1 DEF Onwards, Stop, NoScript, Shape
  <2> QED BY <2>1, <2>2 DEF SnapshotInv, Kept
<1> QED BY <1>1, <1>2, <1>3, <1>4, <1>5, <1>6, <1>7, <1>8, <1>9, <1>10, <1>11, Steps

-----------------------------------------------------------------------------
(* The regression script.                                                   *)

Compares(s, i) ==
    LET p == s[i]
    IN  /\ p.command = Compared[i]
        /\ Filed(Compared[i], p.baseline)
        /\ Filed(Compared[i], p.candidate)

Passes(s, i) == GatePasses(s[i].baseline, s[i].candidate)

\* Each pair compared is of its command, and only the last one of all may have failed.
CheckInv ==
    /\ IsSeq(checked.pairs)
    /\ Len(checked.pairs) <= 4 /\ \A i \in 1..Len(checked.pairs) : Compares(checked.pairs, i)
    /\ shell.script = "ci" =>
           /\ shell.step \in 1..4 /\ Len(checked.pairs) = shell.step - 1
           /\ \A i \in 1..Len(checked.pairs) : Passes(checked.pairs, i)
    /\ checked.verdict = "passed" => Len(checked.pairs) = 4 /\ \A i \in 1..4 : Passes(checked.pairs, i)
    /\ checked.verdict = "failed" => Len(checked.pairs) # 0 /\ ~Passes(checked.pairs, Len(checked.pairs))

LEMMA EmptyIsSeq == IsSeq(<<>>) /\ Len(<<>>) = 0
BY EmptySeq DEF IsSeq

LEMMA CheckInit == Init => CheckInv
BY EmptyIsSeq DEF Init, LabInit, CheckInv, NotChecked, NoScript

LEMMA CheckStep == Shape /\ FilesInv /\ CheckInv /\ [Next]_vars => CheckInv'
<1> SUFFICES ASSUME Shape, FilesInv, CheckInv, [Next]_vars PROVE CheckInv' OBVIOUS
<1>0. UNCHANGED <<shell, checked>> => CheckInv' BY DEF CheckInv, Compares, Passes
<1>a. UNCHANGED checked /\ shell'.script # "ci" => CheckInv' BY DEF CheckInv, Compares, Passes
<1>1. CASE UNCHANGED labVars BY <1>0, <1>1 DEF labVars
<1>2. ASSUME NEW command \in Commands, RunCommand(command) PROVE CheckInv'
  BY <1>0, <1>2 DEF RunCommand
<1>3. ASSUME NEW c \in DOMAIN Configs, EditConfig(c) PROVE CheckInv'
  BY <1>0, <1>3 DEF EditConfig
<1>4. ASSUME NEW t \in Nows, TimePasses(t) PROVE CheckInv' BY <1>0, <1>4 DEF TimePasses
<1>5. ASSUME NEW path \in DOMAIN snapshot.kept, AlterSnapshot(path) PROVE CheckInv'
  BY <1>0, <1>5 DEF AlterSnapshot
<1>6. ASSUME NEW script \in Scripts, StartScript(script) PROVE CheckInv'
  <2>1. /\ shell' = [script |-> script, step |-> 1]
        /\ checked' = IF script = "ci" THEN [pairs |-> <<>>, verdict |-> "running"] ELSE checked
    BY <1>6 DEF StartScript, Begin
  <2>2. CASE script = "ci" BY <2>1, <2>2, EmptyIsSeq DEF CheckInv
  <2>3. CASE script # "ci" BY <1>a, <2>1, <2>3
  <2> QED BY <2>2, <2>3
<1>7. CASE Killed
  <2>1. shell' = NoScript /\ checked' = (IF shell.script = "ci" THEN NotChecked ELSE checked)
    BY <1>7 DEF Killed, Stop, Running
  <2>2. CASE shell.script = "ci"
    BY <2>1, <2>2, EmptyIsSeq DEF CheckInv, NotChecked, NoScript
  <2>3. CASE shell.script # "ci" BY <1>a, <2>1, <2>3 DEF NoScript
  <2> QED BY <2>2, <2>3
<1>8. CASE RefreshOne
  BY <1>8, <1>a DEF RefreshOne, Running, Onwards, Stop, NoScript, Shape
<1>9. CASE CompareOne
  <2> DEFINE command == Doing(Compared)
             baseline == File(command)
             candidate == IF latest[command] = Absent THEN baseline ELSE latest[command]
             passes == baseline # Absent /\ GatePasses(baseline, candidate)
             pair == [command |-> command, baseline |-> baseline, candidate |-> candidate]
             n == shell.step
  <2>1. /\ shell.script = "ci"
        /\ checked' = [pairs   |-> Append(checked.pairs, pair),
                       verdict |-> CASE ~passes -> "failed"
                                     [] passes /\ shell.step = Len(Compared) -> "passed"
                                     [] OTHER -> "running"]
        /\ IF passes /\ shell.step < Len(Compared) THEN Onwards ELSE Stop
    BY <1>9 DEF CompareOne, Running
  <2>2. n \in 1..4 /\ Len(checked.pairs) = n - 1 /\ \A i \in 1..(n - 1) : Passes(checked.pairs, i)
    BY <2>1 DEF CheckInv
  <2>3. command = Compared[n] /\ command \in Commands /\ command \in Paths
    BY <2>2, ExportedPaths DEF Doing, Paths
  <2>4. Filed(command, baseline) BY <2>3 DEF FilesInv, File
  <2>5. Filed(command, candidate) BY <2>3, <2>4 DEF FilesInv
  <2>6. baseline # Absent BY <2>3, <2>4, FiledArtifact
  <2>7. passes <=> GatePasses(baseline, candidate) BY <2>6
  <2> DEFINE good == GatePasses(baseline, candidate)
  <2>8. pair.command = command /\ pair.baseline = baseline /\ pair.candidate = candidate
    OBVIOUS
  <2>9. /\ checked'.pairs = Append(checked.pairs, pair)
        /\ ~good => checked'.verdict = "failed" /\ shell' = NoScript
        /\ good /\ n = 4 => checked'.verdict = "passed" /\ shell' = NoScript
        /\ good /\ n < 4 => /\ checked'.verdict = "running"
                            /\ shell' = [shell EXCEPT !.step = @ + 1]
    <3>1. Len(Compared) = 4 BY ExportedPaths
    <3>2. checked'.pairs = Append(checked.pairs, pair) BY <2>1
    <3>3. CASE ~good BY <2>1, <2>7, <3>2, <3>3 DEF Stop
    <3>4. CASE good /\ n = 4 BY <2>1, <2>7, <3>1, <3>2, <3>4 DEF Stop
    <3>5. CASE good /\ n < 4 BY <2>1, <2>7, <3>1, <3>2, <3>5 DEF Onwards
    <3> QED BY <2>2, <3>3, <3>4, <3>5
  <2> HIDE DEF command, baseline, candidate, pair
  <2>10. /\ IsSeq(checked'.pairs) /\ Len(checked'.pairs) = n
         /\ \A i \in 1..(n - 1) : checked'.pairs[i] = checked.pairs[i]
         /\ checked'.pairs[n] = pair
    <3>1. IsSeq(checked.pairs) BY DEF CheckInv
    <3> QED BY <3>1, <2>9, <2>2, AppendIs
  <2>11. ASSUME NEW i \in 1..(n - 1)
         PROVE  Compares(checked'.pairs, i) /\ Passes(checked'.pairs, i)
    <3>1. Compares(checked.pairs, i) BY <2>2 DEF CheckInv
    <3> QED BY <3>1, <2>2, <2>10 DEF Compares, Passes
  <2>12. Compares(checked'.pairs, n)
    BY <2>3, <2>4, <2>5, <2>8, <2>10 DEF Compares
  <2>13. Passes(checked'.pairs, n) <=> good BY <2>8, <2>10 DEF Passes
  <2>14. \A i \in 1..n : i = n \/ i \in 1..(n - 1) BY <2>2
  <2>15. \A i \in 1..n : Compares(checked'.pairs, i) BY <2>11, <2>12, <2>14
  <2>16. good => \A i \in 1..n : Passes(checked'.pairs, i) BY <2>11, <2>13, <2>14
  <2> HIDE DEF good
  <2>17. CASE ~good BY <2>17, <2>2, <2>9, <2>10, <2>13, <2>15 DEF CheckInv, NoScript
  <2>18. CASE good /\ n = 4 BY <2>18, <2>2, <2>9, <2>10, <2>15, <2>16 DEF CheckInv, NoScript
  <2>19. CASE good /\ n < 4
    <3>1. shell'.step = n + 1 /\ n + 1 \in 1..4 BY <2>19, <2>2, <2>9 DEF Shape
    <3> QED BY <2>19, <3>1, <2>2, <2>9, <2>10, <2>15, <2>16 DEF CheckInv
  <2> QED BY <2>2, <2>17, <2>18, <2>19
<1>10. CASE ExportOne
  <2>1. shell.script = "export" /\ UNCHANGED checked BY <1>10 DEF ExportOne, Running
  <2>2. Onwards \/ Stop BY <1>10, ExportCases
  <2>3. shell'.script # "ci" BY <2>1, <2>2 DEF Onwards, Stop, NoScript, Shape
  <2> QED BY <1>a, <2>1, <2>3
<1>11. CASE ImportOne
  <2>1. shell.script = "import" /\ UNCHANGED checked BY <1>11 DEF ImportOne, Running
  <2>2. Onwards \/ Stop BY <1>11, ImportCases
  <2>3. shell'.script # "ci" BY <2>1, <2>2 DEF Onwards, Stop, NoScript, Shape
  <2> QED BY <1>a, <2>1, <2>3
<1> QED BY <1>1, <1>2, <1>3, <1>4, <1>5, <1>6, <1>7, <1>8, <1>9, <1>10, <1>11, Steps

LabInv == Shape /\ FilesInv /\ SnapshotInv /\ CheckInv

LEMMA LabInvariant == Spec => []LabInv
<1>1. Init => LabInv BY ShapeInit, FilesInit, CheckInit DEF LabInv
<1>2. LabInv /\ [Next]_vars => LabInv'
  BY ShapeStep, FilesStep, SnapshotStep, CheckStep DEF LabInv
<1> QED BY <1>1, <1>2, PTL DEF Spec

\* What a passed comparison of two artifacts of one command says.
LEMMA PassedSays ==
    ASSUME NEW a, NEW b, GatePasses(a, b)
    PROVE  /\ a.config = b.config
           /\ ParamsClose(a, b)
           /\ a.command = "validate" => b.report.pass
<1>1. a.config = b.config /\ ParamsClose(a, b) BY DEF GatePasses
<1>2. ASSUME a.command = "validate" PROVE b.report.pass
  <2>1. CalibrationClose(a, b) /\ ValidationClose(a.report, b.report)
    BY <1>2 DEF GatePasses
  <2> QED BY <2>1 DEF ValidationClose
<1> QED BY <1>1, <1>2

(* When the regression script reports that all checks passed, it has held   *)
(* an artifact of each command against its baseline, of one configuration   *)
(* and nearly the same fit, and the thresholds of the holdout are met,      *)
(* whatever ran beside it or was edited before                              *)
(* (scripts/thermal-regression-ci.sh, thermal-regression-check).            *)
THEOREM GateVouchesAlways == Spec => []GateVouches
<1>1. LabInv => GateVouches
  <2> SUFFICES ASSUME LabInv, checked.verdict = "passed"
               PROVE  /\ {p.command : p \in ToSet(checked.pairs)} = Commands
                      /\ \A p \in ToSet(checked.pairs) :
                             /\ p.baseline.config = p.candidate.config
                             /\ ParamsClose(p.baseline, p.candidate)
                             /\ p.command = "validate" => p.candidate.report.pass
    BY DEF GateVouches
  <2> DEFINE s == checked.pairs
  <2>1. /\ IsSeq(s) /\ Len(s) = 4
        /\ \A i \in 1..4 : Compares(s, i) /\ Passes(s, i)
    BY DEF LabInv, CheckInv
  <2>2. DOMAIN s = 1..4 BY <2>1, LenProperties DEF IsSeq
  <2> HIDE DEF s
  <2>3. ToSet(s) = {s[i] : i \in 1..4} BY <2>2 DEF ToSet
  <2>4. \A i \in 1..4 : s[i].command = Compared[i] BY <2>1 DEF Compares
  <2>5. {p.command : p \in ToSet(s)} = {Compared[i] : i \in 1..4} BY <2>3, <2>4
  <2>6. ASSUME NEW i \in 1..4
        PROVE  /\ s[i].baseline.config = s[i].candidate.config
               /\ ParamsClose(s[i].baseline, s[i].candidate)
               /\ s[i].command = "validate" => s[i].candidate.report.pass
    <3>1. Compared[i] \in Commands BY ExportedPaths
    <3>2. Filed(Compared[i], s[i].baseline) BY <2>1 DEF Compares
    <3>3. s[i].baseline.command = s[i].command BY <2>4, <3>1, <3>2, FiledArtifact
    <3>4. GatePasses(s[i].baseline, s[i].candidate) BY <2>1 DEF Passes
    <3> QED BY <3>3, <3>4, PassedSays
  <2>7. \A p \in ToSet(s) :
            /\ p.baseline.config = p.candidate.config
            /\ ParamsClose(p.baseline, p.candidate)
            /\ p.command = "validate" => p.candidate.report.pass
    BY <2>3, <2>6
  <2> QED BY <2>5, <2>7, ExportedPaths DEF s
<1> QED BY <1>1, LabInvariant, PTL

-----------------------------------------------------------------------------
(* The grid search and the rooms it leaves out of the score.                *)

LEMMA FRangeIs ==
    ASSUME NEW b, b.min \in Int, b.max \in Int, b.step \in Nat \ {0}, NEW v \in FRange(b)
    PROVE  v \in Int /\ b.min <= v /\ b.min \in FRange(b)
<1> DEFINE last == (b.max - b.min) \div b.step
<1>1. last \in Int OBVIOUS
<1>2. PICK i \in 0..last : v = b.min + i * b.step BY DEF FRange
<1>3. i * b.step \in Nat BY <1>1
<1>4. 0 \in 0..last BY <1>1
<1>5. b.min = b.min + 0 * b.step OBVIOUS
<1> QED BY <1>2, <1>3, <1>4, <1>5 DEF FRange

LEMMA RootIsNat == ASSUME NEW x PROVE Root(x) \in Nat
<1> DEFINE hundreds == Cardinality({h \in 1..462 : 10000 * h * h <= x})
           upTo(n) == 100 * hundreds + n
           units == Cardinality({n \in 1..99 : upTo(n) * upTo(n) <= x})
<1>1. /\ IsFiniteSet(1..462)
      /\ IsFiniteSet(1..99)
  <2>1. \A a, b \in Int : IsFiniteSet(a..b) BY FS_Interval
  <2>2. 1 \in Int /\ 99 \in Int /\ 462 \in Int OBVIOUS
  <2> QED BY <2>1, <2>2, Zenon
<1>2. hundreds \in Nat BY <1>1, FS_Subset, FS_CardinalityType
<1> HIDE DEF hundreds
<1>3. units \in Nat BY <1>1, FS_Subset, FS_CardinalityType
<1>4. Root(x) = upTo(units) BY DEF Root, hundreds
<1> QED BY <1>2, <1>3, <1>4

LEMMA RmseIsNat ==
    ASSUME NEW measured, NEW predicted, NEW exclude
    PROVE  Rmse(measured, predicted, exclude) \in Nat
BY RootIsNat DEF Rmse, NothingScored, RootMeanSquare

\* Two candidates that differ in the air changes of one room.
Differ(p, q, room) == p.cd = q.cd /\ \A n \in Calibrated \ {room} : p[n] = q[n]

\* The house a night is predicted with.
AtNight(p, night) == WithDoors(SetCalibrationParams(LabHouse, p), night = 2)

LEMMA SameElsewhere ==
    ASSUME NEW p, NEW q, NEW room, Differ(p, q, room), NEW night, NEW means, NEW at,
           NEW n \in DOMAIN LabHouse.rooms, n # room, NEW t
    PROVE  PredictedRate(AtNight(p, night), n, t, means, at)
           = PredictedRate(AtNight(q, night), n, t, means, at)
<1> DEFINE H(x) == SetCalibrationParams(LabHouse, x)
           D(x) == AtNight(x, night)
<1>1. /\ H(p).rooms[n] = H(q).rooms[n]
      /\ H(p).walls = H(q).walls /\ H(p).doors = H(q).doors
      /\ DOMAIN H(p) = DOMAIN LabHouse /\ DOMAIN H(q) = DOMAIN LabHouse
  <2>1. n \in Calibrated => p[n] = q[n] BY DEF Differ
  <2> QED BY <2>1, TelemetryAssumption DEF SetCalibrationParams
<1> HIDE DEF H
<1>2. D(p).rooms[n] = D(q).rooms[n] /\ D(p).walls = D(q).walls /\ D(p).doors = D(q).doors
  <2>1. CASE night = 2 BY <1>1, <2>1, TelemetryAssumption DEF WithDoors, AtNight, H
  <2>2. CASE night # 2 BY <1>1, <2>2 DEF WithDoors, AtNight, H
  <2> QED BY <2>1, <2>2
<1> HIDE DEF D
<1>3. RoomEnergyBalance(D(p), n, t, means, at) = RoomEnergyBalance(D(q), n, t, means, at)
  BY <1>2 DEF RoomEnergyBalance
<1>4. ThermalMass(D(p), n) = ThermalMass(D(q), n) BY <1>2 DEF ThermalMass
<1>5. PredictedRate(D(p), n, t, means, at) = PredictedRate(D(q), n, t, means, at)
  BY <1>3, <1>4 DEF PredictedRate
<1> QED BY <1>5 DEF D

\* Nothing is measured of a room the geometry does not have.
Known(measured) == \A night \in 1..2 : DOMAIN measured[night].means \subseteq DOMAIN LabHouse.rooms

\* What a night leaves out of its score, and the score it gives.
Unscored(cfg, room) == room \in cfg.exclude
NightError(p, cfg, measured, mult, night) ==
    Rmse(measured[night].rates, NightFit(LabHouse, p, cfg, night, measured, mult), cfg.exclude)

LEMMA SameRmse ==
    ASSUME NEW p, NEW q, NEW cfg, NEW room, Unscored(cfg, room), Differ(p, q, room),
           NEW measured, Known(measured), NEW mult, NEW night \in 1..2
    PROVE  NightError(p, cfg, measured, mult, night) = NightError(q, cfg, measured, mult, night)
<1> DEFINE means == measured[night].means
           at == Cooldown(measured[night].outside, p.cd, mult[night])
           H(x) == AtNight(x, night)
           F(x) == [n \in DOMAIN means |-> PredictedRate(H(x), n, means[n], means, at)]
           rates == measured[night].rates
<1>1. NightFit(LabHouse, p, cfg, night, measured, mult) = F(p)
  BY TabledIs DEF NightFit, PredictRates, AtNight
<1>2. NightFit(LabHouse, q, cfg, night, measured, mult) = F(q)
  <2>1. at = Cooldown(measured[night].outside, q.cd, mult[night]) BY DEF Differ
  <2> HIDE DEF at
  <2> QED BY <2>1, TabledIs DEF NightFit, PredictRates, AtNight
<1> HIDE DEF at
<1>3. ASSUME NEW n \in DOMAIN means \ cfg.exclude PROVE F(p)[n] = F(q)[n]
  <2>1. n \in DOMAIN LabHouse.rooms /\ n # room BY DEF Known, Unscored
  <2>2. PredictedRate(H(p), n, means[n], means, at) = PredictedRate(H(q), n, means[n], means, at)
    BY <2>1, SameElsewhere
  <2>3. n \in DOMAIN means OBVIOUS
  <2> HIDE DEF H, means
  <2>4. F(p)[n] = PredictedRate(H(p), n, means[n], means, at) BY <2>3
  <2>5. F(q)[n] = PredictedRate(H(q), n, means[n], means, at) BY <2>3
  <2> QED BY <2>2, <2>4, <2>5
<1>4. DOMAIN F(p) = DOMAIN means /\ DOMAIN F(q) = DOMAIN means OBVIOUS
<1> HIDE DEF F
<1> DEFINE scored == (DOMAIN rates \cap DOMAIN means) \ cfg.exclude
<1>5. Residuals(rates, F(p), cfg.exclude) = [n \in scored |-> F(p)[n] - rates[n]]
  BY <1>4, TabledIs DEF Residuals
<1>6. Residuals(rates, F(q), cfg.exclude) = [n \in scored |-> F(q)[n] - rates[n]]
  BY <1>4, TabledIs DEF Residuals
<1>7. Residuals(rates, F(p), cfg.exclude) = Residuals(rates, F(q), cfg.exclude)
  BY <1>3, <1>5, <1>6
<1> QED BY <1>1, <1>2, <1>7 DEF NightError, Rmse

LEMMA ScoreIs ==
    ASSUME NEW p, NEW cfg, NEW measured, NEW mult
    PROVE  LET s == Score(LabHouse, p, cfg, measured, mult)
           IN  /\ s.params = p
               /\ s.night1 \in Nat /\ s.night2 \in Nat
               /\ s.score = 7200 * (s.night1 + s.night2) + PriorPenalty(cfg, p)
               /\ s.night1 = NightError(p, cfg, measured, mult, 1)
               /\ s.night2 = NightError(p, cfg, measured, mult, 2)
<1> DEFINE R(night) == NightError(p, cfg, measured, mult, night)
           f == [night \in 1..2 |-> R(night)]
           penalty == PriorPenalty(cfg, p)
<1>1. Score(LabHouse, p, cfg, measured, mult) = Candidate(p, f, penalty)
  BY TabledIs DEF Score, NightError
<1>2. R(1) \in Nat /\ R(2) \in Nat BY RmseIsNat DEF NightError
<1>3. f[1] = R(1) /\ f[2] = R(2) OBVIOUS
<1> HIDE DEF R, f, penalty
<1>4. Unit \div 2 = 7200 BY DEF Unit
<1>5. /\ Candidate(p, f, penalty).params = p
      /\ Candidate(p, f, penalty).night1 = R(1)
      /\ Candidate(p, f, penalty).night2 = R(2)
      /\ Candidate(p, f, penalty).score = 7200 * (R(1) + R(2)) + penalty
  BY <1>3, <1>4 DEF Candidate
<1> QED BY <1>1, <1>2, <1>5 DEF R, penalty

LEMMA GridIs ==
    ASSUME NEW c \in DOMAIN Configs, NEW p \in Grid(Configs[c].bounds)
    PROVE  LET b == Configs[c].bounds
           IN  /\ p.landing \in FRange(b.landing) /\ p.conservatory \in FRange(b.conservatory)
               /\ \A n \in Calibrated \cup {"cd"} : p[n] \in Int
               /\ b.conservatory.min <= p.conservatory
               /\ b.conservatory.min \in FRange(b.conservatory)
               /\ \A v \in FRange(b.landing) : v \in Int
<1> DEFINE b == Configs[c].bounds
<1>1. \A n \in Calibrated \cup {"cd"} :
          b[n].min \in Int /\ b[n].max \in Int /\ b[n].step \in Nat \ {0}
  BY ConfigsAssumption
<1>2. \A n \in Calibrated \cup {"cd"} : p[n] \in FRange(b[n]) BY DEF Grid, Calibrated
<1> HIDE DEF b
<1>3. \A n \in Calibrated \cup {"cd"} : \A v \in FRange(b[n]) :
          v \in Int /\ b[n].min <= v /\ b[n].min \in FRange(b[n])
  BY <1>1, FRangeIs
<1>4. /\ \A v \in FRange(b.landing) : v \in Int
      /\ p.landing \in FRange(b.landing) /\ p.conservatory \in FRange(b.conservatory)
      /\ b.conservatory.min <= p.conservatory
      /\ b.conservatory.min \in FRange(b.conservatory)
  BY <1>2, <1>3 DEF Calibrated
<1>5. \A n \in Calibrated \cup {"cd"} : p[n] \in Int BY <1>2, <1>3
<1> QED BY <1>4, <1>5 DEF b

LEMMA PenaltyIsInt ==
    ASSUME NEW c \in DOMAIN Configs, NEW p, p.landing \in Int, p.cd \in Int
    PROVE  PriorPenalty(Configs[c], p) \in Int
<1> DEFINE cfg == Configs[c]
<1>1. cfg.priorWeight \in Int /\ cfg.priors.landing \in Int /\ cfg.priors.cd \in Int
  BY ConfigsAssumption
<1>2. \A x \in Int : Square(x) \in Int BY DEF Square
<1> DEFINE a == p.landing - cfg.priors.landing
           d == p.cd - cfg.priors.cd
<1>3. Square(a) \in Int /\ Square(d) \in Int BY <1>1, <1>2
<1> DEFINE w == cfg.priorWeight
           z == 16 * Square(a) + 225 * Square(d)
<1>4. z \in Int /\ w \in Int BY <1>1, <1>3
<1>5. PriorPenalty(cfg, p) = w * z BY DEF PriorPenalty
<1> HIDE DEF w, z
<1> QED BY <1>4, <1>5

LEMMA SmallerSquare ==
    ASSUME NEW x \in Int, NEW y \in Int, AbsOf(x) < AbsOf(y)
    PROVE  Square(x) < Square(y)
<1> DEFINE a == AbsOf(x)
           b == AbsOf(y)
<1>1. a \in Nat /\ b \in Nat /\ a < b BY DEF AbsOf
<1>2. Square(x) = a * a /\ Square(y) = b * b BY DEF Square, AbsOf
<1> HIDE DEF a, b
<1>3. a * a <= a * b /\ a * b < b * b BY <1>1
<1> QED BY <1>1, <1>2, <1>3

\* The prior of landing_ach draws to itself.
LEMMA NearerPrior ==
    ASSUME NEW c \in DOMAIN Configs, Configs[c].priorWeight > 0,
           NEW p, NEW q, p.landing \in Int, q.landing \in Int, p.cd \in Int, q.cd = p.cd,
           AbsOf(q.landing - Configs[c].priors.landing) < AbsOf(p.landing - Configs[c].priors.landing)
    PROVE  PriorPenalty(Configs[c], q) < PriorPenalty(Configs[c], p)
<1> DEFINE cfg == Configs[c]
           w == cfg.priorWeight
           x == Square(q.landing - cfg.priors.landing)
           y == Square(p.landing - cfg.priors.landing)
           d == Square(p.cd - cfg.priors.cd)
<1>1. w \in Int /\ cfg.priors.landing \in Int /\ cfg.priors.cd \in Int
  BY ConfigsAssumption
<1>2. \A i \in Int : Square(i) \in Int BY DEF Square
<1>3. x \in Int /\ y \in Int /\ d \in Int BY <1>1, <1>2
<1>4. x < y
  <2> DEFINE i == q.landing - cfg.priors.landing
             j == p.landing - cfg.priors.landing
  <2>1. i \in Int /\ j \in Int /\ AbsOf(i) < AbsOf(j) BY <1>1
  <2> HIDE DEF i, j
  <2>2. Square(i) < Square(j) BY <2>1, SmallerSquare
  <2> QED BY <2>2 DEF i, j
<1>5. /\ PriorPenalty(cfg, q) = w * (16 * x + 225 * d)
      /\ PriorPenalty(cfg, p) = w * (16 * y + 225 * d)
  BY DEF PriorPenalty
<1>6. w > 0 OBVIOUS
<1> HIDE DEF w, x, y, d
<1> DEFINE lo == 16 * x + 225 * d
           hi == 16 * y + 225 * d
<1>7. lo \in Int /\ hi \in Int /\ lo < hi BY <1>3, <1>4
<1>8. PriorPenalty(cfg, q) = w * lo /\ PriorPenalty(cfg, p) = w * hi BY <1>5
<1> HIDE DEF lo, hi, cfg
<1>9. w * lo < w * hi BY <1>1, <1>6, <1>7
<1> QED BY <1>8, <1>9 DEF cfg

LEMMA MeasuredRooms ==
    ASSUME NEW w, MeasuredRates(Telemetry, w) # None
    PROVE  DOMAIN TheOne(MeasuredRates(Telemetry, w)).means \subseteq DOMAIN LabHouse.rooms
<1> DEFINE cooled == {n \in DOMAIN Telemetry.rooms : Lasting(Within(Telemetry.rooms[n], w), 1)}
           rates == Tabled([n \in cooled |-> Fall(Within(Telemetry.rooms[n], w))])
           means == Tabled([n \in cooled |-> Mean(Values(Within(Telemetry.rooms[n], w)))])
           all == [rates |-> rates, means |-> means, outside |-> MeanWithin(Telemetry.outside, w, 0)]
<1>1. MeasuredRates(Telemetry, w) = {all} BY DEF MeasuredRates, Some
<1>2. DOMAIN means = cooled BY TabledIs
<1>3. all.means = means OBVIOUS
<1> HIDE DEF all, means
<1>4. TheOne({all}) = all BY DEF TheOne
<1> QED BY <1>1, <1>2, <1>3, <1>4, TelemetryAssumption

LEMMA FittedIs ==
    ASSUME NEW c \in DOMAIN Configs, NEW fit \in Fitted[c]
    PROVE  \E measured, mult : /\ Known(measured)
                               /\ fit \in RunGridSearch(LabHouse, Configs[c], measured, mult)
<1> DEFINE cfg == Configs[c]
           night(i) == MeasuredRates(Telemetry, cfg.nights[i])
           mult == [i \in 1..2 |-> WindMultiplier(cfg.wind, Telemetry.wind, cfg.nights[i])]
           measured == <<TheOne(night(1)), TheOne(night(2))>>
           F == [x \in DOMAIN Configs |-> CalibrateModel(LabHouse, Configs[x], Telemetry)]
<1>1. Fitted = F BY TabledIs DEF Fitted
<1>2. F[c] = CalibrateModel(LabHouse, cfg, Telemetry) OBVIOUS
<1>3. fit \in CalibrateModel(LabHouse, cfg, Telemetry) BY <1>1, <1>2
<1> HIDE DEF F
<1>4. /\ night(1) # None /\ night(2) # None
      /\ fit \in RunGridSearch(LabHouse, cfg, measured, mult)
  BY <1>3 DEF CalibrateModel, None
<1>5. Known(measured)
  <2>1. /\ DOMAIN TheOne(night(1)).means \subseteq DOMAIN LabHouse.rooms
        /\ DOMAIN TheOne(night(2)).means \subseteq DOMAIN LabHouse.rooms
    BY <1>4, MeasuredRooms
  <2>2. measured[1] = TheOne(night(1)) /\ measured[2] = TheOne(night(2)) OBVIOUS
  <2> HIDE DEF measured, night
  <2> QED BY <2>1, <2>2 DEF Known
<1> QED BY <1>4, <1>5

\* A candidate is kept only if no other was tried before it with its score or is better.
LEMMA KeptIs ==
    ASSUME NEW house, NEW cfg, NEW measured, NEW mult,
           NEW fit \in RunGridSearch(house, cfg, measured, mult)
    PROVE  \E p \in Grid(cfg.bounds) :
               /\ fit = Score(house, p, cfg, measured, mult)
               /\ \A q \in Grid(cfg.bounds) :
                      LET other == Score(house, q, cfg, measured, mult)
                      IN  other = fit \/ Preferred(fit, other)
<1> DEFINE scored == {Score(house, p, cfg, measured, mult) : p \in Grid(cfg.bounds)}
<1>1. fit \in scored /\ \A t \in scored \ {fit} : Preferred(fit, t) BY DEF RunGridSearch, Best
<1> QED BY <1>1

\* What two candidates of one night's score differ in.
LEMMA TriedIs ==
    ASSUME NEW s, NEW t, Preferred(s, t)
    PROVE  \/ s.score < t.score
           \/ /\ s.score = t.score
              /\ \/ s.params.leather < t.params.leather
                 \/ s.params.landing < t.params.landing
                 \/ /\ s.params.landing = t.params.landing
                    /\ \/ s.params.conservatory < t.params.conservatory
                       \/ s.params.office < t.params.office
                       \/ s.params.cd < t.params.cd
<1>1. PICK i \in 1..6 : /\ Tried(s)[i] < Tried(t)[i]
                        /\ \A j \in 1..(i - 1) : Tried(s)[j] = Tried(t)[j]
  BY DEF Preferred
<1>2. \A x \in {s, t} : /\ Tried(x)[1] = x.score
                        /\ Tried(x)[2] = x.params.leather
                        /\ Tried(x)[3] = x.params.landing
                        /\ Tried(x)[4] = x.params.conservatory
                        /\ Tried(x)[5] = x.params.office
                        /\ Tried(x)[6] = x.params.cd
  BY DEF Tried
<1>3. i = 1 \/ i = 2 \/ i = 3 \/ i = 4 \/ i = 5 \/ i = 6 BY <1>1
<1>4. CASE i = 1 BY <1>1, <1>2, <1>4
<1>5. CASE i = 2 BY <1>1, <1>2, <1>5
<1>6. CASE i = 3 BY <1>1, <1>2, <1>6
<1>7. CASE i = 4 BY <1>1, <1>2, <1>7
<1>8. CASE i = 5 BY <1>1, <1>2, <1>8
<1>9. CASE i = 6 BY <1>1, <1>2, <1>9
<1> QED BY <1>3, <1>4, <1>5, <1>6, <1>7, <1>8, <1>9

\* A fit is in whole numbers.
LEMMA FitFigures ==
    ASSUME NEW c \in DOMAIN Configs, NEW fit \in Fitted[c]
    PROVE  /\ \A n \in DOMAIN fit.params : fit.params[n] \in Int
           /\ Final(fit) \in Int /\ fit.night1 \in Int /\ fit.night2 \in Int
<1> DEFINE cfg == Configs[c]
<1>1. PICK measured, mult : Known(measured) /\ fit \in RunGridSearch(LabHouse, cfg, measured, mult)
  BY FittedIs
<1>2. PICK p \in Grid(cfg.bounds) : fit = Score(LabHouse, p, cfg, measured, mult)
  BY <1>1, KeptIs
<1>3. /\ fit.params = p /\ fit.night1 \in Nat /\ fit.night2 \in Nat
      /\ fit.score = 7200 * (fit.night1 + fit.night2) + PriorPenalty(cfg, p)
  BY <1>2, ScoreIs
<1>4. DOMAIN p = Calibrated \cup {"cd"} BY DEF Grid, Calibrated
<1>5. \A n \in DOMAIN p : p[n] \in Int BY <1>4, GridIs
<1>6. PriorPenalty(cfg, p) \in Int BY <1>4, <1>5, PenaltyIsInt DEF Calibrated
<1> HIDE DEF cfg
<1>7. fit.score \in Int BY <1>3, <1>6
<1>8. Final(fit) \in Int BY <1>7 DEF Final, Unit
<1> QED BY <1>3, <1>5, <1>8

\* The best fit, and a candidate like it but for one room that is left out of the score.
LEMMA Exchange ==
    ASSUME NEW c \in DOMAIN Configs, NEW measured, Known(measured), NEW mult,
           NEW p \in Grid(Configs[c].bounds), NEW q \in Grid(Configs[c].bounds),
           NEW room \in Configs[c].exclude, Differ(p, q, room)
    PROVE  LET s == Score(LabHouse, p, Configs[c], measured, mult)
               t == Score(LabHouse, q, Configs[c], measured, mult)
           IN  /\ s.params = p /\ t.params = q
               /\ s.score \in Int /\ t.score \in Int
               /\ s.score - t.score = PriorPenalty(Configs[c], p) - PriorPenalty(Configs[c], q)
               /\ PriorPenalty(Configs[c], p) \in Int /\ PriorPenalty(Configs[c], q) \in Int
<1> DEFINE cfg == Configs[c]
           s == Score(LabHouse, p, cfg, measured, mult)
           t == Score(LabHouse, q, cfg, measured, mult)
<1>1. /\ s.params = p /\ s.night1 \in Nat /\ s.night2 \in Nat
      /\ s.score = 7200 * (s.night1 + s.night2) + PriorPenalty(cfg, p)
  BY ScoreIs
<1>2. /\ t.params = q
      /\ t.score = 7200 * (t.night1 + t.night2) + PriorPenalty(cfg, q)
  BY ScoreIs
<1> DEFINE R(x, night) == NightError(x, cfg, measured, mult, night)
<1>3. ASSUME NEW night \in 1..2 PROVE R(p, night) = R(q, night)
  <2>1. Unscored(cfg, room) BY DEF Unscored
  <2> HIDE DEF cfg
  <2> QED BY <2>1, SameRmse
<1>4. /\ s.night1 = R(p, 1) /\ s.night2 = R(p, 2)
      /\ t.night1 = R(q, 1) /\ t.night2 = R(q, 2)
  BY ScoreIs
<1>5. p.landing \in Int /\ p.cd \in Int /\ q.landing \in Int /\ q.cd \in Int
  BY GridIs DEF Calibrated
<1>6. PriorPenalty(cfg, p) \in Int /\ PriorPenalty(cfg, q) \in Int BY <1>5, PenaltyIsInt
<1> HIDE DEF cfg, s, t, R
<1>7. /\ s.score \in Int /\ t.score \in Int
      /\ s.score - t.score = PriorPenalty(cfg, p) - PriorPenalty(cfg, q)
  BY <1>1, <1>2, <1>3, <1>4, <1>6
<1> QED BY <1>1, <1>2, <1>6, <1>7 DEF cfg, s, t

LEMMA BlindConservatory ==
    ASSUME NEW c \in DOMAIN Configs, NEW fit \in Fitted[c],
           "conservatory" \in Configs[c].exclude
    PROVE  fit.params.conservatory = Configs[c].bounds.conservatory.min
<1> DEFINE cfg == Configs[c]
           least == cfg.bounds.conservatory.min
<1>1. PICK measured, mult : Known(measured) /\ fit \in RunGridSearch(LabHouse, cfg, measured, mult)
  BY FittedIs
<1>2. PICK p \in Grid(cfg.bounds) :
          /\ fit = Score(LabHouse, p, cfg, measured, mult)
          /\ \A q \in Grid(cfg.bounds) :
                 LET other == Score(LabHouse, q, cfg, measured, mult)
                 IN  other = fit \/ Preferred(fit, other)
  BY <1>1, KeptIs
<1> DEFINE q == [p EXCEPT !.conservatory = least]
           other == Score(LabHouse, q, cfg, measured, mult)
<1>3. /\ least \in FRange(cfg.bounds.conservatory) /\ least <= p.conservatory
      /\ \A n \in Calibrated \cup {"cd"} : p[n] \in Int
  BY GridIs
<1>4. /\ q \in Grid(cfg.bounds) /\ q.conservatory = least
      /\ q.leather = p.leather /\ q.landing = p.landing /\ q.office = p.office /\ q.cd = p.cd
  BY <1>3 DEF Grid
<1>5. Differ(p, q, "conservatory") BY <1>4 DEF Differ, Calibrated
<1> HIDE DEF q
<1>6. /\ fit.params = p /\ other.params = q
      /\ fit.score \in Int /\ other.score \in Int
      /\ fit.score - other.score = PriorPenalty(cfg, p) - PriorPenalty(cfg, q)
      /\ PriorPenalty(cfg, p) \in Int
  BY <1>1, <1>2, <1>4, <1>5, Exchange
<1>7. PriorPenalty(cfg, p) = PriorPenalty(cfg, q) BY <1>4 DEF PriorPenalty
<1>8. fit.score = other.score BY <1>6, <1>7
<1>9. other = fit \/ Preferred(fit, other) BY <1>2, <1>4
<1> HIDE DEF other, cfg, least
<1>10. CASE other = fit BY <1>4, <1>6, <1>10 DEF cfg, least
<1>11. CASE Preferred(fit, other)
  <2>1. /\ p.leather \in Int /\ p.landing \in Int /\ p.office \in Int /\ p.cd \in Int
    BY <1>3 DEF Calibrated
  <2>2. p.conservatory < least BY <2>1, <1>4, <1>6, <1>8, <1>11, TriedIs
  <2>3. p.conservatory \in Int /\ least \in Int
    <3>1. p.conservatory \in Int BY <1>3 DEF Calibrated
    <3>2. q.conservatory \in Int BY <1>4, GridIs DEF Calibrated, cfg
    <3> QED BY <3>1, <3>2, <1>4
  <2> QED BY <2>2, <2>3, <1>3
<1> QED BY <1>9, <1>10, <1>11

LEMMA BlindLanding ==
    ASSUME NEW c \in DOMAIN Configs, NEW fit \in Fitted[c],
           "landing" \in Configs[c].exclude, Configs[c].priorWeight > 0,
           NEW v \in FRange(Configs[c].bounds.landing)
    PROVE  AbsOf(fit.params.landing - Configs[c].priors.landing)
           <= AbsOf(v - Configs[c].priors.landing)
<1> DEFINE cfg == Configs[c]
           off(x) == AbsOf(x - cfg.priors.landing)
<1>1. PICK measured, mult : Known(measured) /\ fit \in RunGridSearch(LabHouse, cfg, measured, mult)
  BY FittedIs
<1>2. PICK p \in Grid(cfg.bounds) :
          /\ fit = Score(LabHouse, p, cfg, measured, mult)
          /\ \A q \in Grid(cfg.bounds) :
                 LET other == Score(LabHouse, q, cfg, measured, mult)
                 IN  other = fit \/ Preferred(fit, other)
  BY <1>1, KeptIs
<1> DEFINE q == [p EXCEPT !.landing = v]
           other == Score(LabHouse, q, cfg, measured, mult)
<1>3. /\ q \in Grid(cfg.bounds) /\ q.landing = v
      /\ q.leather = p.leather /\ q.conservatory = p.conservatory /\ q.office = p.office
      /\ q.cd = p.cd
  BY DEF Grid
<1>4. Differ(p, q, "landing") BY <1>3 DEF Differ, Calibrated
<1>5. p.landing \in Int /\ v \in Int /\ p.cd \in Int /\ cfg.priors.landing \in Int
  BY GridIs, ConfigsAssumption DEF Calibrated
<1> HIDE DEF q
<1>6. /\ fit.params = p
      /\ fit.score \in Int /\ other.score \in Int
      /\ fit.score - other.score = PriorPenalty(cfg, p) - PriorPenalty(cfg, q)
      /\ PriorPenalty(cfg, p) \in Int /\ PriorPenalty(cfg, q) \in Int
  BY <1>1, <1>2, <1>3, <1>4, Exchange
<1>7. other = fit \/ Preferred(fit, other) BY <1>2, <1>3
<1>8. fit.score <= other.score
  <2> HIDE DEF other
  <2>1. CASE other = fit BY <2>1, <1>6
  <2>2. CASE Preferred(fit, other) BY <2>2, <1>6, TriedIs
  <2> QED BY <1>7, <2>1, <2>2
<1>9. ASSUME off(v) < off(p.landing) PROVE FALSE
  <2>1. PriorPenalty(cfg, q) < PriorPenalty(cfg, p) BY <1>9, <1>3, <1>5, NearerPrior
  <2> HIDE DEF other, cfg
  <2> QED BY <2>1, <1>6, <1>8
<1>10. off(v) \in Int /\ off(p.landing) \in Int BY <1>5 DEF AbsOf
<1> QED BY <1>6, <1>9, <1>10

LEMMA ArtifactsFiled ==
    ASSUME FilesInv, NEW a \in Artifacts
    PROVE  \E command \in Commands : Filed(command, a)
<1>1. a.kind = "artifact" /\ (\/ \E command \in Commands : a = latest[command]
                              \/ \E path \in Paths : a = tree[path])
  BY DEF Artifacts, FilesInv
<1>2. CASE \E command \in Commands : a = latest[command]
  <2>1. PICK command \in Commands : a = latest[command] BY <1>2
  <2>2. Absent.kind # "artifact" BY DEF Absent
  <2> QED BY <1>1, <2>1, <2>2 DEF FilesInv
<1>3. CASE \E path \in Paths : a = tree[path]
  <2>1. PICK path \in Paths : a = tree[path] BY <1>3
  <2>2. Filed(path, a) BY <2>1 DEF FilesInv
  <2>3. path \in Commands \/ path = "thresholds" \/ path = "config" BY <2>1 DEF Paths
  <2>4. path # "config" BY <1>1, <2>2 DEF Filed, ConfigFile
  <2>5. path # "thresholds" BY <1>1, <2>2 DEF Filed, Thresholds
  <2> QED BY <2>2, <2>3, <2>4, <2>5
<1> QED BY <1>1, <1>2, <1>3

(* What an artifact says of a room its score leaves out was not measured:   *)
(* conservatory_ach is the first value of its range and landing_ach the one *)
(* nearest its prior, for any house, telemetry and bounds                   *)
(* (src/thermal/calibration.rs: run_grid_search, and report.rs: rmse).      *)
THEOREM BlindParametersHold == Spec => []BlindParameters
<1>1. LabInv => BlindParameters
  <2> SUFFICES ASSUME LabInv, NEW a \in Artifacts
               PROVE  LET cfg == Configs[a.config]
                          off(v) == AbsOf(v - cfg.priors.landing)
                      IN  /\ "conservatory" \in cfg.exclude =>
                                 a.fit.params.conservatory = cfg.bounds.conservatory.min
                          /\ "landing" \in cfg.exclude /\ cfg.priorWeight > 0 =>
                                 \A v \in FRange(cfg.bounds.landing) :
                                     off(a.fit.params.landing) <= off(v)
    BY DEF BlindParameters
  <2>1. PICK command \in Commands : Filed(command, a) BY ArtifactsFiled DEF LabInv
  <2>2. PICK c \in DOMAIN Configs, t \in Nows : a \in Computed[<<command, c, t>>]
    BY <2>1 DEF Filed
  <2>3. PICK fit, report : a = Artifact(command, c, t, fit, report) /\ fit \in Fitted[c]
    BY <2>2, ComputedIs
  <2>4. a.config = c /\ a.fit = fit BY <2>3 DEF Artifact
  <2> QED BY <2>3, <2>4, BlindConservatory, BlindLanding
<1> QED BY <1>1, LabInvariant, PTL

-----------------------------------------------------------------------------
(* A baseline held against itself.                                          *)

LEMMA CloseToItself ==
    /\ \A x \in Int : CloseTo(x, x, 25) /\ CloseTo(x, x, 50) /\ CloseTo(x, x, 100)
    /\ \A x \in Nat : KeptOf(x, x, 150)
<1>1. \A x \in Int : AbsOf(x - x) = 0 BY DEF AbsOf
<1>2. Max({0}) = 0 BY DEF Max
<1>3. ASSUME NEW x \in Nat PROVE Max({x - x, 0}) * 1000 <= 150 * x
  <2>1. {x - x, 0} = {0} OBVIOUS
  <2> QED BY <1>2, <2>1
<1> QED BY <1>1, <1>3 DEF CloseTo, KeptOf

LEMMA NumberClose ==
    ASSUME NEW option, option # None, option \subseteq Int
    PROVE  /\ CloseNumbers(option, option, 30)
           /\ CloseNumbers(option, option, 50)
           /\ CloseNumbers(option, option, 100)
<1>1. TheOne(option) \in Int BY DEF TheOne, None
<1>2. CloseTo(TheOne(option), TheOne(option), 30) BY <1>1 DEF CloseTo, AbsOf
<1> QED BY <1>1, <1>2, CloseToItself DEF CloseNumbers

\* A summary of no record is the only one without figures.
LEMMA SummaryIs ==
    ASSUME NEW R
    PROVE  LET s == Summary(R)
           IN  /\ s.n # 0 => s.rmse # None /\ s.mae # None /\ s.bias # None
<1>1. CASE R = {} BY <1>1, FS_EmptySet DEF Summary
<1>2. CASE R # {}
  BY <1>2 DEF Summary, Some, None
<1> QED BY <1>1, <1>2

LEMMA FitReport ==
    ASSUME NEW c, NEW t, NEW fit, NEW y \in Report(fit, "fit-diagnostics", c, t), y.cooling.n # 0
    PROVE  y.cooling.rmse # None /\ y.cooling.mae # None
<1>1. y \in FitDiagnostics(LabHouse, Configs[c], Telemetry, fit, t) BY DEF Report
<1>2. PICK R : y.cooling = Summary(R) BY <1>1 DEF FitDiagnostics, None, Some
<1> QED BY <1>2, SummaryIs

LEMMA OperationalReport ==
    ASSUME NEW c, NEW t, NEW fit, NEW y \in Report(fit, "operational", c, t), y.all.n # 0
    PROVE  y.all.rmse # None /\ y.all.mae # None /\ y.all.bias # None
<1>1. y \in Operational(LabHouse, Configs[c], Telemetry, fit, t) BY DEF Report
<1>2. PICK R : y.all = Summary(R) BY <1>1 DEF Operational, None, Some
<1> QED BY <1>2, SummaryIs

\* What of it is wrong on its own.
Faulty(a) ==
    \/ a.command = "validate" /\ ~a.report.pass
    \/ a.command = "fit-diagnostics" /\ a.report.cooling.n = 0
    \/ a.command = "operational" /\ a.report.all.n = 0

LEMMA GatePassesItself ==
    ASSUME NEW command \in Commands, NEW a, Filed(command, a), ~Faulty(a)
    PROVE  GatePasses(a, a)
<1>1. PICK c \in DOMAIN Configs, t \in Nows : a \in Computed[<<command, c, t>>] BY DEF Filed
<1>2. PICK fit, y : /\ a = Artifact(command, c, t, fit, y)
                    /\ y \in Report(fit, command, c, t)
                    /\ fit \in Fitted[c]
  BY <1>1, ComputedIs
<1>3. a.kind = "artifact" /\ a.command = command /\ a.report = y BY <1>2 DEF Artifact
<1>4. Counts(command, y) \subseteq Nat BY <1>1, <1>3, FiguresAssumption
<1>5. ParamsClose(a, a)
  <2>1. \A p \in DOMAIN a.fit.params : a.fit.params[p] \in Int BY <1>2, FitFigures DEF Artifact
  <2> QED BY <2>1, CloseToItself DEF ParamsClose
<1>6. CalibrationClose(a, a)
  <2>1. Final(a.fit) \in Int /\ a.fit.night1 \in Int /\ a.fit.night2 \in Int
    BY <1>2, FitFigures DEF Artifact
  <2> QED BY <2>1, CloseToItself DEF CalibrationClose
<1>7. Figures(command, y) \subseteq Int BY <1>1, <1>3, FiguresAssumption
<1>8. CASE command = "calibrate" BY <1>3, <1>5, <1>6, <1>8 DEF GatePasses
<1>9. CASE command = "validate"
  <2>1. y.metrics.rmse \in Int /\ y.metrics.bias \in Int /\ y.metrics.within \in Int
    BY <1>7, <1>9 DEF Figures
  <2>2. y.pass BY <1>3, <1>9 DEF Faulty
  <2>3. ValidationClose(y, y) BY <2>1, <2>2, CloseToItself DEF ValidationClose
  <2> QED BY <1>3, <1>5, <1>6, <1>9, <2>3 DEF GatePasses
<1>10. CASE command = "fit-diagnostics"
  <2>1. y.cooling.rmse # None /\ y.cooling.mae # None
    BY <1>2, <1>3, <1>10, FitReport DEF Faulty
  <2>2. y.cooling.rmse \subseteq Int /\ y.cooling.mae \subseteq Int /\ y.ratio \subseteq Int
    BY <1>7, <1>10 DEF Figures
  <2>3. y.records \in Nat /\ y.cooling.n \in Nat BY <1>4, <1>10 DEF Counts
  <2>4. CloseNumbers(y.cooling.rmse, y.cooling.rmse, 50) BY <2>1, <2>2, NumberClose
  <2>5. CloseNumbers(y.cooling.mae, y.cooling.mae, 50) BY <2>1, <2>2, NumberClose
  <2>6. y.ratio = None \/ CloseNumbers(y.ratio, y.ratio, 30) BY <2>2, NumberClose
  <2>7. FitClose(y, y) BY <2>3, <2>4, <2>5, <2>6, CloseToItself DEF FitClose
  <2> QED BY <1>3, <1>5, <1>10, <2>7 DEF GatePasses
<1>11. CASE command = "operational"
  <2>1. y.all.rmse # None /\ y.all.mae # None /\ y.all.bias # None
    BY <1>2, <1>3, <1>11, OperationalReport DEF Faulty
  <2>2. y.all.rmse \subseteq Int /\ y.all.mae \subseteq Int /\ y.all.bias \subseteq Int
    BY <1>7, <1>11 DEF Figures
  <2>3. y.records \in Nat BY <1>4, <1>11 DEF Counts
  <2>4. CloseNumbers(y.all.rmse, y.all.rmse, 50) /\ CloseNumbers(y.all.mae, y.all.mae, 50)
        /\ CloseNumbers(y.all.bias, y.all.bias, 100)
    BY <2>1, <2>2, NumberClose
  <2>5. OperationalClose(y, y) BY <2>3, <2>4, CloseToItself DEF OperationalClose
  <2> QED BY <1>3, <1>5, <1>11, <2>5 DEF GatePasses
<1> QED BY <1>8, <1>9, <1>10, <1>11 DEF Commands

(* The regression script holds nothing against an unchanged repository: a   *)
(* baseline that stands for its own candidate fails only if it misses the   *)
(* holdout thresholds or summarises no record                               *)
(* (src/bin/thermal-regression-check.rs: a null is an error).               *)
THEOREM BaselinesAcceptThemselves == Spec => []BaselineAcceptsItself
<1>1. LabInv => BaselineAcceptsItself
  <2> DEFINE s == checked.pairs
             n == Len(s)
             p == s[n]
  <2> SUFFICES ASSUME LabInv, checked.verdict = "failed", p.baseline = p.candidate
               PROVE  \/ p.command = "validate" /\ ~p.baseline.report.pass
                      \/ p.command = "fit-diagnostics" /\ p.baseline.report.cooling.n = 0
                      \/ p.command = "operational" /\ p.baseline.report.all.n = 0
    BY DEF BaselineAcceptsItself, Last
  <2>1. IsSeq(s) /\ n # 0 /\ n <= 4 /\ ~Passes(s, n) /\ \A i \in 1..n : Compares(s, i)
    BY DEF LabInv, CheckInv
  <2>2. n \in 1..4
    <3>1. s \in Seq(ToSet(s)) BY <2>1 DEF IsSeq
    <3>2. n \in Nat BY <3>1, LenProperties
    <3>3. n # 0 /\ n <= 4 BY <2>1
    <3> HIDE DEF n
    <3> QED BY <3>2, <3>3
  <2>3. Compares(s, n) BY <2>1, <2>2
  <2>4. Compared[n] \in Commands BY <2>2, ExportedPaths
  <2>5. p.command = Compared[n] /\ Filed(Compared[n], p.baseline) BY <2>3 DEF Compares
  <2>6. ~GatePasses(p.baseline, p.baseline) BY <2>1 DEF Passes
  <2>7. Faulty(p.baseline) BY <2>4, <2>5, <2>6, GatePassesItself
  <2>8. p.baseline.command = p.command BY <2>4, <2>5, FiledArtifact
  <2> QED BY <2>7, <2>8 DEF Faulty
<1> QED BY <1>1, LabInvariant, PTL
=============================================================================
