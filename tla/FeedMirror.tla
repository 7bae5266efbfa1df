----------------------------- MODULE FeedMirror -----------------------------
(***************************************************************************)
(* The SQLite mirror of the emoncms feeds and what is built on it: the     *)
(* incremental sync (db.rs), the gap filling (gaps.rs) and the frame the   *)
(* analyses load. sync and fill-gaps are runs of the command line tool:    *)
(* each may stop between two transactions, and one may run beside the      *)
(* other. The unit of time is the minute, the resolution of a fetch.       *)
(***************************************************************************)
EXTENDS Integers, Sequences, FiniteSets, SequencesExt, FiniteSetsExt, Functions

CONSTANTS
    Feeds,      \* cfg.emoncms.feeds, in the order of the file
    Power, Meter, Outside,  \* elec_power, elec_energy, outside_temp among them
    SimFeeds,   \* the feeds a fill writes
    MaxLag,     \* bound on the minutes emoncms is behind
    Steady,     \* feeds that an outage of the logger does not touch
    Kinds,      \* what each minute may be, of the kinds below
    End,        \* bound on minutes
    Chunk,      \* minutes per fetch (7 days)
    MinGap,     \* a gap is longer than this (3 minutes)
    ShortGap,   \* and interpolated when shorter than this (10 minutes)
    Hour,       \* minutes per hour
    Temp,       \* the outside temperature of each minute, degC
    MaxFaults   \* bound on failed requests and killed runs

Minute == 1..End
Feed == Range(Feeds)
Kind == {"heat", "dhw", "idle", "lostRun", "lostIdle"}
Lost == {"lostRun", "lostIdle"}

ASSUME FeedMirrorAssumption ==
    /\ Feeds \in Seq(Feed) /\ IsInjective(Feeds)
    /\ {Power, Meter, Outside} \cup SimFeeds \subseteq Feed
    /\ Power \in SimFeeds /\ Meter \notin SimFeeds
    /\ Power \notin Steady
    /\ Kinds \in [Minute -> SUBSET Kind]
    /\ End \in Nat /\ Chunk \in Nat \ {0} /\ Hour \in Nat \ {0}
    /\ MinGap \in Nat \ {0} /\ MaxLag \in Nat /\ ShortGap \in Nat
    /\ Temp \in [Minute -> Int] /\ MaxFaults \in Nat

VARIABLES
    now,
    log,        \* what each minute delivered so far was: emoncms, which may lag now
    samples,    \* the table samples: the minutes stored of each feed
    mark,       \* the table sync_state: last_timestamp, 0 for no row
    sync, fill, \* the runs of the two commands
    sim,        \* the table simulated_samples: per feed, minute |-> value
    gapLog,     \* the table gap_log: start |-> row
    late,       \* history: minutes asked for before emoncms had them, and not again
    belated,    \* history: power samples stored after later ones
    faults

tables == <<samples, mark, sim, gapLog>>
vars == <<now, log, tables, sync, fill, late, belated, faults>>

-----------------------------------------------------------------------------
(* Emoncms.                                                                *)

\* W drawn in a minute, and the energy it adds, in whole units.
Drawn(kind) == CASE kind = "dhw" -> 2
                 [] kind \in {"heat", "lostRun"} -> 1
                 [] OTHER -> 0

\* The feed has a value, not a null, for minute t.
Reported(f, t) == t \in DOMAIN log /\ (log[t] \notin Lost \/ f \in Steady)

\* The cumulative meter runs on through an outage.
MeterAt(t) == FoldSet(LAMBDA u, acc : acc + Drawn(log[u]), 0, 1..t)

Tick == /\ now < End /\ now < Len(log) + MaxLag
        /\ now' = now + 1
        /\ UNCHANGED <<log, tables, sync, fill, late, belated, faults>>

Deliver(kind) ==
    /\ Len(log) < now /\ kind \in Kinds[Len(log) + 1]
    /\ log' = Append(log, kind)
    /\ UNCHANGED <<now, tables, sync, fill, late, belated, faults>>

-----------------------------------------------------------------------------
(* sync_all.                                                               *)

Resting == [pc |-> "idle"]

\* Mutant: a feed that is up to date ends the run.
OpenedStops(i, until) ==
    IF i > Len(Feeds) \/ mark[Feeds[i]] >= until THEN Resting
    ELSE LET last == mark[Feeds[i]]
         IN  [pc |-> "chunk", i |-> i, until |-> until,
              last |-> last, at |-> last, max |-> last]

\* From the i-th feed on, the first whose mark has not reached the start of this run;
\* the marks of the feeds passed over are as they were.
Opened(i, until) ==
    LET due == {j \in i..Len(Feeds) : mark[Feeds[j]] < until}
    IN  IF due = {} THEN Resting
        ELSE LET last == mark[Feeds[Min(due)]]
             IN  [pc |-> "chunk", i |-> Min(due), until |-> until,
                  last |-> last, at |-> last, max |-> last]

StartSync ==
    /\ sync = Resting
    /\ sync' = Opened(1, now)
    /\ UNCHANGED <<now, log, tables, fill, late, belated, faults>>

ChunkEnd(at, until) == Min({at + Chunk, until})

\* One request and the transaction that stores what is not null of its answer.
FetchChunk ==
    /\ sync.pc = "chunk" /\ sync.at < sync.until
    /\ LET f   == Feeds[sync.i]
           end == ChunkEnd(sync.at, sync.until)
           got == {t \in sync.at..end : Reported(f, t)}
       IN  /\ samples' = [samples EXCEPT ![f] = @ \cup got]
           /\ sync' = [sync EXCEPT !.at = end, !.max = Max(got \cup {@})]
           /\ late' = [late EXCEPT ![f] = @ \cup {t \in sync.at..end : t > Len(log)}]
           /\ belated' = IF f # Power THEN belated
                ELSE belated \cup {t \in got \ samples[f] : \E u \in samples[f] : t < u}
    /\ UNCHANGED <<now, log, mark, sim, gapLog, fill, faults>>

\* What lies past the mark will be asked for again.
Passed(marks) == [f \in Feed |-> {t \in late[f] : t < marks[f]}]

\* Mutant: the mark goes to the end of what was asked for.
CloseFeedAtEnd ==
    /\ sync.pc = "chunk" /\ sync.at = sync.until
    /\ mark' = [mark EXCEPT ![Feeds[sync.i]] = sync.until]
    /\ late' = Passed(mark')
    /\ sync' = Opened(sync.i + 1, sync.until)
    /\ UNCHANGED <<now, log, samples, sim, gapLog, fill, belated, faults>>

CloseFeed ==
    /\ sync.pc = "chunk" /\ sync.at = sync.until
    /\ mark' = [mark EXCEPT ![Feeds[sync.i]] = Max({sync.max, sync.last})]
    /\ late' = Passed(mark')
    /\ sync' = Opened(sync.i + 1, sync.until)
    /\ UNCHANGED <<now, log, samples, sim, gapLog, fill, belated, faults>>

\* An error of any request ends the run, the feeds after this one with it.
SyncFails ==
    /\ sync # Resting /\ faults < MaxFaults
    /\ sync' = Resting
    /\ late' = Passed(mark)
    /\ faults' = faults + 1
    /\ UNCHANGED <<now, log, tables, fill, belated>>

-----------------------------------------------------------------------------
(* The model of TempBinModel::from_db, of the minutes J that have a sample *)
(* of every feed while running. Its averages are those of the kind, so a   *)
(* bin counts for being there and for its share.                           *)

Joined == {t \in UNION Range(samples) :
              (\A f \in SimFeeds \cup {Outside} : t \in samples[f])
              /\ log[t] \in {"heat", "dhw"}}

Bin(J, kind, b) == {t \in J : log[t] = kind /\ Temp[t] = b}

\* get_heating and get_dhw: the bin itself, then one and two degrees off.
Near(J, kind, b) ==
    SelectSeq(<<b, b - 1, b + 1, b - 2, b + 2>>, LAMBDA c : Bin(J, kind, c) # {})

\* minute_in_hour < part / whole of an hour
Within(t, part, whole) == whole > 0 /\ (t % Hour) * whole < part * Hour

DhwMinute(J, t) ==
    LET same == {u \in J : u \div Hour = t \div Hour}
    IN  Within(t, Cardinality({u \in same : log[u] = "dhw"}), Cardinality(same))

\* What a lost minute is taken for.
Estimate(J, t, b) ==
    LET heat == Near(J, "heat", b)
        c    == Head(heat)
        n    == Cardinality(Bin(J, "heat", c))
    IN  CASE DhwMinute(J, t) /\ Near(J, "dhw", b) # <<>> -> "dhw"
          [] DhwMinute(J, t) /\ heat # <<>> -> "heat"
          [] heat = <<>> -> "none"
          [] Within(t, n, n + Cardinality(Bin(J, "dhw", c))) -> "heat"
          [] OTHER -> "idle"

-----------------------------------------------------------------------------
(* fill-gaps.                                                              *)

Latest(S, t) == {u \in S : u <= t}

\* get_nearest_value: the last meter sample up to t.
NearestMeter(t) ==
    LET S == Latest(samples[Meter], t) IN IF S = {} THEN 0 ELSE MeterAt(Max(S))

OutsideAt(t) ==
    LET S == Latest(samples[Outside], t) IN IF S = {} THEN 10 ELSE Temp[Max(S)]

\* find_gaps: neighbouring samples of the power feed too far apart.
Gap(a, b) == [start |-> a, end |-> b, kwh |-> NearestMeter(b) - NearestMeter(a)]

Neighbours ==
    {p \in samples[Power] \X samples[Power] :
        p[1] < p[2] /\ ~\E t \in samples[Power] : p[1] < t /\ t < p[2]}

FoundGaps == {Gap(p[1], p[2]) : p \in {q \in Neighbours : q[2] - q[1] > MinGap}}

StartFill ==
    /\ fill = Resting /\ FoundGaps # {}
    /\ fill' = [pc |-> "fill", model |-> Joined, todo |-> FoundGaps]
    /\ UNCHANGED <<now, log, tables, sync, late, belated, faults>>

Inside(g) == (g.start + 1)..(g.end - 1)

\* Values keep their fraction: they count in 1/Unit.
Unit == 12

\* fill_gap_interpolate: a straight line between the samples at the two ends.
Interpolated(f, g) ==
    LET at(t) == IF t \in samples[f] /\ f = Power THEN Unit * Drawn(log[t]) ELSE 0
    IN  [t \in Inside(g) |->
           at(g.start) + ((at(g.end) - at(g.start)) * (t - g.start)) \div (g.end - g.start)]

\* The estimates of the power feed, scaled so that they add up to the meters' energy.
Scaled(f, g, est) ==
    LET raw == FoldSet(LAMBDA t, acc : acc + Drawn(est[t]), 0, DOMAIN est)
    IN  [t \in DOMAIN est |->
           IF f # Power THEN 0
           ELSE IF raw = 0 THEN Unit * Drawn(est[t])
           ELSE (Unit * Drawn(est[t]) * g.kwh) \div raw]

Estimates(J, g) ==
    LET guess(t) == Estimate(J, t, OutsideAt(t))
    IN  [t \in {u \in Inside(g) : guess(u) # "none"} |-> guess(t)]

\* INSERT OR IGNORE: what is there stays.
Inserted(old, new) ==
    [t \in DOMAIN old \cup DOMAIN new |-> IF t \in DOMAIN old THEN old[t] ELSE new[t]]

\* fill_gap, of the earliest gap left: one transaction for the samples and its row.
FillGap ==
    /\ fill # Resting
    /\ \E g \in fill.todo :
         LET short  == g.end - g.start < ShortGap
             est    == Estimates(fill.model, g)
             new(f) == IF short THEN Interpolated(f, g) ELSE Scaled(f, g, est)
             rest   == fill.todo \ {g}
         IN  /\ \A h \in rest : g.start < h.start
             /\ sim' = [f \in SimFeeds |-> Inserted(sim[f], new(f))]
             /\ gapLog' = [s \in DOMAIN gapLog \cup {g.start} |->
                   IF s # g.start THEN gapLog[s]
                   ELSE [end |-> g.end, kwh |-> g.kwh,
                         method |-> IF short THEN "interpolate" ELSE "model"]]
             /\ fill' = IF rest = {} THEN Resting ELSE [fill EXCEPT !.todo = rest]
    /\ UNCHANGED <<now, log, samples, mark, sync, late, belated, faults>>

FillFails ==
    /\ fill # Resting /\ faults < MaxFaults
    /\ fill' = Resting
    /\ faults' = faults + 1
    /\ UNCHANGED <<now, log, tables, sync, late, belated>>

-----------------------------------------------------------------------------
(* load_dataframe_with_simulated.                                          *)

\* Mutant: a minute that any feed has is not flagged.
SimOnlyAny == {t \in UNION {DOMAIN sim[f] : f \in SimFeeds} : t \notin UNION Range(samples)}

SimOnly == {t \in UNION {DOMAIN sim[f] : f \in SimFeeds} : t \notin samples[Power]}

Rows == UNION Range(samples) \cup SimOnly

\* A cell takes a simulated value only where the feed has no sample.
Cell(f, t) ==
    CASE t \in samples[f] -> "real"
      [] t \notin samples[f] /\ f \in SimFeeds /\ t \in DOMAIN sim[f] -> "simulated"
      [] OTHER -> "null"

IsSimulated(t) == t \in SimOnly

-----------------------------------------------------------------------------
Init ==
    /\ now = 0 /\ log = <<>>
    /\ samples = [f \in Feed |-> {}] /\ mark = [f \in Feed |-> 0]
    /\ sync = Resting /\ fill = Resting
    /\ sim = [f \in SimFeeds |-> <<>>] /\ gapLog = <<>>
    /\ late = [f \in Feed |-> {}] /\ belated = {} /\ faults = 0

Sync == StartSync \/ FetchChunk \/ CloseFeed

Next ==
    \/ Tick
    \/ \E kind \in Kind : Deliver(kind)
    \/ Sync
    \/ SyncFails
    \/ StartFill
    \/ FillGap
    \/ FillFails

Spec == Init /\ [][Next]_vars

\* Time passes, the logger delivers, and sync is run again and again; a run that is
\* neither killed nor refused goes on.
FairSpec ==
    /\ Spec
    /\ WF_vars(Tick)
    /\ WF_vars(\E kind \in Kind : Deliver(kind))
    /\ WF_vars(Sync)

-----------------------------------------------------------------------------
TypeOK ==
    /\ now \in 0..End /\ log \in Seq(Kind) /\ Len(log) <= now
    /\ samples \in [Feed -> SUBSET Minute] /\ mark \in [Feed -> 0..now]
    /\ sync.pc \in {"idle", "chunk"} /\ fill.pc \in {"idle", "fill"}
    /\ sync.pc = "chunk" => sync.last <= sync.max /\ sync.at <= sync.until
    /\ \A f \in SimFeeds : DOMAIN sim[f] \subseteq Minute
    /\ late \in [Feed -> SUBSET Minute] /\ belated \subseteq Minute /\ faults \in 0..MaxFaults

(* Whatever emoncms has up to the mark of a feed is in the mirror, through failed    *)
(* requests and killed runs, except what it received only after its chunk had been   *)
(* asked for and a later chunk had brought a later sample (db.rs, sync_all: fetches  *)
(* start at the mark and never look back).                                           *)
Overtaken(f) == {t \in late[f] : \E u \in samples[f] : t < u}

MirrorComplete ==
    \A f \in Feed : \A t \in 1..mark[f] :
        Reported(f, t) => t \in samples[f] \cup Overtaken(f)

(* A row of the frame that carries a simulated value is flagged is_simulated, unless *)
(* its power sample arrived after its chunk had been asked for (db.rs,               *)
(* load_dataframe_inner: the flag goes by the power feed, the values by their own).  *)
FrameHonest ==
    \A t \in Rows \ belated : \A f \in Feed :
        Cell(f, t) = "simulated" => IsSimulated(t)

(* Every minute emoncms has is mirrored in the end, failures of earlier feeds and    *)
(* outages notwithstanding (db.rs, sync_all: the mark is where the next run starts). *)
CatchesUp ==
    <>[](\A f \in Feed : \A t \in Minute :
            Reported(f, t) => t \in samples[f] \cup Overtaken(f))
=============================================================================
