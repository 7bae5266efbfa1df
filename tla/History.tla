------------------------------ MODULE History ------------------------------
(***************************************************************************)
(* The evidence readers of src/src/thermal/history.rs: what one window     *)
(* [since, until) of the time-series store says about heating and hot      *)
(* water.  Every operator is a function of the store, so that two windows  *)
(* of one record can be compared.                                          *)
(*                                                                         *)
(* Time is counted in ticks.  The store keeps, for every signal and tick,  *)
(* the row written at that tick or Missing. The rows that a query returns  *)
(* are a function on their times, whose order is that of the SQL.          *)
(***************************************************************************)
EXTENDS Integers, FiniteSets, FiniteSetsExt

CONSTANTS
    Horizon,          \* the last tick of the record
    Bucket,           \* ticks in one 30 s bucket of the charge series
    MinCharge,        \* DHW_MIN_DURATION_SECONDS in ticks
    FlowLookback,     \* the 10 minutes before the window, for the flow
    LeatherLookback,  \* the 2 hours before the window, for the room
    Boundary,         \* DHW_BOUNDARY_LOOKBACK_ and _LOOKAHEAD_SECONDS
    RecentEnd,        \* the 600 s of period_contains_recent_end
    Day,              \* ticks in one day
    WakingStart,      \* WAKING_START_HOUR, ticks from midnight
    WakingEnd         \* WAKING_END_HOUR, ticks from midnight

ASSUME ScaleAssumption ==
    /\ {Horizon, Bucket, MinCharge, FlowLookback, LeatherLookback, Boundary,
        RecentEnd, Day, WakingStart, WakingEnd} \subseteq Nat \ {0}
    /\ Bucket < MinCharge /\ MinCharge <= FlowLookback
    /\ WakingStart < WakingEnd /\ WakingEnd <= Day

VARIABLE store        \* signal -> tick -> value, or Missing

Missing == -1
DhwFlowThreshold == 900
ComfortMin == 20
AutoMode == 0         \* the values of HwcSFMode
LoadMode == 1

Signals == {"flow", "t1", "hwc", "sfmode", "leather", "curve"}

(***************************************************************************)
(* Queries.                                                                *)
(***************************************************************************)

\* The ticks of a window at which a signal has a row.
Times(s, from, to) == {t \in 0..(Horizon - 1) : from <= t /\ t < to /\ store[s][t] # Missing}

Series(s, from, to) == [t \in Times(s, from, to) |-> store[s][t]]

\* ORDER BY time DESC LIMIT 1
LastValue(s, from, to) ==
    LET times == Times(s, from, to)
    IN  IF times = {} THEN Missing ELSE store[s][Max(times)]

BucketOf(t) == (t \div Bucket) * Bucket

\* Mutant: the first row of a bucket instead of the last.
BucketedFirst(s, from, to) ==
    LET times == Times(s, from, to)
    IN  [b \in {BucketOf(t) : t \in times} |-> store[s][Min({t \in times : BucketOf(t) = b})]]

\* DISTINCT ON (time_bucket) ... time DESC: one row for each bucket that has
\* one, stamped with the bucket's start (which may lie before the window) and
\* holding the last value of the bucket that the window lets through.
Bucketed(s, from, to) ==
    LET times == Times(s, from, to)
    IN  [b \in {BucketOf(t) : t \in times} |-> store[s][Max({t \in times : BucketOf(t) = b})]]

FirstBucket(s, from, to) ==
    LET rows == Bucketed(s, from, to)
    IN  IF DOMAIN rows = {} THEN Missing ELSE rows[Min(DOMAIN rows)]

\* summarize_numeric, rows_to_numeric_summary: the extremes and the latest row.
Summary(rows) ==
    IF DOMAIN rows = {} THEN [samples |-> 0]
    ELSE LET values == {rows[t] : t \in DOMAIN rows}
         IN  [samples |-> Cardinality(DOMAIN rows), min |-> Min(values), max |-> Max(values),
              latest |-> rows[Max(DOMAIN rows)]]

(***************************************************************************)
(* Periods.                                                                *)
(***************************************************************************)

Period(from, to) == [start |-> from, end |-> to]

Duration(p) == p.end - p.start

\* prev_active: whether the row before was active, and before the first the baseline.
WasActive(baseline, active, t) ==
    LET earlier == {u \in DOMAIN active : u < t}
    IN  IF earlier = {} THEN baseline ELSE active[Max(earlier)]

\* Where a period ends that is under way after the row at t: at the next inactive
\* row, or when the series ends at until.
EndAfter(until, active, t) ==
    LET off == {u \in DOMAIN active : u > t /\ ~active[u]}
    IN  IF off = {} THEN until ELSE Min(off)

\* periods_from_active_series: a period starts at an active row that follows an
\* inactive one, and at since when the baseline is active. A series without a minimum
\* has no period of negative length, so 0 stands for None.
PeriodsFromActive(since, until, baseline, min, active) ==
    LET starts == {t \in DOMAIN active : active[t] /\ ~WasActive(baseline, active, t)}
        open == IF baseline THEN {Period(since, EndAfter(until, active, -1))} ELSE {}
    IN  {p \in open \union {Period(t, EndAfter(until, active, t)) : t \in starts} :
            Duration(p) >= min}

IsCharging(v) == v >= DhwFlowThreshold
IsCold(v) == v # Missing /\ v < ComfortMin

FlowBaseline(since) == IsCharging(LastValue("flow", since - FlowLookback, since))
RoomBaseline(since) == IsCold(LastValue("leather", since - LeatherLookback, since))

\* query_dhw_charge_periods_compact: also the overlap periods of heating-history.
ChargePeriods(since, until) ==
    LET rows == Bucketed("flow", since, until)
    IN  PeriodsFromActive(since, until, FlowBaseline(since), MinCharge,
            [t \in DOMAIN rows |-> IsCharging(rows[t])])

ColdPeriods(since, until) ==
    LET rows == Series("leather", since, until)
    IN  PeriodsFromActive(since, until, RoomBaseline(since), 0,
            [t \in DOMAIN rows |-> IsCold(rows[t])])

\* What of a period is in the waking hours of day d.
Clipped(p, d) ==
    Period(Max({p.start, d * Day + WakingStart}), Min({p.end, d * Day + WakingEnd}))

\* Mutant: clipped to the waking hours of the day it began on.
ClipToFirstDay(p) == {q \in {Clipped(p, p.start \div Day)} : q.start < q.end}

\* clip_period_to_waking_hours: day by day from the period's first to its last.
ClipToWaking(p) ==
    {q \in {Clipped(p, d) : d \in (p.start \div Day)..(p.end \div Day)} : q.start < q.end}

ComfortMisses(since, until) == UNION {ClipToWaking(p) : p \in ColdPeriods(since, until)}

(***************************************************************************)
(* Charges.                                                                *)
(***************************************************************************)

\* query_dhw_charge_summaries_batched_compact: T1 is read before the charge,
\* the storage temperature after it, and without both nothing is said.
ChargeSummary(p) ==
    LET t1_start == LastValue("t1", p.start - Boundary, p.start)
        hwc_end == FirstBucket("hwc", p.end, p.end + Boundary)
    IN  [start |-> p.start, end |-> p.end,
         crossover |-> IF Missing \in {t1_start, hwc_end} THEN "unknown"
                       ELSE IF hwc_end >= t1_start THEN "yes" ELSE "no"]

Charges(since, until) == {ChargeSummary(p) : p \in ChargePeriods(since, until)}

ChargingNow(since, until) == IsCharging(LastValue("flow", since, until))

HasRecentEnd(p, until) == p.end <= until /\ p.end >= until - RecentEnd

LoadStuck(since, until) ==
    /\ LastValue("sfmode", since, until) = LoadMode
    /\ \A p \in ChargePeriods(since, until) : ~HasRecentEnd(p, until)

(***************************************************************************)
(* The controller's rows.                                                  *)
(***************************************************************************)

\* detect_sawtooth.  The curve is in hundredths; a change under 5 is noise.
SawtoothAlternations(since, until) ==
    LET rows == Series("curve", since, until)
        Before(times, t) == Max({u \in times : u < t})
        later == DOMAIN rows \ {Min(DOMAIN rows)}
        Delta(t) == rows[t] - rows[Before(DOMAIN rows, t)]
        steps == {t \in later : Delta(t) >= 5 \/ Delta(t) <= -5}
    IN  IF Cardinality(DOMAIN rows) < 4 \/ Cardinality(steps) < 3 THEN 0
        ELSE Cardinality({t \in steps \ {Min(steps)} :
                             (Delta(Before(steps, t)) > 0) # (Delta(t) > 0)})

LikelySawtooth(since, until) == SawtoothAlternations(since, until) >= 3

(***************************************************************************)
(* The two summaries, with the fields the verdicts read.                   *)
(***************************************************************************)

HeatingSummary(since, until) ==
    [leather  |-> Summary(Series("leather", since, until)),
     control  |-> Summary(Series("curve", since, until)),
     misses   |-> ComfortMisses(since, until),
     overlaps |-> ChargePeriods(since, until),
     sawtooth |-> LikelySawtooth(since, until)]

DhwSummary(since, until) ==
    LET t1 == Summary(Series("t1", since, until))
        charges == Charges(since, until)
    IN  [t1           |-> t1,
         hwc          |-> Summary(Series("hwc", since, until)),
         charges      |-> charges,
         charging     |-> ChargingNow(since, until),
         load_stuck   |-> LoadStuck(since, until),
         low_t1       |-> t1.samples > 0 /\ t1.min < 42,
         no_crossover |-> charges # {} /\ \A c \in charges : c.crossover # "yes"]
=============================================================================
