--------------------------- MODULE HistoryReview ---------------------------
(***************************************************************************)
(* history-review (src/src/main.rs) over a record that is still being      *)
(* written.  The plant turns (a charge starts, a room cools, the curve     *)
(* hunts), each logger writes a row a tick or is down, and at any moment   *)
(* the command is run over a window, past or still open.  The verdict is   *)
(* a heuristic over the two summaries of History.                          *)
(***************************************************************************)
EXTENDS History

CONSTANTS
    Targets,      \* the --target values asked for
    Windows,      \* the windows <<since, until>> asked for
    MaxTurns      \* how often the plant and the loggers may turn in a record

ASSUME WindowsAssumption == Windows \subseteq (0..Horizon) \X (0..Horizon)

VARIABLES
    target,       \* what the record is made for: bounds which signals turn
    plant,        \* signal -> its value now
    hunting,      \* the curve is being moved up and down, row after row
    down,         \* the loggers that write nothing
    now,          \* the tick to be recorded next
    turns,        \* turns taken so far
    turned,       \* this tick's turn has been taken
    report        \* what the command printed, or NoReport

vars == <<store, target, plant, hunting, down, now, turns, turned, report>>

NoReport == [since |-> 0, until |-> 0]

\* The loggers, and the signals each one writes.
Writes == [ebusd_poll |-> {"flow", "hwc"}, multical |-> {"t1"},
           ebusd |-> {"sfmode"}, emonth |-> {"leather"},
           controller |-> {"curve"}]

Values == [flow |-> {0, 1000}, t1 |-> {41, 46}, hwc |-> {40, 48},
           sfmode |-> {AutoMode, LoadMode}, leather |-> {19, 21}, curve |-> {50, 60}]

Turning == [heating |-> {"flow", "leather"},
            dhw     |-> {"flow", "t1", "hwc", "sfmode"}]

LoggersOf(tgt) == IF tgt = "heating" THEN {"ebusd_poll", "emonth", "controller"}
                  ELSE {"ebusd_poll", "multical"}

(***************************************************************************)
(* The record.                                                             *)
(***************************************************************************)

Turn ==
    /\ turns < MaxTurns /\ ~turned /\ now < Horizon /\ report = NoReport
    /\ turns' = turns + 1
    /\ turned' = TRUE
    /\ UNCHANGED <<store, target, now, report>>

PlantTurns(s, v) ==
    /\ Turn
    /\ s \in Turning[target] /\ v # plant[s]
    /\ plant' = [plant EXCEPT ![s] = v]
    /\ UNCHANGED <<hunting, down>>

LoopStartsHunting ==
    /\ Turn
    /\ target = "heating" /\ ~hunting
    /\ hunting' = TRUE
    /\ UNCHANGED <<plant, down>>

\* A logger stops writing or comes back.
LoggerTurns(l) ==
    /\ Turn
    /\ l \in LoggersOf(target)
    /\ down' = IF l \in down THEN down \ {l} ELSE down \union {l}
    /\ UNCHANGED <<plant, hunting>>

\* Every logger that is up writes this tick's row.
Record ==
    /\ now < Horizon /\ report = NoReport
    /\ store' = [s \in Signals |->
                    IF \E l \in down : s \in Writes[l] THEN store[s]
                    ELSE [store[s] EXCEPT ![now] = plant[s]]]
    /\ plant' = IF hunting
                THEN [plant EXCEPT !.curve = IF @ = 50 THEN 60 ELSE 50]
                ELSE plant
    /\ now' = now + 1
    /\ turned' = FALSE
    /\ UNCHANGED <<target, hunting, down, turns, report>>

(***************************************************************************)
(* The command.                                                            *)
(***************************************************************************)

\* Mutant: misses of a window with a charge in it are put down to the charge.
HeatingVerdictExcused(summary) ==
    IF summary.leather.samples = 0 \/ summary.control.samples = 0 THEN "inconclusive"
    ELSE IF summary.sawtooth THEN "mixed"
    ELSE IF summary.misses = {} \/ summary.overlaps # {} THEN "working"
    ELSE "failing"

\* heating_history_verdict
HeatingVerdict(summary) ==
    IF summary.leather.samples = 0 \/ summary.control.samples = 0 THEN "inconclusive"
    ELSE IF summary.sawtooth THEN "mixed"
    ELSE IF summary.misses = {} THEN "working"
    ELSE IF summary.overlaps = {} THEN "failing"
    ELSE "mixed"

\* dhw_history_verdict
DhwVerdict(summary) ==
    LET partial == {c \in summary.charges : c.crossover # "yes"}
    IN  IF summary.t1.samples = 0 \/ summary.hwc.samples = 0 \/ summary.charges = {}
        THEN "inconclusive"
        ELSE IF ~summary.no_crossover /\ ~summary.low_t1 /\ partial = {} THEN "working"
        ELSE IF summary.no_crossover /\ summary.low_t1 THEN "failing"
        ELSE "mixed"

HeatingReport(since, until) ==
    LET summary == HeatingSummary(since, until)
    IN  [since |-> since, until |-> until, status |-> HeatingVerdict(summary),
         misses |-> summary.misses, charges |-> summary.overlaps]

DhwReport(since, until) ==
    LET summary == DhwSummary(since, until)
    IN  [since |-> since, until |-> until, status |-> DhwVerdict(summary),
         charges |-> summary.charges, charging |-> summary.charging,
         load_stuck |-> summary.load_stuck]

\* run_history_review, past resolve_history_window: since < until or an error.
\* The command only reads, so one run of it closes a behaviour of the model and
\* every record is still written to its end in another.
Review(since, until) ==
    /\ report = NoReport
    /\ since < until
    /\ report' = IF target = "heating" THEN HeatingReport(since, until)
                                       ELSE DhwReport(since, until)
    /\ UNCHANGED <<store, target, plant, hunting, down, now, turns, turned>>

Init ==
    /\ target \in Targets
    /\ store = [s \in Signals |-> [t \in 0..(Horizon - 1) |-> Missing]]
    /\ plant = [flow |-> 0, t1 |-> 46, hwc |-> 40, sfmode |-> AutoMode,
                leather |-> 21, curve |-> 50]
    /\ hunting = FALSE /\ down = {}
    /\ now = 0 /\ turns = 0 /\ turned = FALSE
    /\ report = NoReport

Next ==
    \/ \E s \in Signals : \E v \in Values[s] : PlantTurns(s, v)
    \/ LoopStartsHunting
    \/ \E l \in DOMAIN Writes : LoggerTurns(l)
    \/ Record
    \/ \E w \in Windows : Review(w[1], w[2])

Spec == Init /\ [][Next]_vars

(***************************************************************************)
(* Properties.                                                             *)
(***************************************************************************)

Asked == report # NoReport
since == report.since
until == report.until

\* The value in force at an instant of a window: the latest row, no older than
\* the lookback allows before the window.
InForce(from, s, x, lookback) ==
    LET seen == {t \in Max({0, from - lookback})..x : store[s][t] # Missing}
    IN  IF seen = {} THEN Missing ELSE store[s][Max(seen)]

Running(x) == IsCharging(InForce(since, "flow", x, FlowLookback))
Cold(x) == IsCold(InForce(since, "leather", x, LeatherLookback))

Instants(periods) == UNION {p.start..(p.end - 1) : p \in periods}

\* The charges printed are those of the record: a flow that ran for the
\* minimum plus a bucket inside the window lies in one period, whatever cut
\* the window or the loggers made; through a period the flow in force at the
\* end of each bucket is a charge's; and periods are apart, within a bucket of
\* the window and never shorter than the minimum.
\* periods_from_active_series, query_measurement_above_threshold_periods_compact.
ChargesAsRecorded ==
    Asked =>
        /\ \A a \in since..until : \A b \in (a + MinCharge + Bucket - 1)..until :
              (\A x \in a..(b - 1) : Running(x)) =>
                  \E p \in report.charges :
                      p.start <= a /\ p.end >= b - (Bucket - 1)
        /\ \A x \in Instants(report.charges) :
              Running(Min({BucketOf(x) + Bucket, until}) - 1)
        /\ \A p \in report.charges :
              /\ Duration(p) >= MinCharge
              /\ since - Bucket < p.start /\ p.end <= until
        /\ \A p, q \in report.charges : p # q => p.end < q.start \/ q.end < p.start

\* The comfort misses printed are, to the instant, the waking instants of the
\* window at which the room reading in force was below the comfort floor, and
\* no two misses share one.
\* query_topic_below_threshold_periods_compact, clip_period_to_waking_hours.
MissesAsRecorded ==
    Asked /\ target = "heating" =>
        /\ Instants(report.misses) =
              {x \in since..(until - 1) :
                  /\ x % Day \in WakingStart..(WakingEnd - 1)
                  /\ Cold(x)}
        /\ \A p, q \in report.misses : p # q => p.end <= q.start \/ q.end <= p.start

StatusOf(from, to) == IF target = "heating"
                      THEN HeatingVerdict(HeatingSummary(from, to))
                      ELSE DhwVerdict(DhwSummary(from, to))

\* Evidence of a failure is not lost by asking about more: no window around one
\* that is "failing" is "working", though the wider one sees other baselines,
\* other cuts and more charges.
WiderNeverBlessed ==
    Asked /\ report.status = "failing" =>
        \A from \in 0..since : \A to \in until..Horizon : StatusOf(from, to) # "working"
=============================================================================
