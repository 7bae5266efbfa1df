---------------------------- MODULE DhwSessions ----------------------------
(***************************************************************************)
(* dhw-sessions: charges and draws found in a window of the recorded       *)
(* series, the capacity measured by each draw, and the tables the command  *)
(* writes, run after run, beside a recorder that goes on.                  *)
(*                                                                         *)
(* One instant is a minute. Flows: l/min through the taps, l/h through the *)
(* building circuit. Temperatures: 0.01 degC. Volumes: half litres, so     *)
(* that trapezoids stay whole.                                             *)
(***************************************************************************)
EXTENDS Integers, Sequences, FiniteSets, FiniteSetsExt, Functions

CONSTANTS
    Samples,    \* instant |-> what may be recorded: see Sample
    End,        \* bound on instants
    Windows,    \* days: how far back a run may look, in instants
    MinCharge,  \* CHARGE_MIN_DURATION
    MinRows, MinPoints, \* rows and points below which a draw is not analysed
    Settle,     \* instants that the storage is followed after a draw: no less than Margin
    MaxRuns, MaxFaults  \* bounds

Instant == 1..End

\* What is true at an instant, and whether the heat meter (m) and the poll (e) have a row.
Sample == [flow: Nat, bc: Nat, t1: Nat, t2: Nat, hwc: Nat, m: BOOLEAN, e: BOOLEAN]

ASSUME DhwSessionsAssumption ==
    /\ End \in Nat /\ Windows \subseteq Nat
    /\ \A t \in Instant : \A s \in Samples[t] : s \in Sample
    /\ MinCharge \in Nat /\ MinRows \in Nat \ {0, 1} /\ MinPoints \in Nat \ {0}
    /\ Settle \in Nat /\ Settle >= 2 /\ MaxRuns \in Nat /\ MaxFaults \in Nat

CHARGE_BC_FLOW == 900
DRAW_FLOW_MIN == 2          \* 100 l/h
DRAW_MIN_VOLUME == 20       \* half litres
BATH_FLOW_MIN == 11         \* 650 l/h
SHOWER_FLOW_MIN == 6        \* 350 l/h
ROLLING_WINDOW == 20        \* half litres
WWHR_T2_THRESHOLD == 2000
Margin == 2                 \* minutes analysed before and after a draw

VARIABLES
    trace,      \* what was recorded so far, one sample per instant
    job,        \* the run of the command
    inflection, \* table dhw_inflection: equal rows are one
    capacity,   \* table dhw_capacity, likewise
    shown,      \* what the last complete run printed
    runs, faults

vars == <<trace, job, inflection, capacity, shown, runs, faults>>

None == <<>>
Some(v) == <<v>>
UnwrapOr(option, default) == IF option = None THEN default ELSE option[1]

-----------------------------------------------------------------------------
(* The series of a window w = [from, to].                                  *)

\* The sum of a function on instants.
Total(f) ==
    LET upTo[t \in 0..End] ==
            IF t = 0 THEN 0 ELSE upTo[t - 1] + (IF t \in DOMAIN f THEN f[t] ELSE 0)
    IN  upTo[End]

\* The meter's register counts on whether it is read or not.
Register(t) == Total([u \in 2..t |-> trace[u - 1].flow + trace[u].flow])

Rows(source, w) == {t \in w.from..w.to : t \in DOMAIN trace /\ trace[t][source]}

\* The last row at or before t.
lkv(source, w, t) ==
    LET known == {u \in Rows(source, w) : u <= t}
    IN  IF known = {} THEN None ELSE Some(Max(known))

Value(source, field, w, t) ==
    LET at == lkv(source, w, t) IN IF at = None THEN None ELSE Some(trace[at[1]][field])

Volume(w, t) == LET at == lkv("m", w, t) IN IF at = None THEN 0 ELSE Register(at[1])

-----------------------------------------------------------------------------
(* find_events: a detector goes on at its first instant over a limit and    *)
(* off at the next one that is not; what is still on as the window ends is  *)
(* not found.                                                               *)

High(w) == {t \in w.from..w.to : UnwrapOr(Value("e", "bc", w, t), 0) > CHARGE_BC_FLOW}
Flowing(w) == {t \in w.from..w.to : UnwrapOr(Value("m", "flow", w, t), 0) > DRAW_FLOW_MIN}

Spells(w, on) ==
    {s \in [start : w.from..w.to, end : w.from..w.to] :
        /\ s.start < s.end /\ s.start..(s.end - 1) \subseteq on
        /\ s.start - 1 \notin on /\ s.end \notin on}

\* Mutant: T1 as the window begins.
PreT1AtFirst(w, s) == Value("m", "t1", w, w.from)

PreT1(w, s) == Value("m", "t1", w, s.start)

Charge(w, s) ==
    LET hwc_max == Max({UnwrapOr(Value("e", "hwc", w, t), 0) : t \in s.start..(s.end - 1)})
    IN  [start |-> s.start, end |-> s.end,
         t1_end |-> UnwrapOr(Value("m", "t1", w, s.end), 0),
         crossover |-> hwc_max >= PreT1(w, s)[1],
         volume_at_end |-> Volume(w, s.end)]

\* A charge that was long enough, and began with T1 known.
Charges(w) ==
    {Charge(w, s) : s \in {s \in Spells(w, High(w)) :
                               s.end - s.start >= MinCharge /\ PreT1(w, s) # None}}

Latest(charges) == CHOOSE c \in charges : \A d \in charges : d.end <= c.end

\* Mutant: the charge that ends last, whether or not the draw had begun.
PrecedingAny(charges, start) ==
    IF charges = {} THEN None ELSE Some(Latest(charges))

Preceding(charges, start) ==
    LET before == {c \in charges : c.end <= start}
    IN  IF before = {} THEN None ELSE Some(Latest(before))

VolumeAtCharge(preceding) == IF preceding = None THEN 0 ELSE preceding[1].volume_at_end

Drawn(w, s) == Volume(w, s.end) - Volume(w, s.start)

\* The gap is from the draw before, a small one too.
Draw(w, s) ==
    LET preceding == Preceding(Charges(w), s.start)
        ended == {p.end : p \in {p \in Spells(w, Flowing(w)) : p.end < s.start}}
    IN  [start |-> s.start, end |-> s.end, register_start |-> Volume(w, s.start),
         drawn |-> Drawn(w, s), preceding |-> preceding,
         cumulative |-> Volume(w, s.end) - VolumeAtCharge(preceding),
         gap |-> IF ended = {} THEN 999 ELSE s.start - Max(ended),
         during_charge |-> High(w) \cap s.start..(s.end - 1) # {}]

Draws(w) == {Draw(w, s) : s \in {s \in Spells(w, Flowing(w)) : Drawn(w, s) >= DRAW_MIN_VOLUME}}

-----------------------------------------------------------------------------
(* analyse_draw.                                                           *)

Around(draw, after) == [from |-> Max({1, draw.start - Margin}), to |-> draw.end + after]

\* Half litres drawn from the first of the rows to t, by trapezoids.
Integral(rows, t) ==
    LET before(u) == Max({v \in rows : v < u})
        later == {u \in rows : u <= t /\ \E v \in rows : v < u}
    IN  Total([u \in later |-> (trace[before(u)].flow + trace[u].flow) * (u - before(u))])

\* The rows from the third on, against the volume drawn since the charge.
Points(draw) ==
    LET rows == Rows("m", Around(draw, Margin))
        before == draw.register_start - VolumeAtCharge(draw.preceding)
        third == {t \in rows : /\ Cardinality(rows) >= MinRows
                               /\ Cardinality({u \in rows : u < t}) >= 2}
    IN  [t \in third |-> [cumulative |-> before + Integral(rows, t), t1 |-> trace[t].t1]]

\* The nearest point at least a rolling window back.
Reference(points, t) ==
    LET back(u) == points[t].cumulative - points[u].cumulative
        earlier == {u \in DOMAIN points : u < t}
    IN  {u \in earlier : back(u) >= ROLLING_WINDOW
                         /\ \A v \in earlier : v > u => back(v) < ROLLING_WINDOW}

\* The first point where T1 falls faster than rate, in 0.001 degC per litre.
FirstFall(points, rate) ==
    LET falls == {t \in DOMAIN points : \E u \in Reference(points, t) :
                    20 * (points[t].t1 - points[u].t1)
                        < -rate * (points[t].cumulative - points[u].cumulative)}
    IN  IF falls = {} THEN None ELSE Some(points[Min(falls)])

\* Median of the last quarter of the T2 rows during flow, 15 degC without any.
settled_mains_temp(rows) ==
    LET flowing == {t \in rows : trace[t].flow > DRAW_FLOW_MIN}
        tail == {t \in flowing : Cardinality({u \in flowing : u < t})
                                     >= (Cardinality(flowing) * 3) \div 4}
        upTo(t) == {u \in tail : trace[u].t2 <= trace[t].t2}
        middle == {t \in tail : Cardinality(upTo(t)) > Cardinality(tail) \div 2}
    IN  IF flowing = {} THEN 1500 ELSE Min({trace[t].t2 : t \in middle})

HwcMin(draw) ==
    LET rows == Rows("e", Around(draw, Settle))
        after == {t \in rows : t >= draw.start}
        before == {t \in rows : t <= draw.start}
    IN  CASE after # {} -> Min({trace[t].hwc : t \in after})
          [] after = {} /\ before # {} -> trace[Max(before)].hwc
          [] OTHER -> 0

inflection_category(draw, definitive) ==
    CASE definitive = None -> "lower_bound"
      [] definitive # None /\ draw.preceding # None
            /\ draw.preceding[1].crossover /\ draw.preceding[1].t1_end >= 4300 -> "capacity"
      [] OTHER -> "partial"

draw_type(peak, drawn) ==
    CASE peak >= BATH_FLOW_MIN -> "bath"
      [] peak >= SHOWER_FLOW_MIN /\ peak < BATH_FLOW_MIN /\ drawn >= 40 -> "shower"
      [] OTHER -> "tap"

Result(draw) ==
    LET points == Points(draw)
        definitive == FirstFall(points, 10)
        rows == Rows("m", Around(draw, Margin))
    IN  [draw |-> draw, hint |-> FirstFall(points, 3), definitive |-> definitive,
         category |-> inflection_category(draw, definitive),
         type |-> draw_type(Max({trace[t].flow : t \in rows \cap draw.start..draw.end} \cup {0}),
                            draw.drawn),
         mains |-> settled_mains_temp(rows),
         hwc_min |-> HwcMin(draw)]

\* analyse_sessions: the draws with points enough.
Results(w) ==
    {Result(d) : d \in {d \in Draws(w) : Cardinality(DOMAIN Points(d)) >= MinPoints}}

-----------------------------------------------------------------------------
(* compute_recommended_capacity.                                           *)

InCategory(results, category) == {r \in results : r.category = category}

Measured(r) == UnwrapOr(r.definitive, [cumulative |-> 0]).cumulative
Best(results) == Max({Measured(r) : r \in results} \cup {0})

Litres(half, percent) == (half * percent + 100) \div 200

\* The results by the instant their draw starts.
ByStart(results) ==
    [t \in {r.draw.start : r \in results} |-> CHOOSE r \in results : r.draw.start = t]

\* Mutant: the line alone.
RegressionLine(cold) ==
    LET at == ByStart(cold)
        n == Cardinality(DOMAIN at)
        t2 == [t \in DOMAIN at |-> at[t].mains]
        vol == [t \in DOMAIN at |-> Measured(at[t])]
        var == n * Total([t \in DOMAIN at |-> t2[t] * t2[t]]) - Total(t2) * Total(t2)
        cov == n * Total([t \in DOMAIN at |-> t2[t] * vol[t]]) - Total(t2) * Total(vol)
        warmest == Max({t2[t] : t \in DOMAIN at})
    IN  IF n < 2 \/ var <= 1000 * n * n THEN None
        ELSE Some(Max({0, Best(cold) + (cov * (2500 - warmest)) \div var}))

\* Volume against mains temperature of cold measurements, taken on to 25 degC.
Regression(cold) ==
    LET at == ByStart(cold)
        n == Cardinality(DOMAIN at)
        t2 == [t \in DOMAIN at |-> at[t].mains]
        vol == [t \in DOMAIN at |-> Measured(at[t])]
        var == n * Total([t \in DOMAIN at |-> t2[t] * t2[t]]) - Total(t2) * Total(t2)
        cov == n * Total([t \in DOMAIN at |-> t2[t] * vol[t]]) - Total(t2) * Total(vol)
        warmest == Max({t2[t] : t \in DOMAIN at})
    IN  IF n < 2 \/ var <= 1000 * n * n THEN None
        ELSE Some(Max({Best(cold), Best(cold) + (cov * (2500 - warmest)) \div var}))

Recommended(results) ==
    LET wwhr == {r \in results : r.mains >= WWHR_T2_THRESHOLD}
        cold == {r \in results : r.mains < WWHR_T2_THRESHOLD}
        regression == Regression(cold)
    IN  CASE results = {} -> None
          [] wwhr # {} -> Some(Litres(Best(wwhr), 100))
          [] results # {} /\ wwhr = {} /\ regression # None -> Some(Litres(regression[1], 100))
          [] OTHER -> Some(Litres(Best(cold), 97))

\* json_summary and output_human.
Summary(results) ==
    LET measured == InCategory(results, "capacity")
        bound == {r \in InCategory(results, "lower_bound") :
                      r.draw.preceding # None /\ r.draw.preceding[1].crossover}
        best(r) == IF r.hint # None THEN r.hint[1].cumulative ELSE r.draw.cumulative
        count(type) == Cardinality({r \in results : r.type = type})
    IN  [recommended |-> Recommended(measured),
         max_usable |-> IF measured = {} THEN None ELSE Some(Best(measured)),
         highest_lower_bound |-> IF bound = {} THEN None ELSE Some(Max({best(r) : r \in bound})),
         types |-> [type \in {"bath", "shower", "tap"} |-> count(type)]]

-----------------------------------------------------------------------------
(* The recorder.                                                           *)

Record(s) ==
    /\ Len(trace) < End /\ s \in Samples[Len(trace) + 1]
    /\ trace' = Append(trace, s)
    /\ UNCHANGED <<job, inflection, capacity, shown, runs, faults>>

(* The command.                                                            *)

Resting == [pc |-> "idle"]

\* dhw_inflection_write_row, and the run it came from.
Row(r, w) ==
    [time |-> r.draw.start, category |-> r.category, type |-> r.type,
     cumulative |-> Measured(r), gap |-> r.draw.gap, mains |-> r.mains,
     hwc_min |-> r.hwc_min, draw |-> r.draw, window |-> w]

RowsOf(results, w) == {Row(r, w) : r \in {r \in results : r.definitive # None}}

\* Everything is read before anything is written; --no-write ends here.
Run(days, no_write) ==
    /\ job = Resting /\ runs < MaxRuns /\ trace # <<>>
    /\ LET w == [from |-> Max({1, Len(trace) - days + 1}), to |-> Len(trace)]
           results == Results(w)
       IN  IF no_write
           THEN shown' = Summary(results) /\ job' = Resting
           ELSE /\ job' = [pc |-> "write", todo |-> RowsOf(results, w), window |-> w,
                        results |-> results]
                /\ shown' = shown
    /\ runs' = runs + 1
    /\ UNCHANGED <<trace, inflection, capacity, faults>>

\* write_dhw_inflection_to_postgres: row by row, the earliest first, in no transaction.
WriteRow ==
    /\ job.pc = "write"
    /\ \E row \in job.todo :
          /\ \A other \in job.todo : row.time <= other.time
          /\ inflection' = inflection \cup {row}
          /\ job' = [job EXCEPT !.todo = @ \ {row}]
    /\ UNCHANGED <<trace, capacity, shown, runs, faults>>

Measurements(results) == InCategory(results, "capacity")

\* Mutant: the recommendation does not wait for the rows.
FinishEarly ==
    /\ job.pc = "write"
    /\ LET measured == Measurements(job.results)
       IN  capacity' = IF Recommended(measured) = None THEN capacity
                       ELSE capacity \cup {[litres |-> Recommended(measured)[1],
                                window |-> job.window,
                                of |-> {r.draw.start : r \in measured}]}
    /\ shown' = Summary(job.results) /\ job' = Resting
    /\ UNCHANGED <<trace, inflection, runs, faults>>

\* The recommended capacity, if there is one, and the output.
Finish ==
    /\ job.pc = "write" /\ job.todo = {}
    /\ LET measured == Measurements(job.results)
       IN  capacity' = IF Recommended(measured) = None THEN capacity
                       ELSE capacity \cup {[litres |-> Recommended(measured)[1],
                                window |-> job.window,
                                of |-> {r.draw.start : r \in measured}]}
    /\ shown' = Summary(job.results) /\ job' = Resting
    /\ UNCHANGED <<trace, inflection, runs, faults>>

RunFails ==
    /\ job # Resting /\ faults < MaxFaults
    /\ job' = Resting /\ faults' = faults + 1
    /\ UNCHANGED <<trace, inflection, capacity, shown, runs>>

Init ==
    /\ trace = <<>> /\ job = Resting
    /\ inflection = {} /\ capacity = {} /\ shown = None
    /\ runs = 0 /\ faults = 0

Next ==
    \/ \E s \in UNION Range(Samples) : Record(s)
    \/ \E days \in Windows, no_write \in BOOLEAN : Run(days, no_write)
    \/ WriteRow
    \/ Finish
    \/ RunFails

Spec == Init /\ [][Next]_vars

-----------------------------------------------------------------------------
(* A measurement of the capacity counts the litres drawn since the end of a charge   *)
(* that came before it: no more than the register counted, by the end of the draw's  *)
(* rows, except that what flowed in the two minutes before the draw counts twice     *)
(* (dhw_sessions.rs, analyse_draw: the register is read at the draw's start, the     *)
(* flow integrated from before it).                                                  *)
Metered(from, to) == \A t \in from..to : t \in DOMAIN trace => trace[t].m

CapacityCounted ==
    \A r \in inflection : r.category = "capacity" =>
        LET charge == r.draw.preceding[1]
            first == Max({1, r.draw.start - Margin})
            last == Min({r.draw.end + Margin, Len(trace)})
        IN  /\ charge.end <= r.draw.start
            /\ Metered(Min({first, charge.end}), last) =>
                  r.cumulative <= Register(last) - charge.volume_at_end
                                    + Register(r.draw.start) - Register(first)

(* Two runs that both had a row of the poll before the charge before a draw, and the *)
(* draw settle, wrote the same of it, whatever their windows and however much was    *)
(* recorded in between (dhw_sessions.rs, find_events starts each window knowing      *)
(* nothing).                                                                         *)
SawWhole(r) ==
    /\ r.draw.end + Settle <= r.window.to
    /\ r.draw.preceding # None
    /\ \E t \in Rows("e", r.window) : t < r.draw.preceding[1].start

RowsAgree ==
    \A a, b \in inflection :
        a.time = b.time /\ SawWhole(a) /\ SawWhole(b) =>
            [a EXCEPT !.window = b.window, !.gap = b.gap, !.draw = b.draw] = b

(* A recommended capacity rests on measurements that are all in the table, through   *)
(* failed runs (dhw_sessions.rs, write_results: the recommendation goes last).       *)
Backing(c) ==
    {r \in inflection :
        r.window = c.window /\ r.time \in c.of /\ r.category = "capacity"}

CapacityBacked ==
    \A c \in capacity : c.of # {} /\ c.of = {r.time : r \in Backing(c)}

(* What z2m-hub is told the cylinder holds is the best measurement with warm mains,  *)
(* or else no less than 97% of the best with cold mains, however the regression goes *)
(* (dhw_sessions.rs, compute_recommended_capacity).                                  *)
RecommendationHolds ==
    \A c \in capacity :
        LET wwhr == {r \in Backing(c) : r.mains >= WWHR_T2_THRESHOLD}
            best(rows) == Max({r.cumulative : r \in rows})
        IN  IF wwhr # {} THEN c.litres = Litres(best(wwhr), 100)
            ELSE c.litres >= Litres(best(Backing(c)), 97)
=============================================================================
