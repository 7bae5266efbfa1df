----------------------------- MODULE Overnight -----------------------------
(***************************************************************************)
(* The overnight strategy optimiser: nights are taken from the record,     *)
(* cooling and heating are calibrated on them, every schedule is simulated *)
(* on every night, and NightChoice picks among the results.                *)
(*                                                                         *)
(* An offset is a minute since 20:00. Temperatures: 0.1 degC. Power: W;    *)
(* energy: W for one minute. The rate of cooling k: thousandths per minute.*)
(***************************************************************************)
EXTENDS NightChoice, HpStates, FiniteSets, SequencesExt, FiniteSetsExt

CONSTANTS
    Tracks,         \* night |-> what may be recorded of it
    Tariffs,        \* lowest-rate windows a night may have
    LastOffset,     \* 09:00
    TARGET_HOUR,    \* the offset of 07:00
    Around,         \* offsets within which a reading counts as that of 07:00
    PreferredDhw,   \* the offset of 05:00
    OffTimes,       \* offsets of 00:00 to 02:00 in steps of 30 minutes, ascending
    Fallback,       \* window of 04:00 to 07:00
    DhwModes,       \* <<normal, eco>>: duration and energy per minute
    MIN_NIGHT_SAMPLES, MIN_DELTA_T,
    Span,           \* samples before and after one that show a trend
    Trend,          \* rise across them that makes it a recovery
    MinBin,         \* samples of a heating bin
    BinEdges,       \* edges of the bins, ascending
    Htc, KMin, KMax, KDefault, \* heat loss, W per degC; bounds of k and its default
    LowestRate, BlendedRate    \* pence per unit in the window and with the battery outside it

Offset == 0..LastOffset
Night == DOMAIN Tracks
Row == [out: Int, in: Int, elec: Nat, heat: Int, flow: Nat, dt: Int]
Window == [from: Offset, to: Offset]
DhwMode == [name: Mode, duration: Nat, elec: Nat]

ASSUME OvernightAssumption ==
    /\ LastOffset \in Nat /\ Len(Tracks) \in Nat /\ Night = 1..Len(Tracks)
    /\ \A n \in Night : \A track \in Tracks[n] :
        /\ track.winter \in BOOLEAN /\ track.before \in Memory
        /\ DOMAIN track.rows \subseteq Offset
        /\ \A o \in DOMAIN track.rows : track.rows[o] \in Row
    /\ Tariffs \subseteq Window /\ Fallback \in Window
    /\ OffTimes \in Seq(Offset) /\ DhwModes \in Seq(DhwMode)
    /\ \A i, j \in DOMAIN DhwModes : DhwModes[i].name = DhwModes[j].name => i = j
    /\ TARGET_HOUR \in Offset /\ PreferredDhw \in Offset
    /\ LowestRate \in Nat /\ BlendedRate \in Nat
    /\ MIN_NIGHT_SAMPLES \in Nat \ {0} /\ MinBin \in Nat \ {0} /\ BinEdges \in Seq(Int)
    /\ KMin \in Nat /\ KMax \in Nat /\ KDefault \in KMin..KMax
    /\ Htc \in Nat \ {0}

VARIABLES
    log,    \* the record: one track and tariff per night
    stage,  \* what the run does next
    nights, \* extracted: index in log and minutes, by date
    model   \* cooling.k, recovery_bins, maint_bins

vars == <<choiceVars, log, stage, nights, model>>

-----------------------------------------------------------------------------
(* The tariff book: rates by night and offset.                             *)

is_lowest_rate(n, o) == LET w == log[n].tariff IN w.from <= o /\ o < w.to
effective_rate(n, o) == IF is_lowest_rate(n, o) THEN LowestRate ELSE BlendedRate

-----------------------------------------------------------------------------
(* The states enrich gives the rows, and extract_nights. The day before is *)
(* in what the machine remembers when the night begins.                    *)

States(track, before) == ClassifyStates(track.rows, before, LastOffset)

TargetReading(rows) ==
    {o \in DOMAIN rows : TARGET_HOUR - Around <= o /\ o <= TARGET_HOUR + Around}

Extracted(n) ==
    LET track == log[n].track
        start == track.rows[Min(DOMAIN track.rows)].in
        near == TargetReading(track.rows)
    IN  [of |-> n, rows |-> track.rows, states |-> States(track, track.before),
         indoor_t_start |-> start,
         indoor_t_target |-> IF near = {} THEN start ELSE track.rows[Min(near)].in]

\* Enough samples, and indoors warmer than the average outdoors by MIN_DELTA_T.
Valid(night) ==
    LET count == Cardinality(DOMAIN night.rows)
        outside == Summed([o \in DOMAIN night.rows |-> night.rows[o].out], LastOffset)
    IN  night.indoor_t_start * count - outside >= MIN_DELTA_T * count

\* By date.
Nights ==
    LET kept == {n \in DOMAIN log :
                    /\ log[n].track.winter
                    /\ Cardinality(DOMAIN log[n].track.rows) >= MIN_NIGHT_SAMPLES
                    /\ Valid(Extracted(n))}
        Nth(i) == CHOOSE n \in kept : Cardinality({m \in kept : m < n}) = i - 1
    IN  [i \in 1..Cardinality(kept) |-> Extracted(Nth(i))]

-----------------------------------------------------------------------------
(* Calibration.                                                            *)

\* A sum over samples of every night.
Over(Samples(_), Value(_, _)) ==
    Summed([n \in DOMAIN nights |->
        Summed([o \in Samples(nights[n]) |-> Value(nights[n].rows, o)], LastOffset)], Len(nights))

\* The sample at o and those of a night that are no more than n samples from it.
Within(night, o, n) ==
    {p \in DOMAIN night.rows : Cardinality({q \in DOMAIN night.rows :
                                   (o < q /\ q <= p) \/ (p <= q /\ q < o)}) <= n}

Dt2(rows, o) == rows[o].in + rows[o + 1].in - rows[o].out - rows[o + 1].out

\* Pairs of consecutive minutes in which the house cools, by the first of them.
CoolingPairs(night) ==
    LET Is(o, state) == night.states[o] = state
        LongIdle(o) == \A p \in Within(night, o, 2) : Is(p, "idle")
    IN  {o \in DOMAIN night.rows :
            /\ o + 1 \in DOMAIN night.rows
            /\ \/ Is(o, "dhw") /\ Is(o + 1, "dhw")
               \/ Is(o, "idle") /\ Is(o + 1, "idle") /\ LongIdle(o)
            /\ Dt2(night.rows, o) >= 20 \/ Dt2(night.rows, o) <= -20
            /\ night.rows[o + 1].in <= night.rows[o].in}

\* Mutant: not clamped.
CoolingUnbounded ==
    LET xx == Over(CoolingPairs, LAMBDA rows, o : Dt2(rows, o) * Dt2(rows, o))
        xy == Over(CoolingPairs, LAMBDA rows, o : (rows[o].in - rows[o + 1].in) * Dt2(rows, o))
    IN  IF xx = 0 THEN KDefault ELSE (2000 * xy) \div xx

calibrate_cooling ==
    LET xx == Over(CoolingPairs, LAMBDA rows, o : Dt2(rows, o) * Dt2(rows, o))
        xy == Over(CoolingPairs, LAMBDA rows, o : (rows[o].in - rows[o + 1].in) * Dt2(rows, o))
    IN  IF xx = 0 THEN KDefault ELSE Max({KMin, Min({KMax, (2000 * xy) \div xx})})

Recovery(night, o) ==
    night.rows[Max(Within(night, o, Span))].in - night.rows[Min(Within(night, o, Span))].in > Trend

\* Heating minutes of a mode, outdoors in [lo, hi).
HeatingSamples(night, recovery, lo, hi) ==
    {o \in DOMAIN night.rows :
        LET row == night.rows[o]
        IN  /\ night.states[o] = "heating" /\ lo <= row.out /\ row.out < hi
            /\ row.heat > 0 /\ row.elec > 50 /\ Cardinality(DOMAIN night.rows) > 1
            /\ Recovery(night, o) = recovery}

\* The bins that have samples enough, by their lower edge.
calibrate_heating(recovery) ==
    LET Samples(e, night) == HeatingSamples(night, recovery, BinEdges[e], BinEdges[e + 1])
        Count(e) == Over(LAMBDA night : Samples(e, night), LAMBDA rows, o : 1)
    IN  [e \in {e \in 1..Len(BinEdges) - 1 : Count(e) >= MinBin} |->
            [low |-> BinEdges[e], high |-> BinEdges[e + 1],
             heat |-> Over(LAMBDA night : Samples(e, night), LAMBDA rows, o : rows[o].heat)
                          \div Count(e),
             elec |-> Over(LAMBDA night : Samples(e, night), LAMBDA rows, o : rows[o].elec)
                          \div Count(e)]]

\* The bin of a temperature, the first or last beyond them, a guess between bins.
lookup_heating(bins, out) ==
    LET in == {e \in DOMAIN bins : bins[e].low <= out /\ out < bins[e].high}
        some == DOMAIN bins # {}
    IN  CASE in # {} -> bins[Min(in)]
          [] in = {} /\ some /\ out < bins[Min(DOMAIN bins)].low -> bins[Min(DOMAIN bins)]
          [] in = {} /\ some /\ out >= bins[Max(DOMAIN bins)].high -> bins[Max(DOMAIN bins)]
          [] OTHER -> [heat |-> 3500, elec |-> 700]

-----------------------------------------------------------------------------
(* generate_schedules.                                                     *)

\* Mutant: the preferred start as it is.
PreferredAnywhere(cosy, duration) == PreferredDhw

Preferred(cosy, duration) == Max({cosy.from, Min({cosy.to - duration, PreferredDhw})})

Continuous(cosy, mode) ==
    IF cosy.to - cosy.from < mode.duration THEN <<>>
    ELSE <<[shape |-> "continuous", mode |-> mode.name, off_at |-> -1,
            dhw_start |-> Preferred(cosy, mode.duration), heat_on |-> 0]>>

OffSchedules(cosy, off, mode) ==
    IF cosy.from + mode.duration > cosy.to THEN <<>>
    ELSE <<[shape |-> "dhw_first", mode |-> mode.name, off_at |-> off,
            dhw_start |-> cosy.from, heat_on |-> cosy.from + mode.duration],
           [shape |-> "heat_first", mode |-> mode.name, off_at |-> off,
            dhw_start |-> cosy.to - mode.duration, heat_on |-> cosy.from]>>

generate_schedules(cosy) ==
    LET Modes(List(_)) == FlattenSeq([m \in DOMAIN DhwModes |-> List(DhwModes[m])])
    IN  Modes(LAMBDA mode : Continuous(cosy, mode))
        \o FlattenSeq([o \in DOMAIN OffTimes |->
                Modes(LAMBDA mode : OffSchedules(cosy, OffTimes[o], mode))])

-----------------------------------------------------------------------------
(* One night under one schedule.                                           *)

ModeOf(schedule) == CHOOSE mode \in ToSet(DhwModes) : mode.name = schedule.mode

\* Outdoors at an offset, between the readings around it where there is none.
lookup_outside(rows, o) ==
    LET a == Max({p \in DOMAIN rows : p <= o})
        b == Min({p \in DOMAIN rows : p > o})
    IN  IF a = o THEN rows[o].out
        ELSE rows[a].out + ((rows[b].out - rows[a].out) * (o - a)) \div (b - a)

InDhw(schedule, o) ==
    schedule.dhw_start <= o /\ o < schedule.dhw_start + ModeOf(schedule).duration

\* Off from off_at until heat_on; never off where heat_on comes first.
HeatingOn(schedule, o) ==
    /\ ~InDhw(schedule, o)
    /\ \/ schedule.off_at < 0 \/ schedule.heat_on <= schedule.off_at
       \/ o < schedule.off_at \/ o >= schedule.heat_on

Power(schedule, o, out) ==
    IF InDhw(schedule, o) THEN ModeOf(schedule).elec
    ELSE IF HeatingOn(schedule, o)
    THEN lookup_heating(IF schedule.off_at < 0 THEN model.maint ELSE model.recovery, out).elec
    ELSE 0

\* Indoors a minute later.
Indoors(schedule, o, out, t) ==
    IF HeatingOn(schedule, o)
    THEN LET heat == lookup_heating(IF schedule.off_at < 0 THEN model.maint
                                    ELSE model.recovery, out).heat
             net == 10 * heat - Htc * (t - out)
         IN  t + (net * model.k) \div (1000 * Htc)
    ELSE t - (model.k * (t - out)) \div 1000

\* What the power of some minutes of a night comes to.
Bill(night, power) ==
    LET lowest == {o \in DOMAIN power : is_lowest_rate(night.of, o)}
    IN  [cost |-> Summed([o \in DOMAIN power |-> power[o] * effective_rate(night.of, o)],
                         LastOffset),
         cosy |-> Summed([o \in lowest |-> power[o]], LastOffset),
         total |-> Summed(power, LastOffset)]

Minutes(night) == Min(DOMAIN night.rows)..Max(DOMAIN night.rows)

simulate_schedule(schedule, night) ==
    LET Out(o) == lookup_outside(night.rows, o)
        indoors[o \in Minutes(night)] ==
            Indoors(schedule, o, Out(o), IF o - 1 \in Minutes(night) THEN indoors[o - 1]
                                         ELSE night.indoor_t_start)
        bill == Bill(night, [o \in Minutes(night) |-> Power(schedule, o, Out(o))])
    IN  [cost |-> bill.cost, cosy |-> bill.cosy, total |-> bill.total,
         t07 |-> IF TARGET_HOUR \in Minutes(night) THEN indoors[TARGET_HOUR]
                 ELSE night.indoor_t_start]

\* As it was measured: a missing minute costs nothing.
actual_cost(night) ==
    LET bill == Bill(night, [o \in DOMAIN night.rows |-> night.rows[o].elec])
    IN  [cost |-> bill.cost, cosy |-> bill.cosy, total |-> bill.total,
         t07 |-> night.indoor_t_target]

Backtest(night) ==
    [actual |-> actual_cost(night),
     sims |-> [i \in DOMAIN schedules |-> simulate_schedule(schedules[i], night)]]

-----------------------------------------------------------------------------
NoModel == [k |-> 0, recovery |-> <<>>, maint |-> <<>>]

Init ==
    /\ ChoiceInit
    /\ log = <<>> /\ stage = "idle" /\ nights = <<>> /\ model = NoModel

\* Another night goes by.
Record ==
    /\ stage = "idle" /\ Len(log) < Len(Tracks)
    /\ \E track \in Tracks[Len(log) + 1], tariff \in Tariffs :
            log' = Append(log, [track |-> track, tariff |-> tariff])
    /\ UNCHANGED <<choiceVars, stage, nights, model>>

\* The command starts and takes the nights from the record; without any it is done.
Start ==
    /\ stage = "idle" /\ log # <<>>
    /\ ChoiceBegin
    /\ nights' = Nights
    /\ stage' = IF nights' = <<>> THEN "idle" ELSE "extracted"
    /\ model' = NoModel
    /\ UNCHANGED log

\* The tariffs of the account cannot be loaded, or have no rate for some instant.
TariffFails ==
    /\ \/ stage = "extracted"
       \/ stage = "backtest" /\ Len(results) < Len(nights)
    /\ ChoiceFail
    /\ stage' = "idle"
    /\ UNCHANGED <<log, nights, model>>

Calibrate ==
    /\ stage = "extracted"
    /\ model' = [k |-> calibrate_cooling, recovery |-> calibrate_heating(TRUE),
                 maint |-> calibrate_heating(FALSE)]
    /\ stage' = "calibrated"
    /\ UNCHANGED <<choiceVars, log, nights>>

\* The morning window of the first night serves all, or the fallback.
Generate ==
    /\ stage = "calibrated"
    /\ \E cosy \in {log[nights[1].of].tariff, Fallback} :
            ChoiceSchedules(generate_schedules(cosy))
    /\ stage' = "backtest"
    /\ UNCHANGED <<log, nights, model>>

BacktestNight ==
    /\ stage = "backtest" /\ Len(results) < Len(nights)
    /\ results' = Append(results, Backtest(nights[Len(results) + 1]))
    /\ UNCHANGED <<schedules, tallied, adaptive, actual, strat_accum, optimal, picks,
                   breakdown, outcome, log, stage, nights, model>>

\* Mutant: the last night for every one.
TallyLast ==
    /\ stage = "backtest" /\ Len(results) = Len(nights) /\ tallied < Len(nights)
    /\ TallyNight(Last(results))
    /\ stage' = IF outcome' = "panicked" THEN "idle" ELSE stage
    /\ UNCHANGED <<log, nights, model>>

TallyNext ==
    /\ stage = "backtest" /\ Len(results) = Len(nights)
    /\ ChoiceTally
    /\ stage' = IF outcome' = "panicked" THEN "idle" ELSE stage
    /\ UNCHANGED <<log, nights, model>>

Report ==
    /\ stage = "backtest" /\ Len(results) = Len(nights)
    /\ ChoiceReport
    /\ stage' = "idle"
    /\ UNCHANGED <<log, nights, model>>

Next ==
    \/ Record \/ Start \/ TariffFails \/ Calibrate \/ Generate \/ BacktestNight
    \/ TallyNext \/ Report

Spec == Init /\ [][Next]_vars

-----------------------------------------------------------------------------
TypeOK ==
    /\ Len(log) <= Len(Tracks)
    /\ stage \in {"idle", "extracted", "calibrated", "backtest"}
    /\ outcome \in {"none", "running", "printed", "panicked", "failed"}
    /\ stage # "idle" => outcome = "running" /\ nights # <<>>
    /\ model.k \in {0} \union KMin..KMax
    /\ results \in Seq(NightResult) /\ Len(results) <= Len(nights)
    /\ \A i \in DOMAIN schedules : schedules[i].shape \in Shape /\ schedules[i].mode \in Mode
    /\ breakdown \in [Counted -> 0..Len(nights)] /\ tallied \in 0..Len(results)

(* On a night whose lowest rate covers the window the schedules were made  *)
(* for, each strategy heats its hot water at that rate alone, and heats    *)
(* the house in none of those minutes.                                     *)
DhwAtLowestRate ==
    \A i \in DOMAIN results, s \in DOMAIN schedules :
        LET night == nights[i]
            tariff == log[night.of].tariff
            from == schedules[s].dhw_start
            mode == ModeOf(schedules[s])
            covered == Cardinality((from..from + mode.duration - 1) \intersect Minutes(night))
        IN  /\ schedules = generate_schedules(tariff) =>
                    results[i].sims[s].cosy >= covered * mode.elec
            /\ \A o \in from..from + mode.duration - 1 : ~HeatingOn(schedules[s], o)

(* What a minute is called, and with it what the calibrations make of it,  *)
(* does not depend on how far back the loaded frame goes, once the frame   *)
(* holds a row that is idle or runs with the valve clearly on one side:    *)
(* whatever the machine remembered before, all later states agree.         *)
FrameStartForgotten ==
    stage = "idle" /\ log # <<>> =>
        LET track == Last(log).track
            rows == track.rows
            known == States(track, track.before)
        IN  \A before \in Memory :
                LET states == States(track, before)
                IN  \A o \in DOMAIN rows : Decisive(rows[o]) =>
                        \A p \in DOMAIN rows : p >= o => states[p] = known[p]
=============================================================================
