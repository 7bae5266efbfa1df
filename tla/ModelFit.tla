------------------------------ MODULE ModelFit ------------------------------
(* What the thermal commands compute from the telemetry: the grid search of *)
(* src/thermal/calibration.rs, the holdout windows of validation.rs, the    *)
(* cooldown records of diagnostics.rs and the segments of operational.rs.   *)
(*                                                                          *)
(* A series is a sequence of readings [at, is] in time order; at counts     *)
(* half hours. Rates of cooling are in mK/h, ACH and discharge coefficients *)
(* in per cent, shares in per mille. A window is [from, to], both included. *)
EXTENDS HousePhysics

(* The function f: TLC tabulates a function it compares, and so computes    *)
(* each of its values once.                                                 *)
Tabled(f) == CHOOSE g \in {f} : g = f

Within(series, w) == SelectSeq(series, LAMBDA p : w.from <= p.at /\ p.at <= w.to)

Mean(f) == SumOver(f) \div Cardinality(DOMAIN f)
Values(series) == [i \in DOMAIN series |-> series[i].is]

MeanWithin(series, w, default) ==
    LET seen == Within(series, w)
    IN  IF seen = <<>> THEN default ELSE Mean(Values(seen))

RoomMeans(rooms, w) ==
    LET seen == {n \in DOMAIN rooms : Within(rooms[n], w) # <<>>}
    IN  Tabled([n \in seen |-> Mean(Values(Within(rooms[n], w)))])

(* How fast a room cooled from its first reading to its last.               *)
Lasting(series, halfHours) ==
    Len(series) >= 2 /\ Last(series).at - Head(series).at >= halfHours
Fall(series) == ((Head(series).is - Last(series).is) * 100) \div (Last(series).at - Head(series).at)

(* None stands for the error NoOutsideData.                                 *)
MeasuredRates(tele, w) ==
    LET cooled == {n \in DOMAIN tele.rooms : Lasting(Within(tele.rooms[n], w), 1)}
    IN  IF Within(tele.outside, w) = <<>>
        THEN None
        ELSE Some([rates   |-> Tabled([n \in cooled |-> Fall(Within(tele.rooms[n], w))]),
                   means   |-> Tabled([n \in cooled |-> Mean(Values(Within(tele.rooms[n], w)))]),
                   outside |-> MeanWithin(tele.outside, w, 0)])

WindMultiplier(wind, speeds, w) ==
    LET mult == 100 + wind.perMs * MeanWithin(speeds, w, 0)
    IN  IF ~wind.enabled \/ Within(speeds, w) = <<>>
        THEN 100
        ELSE Min({Max({mult, 10}), wind.max})

(* Room n's predicted rate, from its balance at the mean temperatures.      *)
PredictedRate(house, n, t, means, at) ==
    (-RoomEnergyBalance(house, n, t, means, at) * 18) \div ThermalMass(house, n)

PredictRates(house, means, at) ==
    Tabled([n \in DOMAIN means |-> PredictedRate(house, n, means[n], means, at)])

WithDoors(house, closed) ==
    IF closed THEN [house EXCEPT !.doors = AllDoorsClosedExceptChimney(@)] ELSE house

(* The whole part of a square root, for the errors that can occur here: its *)
(* hundreds first, then the rest.                                           *)
Root(x) ==
    LET hundreds == Cardinality({h \in 1..462 : 10000 * h * h <= x})
        upTo(n) == 100 * hundreds + n
    IN  upTo(Cardinality({n \in 1..99 : upTo(n) * upTo(n) <= x}))

RootMeanSquare(f) == Root(Mean([x \in DOMAIN f |-> f[x] * f[x]]))

\* Mutant: rooms that are to be left out are scored.
ResidualsOfAll(measured, predicted, exclude) ==
    Tabled([n \in DOMAIN measured \cap DOMAIN predicted |-> predicted[n] - measured[n]])

Residuals(measured, predicted, exclude) ==
    Tabled([n \in (DOMAIN measured \cap DOMAIN predicted) \ exclude |-> predicted[n] - measured[n]])

NothingScored == 999000

Rmse(measured, predicted, exclude) ==
    LET errors == Residuals(measured, predicted, exclude)
    IN  IF DOMAIN errors = {} THEN NothingScored ELSE RootMeanSquare(errors)

-----------------------------------------------------------------------------
(* calibrate                                                                *)

FRange(b) == {b.min + i * b.step : i \in 0..((b.max - b.min) \div b.step)}

Calibrated == {"leather", "landing", "conservatory", "office"}

SetCalibrationParams(house, p) ==
    [house EXCEPT !.rooms =
        [n \in DOMAIN house.rooms |->
            IF n \in Calibrated THEN [house.rooms[n] EXCEPT !.ach = p[n]] ELSE house.rooms[n]]]

(* The score is compared as it is, in 1/14400 mK/h.                         *)
Unit == 14400

Square(x) == x * x

PriorPenalty(cfg, p) ==
    cfg.priorWeight * (16 * Square(p.landing - cfg.priors.landing)
                       + 225 * Square(p.cd - cfg.priors.cd))

(* Night 1 with the doors as they stand, night 2 with all but the chimney   *)
(* closed.                                                                  *)
NightFit(house, p, cfg, night, measured, mult) ==
    PredictRates(WithDoors(SetCalibrationParams(house, p), night = 2), measured[night].means,
                 Cooldown(measured[night].outside, p.cd, mult[night]))

Candidate(p, rmse, penalty) ==
    [params |-> p, night1 |-> rmse[1], night2 |-> rmse[2],
     score |-> (Unit \div 2) * (rmse[1] + rmse[2]) + penalty]

Final(candidate) == candidate.score \div Unit

Score(house, p, cfg, measured, mult) ==
    Candidate(p, Tabled([night \in 1..2 |->
                     Rmse(measured[night].rates, NightFit(house, p, cfg, night, measured, mult),
                          cfg.exclude)]),
              PriorPenalty(cfg, p))

Grid(b) ==
    [leather : FRange(b.leather), landing : FRange(b.landing),
     conservatory : FRange(b.conservatory), office : FRange(b.office), cd : FRange(b.cd)]

(* A candidate replaces the best so far only when its score is lower, so of *)
(* equal scores the first in the order of the nested loops stays.           *)
Tried(s) ==
    LET p == s.params IN <<s.score, p.leather, p.landing, p.conservatory, p.office, p.cd>>
Preferred(s, t) ==
    \E i \in 1..6 : /\ Tried(s)[i] < Tried(t)[i]
                    /\ \A j \in 1..(i - 1) : Tried(s)[j] = Tried(t)[j]

Best(scored) == {s \in scored : \A t \in scored \ {s} : Preferred(s, t)}

RunGridSearch(house, cfg, measured, mult) ==
    Best({Score(house, p, cfg, measured, mult) : p \in Grid(cfg.bounds)})

(* None when a night has no outside temperature or a bound admits no value. *)
CalibrateModel(house, cfg, tele) ==
    LET night(i) == MeasuredRates(tele, cfg.nights[i])
        mult == [i \in 1..2 |-> WindMultiplier(cfg.wind, tele.wind, cfg.nights[i])]
    IN  IF night(1) = None \/ night(2) = None
        THEN None
        ELSE RunGridSearch(house, cfg, <<TheOne(night(1)), TheOne(night(2))>>, mult)

-----------------------------------------------------------------------------
(* validate                                                                 *)

Share(f, limit) ==
    (1000 * Cardinality({x \in DOMAIN f : AbsOf(f[x]) <= limit})) \div Cardinality(DOMAIN f)

ComputeMetrics(f) ==
    IF DOMAIN f = {}
    THEN [rmse |-> NothingScored, bias |-> 0, within |-> 0]
    ELSE [rmse |-> RootMeanSquare(f), bias |-> Mean(f), within |-> Share(f, 1000)]

MeetsThresholds(m, limits) ==
    m.rmse <= limits.rmse /\ AbsOf(m.bias) <= limits.bias /\ m.within >= limits.within

WindowResiduals(house, cfg, tele, cd, w) ==
    LET m == TheOne(MeasuredRates(tele, w))
        at == Cooldown(m.outside, cd, WindMultiplier(cfg.wind, tele.wind, w))
    IN  Residuals(m.rates, PredictRates(WithDoors(house, w.closed), m.means, at), cfg.exclude)

(* The aggregate is over the residuals of every window together.            *)
Validation(house, cfg, tele, fitted) ==
    LET calibrated == SetCalibrationParams(house, fitted.params)
        residuals == [i \in DOMAIN cfg.windows |->
                          WindowResiduals(calibrated, cfg, tele, fitted.params.cd, cfg.windows[i])]
        all == UNION {{<<i, n>> : n \in DOMAIN residuals[i]} : i \in DOMAIN residuals}
        m == ComputeMetrics([x \in all |-> residuals[x[1]][x[2]]])
    IN  IF cfg.windows = <<>> \/ \E i \in DOMAIN cfg.windows : MeasuredRates(tele, cfg.windows[i]) = None
        THEN None
        ELSE Some([metrics |-> m, pass |-> MeetsThresholds(m, cfg.thresholds)])

-----------------------------------------------------------------------------
(* fit-diagnostics and operational                                          *)

(* Maximal runs of rows of one class, each with the time it ends: that of   *)
(* the row after it, or of the last row of all.                             *)
Runs(rows, class) ==
    LET starts == {i \in DOMAIN rows : i = 1 \/ class[i - 1] # class[i]}
        after(i) == {k \in starts : k > i}
    IN  {[of   |-> rows[i].is,
          from |-> rows[i].at,
          to   |-> rows[IF after(i) = {} THEN Len(rows) ELSE Min(after(i))].at] : i \in starts}

DetectCooldownPeriods(status, off, minPeriod) ==
    LET runs == Runs(status, [i \in DOMAIN status |-> status[i].is \in off])
    IN  {r \in runs : r.of \in off /\ r.to - r.from > minPeriod}

ClassifyFlow(lph) ==
    CASE lph > 900 -> "dhw" [] 780 <= lph /\ lph <= 900 -> "heating" [] OTHER -> "off"

(* Five minutes are less than the half hour between two rows.               *)
SegmentByFlow(flow) ==
    {r \in Runs(flow, [i \in DOMAIN flow |-> ClassifyFlow(flow[i].is)]) : r.to > r.from}

(* One record per stretch and room with readings enough in it; at gives     *)
(* each stretch its conditions.                                             *)
Records(house, tele, at, minRecord) ==
    LET cooled(w) == {n \in (DOMAIN tele.rooms) \cap DOMAIN house.rooms :
                          Lasting(Within(tele.rooms[n], w), minRecord)}
        recorded(w, means) ==
            {[room |-> n, stretch |-> w, meas |-> Fall(Within(tele.rooms[n], w)),
              pred |-> PredictedRate(house, n, means[n], means, at[w])] : n \in cooled(w)}
    IN  UNION {recorded(w, RoomMeans(tele.rooms, w)) : w \in DOMAIN at}

MildOutside == Degrees(8)

(* The k-th smallest of a bag of ratios.                                    *)
Kth(f, k) ==
    CHOOSE v \in {f[x] : x \in DOMAIN f} :
        /\ Cardinality({x \in DOMAIN f : f[x] < v}) < k
        /\ Cardinality({x \in DOMAIN f : f[x] <= v}) >= k

Median(f) ==
    LET n == Cardinality(DOMAIN f)
    IN  IF n = 0 THEN None ELSE Some((Kth(f, (n + 1) \div 2) + Kth(f, n \div 2 + 1)) \div 2)

(* An empty summary has NaN for its errors, which the artifact keeps as     *)
(* null: None.                                                              *)
Summary(records) ==
    LET err == Tabled([r \in records |-> r.pred - r.meas])
        when(value) == IF records = {} THEN None ELSE Some(value)
    IN  [n    |-> Cardinality(records),
         rmse |-> when(RootMeanSquare(err)),
         mae  |-> when(Mean([r \in records |-> AbsOf(err[r])])),
         bias |-> when(Mean(err))]

(* Predicted over measured, in per cent, of the rooms that cooled at all.   *)
MedianRatio(records, minRatio) ==
    Median(Tabled([r \in {s \in records : s.meas > minRatio} |-> (100 * r.pred) \div r.meas]))

(* The range is configured, or runs to the present, after which there is no *)
(* row yet.                                                                 *)
FitRange(cfg, present) ==
    [from |-> IF cfg.fit.from = None THEN cfg.nights[1].from - 48 ELSE TheOne(cfg.fit.from),
     to   |-> IF cfg.fit.to = None THEN present ELSE Min({TheOne(cfg.fit.to), present})]

Fetched(tele, range) ==
    [tele EXCEPT !.rooms = Tabled([n \in DOMAIN @ |-> Within(@[n], range)]),
                 !.outside = Within(@, range), !.status = Within(@, range),
                 !.flow = Within(@, range), !.mwt = Within(@, range), !.pv = Within(@, range)]

FitDiagnostics(house, cfg, tele, fitted, present) ==
    LET rows == Fetched(tele, FitRange(cfg, present))
        calibrated == WithDoors(SetCalibrationParams(house, fitted.params), cfg.fit.closed)
        periods == DetectCooldownPeriods(rows.status, cfg.fit.off, cfg.fit.minPeriod)
        at == [w \in periods |->
                  Cooldown(MeanWithin(rows.outside, w, MildOutside), fitted.params.cd, 100)]
        records == Records(calibrated, rows, at, cfg.fit.minRecord)
        cooling == {r \in records : r.meas >= cfg.fit.minCooling}
    IN  IF periods = {}
        THEN None
        ELSE Some([records |-> Cardinality(records), cooling |-> Summary(cooling),
                   ratio |-> MedianRatio(cooling, cfg.fit.minRatio)])

(* The window's readings, or the one nearest its middle.                    *)
SunWithin(sun, w) ==
    LET mid == (w.from + w.to) \div 2
        nearest == CHOOSE i \in DOMAIN sun :
                       \A j \in DOMAIN sun : AbsOf(sun[i].at - mid) <= AbsOf(sun[j].at - mid)
        mean(Of(_)) == Mean([i \in DOMAIN Within(sun, w) |-> Of(Within(sun, w)[i])])
    IN  CASE sun = <<>> -> Dark
          [] Within(sun, w) # <<>> -> [sw |-> mean(LAMBDA s : s.is.sw), ne |-> mean(LAMBDA s : s.is.ne),
                                       neHorizontal |-> mean(LAMBDA s : s.is.neHorizontal)]
          [] OTHER -> sun[nearest].is

(* What the photovoltaics made, in watts, tells more of the sun on the      *)
(* south-west wall than the weather service does.                           *)
PvToSouthWest(pv) == (Max({-pv, 0}) * 87) \div 1400

SunOf(tele, w) ==
    LET sw == PvToSouthWest(MeanWithin(tele.pv, w, 0))
    IN  [SunWithin(tele.sun, w) EXCEPT !.sw = IF sw > 0 THEN sw ELSE @]

Night(at) == LET hour == (at \div 2) % 24 IN hour < 7 \/ hour >= 22

Operational(house, cfg, tele, fitted, present) ==
    LET rows == Fetched(tele, FitRange(cfg, present))
        calibrated == SetCalibrationParams(house, fitted.params)
        at == [w \in SegmentByFlow(rows.flow) |->
                  [outside  |-> MeanWithin(rows.outside, w, MildOutside),
                   mwt      |-> IF ClassifyFlow(w.of) = "heating" THEN MeanWithin(rows.mwt, w, 0) ELSE 0,
                   cd       |-> fitted.params.cd,
                   wind     |-> 100,
                   sleeping |-> Night(w.from),
                   sun      |-> SunOf(rows, w)]]
        records == Records(calibrated, rows, at, 1)
    IN  IF rows.flow = <<>>
        THEN None
        ELSE Some([records |-> Cardinality(records),
                   all     |-> Summary({r \in records : r.room \notin cfg.exclude})])
=============================================================================
