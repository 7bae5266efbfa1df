---------------------------- MODULE HistoryProofs ----------------------------
(* Proofs about HistoryReview, for any record, windows and scale: what is   *)
(* printed of charges and comfort misses is what was recorded, and a wider  *)
(* window never calls working what a narrower one calls failing.            *)
EXTENDS HistoryReview, TLAPS, FiniteSetTheorems, WellFoundedInduction

-----------------------------------------------------------------------------
(* Extremes.                                                               *)

LEMMA LeastNatural ==
    ASSUME NEW T \in SUBSET Nat, T # {}
    PROVE  \E x \in T : \A y \in T : x <= y
<1> DEFINE R == OpToRel(<, Nat)
<1>1. IsWellFoundedOn(R, Nat) BY NatLessThanWellFounded
<1> HIDE DEF R
<1>2. PICK x \in T : \A y \in T : ~ (<<y, x>> \in R) BY <1>1, WFMin
<1>3. ASSUME NEW y \in T PROVE x <= y
  <2>1. x \in Nat /\ y \in Nat OBVIOUS
  <2>2. y < x => <<y, x>> \in R BY <2>1 DEF R, OpToRel
  <2> QED BY <1>2, <2>1, <2>2
<1> QED BY <1>2, <1>3

LEMMA LeastIs ==
    ASSUME NEW T \in SUBSET Nat, T # {}
    PROVE  Min(T) \in T /\ \A x \in T : Min(T) <= x
<1>1. \E m \in T : \A x \in T : m <= x BY LeastNatural
<1> QED BY <1>1 DEF Min

LEMMA GreatestIs ==
    ASSUME NEW n \in Nat, NEW T \in SUBSET (0..n), T # {}
    PROVE  Max(T) \in T /\ \A x \in T : x <= Max(T)
<1> DEFINE D == {n - x : x \in T}
<1>1. D \in SUBSET Nat /\ D # {}
  <2>1. \A x \in T : n - x \in Nat OBVIOUS
  <2> QED BY <2>1
<1>2. PICK d \in D : \A e \in D : d <= e BY <1>1, LeastNatural
<1>3. PICK m \in T : d = n - m BY <1>2
<1>4. \A x \in T : m >= x
  <2> TAKE x \in T
  <2>1. n - x \in D /\ d <= n - x BY <1>2
  <2>2. x \in Int /\ m \in Int OBVIOUS
  <2> HIDE DEF D
  <2> QED BY <1>3, <2>1, <2>2
<1>5. \E k \in T : \A x \in T : k >= x BY <1>4
<1>6. Max(T) \in T /\ \A x \in T : Max(T) >= x BY <1>5 DEF Max
<1> QED BY <1>6

LEMMA PairIs ==
    ASSUME NEW x \in Int, NEW y \in Int
    PROVE  /\ Max({x, y}) = IF x >= y THEN x ELSE y
           /\ Min({x, y}) = IF x <= y THEN x ELSE y
<1>1. Max({x, y}) = IF x >= y THEN x ELSE y
  <2> DEFINE m == IF x >= y THEN x ELSE y
  <2>1. m \in {x, y} /\ \A z \in {x, y} : m >= z OBVIOUS
  <2>2. Max({x, y}) \in {x, y} /\ \A z \in {x, y} : Max({x, y}) >= z BY <2>1 DEF Max
  <2> QED BY <2>2
<1>2. Min({x, y}) = IF x <= y THEN x ELSE y
  <2> DEFINE m == IF x <= y THEN x ELSE y
  <2>1. m \in {x, y} /\ \A z \in {x, y} : m <= z OBVIOUS
  <2>2. Min({x, y}) \in {x, y} /\ \A z \in {x, y} : Min({x, y}) <= z BY <2>1 DEF Min
  <2> QED BY <2>2
<1> QED BY <1>1, <1>2

-----------------------------------------------------------------------------
(* A series that is active at some of its times.                           *)

LEMMA ScaleTyped ==
    /\ Horizon \in Nat /\ Bucket \in Nat /\ MinCharge \in Nat /\ Day \in Nat
    /\ FlowLookback \in Nat /\ LeatherLookback \in Nat
    /\ WakingStart \in Nat /\ WakingEnd \in Nat
    /\ Horizon > 0 /\ Bucket > 0 /\ MinCharge > 0 /\ Day > 0
    /\ Bucket < MinCharge /\ WakingStart < WakingEnd /\ WakingEnd <= Day
BY ScaleAssumption

SeriesOK(active) ==
    DOMAIN active \in SUBSET (0..Horizon) /\ active \in [DOMAIN active -> BOOLEAN]

\* What the series says of an instant: the latest row, or the baseline.
On(baseline, active, x) ==
    \/ \E u \in DOMAIN active : u <= x /\ active[u]
                                /\ \A v \in DOMAIN active : v <= x => v <= u
    \/ baseline /\ \A u \in DOMAIN active : u > x

LEMMA EndIs ==
    ASSUME NEW active, SeriesOK(active), NEW t \in Int, NEW closes \in Int
    PROVE  /\ EndAfter(closes, active, t) \in Int
           /\ \/ /\ EndAfter(closes, active, t) = closes
                 /\ \A u \in DOMAIN active : u > t => active[u]
              \/ /\ EndAfter(closes, active, t) \in DOMAIN active
                 /\ EndAfter(closes, active, t) > t /\ ~active[EndAfter(closes, active, t)]
                 /\ \A u \in DOMAIN active :
                        u > t /\ ~active[u] => EndAfter(closes, active, t) <= u
<1> DEFINE off == {u \in DOMAIN active : u > t /\ ~active[u]}
<1>1. off \in SUBSET Nat /\ \A u \in DOMAIN active : u \in Int BY DEF SeriesOK
<1>2. CASE off = {}
  <2>1. EndAfter(closes, active, t) = closes BY <1>2 DEF EndAfter
  <2> QED BY <1>2, <2>1
<1>3. CASE off # {}
  <2>1. EndAfter(closes, active, t) = Min(off) BY <1>3 DEF EndAfter
  <2>2. Min(off) \in off /\ \A x \in off : Min(off) <= x BY <1>1, <1>3, LeastIs
  <2> QED BY <1>1, <2>1, <2>2
<1> QED BY <1>2, <1>3

LEMMA WasIs ==
    ASSUME NEW active, SeriesOK(active), NEW t \in Int, NEW baseline \in BOOLEAN
    PROVE  \/ /\ WasActive(baseline, active, t) = baseline
              /\ \A u \in DOMAIN active : u >= t
           \/ \E u \in DOMAIN active :
                 /\ u < t /\ WasActive(baseline, active, t) = active[u]
                 /\ \A v \in DOMAIN active : v < t => v <= u
<1> DEFINE earlier == {u \in DOMAIN active : u < t}
<1>1. earlier \in SUBSET (0..Horizon) /\ \A u \in DOMAIN active : u \in Int BY DEF SeriesOK
<1>2. CASE earlier = {}
  <2>1. WasActive(baseline, active, t) = baseline BY <1>2 DEF WasActive
  <2> QED BY <1>1, <1>2, <2>1
<1>3. CASE earlier # {}
  <2>1. WasActive(baseline, active, t) = active[Max(earlier)] BY <1>3 DEF WasActive
  <2>2. Max(earlier) \in earlier /\ \A x \in earlier : x <= Max(earlier)
    BY <1>1, <1>3, GreatestIs, ScaleTyped
  <2> QED BY <1>1, <2>1, <2>2
<1> QED BY <1>2, <1>3

\* A period starts where the window opens, or at a row that turns the series on.
TurnsOn(baseline, active, t) ==
    t \in DOMAIN active /\ active[t] /\ ~WasActive(baseline, active, t)

LEMMA PeriodIs ==
    ASSUME NEW opens, NEW closes, NEW baseline, NEW min, NEW active, NEW p
    PROVE  p \in PeriodsFromActive(opens, closes, baseline, min, active) <=>
               /\ Duration(p) >= min
               /\ \/ baseline /\ p = Period(opens, EndAfter(closes, active, -1))
                  \/ \E t : /\ TurnsOn(baseline, active, t)
                            /\ p = Period(t, EndAfter(closes, active, t))
<1> DEFINE starts == {t \in DOMAIN active : active[t] /\ ~WasActive(baseline, active, t)}
           open == IF baseline THEN {Period(opens, EndAfter(closes, active, -1))} ELSE {}
           found == open \union {Period(t, EndAfter(closes, active, t)) : t \in starts}
<1>1. PeriodsFromActive(opens, closes, baseline, min, active)
        = {q \in found : Duration(q) >= min}
  BY DEF PeriodsFromActive
<1>2. p \in open <=> baseline /\ p = Period(opens, EndAfter(closes, active, -1)) OBVIOUS
<1>3. \A t : t \in starts <=> TurnsOn(baseline, active, t) BY DEF TurnsOn
<1>4. p \in {Period(t, EndAfter(closes, active, t)) : t \in starts} <=>
        \E t : TurnsOn(baseline, active, t) /\ p = Period(t, EndAfter(closes, active, t))
  BY <1>3
<1> QED BY <1>1, <1>2, <1>4

\* A period under way when the series turns on elsewhere is over by then.
LEMMA EndsBefore ==
    ASSUME NEW closes \in Int, NEW baseline \in BOOLEAN, NEW active, SeriesOK(active),
           NEW t, TurnsOn(baseline, active, t), NEW from \in Int, from < t,
           \/ from \in DOMAIN active /\ active[from]
           \/ from = -1 /\ baseline
    PROVE  EndAfter(closes, active, from) < t
<1>1. \A u \in DOMAIN active : u \in Nat BY DEF SeriesOK
<1>2. t \in DOMAIN active /\ t \in Nat /\ ~WasActive(baseline, active, t) BY <1>1 DEF TurnsOn
<1>3. PICK u \in DOMAIN active : /\ u < t /\ ~active[u]
                                 /\ \A v \in DOMAIN active : v < t => v <= u
  <2>1. CASE WasActive(baseline, active, t) = baseline /\ \A u \in DOMAIN active : u >= t
    <3>1. ~baseline BY <1>2, <2>1
    <3>2. from \in DOMAIN active /\ from >= t BY <2>1, <3>1
    <3> QED BY <1>1, <1>2, <3>2
  <2>2. CASE \E u \in DOMAIN active :
                 /\ u < t /\ WasActive(baseline, active, t) = active[u]
                 /\ \A v \in DOMAIN active : v < t => v <= u
    BY <1>2, <2>2
  <2> QED BY <1>1, <1>2, <2>1, <2>2, WasIs
<1>4. from < u
  <2>1. CASE from \in DOMAIN active /\ active[from]
    <3>1. from <= u /\ from # u BY <1>3, <2>1
    <3> QED BY <1>1, <1>3, <3>1
  <2>2. CASE from = -1 BY <1>1, <1>3, <2>2
  <2> QED BY <2>1, <2>2
<1>5. EndAfter(closes, active, from) \in Int /\ EndAfter(closes, active, from) <= u
  BY <1>1, <1>3, <1>4, EndIs
<1> QED BY <1>1, <1>2, <1>3, <1>5

LEMMA PeriodsAreApart ==
    ASSUME NEW opens \in Int, NEW closes \in Int, NEW baseline \in BOOLEAN, NEW min \in Nat,
           NEW active, SeriesOK(active),
           NEW p \in PeriodsFromActive(opens, closes, baseline, min, active),
           NEW q \in PeriodsFromActive(opens, closes, baseline, min, active), p # q
    PROVE  p.end < q.start \/ q.end < p.start
<1> DEFINE End(t) == EndAfter(closes, active, t)
           Opened(r) == baseline /\ r = Period(opens, End(-1))
           Turned(r, t) == TurnsOn(baseline, active, t) /\ r = Period(t, End(t))
<1>1. /\ Opened(p) \/ \E t : Turned(p, t)
      /\ Opened(q) \/ \E t : Turned(q, t)
  BY PeriodIs
<1>2. ASSUME NEW r, NEW t, Turned(r, t)
      PROVE  /\ t \in DOMAIN active /\ t \in Nat /\ active[t]
             /\ r.start = t /\ r.end = End(t)
  BY <1>2 DEF TurnsOn, SeriesOK, Period
<1>3. ASSUME NEW r, NEW s, NEW t, Opened(r), Turned(s, t)
      PROVE  r.end < s.start
  <2>1. t \in Nat /\ s.start = t BY <1>2, <1>3
  <2>2. r.end = End(-1) BY <1>3 DEF Period
  <2>4. baseline /\ TurnsOn(baseline, active, t) BY <1>3
  <2>5. -1 \in Int /\ -1 < t BY <2>1
  <2>3. End(-1) < t BY <2>4, <2>5, EndsBefore
  <2> QED BY <2>1, <2>2, <2>3
<1>4. CASE Opened(p) /\ Opened(q) BY <1>4
<1>5. CASE \E t : Turned(p, t) /\ \E u : Turned(q, u)
  <2>1. PICK t, u : Turned(p, t) /\ Turned(q, u) BY <1>5
  <2>2. /\ t \in DOMAIN active /\ t \in Nat /\ active[t] /\ p.start = t /\ p.end = End(t)
        /\ u \in DOMAIN active /\ u \in Nat /\ active[u] /\ q.start = u /\ q.end = End(u)
    BY <1>2, <2>1
  <2>3. t # u BY <2>1
  <2>4. CASE t < u
    <3>1. End(t) < u BY <2>1, <2>2, <2>4, EndsBefore
    <3> QED BY <2>2, <3>1
  <2>5. CASE u < t
    <3>1. End(u) < t BY <2>1, <2>2, <2>5, EndsBefore
    <3> QED BY <2>2, <3>1
  <2> QED BY <2>2, <2>3, <2>4, <2>5
<1> QED BY <1>1, <1>3, <1>4, <1>5

\* In a period the series is on.
LEMMA PeriodIsOn ==
    ASSUME NEW opens \in Int, NEW closes \in Int, NEW baseline \in BOOLEAN, NEW min \in Nat,
           NEW active, SeriesOK(active),
           NEW p \in PeriodsFromActive(opens, closes, baseline, min, active),
           NEW x \in Int, p.start <= x, x < p.end
    PROVE  On(baseline, active, x)
<1> DEFINE End(t) == EndAfter(closes, active, t)
<1>0. \A u \in DOMAIN active : u \in Nat BY DEF SeriesOK
<1>1. PICK from \in Int : /\ p.end = End(from)
                          /\ \/ from \in DOMAIN active /\ active[from] /\ p.start = from
                             \/ from = -1 /\ baseline /\ p.start = opens
  <2>1. CASE baseline /\ p = Period(opens, End(-1)) BY <2>1 DEF Period
  <2>2. CASE \E t : TurnsOn(baseline, active, t) /\ p = Period(t, End(t))
    <3>1. PICK t : TurnsOn(baseline, active, t) /\ p = Period(t, End(t)) BY <2>2
    <3> QED BY <1>0, <3>1 DEF TurnsOn, Period
  <2> QED BY <2>1, <2>2, PeriodIs
<1>2. \A u \in DOMAIN active : from < u /\ u <= x => active[u]
  <2> SUFFICES ASSUME NEW u \in DOMAIN active, from < u, u <= x, ~active[u] PROVE FALSE
    OBVIOUS
  <2>1. End(from) \in Int /\ End(from) <= u BY <1>0, EndIs
  <2> QED BY <1>0, <1>1, <2>1
<1> DEFINE upto == {u \in DOMAIN active : u <= x}
<1>3. CASE upto = {}
  <2>1. \A u \in DOMAIN active : u > x BY <1>0, <1>3
  <2>2. baseline BY <1>1, <2>1
  <2> QED BY <2>1, <2>2 DEF On
<1>4. CASE upto # {}
  <2>1. upto \in SUBSET (0..Horizon) BY DEF SeriesOK
  <2>2. Max(upto) \in upto /\ \A v \in upto : v <= Max(upto)
    BY <1>4, <2>1, GreatestIs, ScaleTyped
  <2>3. PICK u \in upto : \A v \in upto : v <= u BY <2>2
  <2>4. u \in DOMAIN active /\ u <= x BY <2>3
  <2>5. active[u]
    <3>1. CASE from \in DOMAIN active /\ active[from] /\ p.start = from
      <4>1. from \in upto BY <3>1
      <4>2. from <= u BY <2>3, <4>1
      <4> QED BY <1>0, <1>2, <2>4, <3>1, <4>2
    <3>2. CASE from = -1 BY <1>0, <1>2, <2>4, <3>2
    <3> QED BY <1>1, <3>1, <3>2
  <2>6. \A v \in DOMAIN active : v <= x => v <= u BY <2>3
  <2> QED BY <2>4, <2>5, <2>6 DEF On
<1> QED BY <1>3, <1>4

\* An instant of the window at which the series is on lies in a stretch that starts by
\* then and goes on to the next inactive row, or to the close: a period, if long enough.
LEMMA OnIsInPeriod ==
    ASSUME NEW opens \in Nat, NEW closes \in Int, NEW baseline \in BOOLEAN, NEW min \in Nat,
           NEW active, SeriesOK(active), NEW x \in Nat, opens <= x, x < closes,
           On(baseline, active, x), NEW e \in Int, e <= closes, x + min <= e,
           \A u \in DOMAIN active : x < u /\ u < e => active[u]
    PROVE  \E p \in PeriodsFromActive(opens, closes, baseline, min, active) :
               p.start <= x /\ p.end >= e /\ x < p.end
<1> DEFINE End(t) == EndAfter(closes, active, t)
<1>0. \A u \in DOMAIN active : u \in Nat BY DEF SeriesOK
<1>1. ASSUME NEW from \in Int, NEW s \in Int, s <= x, from <= x,
             \A u \in DOMAIN active : from < u /\ u <= x => active[u],
             \/ baseline /\ from = -1 /\ s = opens
             \/ TurnsOn(baseline, active, from) /\ s = from
      PROVE  \E p \in PeriodsFromActive(opens, closes, baseline, min, active) :
                 p.start <= x /\ p.end >= e /\ x < p.end
  <2> DEFINE p == Period(s, End(from))
  <2>1. End(from) \in Int /\ End(from) >= e /\ End(from) > x
    <3>1. CASE End(from) = closes BY <3>1
    <3>2. CASE /\ End(from) \in DOMAIN active /\ End(from) > from /\ ~active[End(from)]
      <4>1. End(from) \in Nat /\ ~(End(from) <= x) BY <1>0, <1>1, <3>2
      <4>2. ~(x < End(from) /\ End(from) < e) BY <3>2
      <4> QED BY <4>1, <4>2
    <3> QED BY <1>0, <3>1, <3>2, EndIs
  <2>2. p.start = s /\ p.end = End(from) /\ Duration(p) >= min
    BY <2>1, <1>1 DEF Period, Duration
  <2>3. p \in PeriodsFromActive(opens, closes, baseline, min, active)
    BY <1>1, <2>2, PeriodIs
  <2> QED BY <1>1, <2>1, <2>2, <2>3
<1> DEFINE Offs == {t \in DOMAIN active : t <= x /\ ~active[t]}
<1>2. Offs \in SUBSET (0..Horizon) BY DEF SeriesOK
\* The first row after the last inactive one turns the series on.
<1>3. ASSUME NEW low \in Int, NEW u \in DOMAIN active, low < u, u <= x,
             \A v \in DOMAIN active : low < v /\ v <= x => active[v],
             \/ low \in DOMAIN active /\ ~active[low]
             \/ low = -1 /\ ~baseline
      PROVE  \E from \in Nat : /\ from <= x /\ TurnsOn(baseline, active, from)
                               /\ \A v \in DOMAIN active : from < v /\ v <= x => active[v]
  <2> DEFINE after == {v \in DOMAIN active : low < v /\ v <= x}
  <2>1. after \in SUBSET Nat /\ u \in after BY <1>0, <1>3
  <2>2. PICK m \in after : \A v \in after : m <= v BY <2>1, LeastNatural
  <2>3. m \in DOMAIN active /\ m \in Nat /\ low < m /\ m <= x /\ active[m]
    BY <1>3, <2>1, <2>2
  <2>4. ~WasActive(baseline, active, m)
    <3>1. CASE WasActive(baseline, active, m) = baseline /\ \A v \in DOMAIN active : v >= m
      <4>1. ~(low \in DOMAIN active) BY <2>3, <3>1
      <4> QED BY <1>3, <3>1, <4>1
    <3>2. CASE \E w \in DOMAIN active :
                 /\ w < m /\ WasActive(baseline, active, m) = active[w]
                 /\ \A v \in DOMAIN active : v < m => v <= w
      <4>1. PICK w \in DOMAIN active :
                 /\ w < m /\ WasActive(baseline, active, m) = active[w]
                 /\ \A v \in DOMAIN active : v < m => v <= w
        BY <3>2
      <4>2. w \in Nat /\ w <= x BY <1>0, <2>3, <4>1
      <4>3. w \notin after
        <5>1. ~(m <= w) BY <2>3, <4>1, <4>2
        <5> HIDE DEF after
        <5> QED BY <2>2, <5>1
      <4>4. w <= low BY <4>2, <4>3
      <4>5. low \in DOMAIN active /\ ~active[low] /\ low <= w
        BY <1>3, <2>3, <4>1, <4>2, <4>4
      <4>6. w = low BY <4>2, <4>4, <4>5
      <4> QED BY <4>1, <4>5, <4>6
    <3> QED BY <2>3, <3>1, <3>2, WasIs
  <2>5. TurnsOn(baseline, active, m) BY <2>3, <2>4 DEF TurnsOn
  <2>6. \A v \in DOMAIN active : m < v /\ v <= x => active[v] BY <1>0, <1>3, <2>3
  <2> QED BY <2>3, <2>5, <2>6
<1>4. CASE Offs = {} /\ baseline
  <2>1. \A u \in DOMAIN active : -1 < u /\ u <= x => active[u] BY <1>4
  <2>2. -1 \in Int /\ -1 <= x /\ opens \in Int OBVIOUS
  <2> QED BY <1>1, <1>4, <2>1, <2>2
<1>5. CASE ~(Offs = {} /\ baseline)
  <2>1. PICK low \in Int, u \in DOMAIN active :
            /\ low < u /\ u <= x
            /\ \A v \in DOMAIN active : low < v /\ v <= x => active[v]
            /\ \/ low \in DOMAIN active /\ ~active[low]
               \/ low = -1 /\ ~baseline
    <3>1. CASE Offs = {}
      <4>1. PICK u \in DOMAIN active : u <= x BY <1>5, <3>1 DEF On
      <4>2. -1 \in Int /\ -1 < u BY <1>0
      <4>3. \A v \in DOMAIN active : -1 < v /\ v <= x => active[v] BY <3>1
      <4> QED BY <1>5, <3>1, <4>1, <4>2, <4>3
    <3>2. CASE Offs # {}
      <4>1. Max(Offs) \in Offs /\ \A v \in Offs : v <= Max(Offs)
        BY <1>2, <3>2, GreatestIs, ScaleTyped
      <4>2. PICK low \in Offs : \A v \in Offs : v <= low BY <4>1
      <4>3. low \in DOMAIN active /\ low \in Nat /\ low <= x /\ ~active[low] BY <1>0, <4>2
      <4>4. PICK u \in DOMAIN active : /\ u <= x /\ active[u]
                                       /\ \A v \in DOMAIN active : v <= x => v <= u
        BY <4>3 DEF On
      <4>5. low < u
        <5>1. low <= u /\ low # u BY <4>3, <4>4
        <5> QED BY <1>0, <4>3, <5>1
      <4>6. \A v \in DOMAIN active : low < v /\ v <= x => active[v]
        <5> SUFFICES ASSUME NEW v \in DOMAIN active, low < v, v <= x, ~active[v] PROVE FALSE
          OBVIOUS
        <5>1. v \in Offs OBVIOUS
        <5>2. v <= low BY <4>2, <5>1
        <5> QED BY <1>0, <4>3, <5>2
      <4> QED BY <4>3, <4>4, <4>5, <4>6
    <3> QED BY <3>1, <3>2
  <2>2. PICK from \in Nat : /\ from <= x /\ TurnsOn(baseline, active, from)
                            /\ \A v \in DOMAIN active : from < v /\ v <= x => active[v]
    BY <1>3, <2>1
  <2>3. from \in Int OBVIOUS
  <2> HIDE DEF Offs
  <2> QED BY <1>1, <2>2, <2>3
<1> QED BY <1>4, <1>5

-----------------------------------------------------------------------------
(* The rows of the store, and what is in force at an instant.              *)

StoreOK == store \in [Signals -> [0..(Horizon - 1) -> Nat \union {Missing}]]

LEMMA TimesAre ==
    ASSUME NEW s, NEW from, NEW to
    PROVE  /\ Times(s, from, to) \in SUBSET (0..Horizon)
           /\ \A t : t \in Times(s, from, to) <=>
                /\ t \in 0..(Horizon - 1) /\ from <= t /\ t < to /\ store[s][t] # Missing
BY ScaleTyped DEF Times

\* An instant of a window of the record.
Within(opens, closes, x) ==
    opens \in 0..Horizon /\ closes \in 0..Horizon /\ x \in opens..(closes - 1)

\* The rows that are seen, looking back from an instant of the window.
Seen(opens, s, x, lookback) == {t \in Max({0, opens - lookback})..x : store[s][t] # Missing}

LEMMA SeenAre ==
    ASSUME NEW opens, NEW closes, NEW s, NEW lookback \in Nat, NEW x, Within(opens, closes, x)
    PROVE  /\ Seen(opens, s, x, lookback) \in SUBSET (0..Horizon)
           /\ \A t : t \in Seen(opens, s, x, lookback) <=>
                       /\ t \in 0..(Horizon - 1) /\ opens - lookback <= t /\ t <= x
                       /\ store[s][t] # Missing
           /\ InForce(opens, s, x, lookback)
                = IF Seen(opens, s, x, lookback) = {} THEN Missing
                  ELSE store[s][Max(Seen(opens, s, x, lookback))]
<1> DEFINE back == Max({0, opens - lookback})
<1>0. opens \in 0..Horizon /\ closes \in 0..Horizon /\ x \in opens..(closes - 1)
  BY DEF Within
<1>1. back = (IF 0 >= opens - lookback THEN 0 ELSE opens - lookback)
  BY <1>0, PairIs, ScaleTyped
<1>2. Seen(opens, s, x, lookback) = {t \in back..x : store[s][t] # Missing} BY DEF Seen
<1>3. InForce(opens, s, x, lookback)
        = IF Seen(opens, s, x, lookback) = {} THEN Missing
          ELSE store[s][Max(Seen(opens, s, x, lookback))]
  BY DEF InForce, Seen
<1> HIDE DEF back
<1>4. \A t : t \in Seen(opens, s, x, lookback) <=>
               /\ t \in 0..(Horizon - 1) /\ opens - lookback <= t /\ t <= x
               /\ store[s][t] # Missing
  BY <1>0, <1>1, <1>2, ScaleTyped
<1> QED BY <1>0, <1>3, <1>4, ScaleTyped

\* The latest row of the window is in force; without one, what the baseline finds is.
LEMMA RowInForce ==
    ASSUME NEW opens, NEW closes, NEW s, NEW lookback \in Nat, NEW x, Within(opens, closes, x), NEW t \in Times(s, opens, closes), t <= x,
           \A u \in Times(s, opens, closes) : u <= x => u <= t
    PROVE  InForce(opens, s, x, lookback) = store[s][t]
<1> DEFINE seen == Seen(opens, s, x, lookback)
<1>0. /\ seen \in SUBSET (0..Horizon)
      /\ \A u : u \in seen <=>
                  /\ u \in 0..(Horizon - 1) /\ opens - lookback <= u /\ u <= x
                  /\ store[s][u] # Missing
      /\ InForce(opens, s, x, lookback)
           = IF seen = {} THEN Missing ELSE store[s][Max(seen)]
  BY SeenAre
<1> HIDE DEF seen
<1>w. opens \in 0..Horizon /\ closes \in 0..Horizon /\ x \in opens..(closes - 1)
  BY DEF Within
<1>1. t \in 0..(Horizon - 1) /\ opens <= t /\ store[s][t] # Missing BY TimesAre
<1>2. seen \in SUBSET (0..Horizon) /\ Horizon \in Nat BY <1>0, ScaleTyped
<1>3. t \in seen
  <2>1. opens - lookback <= t BY <1>w, <1>1
  <2> QED BY <1>0, <1>w, <1>1, <2>1
<1>4. Max(seen) \in seen /\ \A u \in seen : u <= Max(seen) BY <1>2, <1>3, GreatestIs
<1>5. /\ Max(seen) \in 0..(Horizon - 1) /\ Max(seen) <= x /\ store[s][Max(seen)] # Missing
      /\ t <= Max(seen)
  BY <1>0, <1>3, <1>4
<1>6. Max(seen) \in Times(s, opens, closes)
  <2>1. opens <= Max(seen) /\ Max(seen) < closes BY <1>w, <1>1, <1>5
  <2> QED BY <1>5, <2>1, TimesAre
<1>7. Max(seen) = t
  <2>1. Max(seen) <= t BY <1>5, <1>6
  <2> QED BY <1>1, <1>5, <2>1
<1> QED BY <1>0, <1>3, <1>7

LEMMA BaselineInForce ==
    ASSUME NEW opens, NEW closes, NEW s, NEW lookback \in Nat, NEW x, Within(opens, closes, x), \A t \in Times(s, opens, closes) : t > x
    PROVE  InForce(opens, s, x, lookback) = LastValue(s, opens - lookback, opens)
<1> DEFINE seen == Seen(opens, s, x, lookback)
<1>0. /\ seen \in SUBSET (0..Horizon)
      /\ \A u : u \in seen <=>
                  /\ u \in 0..(Horizon - 1) /\ opens - lookback <= u /\ u <= x
                  /\ store[s][u] # Missing
      /\ InForce(opens, s, x, lookback)
           = IF seen = {} THEN Missing ELSE store[s][Max(seen)]
  BY SeenAre
<1> HIDE DEF seen
<1>w. opens \in 0..Horizon /\ closes \in 0..Horizon /\ x \in opens..(closes - 1)
  BY DEF Within
<1>1. ASSUME NEW t \in seen PROVE t \in Times(s, opens - lookback, opens)
  <2>1. /\ t \in 0..(Horizon - 1) /\ store[s][t] # Missing
        /\ opens - lookback <= t /\ t <= x
    BY <1>0
  <2>2. t < opens
    <3>1. SUFFICES ASSUME t >= opens PROVE FALSE BY <1>w, <2>1
    <3>2. t < closes BY <1>w, <2>1
    <3>3. t \in Times(s, opens, closes) BY <2>1, <3>1, <3>2, TimesAre
    <3> QED BY <1>w, <2>1, <3>3
  <2> QED BY <2>1, <2>2, TimesAre
<1>2. ASSUME NEW t \in Times(s, opens - lookback, opens) PROVE t \in seen
  <2>1. /\ t \in 0..(Horizon - 1) /\ store[s][t] # Missing
        /\ opens - lookback <= t /\ t < opens
    BY TimesAre
  <2>2. t <= x BY <1>w, <2>1
  <2> QED BY <1>0, <1>w, <2>1, <2>2
<1>3. seen = Times(s, opens - lookback, opens) BY <1>1, <1>2
<1> QED BY <1>0, <1>3 DEF LastValue

\* The room: a row for each reading.
ColdRows(opens, closes) ==
    [t \in DOMAIN Series("leather", opens, closes) |-> IsCold(Series("leather", opens, closes)[t])]

ColdAt(opens, x) == IsCold(InForce(opens, "leather", x, LeatherLookback))

LEMMA ColdRowsAre ==
    ASSUME NEW opens, NEW closes
    PROVE  /\ DOMAIN ColdRows(opens, closes) = Times("leather", opens, closes)
           /\ \A t \in Times("leather", opens, closes) :
                ColdRows(opens, closes)[t] = IsCold(store["leather"][t])
           /\ SeriesOK(ColdRows(opens, closes))
           /\ ColdPeriods(opens, closes)
                = PeriodsFromActive(opens, closes, RoomBaseline(opens), 0,
                                    ColdRows(opens, closes))
<1>1. IsCold(1) \in BOOLEAN /\ \A v : IsCold(v) \in BOOLEAN BY DEF IsCold
<1>2. DOMAIN ColdRows(opens, closes) = Times("leather", opens, closes) BY DEF ColdRows, Series
<1>3. \A t \in Times("leather", opens, closes) :
        ColdRows(opens, closes)[t] = IsCold(store["leather"][t])
  BY DEF ColdRows, Series
<1>4. SeriesOK(ColdRows(opens, closes))
  BY <1>1, <1>2, TimesAre DEF SeriesOK, ColdRows
<1>5. ColdPeriods(opens, closes)
        = PeriodsFromActive(opens, closes, RoomBaseline(opens), 0, ColdRows(opens, closes))
  BY DEF ColdPeriods, ColdRows
<1> QED BY <1>2, <1>3, <1>4, <1>5

LEMMA ColdIsOn ==
    ASSUME NEW opens, NEW closes, NEW x, Within(opens, closes, x)
    PROVE  On(RoomBaseline(opens), ColdRows(opens, closes), x) <=> ColdAt(opens, x)
<1> DEFINE T == Times("leather", opens, closes)
           active == ColdRows(opens, closes)
<1>0. LeatherLookback \in Nat /\ Horizon \in Nat BY ScaleTyped
<1>1. /\ DOMAIN active = T
      /\ \A t \in T : active[t] = IsCold(store["leather"][t])
  BY ColdRowsAre
<1>w. x \in Int BY ScaleTyped DEF Within
<1>2. T \in SUBSET (0..Horizon) BY TimesAre
<1> DEFINE forced == InForce(opens, "leather", x, LeatherLookback)
<1>6. /\ \A t \in T : t <= x /\ (\A u \in T : u <= x => u <= t)
                     => forced = store["leather"][t]
      /\ (\A t \in T : t > x)
            => forced = LastValue("leather", opens - LeatherLookback, opens)
  <2>1. ASSUME NEW t \in T, t <= x, \A u \in T : u <= x => u <= t
        PROVE  forced = store["leather"][t]
    BY <1>0, <2>1, RowInForce
  <2>2. ASSUME \A t \in T : t > x
        PROVE  forced = LastValue("leather", opens - LeatherLookback, opens)
    BY <1>0, <2>2, BaselineInForce
  <2> QED BY <2>1, <2>2
<1> HIDE DEF T, forced
<1>7. ColdAt(opens, x) = IsCold(forced) BY DEF ColdAt, forced
<1>3. /\ \A t \in T : t <= x /\ (\A u \in T : u <= x => u <= t)
                     => ColdAt(opens, x) = IsCold(store["leather"][t])
      /\ (\A t \in T : t > x) => ColdAt(opens, x) = RoomBaseline(opens)
  BY <1>6, <1>7 DEF RoomBaseline
<1> HIDE DEF T, active
<1>4. CASE \A t \in T : t > x
  <2>1. ~ \E t \in T : t <= x BY <1>2, <1>4, <1>w
  <2> QED BY <1>1, <1>3, <1>4, <2>1 DEF On, T, active
<1>5. CASE ~ \A t \in T : t > x
  <2> DEFINE upto == {t \in T : t <= x}
  <2>1. upto \in SUBSET (0..Horizon) /\ upto # {}
    <3>1. PICK t \in T : ~(t > x) BY <1>5
    <3>2. t \in Int /\ x \in Int BY <1>2, <1>w
    <3>3. t <= x BY <3>1, <3>2
    <3> QED BY <1>2, <3>3
  <2>2. PICK t \in upto : \A u \in upto : u <= t BY <1>0, <2>1, GreatestIs
  <2>3. t \in T /\ t <= x /\ t \in Int /\ \A u \in T : u <= x => u <= t BY <2>1, <2>2
  <2>4. ColdAt(opens, x) = active[t] BY <1>1, <1>3, <2>3
  <2>5. On(RoomBaseline(opens), active, x) <=> active[t]
    <3>1. ASSUME NEW u \in T, u <= x, \A v \in T : v <= x => v <= u PROVE u = t
      <4>1. u \in Int /\ u <= t /\ t <= u BY <1>2, <2>3, <3>1
      <4> QED BY <2>3, <4>1
    <3>2. ~ \A u \in T : u > x BY <1>5
    <3> QED BY <1>1, <2>3, <3>1, <3>2 DEF On
  <2> QED BY <2>4, <2>5 DEF active
<1> QED BY <1>4, <1>5

-----------------------------------------------------------------------------
(* Days.                                                                   *)

LEMMA DivisionIs ==
    ASSUME NEW x \in Nat, NEW n \in Nat, n > 0
    PROVE  x \div n \in Nat /\ x % n \in 0..(n - 1) /\ x = n * (x \div n) + (x % n)
<1>1. x \div n \in Int OBVIOUS
<1>2. x % n \in 0..(n - 1) OBVIOUS
<1>3. x = n * (x \div n) + (x % n) OBVIOUS
<1>4. x \div n \in Nat BY <1>1, <1>2, <1>3
<1> QED BY <1>2, <1>3, <1>4

LEMMA DivisionIsUnique ==
    ASSUME NEW x \in Nat, NEW n \in Nat, n > 0, NEW d \in Int, d * n <= x, x < d * n + n
    PROVE  x \div n = d /\ x % n = x - d * n
<1>1. PICK q \in Int : q = x \div n BY DivisionIs
<1>2. PICK r \in Int : r = x % n BY DivisionIs
<1>3. x = n * q + r /\ 0 <= r /\ r < n BY <1>1, <1>2, DivisionIs
<1>4. q = d
  <2>1. CASE q < d
    <3>1. d - q - 1 \in Nat BY <2>1
    <3>2. PICK k \in Nat : k = d - q - 1 BY <3>1
    <3>3. d * n = n * q + n + k * n /\ k * n >= 0 BY <3>2
    <3> QED BY <1>3, <3>3
  <2>2. CASE d < q
    <3>1. q - d - 1 \in Nat BY <2>2
    <3>2. PICK k \in Nat : k = q - d - 1 BY <3>1
    <3>3. n * q = d * n + n + k * n /\ k * n >= 0 BY <3>2
    <3> QED BY <1>3, <3>3
  <2> QED BY <2>1, <2>2
<1> QED BY <1>1, <1>2, <1>3, <1>4

LEMMA DivisionIsMonotone ==
    ASSUME NEW x \in Nat, NEW y \in Nat, NEW n \in Nat, n > 0, x <= y
    PROVE  x \div n <= y \div n
<1>1. PICK q \in Int : q = x \div n BY DivisionIs
<1>2. PICK r \in Int : r = y \div n BY DivisionIs
<1>3. n * q <= x /\ y < n * r + n
  <2>1. PICK a \in Int : a = x % n BY DivisionIs
  <2>2. PICK b \in Int : b = y % n BY DivisionIs
  <2>3. x = n * q + a /\ a >= 0 BY <1>1, <2>1, DivisionIs
  <2>4. y = n * r + b /\ b < n BY <1>2, <2>2, DivisionIs
  <2> QED BY <2>3, <2>4
<1>4. ~ (r < q)
  <2> SUFFICES ASSUME r < q PROVE FALSE OBVIOUS
  <2>1. q - r - 1 \in Nat BY <1>1
  <2>2. PICK k \in Nat : k = q - r - 1 BY <2>1
  <2>3. n * q = n * r + n + k * n /\ k * n >= 0 BY <2>2
  <2> QED BY <1>3, <2>3
<1> QED BY <1>1, <1>2, <1>4

-----------------------------------------------------------------------------
(* The comfort misses of a window.                                         *)

Window(opens, closes) == opens \in 0..Horizon /\ closes \in 0..Horizon

LEMMA PeriodBounds ==
    ASSUME NEW opens \in Int, NEW closes \in Int, NEW baseline \in BOOLEAN, NEW min \in Nat,
           NEW active, SeriesOK(active), NEW low \in Int, low <= opens,
           \A u \in DOMAIN active : low <= u /\ u < closes,
           NEW p \in PeriodsFromActive(opens, closes, baseline, min, active)
    PROVE  /\ p.start \in Int /\ p.end \in Int
           /\ low <= p.start /\ p.end <= closes /\ p.end - p.start >= min
<1> DEFINE End(t) == EndAfter(closes, active, t)
<1>0. \A u \in DOMAIN active : u \in Nat BY DEF SeriesOK
<1>1. Duration(p) >= min BY PeriodIs
<1>2. ASSUME NEW t \in Int PROVE End(t) \in Int /\ End(t) <= closes
  BY <1>0, EndIs
<1>3. CASE baseline /\ p = Period(opens, End(-1))
  <2>1. p.start = opens /\ p.end = End(-1) BY <1>3 DEF Period
  <2>2. -1 \in Int OBVIOUS
  <2>3. End(-1) \in Int /\ End(-1) <= closes BY <1>2, <2>2
  <2> QED BY <1>1, <2>1, <2>3 DEF Duration
<1>4. CASE \E t : TurnsOn(baseline, active, t) /\ p = Period(t, End(t))
  <2>1. PICK t : TurnsOn(baseline, active, t) /\ p = Period(t, End(t)) BY <1>4
  <2>2. t \in DOMAIN active /\ t \in Int BY <1>0, <2>1 DEF TurnsOn
  <2>3. p.start = t /\ p.end = End(t) BY <2>1 DEF Period
  <2>4. End(t) \in Int /\ End(t) <= closes BY <1>2, <2>2
  <2> QED BY <1>1, <2>2, <2>3, <2>4 DEF Duration
<1> QED BY <1>3, <1>4, PeriodIs

LEMMA ColdPeriodIs ==
    ASSUME NEW opens, NEW closes, Window(opens, closes), NEW p \in ColdPeriods(opens, closes)
    PROVE  /\ p.start \in Nat /\ p.end \in Nat
           /\ opens <= p.start /\ p.start <= p.end /\ p.end <= closes
           /\ \A x \in p.start..(p.end - 1) : ColdAt(opens, x)
<1> DEFINE active == ColdRows(opens, closes)
           baseline == RoomBaseline(opens)
<1>1. opens \in Nat /\ opens \in Int /\ closes \in Int BY ScaleTyped DEF Window
<1>2. baseline \in BOOLEAN BY DEF RoomBaseline, IsCold
<1>3. SeriesOK(active) /\ \A u \in DOMAIN active : opens <= u /\ u < closes
  BY ColdRowsAre, TimesAre
<1>4. p \in PeriodsFromActive(opens, closes, baseline, 0, active) BY ColdRowsAre
<1> HIDE DEF active, baseline
<1>5. /\ p.start \in Int /\ p.end \in Int
      /\ opens <= p.start /\ p.end <= closes /\ p.end - p.start >= 0
  BY <1>1, <1>2, <1>3, <1>4, PeriodBounds
<1>6. ASSUME NEW x \in p.start..(p.end - 1) PROVE ColdAt(opens, x)
  <2>1. x \in Int /\ p.start <= x /\ x < p.end BY <1>5
  <2>2. On(baseline, active, x) BY <1>1, <1>2, <1>3, <1>4, <2>1, PeriodIsOn
  <2>3. x \in opens..(closes - 1) BY <1>1, <1>5, <2>1
  <2>4. Within(opens, closes, x) BY <2>3 DEF Within, Window
  <2> QED BY <2>2, <2>4, ColdIsOn DEF active, baseline
<1> QED BY <1>1, <1>5, <1>6

LEMMA ColdIsInPeriod ==
    ASSUME NEW opens, NEW closes, NEW x, Within(opens, closes, x), ColdAt(opens, x)
    PROVE  \E p \in ColdPeriods(opens, closes) : p.start <= x /\ x < p.end
<1> DEFINE active == ColdRows(opens, closes)
           baseline == RoomBaseline(opens)
<1>1. /\ opens \in Nat /\ closes \in Int /\ x \in Nat /\ opens <= x /\ x < closes
      /\ x \in Int /\ x <= closes /\ x + 0 <= x
  BY ScaleTyped DEF Within
<1>2. baseline \in BOOLEAN BY DEF RoomBaseline, IsCold
<1>3. SeriesOK(active) /\ On(baseline, active, x) BY ColdRowsAre, ColdIsOn
<1>4. ColdPeriods(opens, closes) = PeriodsFromActive(opens, closes, baseline, 0, active)
  BY ColdRowsAre
<1> HIDE DEF active, baseline
<1>5. \A u \in DOMAIN active : x < u /\ u < x => active[u]
  BY <1>1, <1>3 DEF SeriesOK
<1> QED BY <1>1, <1>2, <1>3, <1>4, <1>5, OnIsInPeriod

LEMMA ColdPeriodsAreApart ==
    ASSUME NEW opens, NEW closes, Window(opens, closes), NEW p \in ColdPeriods(opens, closes),
           NEW q \in ColdPeriods(opens, closes), p # q
    PROVE  p.end < q.start \/ q.end < p.start
<1> DEFINE active == ColdRows(opens, closes)
           baseline == RoomBaseline(opens)
<1>1. opens \in Int /\ closes \in Int BY ScaleTyped DEF Window
<1>2. baseline \in BOOLEAN BY DEF RoomBaseline, IsCold
<1>3. SeriesOK(active) BY ColdRowsAre
<1>4. ColdPeriods(opens, closes) = PeriodsFromActive(opens, closes, baseline, 0, active)
  BY ColdRowsAre
<1> HIDE DEF active, baseline
<1> QED BY <1>1, <1>2, <1>3, <1>4, PeriodsAreApart

LEMMA ClippedIs ==
    ASSUME NEW p, NEW d \in Int, p.start \in Int, p.end \in Int
    PROVE  /\ Clipped(p, d).start \in Int /\ Clipped(p, d).end \in Int
           /\ \A x \in Int : Clipped(p, d).start <= x <=>
                                p.start <= x /\ d * Day + WakingStart <= x
           /\ \A x \in Int : x < Clipped(p, d).end <=>
                                x < p.end /\ x < d * Day + WakingEnd
<1> DEFINE s == d * Day + WakingStart
           e == d * Day + WakingEnd
<1>1. s \in Int /\ e \in Int BY ScaleTyped
<1> HIDE DEF s, e
<1>2. /\ Clipped(p, d).start = IF p.start >= s THEN p.start ELSE s
      /\ Clipped(p, d).end = IF p.end <= e THEN p.end ELSE e
  BY <1>1, PairIs DEF Clipped, Period, s, e
<1> QED BY <1>1, <1>2 DEF s, e

\* The instants of a clip are those of its period in the waking hours of its day.
LEMMA ClipInstants ==
    ASSUME NEW p, p.start \in Nat, p.end \in Nat, NEW d \in Int, NEW x \in Nat
    PROVE  Clipped(p, d).start <= x /\ x < Clipped(p, d).end <=>
               /\ p.start <= x /\ x < p.end
               /\ x \div Day = d /\ x % Day \in WakingStart..(WakingEnd - 1)
<1>1. Clipped(p, d).start <= x /\ x < Clipped(p, d).end <=>
          /\ p.start <= x /\ x < p.end
          /\ d * Day + WakingStart <= x /\ x < d * Day + WakingEnd
  BY ClippedIs
<1>2. PICK day \in Int : day = d * Day BY ScaleTyped
<1>3. ASSUME day + WakingStart <= x, x < day + WakingEnd
      PROVE  x \div Day = d /\ x % Day \in WakingStart..(WakingEnd - 1)
  <2>1. day <= x /\ x < day + Day BY <1>2, <1>3, ScaleTyped
  <2>2. x \div Day = d /\ x % Day = x - day BY <1>2, <2>1, ScaleTyped, DivisionIsUnique
  <2> QED BY <1>2, <1>3, <2>2, ScaleTyped
<1>4. ASSUME x \div Day = d, x % Day \in WakingStart..(WakingEnd - 1)
      PROVE  day + WakingStart <= x /\ x < day + WakingEnd
  <2>1. PICK r \in Int : r = x % Day BY <1>4, ScaleTyped
  <2>2. x = Day * d + r BY <1>4, <2>1, ScaleTyped, DivisionIs
  <2>3. x = day + r BY <1>2, <2>1, <2>2, ScaleTyped
  <2>4. WakingStart <= r /\ r < WakingEnd BY <1>4, <2>1, ScaleTyped
  <2> QED BY <1>2, <2>1, <2>3, <2>4, ScaleTyped
<1> QED BY <1>1, <1>2, <1>3, <1>4

LEMMA MissIs ==
    ASSUME NEW opens, NEW closes, NEW m
    PROVE  m \in ComfortMisses(opens, closes) <=>
              \E p \in ColdPeriods(opens, closes) :
                  \E d \in (p.start \div Day)..(p.end \div Day) :
                      m = Clipped(p, d) /\ m.start < m.end
BY DEF ComfortMisses, ClipToWaking

MissInstants(opens, closes) ==
    {x \in opens..(closes - 1) :
        x % Day \in WakingStart..(WakingEnd - 1) /\ ColdAt(opens, x)}

LEMMA MissesAreInstants ==
    ASSUME NEW opens, NEW closes, Window(opens, closes)
    PROVE  /\ Instants(ComfortMisses(opens, closes)) = MissInstants(opens, closes)
           /\ \A m \in ComfortMisses(opens, closes) :
                 m.start \in Int /\ m.end \in Int /\ m.start < m.end
<1> DEFINE misses == ComfortMisses(opens, closes)
<1>1. opens \in Nat /\ closes \in Nat BY ScaleTyped DEF Window
<1>2. ASSUME NEW m \in misses
      PROVE  /\ m.start \in Nat /\ m.end \in Int /\ m.start < m.end
             /\ m.start..(m.end - 1) \subseteq MissInstants(opens, closes)
  <2>1. PICK p \in ColdPeriods(opens, closes) :
             \E d \in (p.start \div Day)..(p.end \div Day) :
                      m = Clipped(p, d) /\ m.start < m.end
    BY MissIs
  <2>2. p.start \in Nat /\ p.end \in Nat /\ opens <= p.start /\ p.end <= closes
    BY ColdPeriodIs
  <2>3. PICK d \in (p.start \div Day)..(p.end \div Day) :
             m = Clipped(p, d) /\ m.start < m.end
    BY <2>1
  <2>4. d \in Int BY <2>2, ScaleTyped, DivisionIs
  <2>5. m.start \in Int /\ m.end \in Int BY <2>2, <2>3, <2>4, ClippedIs
  <2>6. m.start <= m.start => p.start <= m.start BY <2>2, <2>3, <2>4, <2>5, ClippedIs
  <2>7. m.start \in Nat BY <2>2, <2>5, <2>6
  <2>8. ASSUME NEW x \in m.start..(m.end - 1) PROVE x \in MissInstants(opens, closes)
    <3>1. x \in Nat /\ m.start <= x /\ x < m.end BY <2>5, <2>7
    <3>2. /\ p.start <= x /\ x < p.end
          /\ x % Day \in WakingStart..(WakingEnd - 1)
      BY <2>2, <2>3, <2>4, <3>1, ClipInstants
    <3>3. x \in p.start..(p.end - 1) BY <2>2, <3>1, <3>2
    <3>4. ColdAt(opens, x) BY <3>3, ColdPeriodIs
    <3>5. x \in opens..(closes - 1) BY <1>1, <2>2, <3>1, <3>2
    <3> QED BY <3>2, <3>4, <3>5 DEF MissInstants
  <2> QED BY <2>3, <2>5, <2>7, <2>8
<1>3. ASSUME NEW x \in MissInstants(opens, closes)
      PROVE  \E m \in misses : x \in m.start..(m.end - 1)
  <2>1. /\ x \in opens..(closes - 1) /\ ColdAt(opens, x)
        /\ x % Day \in WakingStart..(WakingEnd - 1)
    BY DEF MissInstants
  <2>2. x \in Nat BY <1>1, <2>1
  <2>3. Within(opens, closes, x) BY <2>1 DEF Within, Window
  <2>4. PICK p \in ColdPeriods(opens, closes) : p.start <= x /\ x < p.end
    BY <2>1, <2>3, ColdIsInPeriod
  <2>5. p.start \in Nat /\ p.end \in Nat BY ColdPeriodIs
  <2>6. PICK d \in Nat : d = x \div Day BY <2>2, ScaleTyped, DivisionIs
  <2>7. d \in (p.start \div Day)..(p.end \div Day)
    <3>1. p.start \div Day \in Int /\ p.end \div Day \in Int
      BY <2>5, ScaleTyped, DivisionIs
    <3>2. x <= p.end BY <2>2, <2>4, <2>5
    <3>3. p.start \div Day <= x \div Day BY <2>2, <2>4, <2>5, ScaleTyped, DivisionIsMonotone
    <3>4. x \div Day <= p.end \div Day BY <2>2, <2>5, <3>2, ScaleTyped, DivisionIsMonotone
    <3> QED BY <2>6, <3>1, <3>3, <3>4
  <2>8. PICK m : m = Clipped(p, d) OBVIOUS
  <2>9. d \in Int OBVIOUS
  <2>10. m.start <= x /\ x < m.end BY <2>1, <2>2, <2>4, <2>5, <2>6, <2>8, <2>9, ClipInstants
  <2>11. m.start \in Int /\ m.end \in Int BY <2>5, <2>8, <2>9, ClippedIs
  <2>12. m.start < m.end /\ x \in m.start..(m.end - 1) BY <2>2, <2>10, <2>11
  <2>13. m \in misses BY <2>7, <2>8, <2>12, MissIs
  <2> QED BY <2>12, <2>13
<1>4. Instants(misses) = MissInstants(opens, closes)
  <2> HIDE DEF misses
  <2>1. \A x : x \in Instants(misses) <=> \E m \in misses : x \in m.start..(m.end - 1)
    BY DEF Instants
  <2> QED BY <1>2, <1>3, <2>1
<1> QED BY <1>2, <1>4

LEMMA MissesAreApart ==
    ASSUME NEW opens, NEW closes, Window(opens, closes),
           NEW m \in ComfortMisses(opens, closes), NEW n \in ComfortMisses(opens, closes), m # n
    PROVE  m.end <= n.start \/ n.end <= m.start
<1>1. PICK p \in ColdPeriods(opens, closes) :
           \E d \in (p.start \div Day)..(p.end \div Day) : m = Clipped(p, d) /\ m.start < m.end
  BY MissIs
<1>2. PICK q \in ColdPeriods(opens, closes) :
           \E d \in (q.start \div Day)..(q.end \div Day) : n = Clipped(q, d) /\ n.start < n.end
  BY MissIs
<1>3. /\ p.start \in Nat /\ p.end \in Nat /\ q.start \in Nat /\ q.end \in Nat
  BY ColdPeriodIs
<1>4. PICK d \in Int : m = Clipped(p, d) BY <1>1, <1>3, ScaleTyped, DivisionIs
<1>5. PICK e \in Int : n = Clipped(q, e) BY <1>2, <1>3, ScaleTyped, DivisionIs
<1>6. /\ m.start \in Int /\ m.end \in Int /\ n.start \in Int /\ n.end \in Int
      /\ m.start < m.end /\ n.start < n.end
  BY <1>1, <1>2, MissesAreInstants
\* Two misses that shared an instant would share its day and its period.
<1>7. SUFFICES ASSUME ~(m.end <= n.start), ~(n.end <= m.start) PROVE FALSE OBVIOUS
<1>8. PICK x \in Int : m.start <= x /\ x < m.end /\ n.start <= x /\ x < n.end
  <2>1. CASE m.start <= n.start BY <1>6, <1>7, <2>1
  <2>2. CASE n.start <= m.start BY <1>6, <1>7, <2>2
  <2> QED BY <1>6, <2>1, <2>2
<1>9. p.start <= x /\ x < p.end /\ q.start <= x /\ x < q.end
  BY <1>3, <1>4, <1>5, <1>8, ClippedIs
<1>10. x \in Nat BY <1>3, <1>9
<1>11. x \div Day = d /\ x \div Day = e BY <1>3, <1>4, <1>5, <1>8, <1>10, ClipInstants
<1>12. p = q
  <2> SUFFICES ASSUME p # q PROVE FALSE OBVIOUS
  <2>1. p.end < q.start \/ q.end < p.start BY ColdPeriodsAreApart
  <2> QED BY <1>3, <1>9, <2>1
<1> QED BY <1>4, <1>5, <1>11, <1>12

-----------------------------------------------------------------------------
(* Buckets.                                                                *)

LEMMA BucketIs ==
    ASSUME NEW t \in Nat
    PROVE  BucketOf(t) \in Nat /\ BucketOf(t) <= t /\ t < BucketOf(t) + Bucket
<1>1. PICK q \in Nat : q = t \div Bucket BY ScaleTyped, DivisionIs
<1>2. PICK r \in Int : r = t % Bucket BY ScaleTyped, DivisionIs
<1>3. t = Bucket * q + r /\ 0 <= r /\ r < Bucket BY <1>1, <1>2, ScaleTyped, DivisionIs
<1>4. BucketOf(t) = q * Bucket BY <1>1 DEF BucketOf
<1>5. q * Bucket \in Nat /\ q * Bucket = Bucket * q BY ScaleTyped
<1> QED BY <1>2, <1>3, <1>4, <1>5, ScaleTyped

\* A bucket holds the instants from its stamp on, and stamps do not cross.
LEMMA BucketHolds ==
    ASSUME NEW t \in Nat, NEW u \in Nat
    PROVE  /\ t < BucketOf(u) + Bucket => BucketOf(t) <= BucketOf(u)
           /\ t >= BucketOf(u) + Bucket => BucketOf(t) >= BucketOf(u) + Bucket
<1>1. PICK q \in Nat : q = t \div Bucket BY ScaleTyped, DivisionIs
<1>2. PICK r \in Nat : r = u \div Bucket BY ScaleTyped, DivisionIs
<1>3. BucketOf(t) = q * Bucket /\ BucketOf(u) = r * Bucket BY <1>1, <1>2 DEF BucketOf
<1>4. q * Bucket <= t /\ t < q * Bucket + Bucket BY <1>3, BucketIs
<1>5. q * Bucket \in Nat /\ r * Bucket \in Nat BY ScaleTyped
<1>6. q < r => q * Bucket + Bucket <= r * Bucket
  <2> SUFFICES ASSUME q < r PROVE q * Bucket + Bucket <= r * Bucket OBVIOUS
  <2>1. r - q - 1 \in Nat OBVIOUS
  <2>2. PICK k \in Nat : k = r - q - 1 BY <2>1
  <2>3. r * Bucket = q * Bucket + Bucket + k * Bucket /\ k * Bucket >= 0
    BY <2>2, ScaleTyped
  <2> QED BY <1>5, <2>3, ScaleTyped
<1>7. r < q => r * Bucket + Bucket <= q * Bucket
  <2> SUFFICES ASSUME r < q PROVE r * Bucket + Bucket <= q * Bucket OBVIOUS
  <2>1. q - r - 1 \in Nat OBVIOUS
  <2>2. PICK k \in Nat : k = q - r - 1 BY <2>1
  <2>3. q * Bucket = r * Bucket + Bucket + k * Bucket /\ k * Bucket >= 0
    BY <2>2, ScaleTyped
  <2> QED BY <1>5, <2>3, ScaleTyped
<1>8. q = r => q * Bucket = r * Bucket OBVIOUS
<1>9. PICK tb \in Nat : tb = q * Bucket BY <1>5
<1>10. PICK ub \in Nat : ub = r * Bucket BY <1>5
<1>11. /\ tb <= t /\ t < tb + Bucket
       /\ q < r => tb + Bucket <= ub
       /\ r < q => ub + Bucket <= tb
       /\ q = r => tb = ub
  BY <1>4, <1>6, <1>7, <1>8, <1>9, <1>10
<1>12. /\ t < ub + Bucket => tb <= ub
       /\ t >= ub + Bucket => tb >= ub + Bucket
  BY <1>11, ScaleTyped
<1> QED BY <1>3, <1>9, <1>10, <1>12

\* Of the flow, whether each bucket's last reading is a charge's.
FlowRows(opens, closes) ==
    [u \in DOMAIN Bucketed("flow", opens, closes) |->
        IsCharging(Bucketed("flow", opens, closes)[u])]

RunningAt(opens, x) == IsCharging(InForce(opens, "flow", x, FlowLookback))

\* The row that a stamp stands for: the last of its bucket, and of all up to it.
Stands(opens, closes, u, t) ==
    /\ t \in Times("flow", opens, closes) /\ BucketOf(t) = u
    /\ \A v \in Times("flow", opens, closes) : BucketOf(v) <= u => v <= t

LEMMA FlowRowsAre ==
    ASSUME NEW opens, NEW closes
    PROVE  /\ SeriesOK(FlowRows(opens, closes))
           /\ \A t \in Times("flow", opens, closes) : BucketOf(t) \in DOMAIN FlowRows(opens, closes)
           /\ \A u \in DOMAIN FlowRows(opens, closes) :
                 \E t : /\ Stands(opens, closes, u, t)
                        /\ FlowRows(opens, closes)[u] = IsCharging(store["flow"][t])
           /\ ChargePeriods(opens, closes)
                = PeriodsFromActive(opens, closes, FlowBaseline(opens), MinCharge,
                                    FlowRows(opens, closes))
<1> DEFINE T == Times("flow", opens, closes)
           stamps == {BucketOf(t) : t \in T}
           last(u) == Max({t \in T : BucketOf(t) = u})
           rows == Bucketed("flow", opens, closes)
           active == FlowRows(opens, closes)
<1>1. \A v : IsCharging(v) \in BOOLEAN BY DEF IsCharging
<1>2. T \in SUBSET (0..Horizon) /\ Horizon \in Nat BY TimesAre, ScaleTyped
<1>3. rows = [u \in stamps |-> store["flow"][last(u)]] BY DEF Bucketed
<1>4. active = [u \in stamps |-> IsCharging(store["flow"][last(u)])] BY <1>3 DEF FlowRows
<1>5. stamps \in SUBSET (0..Horizon)
  <2> SUFFICES ASSUME NEW t \in T PROVE BucketOf(t) \in 0..Horizon OBVIOUS
  <2>1. t \in Nat /\ t <= Horizon BY <1>2
  <2> HIDE DEF T
  <2> QED BY <1>2, <2>1, BucketIs
<1>6. SeriesOK(active)
  <2> HIDE DEF active, stamps, last
  <2>1. DOMAIN active = stamps /\ active \in [stamps -> BOOLEAN] BY <1>1, <1>4
  <2> QED BY <1>5, <2>1 DEF SeriesOK
<1>7. ASSUME NEW u \in stamps PROVE Stands(opens, closes, u, last(u))
  <2> DEFINE in == {t \in T : BucketOf(t) = u}
  <2>1. in \in SUBSET (0..Horizon) /\ in # {} BY <1>2
  <2>2. Max(in) \in in /\ \A t \in in : t <= Max(in) BY <1>2, <2>1, GreatestIs
  <2>3. PICK m : m = Max(in) BY <2>2
  <2>4. m \in T /\ m \in Nat /\ BucketOf(m) = u BY <1>2, <2>2, <2>3
  <2>5. ASSUME NEW v \in T, BucketOf(v) <= u PROVE v <= m
    <3>1. v \in Nat BY <1>2
    <3>2. CASE BucketOf(v) = u BY <2>2, <2>3, <3>2
    <3>3. CASE BucketOf(v) # u
      <4> HIDE DEF T
      <4>1. SUFFICES ASSUME m < v PROVE FALSE BY <2>4, <3>1
      <4>2. /\ BucketOf(v) \in Nat /\ u \in Nat /\ u <= m /\ v < BucketOf(v) + Bucket
        BY <2>4, <3>1, BucketIs
      <4>3. m < BucketOf(v) + Bucket BY <2>4, <3>1, <4>1, <4>2, ScaleTyped
      <4>4. BucketOf(m) <= BucketOf(v) BY <2>4, <3>1, <4>3, BucketHolds
      <4> QED BY <2>4, <2>5, <3>3, <4>2, <4>4
    <3> QED BY <3>2, <3>3
  <2> QED BY <2>3, <2>4, <2>5 DEF Stands
<1>8. \A u \in stamps : active[u] = IsCharging(store["flow"][last(u)])
  <2> HIDE DEF active, stamps, last
  <2> QED BY <1>4
<1>9. DOMAIN active = stamps
  <2> HIDE DEF active, stamps, last
  <2> QED BY <1>4
<1>10. \A t \in T : BucketOf(t) \in stamps OBVIOUS
<1>11. ChargePeriods(opens, closes)
         = PeriodsFromActive(opens, closes, FlowBaseline(opens), MinCharge, active)
  BY DEF ChargePeriods, FlowRows
<1> HIDE DEF stamps, last
<1> QED BY <1>6, <1>7, <1>8, <1>9, <1>10, <1>11

-----------------------------------------------------------------------------
(* The charges of a window.                                                *)

LEMMA FlowRowIs ==
    ASSUME NEW opens, NEW closes, NEW t \in Times("flow", opens, closes)
    PROVE  /\ t \in Nat /\ opens <= t /\ t < closes
           /\ BucketOf(t) \in Nat /\ BucketOf(t) <= t /\ t < BucketOf(t) + Bucket
<1>1. t \in Nat /\ opens <= t /\ t < closes BY TimesAre, ScaleTyped
<1> QED BY <1>1, BucketIs

LEMMA RowRuns ==
    ASSUME NEW opens, NEW closes, NEW x, Within(opens, closes, x),
           NEW t \in Times("flow", opens, closes), t <= x,
           \A u \in Times("flow", opens, closes) : u <= x => u <= t
    PROVE  RunningAt(opens, x) = IsCharging(store["flow"][t])
<1>1. PICK s : s = "flow" OBVIOUS
<1>2. t \in Times(s, opens, closes) /\ \A u \in Times(s, opens, closes) : u <= x => u <= t
  BY <1>1
<1>3. InForce(opens, s, x, FlowLookback) = store[s][t] BY <1>2, RowInForce, ScaleTyped
<1> QED BY <1>1, <1>3 DEF RunningAt

LEMMA BaselineRuns ==
    ASSUME NEW opens, NEW closes, NEW x, Within(opens, closes, x),
           \A t \in Times("flow", opens, closes) : t > x
    PROVE  RunningAt(opens, x) = FlowBaseline(opens)
<1>1. PICK s : s = "flow" OBVIOUS
<1>2. \A t \in Times(s, opens, closes) : t > x BY <1>1
<1>3. InForce(opens, s, x, FlowLookback) = LastValue(s, opens - FlowLookback, opens)
  BY <1>2, BaselineInForce, ScaleTyped
<1> QED BY <1>1, <1>3 DEF RunningAt, FlowBaseline

LEMMA ChargePeriodBounds ==
    ASSUME NEW opens, NEW closes, Window(opens, closes), NEW p \in ChargePeriods(opens, closes)
    PROVE  /\ p.start \in Nat /\ p.end \in Nat
           /\ opens - Bucket < p.start /\ p.end <= closes /\ p.end - p.start >= MinCharge
<1> DEFINE active == FlowRows(opens, closes)
           baseline == FlowBaseline(opens)
<1>1. /\ opens \in Int /\ closes \in Int /\ 0 <= opens
      /\ opens - Bucket + 1 \in Int /\ opens - Bucket + 1 <= opens
  BY ScaleTyped DEF Window
<1>2. baseline \in BOOLEAN BY DEF FlowBaseline, IsCharging
<1>3. SeriesOK(active) /\ p \in PeriodsFromActive(opens, closes, baseline, MinCharge, active)
  BY FlowRowsAre
<1>4. \A u \in DOMAIN active : 0 <= u /\ opens - Bucket + 1 <= u /\ u < closes
  <2> SUFFICES ASSUME NEW u \in DOMAIN active
               PROVE  0 <= u /\ opens - Bucket + 1 <= u /\ u < closes
    OBVIOUS
  <2>1. PICK t : Stands(opens, closes, u, t) BY FlowRowsAre
  <2>2. t \in Times("flow", opens, closes) /\ BucketOf(t) = u BY <2>1 DEF Stands
  <2>3. /\ t \in Nat /\ opens <= t /\ t < closes
        /\ u \in Nat /\ u <= t /\ t < u + Bucket
    BY <2>2, FlowRowIs
  <2> QED BY <1>1, <2>3, ScaleTyped
<1> HIDE DEF active, baseline
<1>5. MinCharge \in Nat /\ 0 \in Int BY ScaleTyped
<1>6. p.start \in Int /\ p.end \in Int /\ 0 <= p.start /\ p.end - p.start >= MinCharge
  BY <1>1, <1>2, <1>3, <1>4, <1>5, PeriodBounds
<1>7. PICK low \in Int : low = opens - Bucket + 1 BY <1>1
<1>8. low <= p.start /\ p.end <= closes
  <2>1. low <= opens /\ \A u \in DOMAIN active : low <= u /\ u < closes BY <1>1, <1>4, <1>7
  <2> QED BY <1>1, <1>2, <1>3, <1>5, <2>1, PeriodBounds
<1> QED BY <1>1, <1>5, <1>6, <1>7, <1>8, ScaleTyped

LEMMA ChargePeriodsAreApart ==
    ASSUME NEW opens, NEW closes, Window(opens, closes), NEW p \in ChargePeriods(opens, closes),
           NEW q \in ChargePeriods(opens, closes), p # q
    PROVE  p.end < q.start \/ q.end < p.start
<1> DEFINE active == FlowRows(opens, closes)
           baseline == FlowBaseline(opens)
<1>1. opens \in Int /\ closes \in Int /\ MinCharge \in Nat BY ScaleTyped DEF Window
<1>2. baseline \in BOOLEAN BY DEF FlowBaseline, IsCharging
<1>3. SeriesOK(active)
      /\ ChargePeriods(opens, closes)
           = PeriodsFromActive(opens, closes, baseline, MinCharge, active)
  BY FlowRowsAre
<1> HIDE DEF active, baseline
<1> QED BY <1>1, <1>2, <1>3, PeriodsAreApart

\* A period that covers an instant at which no row had come began where the window opens.
LEMMA PeriodStartIs ==
    ASSUME NEW opens, NEW closes, NEW baseline, NEW min, NEW active, SeriesOK(active),
           NEW p \in PeriodsFromActive(opens, closes, baseline, min, active)
    PROVE  p.start = opens \/ p.start \in DOMAIN active
<1>1. CASE p = Period(opens, EndAfter(closes, active, -1)) BY <1>1 DEF Period
<1>2. CASE \E t : TurnsOn(baseline, active, t) /\ p = Period(t, EndAfter(closes, active, t))
  BY <1>2 DEF TurnsOn, Period
<1> QED BY <1>1, <1>2, PeriodIs

\* Through a period the flow in force at the end of each bucket is a charge's.
LEMMA ChargePeriodRuns ==
    ASSUME NEW opens, NEW closes, Window(opens, closes), NEW p \in ChargePeriods(opens, closes),
           NEW x \in p.start..(p.end - 1)
    PROVE  RunningAt(opens, Min({BucketOf(x) + Bucket, closes}) - 1)
<1> DEFINE active == FlowRows(opens, closes)
           baseline == FlowBaseline(opens)
           T == Times("flow", opens, closes)
           y == Min({BucketOf(x) + Bucket, closes}) - 1
<1>1. opens \in Nat /\ opens \in Int /\ closes \in Int /\ closes \in Nat /\ MinCharge \in Nat
  BY ScaleTyped DEF Window
<1>2. baseline \in BOOLEAN BY DEF FlowBaseline, IsCharging
<1>3. SeriesOK(active) /\ p \in PeriodsFromActive(opens, closes, baseline, MinCharge, active)
  BY FlowRowsAre
<1>4. /\ p.start \in Nat /\ p.end \in Nat /\ p.end <= closes
      /\ x \in Nat /\ x \in Int /\ p.start <= x /\ x < p.end
  <2>1. p.start \in Nat /\ p.end \in Nat /\ p.end <= closes BY ChargePeriodBounds
  <2> QED BY <2>1
<1>5. BucketOf(x) \in Nat /\ BucketOf(x) <= x /\ x < BucketOf(x) + Bucket BY <1>4, BucketIs
<1>6. /\ y \in Int /\ x <= y /\ y < BucketOf(x) + Bucket /\ y < closes
      /\ \A t \in Nat : t < BucketOf(x) + Bucket /\ t < closes => t <= y
  <2>1. PICK e \in Int : e = BucketOf(x) + Bucket BY <1>5, ScaleTyped
  <2>2. y = (IF e <= closes THEN e ELSE closes) - 1 BY <1>1, <2>1, PairIs
  <2> HIDE DEF y
  <2> QED BY <1>1, <1>4, <1>5, <2>1, <2>2
<1> HIDE DEF y
<1>7. \A t \in T : /\ t \in Nat /\ opens <= t /\ t < closes
                   /\ BucketOf(t) \in DOMAIN active /\ BucketOf(t) \in Nat
                   /\ t <= y => BucketOf(t) <= x
  <2> SUFFICES ASSUME NEW t \in T
               PROVE  /\ t \in Nat /\ opens <= t /\ t < closes
                      /\ BucketOf(t) \in DOMAIN active /\ BucketOf(t) \in Nat
                      /\ t <= y => BucketOf(t) <= x
    OBVIOUS
  <2>1. /\ t \in Nat /\ opens <= t /\ t < closes /\ BucketOf(t) \in Nat BY FlowRowIs
  <2>2. BucketOf(t) \in DOMAIN active BY FlowRowsAre
  <2>3. t <= y => BucketOf(t) <= BucketOf(x)
    <3>1. t <= y => t < BucketOf(x) + Bucket BY <1>5, <1>6, <2>1, ScaleTyped
    <3> QED BY <1>4, <2>1, <3>1, BucketHolds
  <2> HIDE DEF T
  <2> QED BY <1>4, <1>5, <2>1, <2>2, <2>3
<1> DEFINE at == On(baseline, active, x)
<1>8. at BY <1>1, <1>2, <1>3, <1>4, PeriodIsOn
<1>9. CASE \E u \in DOMAIN active : /\ u <= x /\ active[u]
                                    /\ \A v \in DOMAIN active : v <= x => v <= u
  <2>1. PICK u \in DOMAIN active : /\ u <= x /\ active[u]
                                   /\ \A v \in DOMAIN active : v <= x => v <= u
    BY <1>9
  <2>2. PICK t : Stands(opens, closes, u, t) /\ active[u] = IsCharging(store["flow"][t])
    BY FlowRowsAre
  <2>3. t \in T /\ BucketOf(t) = u /\ \A v \in T : BucketOf(v) <= u => v <= t
    BY <2>2 DEF Stands
  <2> HIDE DEF T, active
  <2>4. t \in Nat /\ opens <= t /\ t < closes /\ u \in Nat BY <1>7, <2>3
  <2>5. t < BucketOf(x) + Bucket
    <3>1. t >= BucketOf(x) + Bucket => u >= BucketOf(x) + Bucket
      BY <1>4, <2>3, <2>4, BucketHolds
    <3>2. ~(u >= BucketOf(x) + Bucket) BY <1>4, <1>5, <2>1, <2>4, ScaleTyped
    <3> QED BY <1>5, <2>4, <3>1, <3>2, ScaleTyped
  <2>6. t <= y BY <1>6, <2>4, <2>5
  <2>7. \A v \in T : v <= y => v <= t BY <1>7, <2>1, <2>3
  <2>8. y \in opens..(closes - 1) BY <1>1, <1>6, <2>4, <2>6
  <2>9. Within(opens, closes, y) BY <2>8 DEF Within, Window
  <2>10. RunningAt(opens, y) = IsCharging(store["flow"][t])
    BY <2>3, <2>6, <2>7, <2>9, RowRuns DEF T
  <2> QED BY <2>1, <2>2, <2>10 DEF y
<1>10. CASE baseline /\ \A u \in DOMAIN active : u > x
  <2>1. p.start = opens
    <3>1. p.start = opens \/ p.start \in DOMAIN active BY <1>3, PeriodStartIs
    <3> QED BY <1>4, <1>10, <3>1
  <2>2. y \in opens..(closes - 1) BY <1>1, <1>4, <1>6, <2>1
  <2>3. Within(opens, closes, y) BY <2>2 DEF Within, Window
  <2>4. \A t \in T : t > y
    <3> SUFFICES ASSUME NEW t \in T PROVE t > y OBVIOUS
    <3> HIDE DEF T, active
    <3>1. /\ t \in Nat /\ BucketOf(t) \in DOMAIN active /\ BucketOf(t) \in Nat
          /\ t <= y => BucketOf(t) <= x
      BY <1>7
    <3>2. BucketOf(t) > x BY <1>10, <3>1
    <3> QED BY <1>4, <1>6, <3>1, <3>2
  <2>5. RunningAt(opens, y) = baseline BY <2>3, <2>4, BaselineRuns
  <2> QED BY <1>10, <2>5 DEF y
<1> QED BY <1>8, <1>9, <1>10 DEF On

\* A flow that ran for the minimum plus a bucket lies in one period.
LEMMA RunIsInPeriod ==
    ASSUME NEW opens, NEW closes, Window(opens, closes), NEW a \in opens..closes,
           NEW b \in (a + MinCharge + Bucket - 1)..closes,
           \A x \in a..(b - 1) : RunningAt(opens, x)
    PROVE  \E p \in ChargePeriods(opens, closes) : p.start <= a /\ p.end >= b - (Bucket - 1)
<1> DEFINE active == FlowRows(opens, closes)
           baseline == FlowBaseline(opens)
           T == Times("flow", opens, closes)
<1>1. /\ opens \in Nat /\ closes \in Int /\ MinCharge \in Nat /\ a \in Nat /\ b \in Int
      /\ opens <= a /\ b <= closes /\ a + MinCharge + Bucket - 1 <= b
      /\ Bucket \in Nat /\ 0 < Bucket /\ Bucket < MinCharge
  BY ScaleTyped DEF Window
<1>2. baseline \in BOOLEAN BY DEF FlowBaseline, IsCharging
<1>3. SeriesOK(active)
      /\ ChargePeriods(opens, closes)
           = PeriodsFromActive(opens, closes, baseline, MinCharge, active)
  BY FlowRowsAre
<1>4. PICK e \in Int : e = b - (Bucket - 1) BY <1>1
<1>5. e <= closes /\ a + MinCharge <= e /\ a < closes /\ a + Bucket < b /\ e + Bucket - 1 = b
  BY <1>1, <1>4
<1>6. \A u \in DOMAIN active :
         /\ u \in Nat
         /\ \E t \in T : /\ t \in Nat /\ opens <= t /\ t < closes
                         /\ BucketOf(t) = u /\ u <= t /\ t < u + Bucket
                         /\ \A v \in T : BucketOf(v) <= u => v <= t
                         /\ active[u] = IsCharging(store["flow"][t])
  <2> SUFFICES ASSUME NEW u \in DOMAIN active
               PROVE  /\ u \in Nat
                      /\ \E t \in T : /\ t \in Nat /\ opens <= t /\ t < closes
                                      /\ BucketOf(t) = u /\ u <= t /\ t < u + Bucket
                                      /\ \A v \in T : BucketOf(v) <= u => v <= t
                                      /\ active[u] = IsCharging(store["flow"][t])
    OBVIOUS
  <2>1. PICK t : Stands(opens, closes, u, t) /\ active[u] = IsCharging(store["flow"][t])
    BY FlowRowsAre
  <2>2. t \in T /\ BucketOf(t) = u /\ \A v \in T : BucketOf(v) <= u => v <= t
    BY <2>1 DEF Stands
  <2>3. /\ t \in Nat /\ opens <= t /\ t < closes
        /\ u \in Nat /\ u <= t /\ t < u + Bucket
    BY <2>2, FlowRowIs
  <2> QED BY <2>1, <2>2, <2>3
<1>7. \A t \in T : /\ t \in Nat /\ BucketOf(t) \in DOMAIN active
                   /\ BucketOf(t) \in Nat /\ BucketOf(t) <= t
  BY FlowRowIs, FlowRowsAre
<1>8. \A t \in T, x \in a..(b - 1) :
         t <= x /\ (\A v \in T : v <= x => v <= t) => IsCharging(store["flow"][t])
  <2> SUFFICES ASSUME NEW t \in T, NEW x \in a..(b - 1), t <= x,
                      \A v \in T : v <= x => v <= t
               PROVE  IsCharging(store["flow"][t])
    OBVIOUS
  <2>1. x \in opens..(closes - 1) BY <1>1
  <2>2. Within(opens, closes, x) BY <2>1 DEF Within, Window
  <2>3. RunningAt(opens, x) = IsCharging(store["flow"][t]) BY <2>2, RowRuns
  <2> QED BY <2>3
<1> DEFINE at == On(baseline, active, a)
<1>9. at
  <2>1. CASE \A u \in DOMAIN active : u > a
    <3>1. ASSUME NEW t \in T PROVE t > a
      <4> HIDE DEF T, active
      <4>1. BucketOf(t) > a BY <1>7, <2>1
      <4> QED BY <1>1, <1>7, <4>1
    <3>2. a \in opens..(closes - 1) /\ a \in a..(b - 1) BY <1>1, <1>5
    <3>3. Within(opens, closes, a) BY <3>2 DEF Within, Window
    <3>4. RunningAt(opens, a) = baseline BY <3>1, <3>3, BaselineRuns
    <3>5. baseline BY <3>2, <3>4
    <3> QED BY <2>1, <3>5 DEF On
  <2>2. CASE ~ \A u \in DOMAIN active : u > a
    <3> HIDE DEF T, active
    <3> DEFINE upto == {u \in DOMAIN active : u <= a}
    <3>1. upto \in SUBSET (0..Horizon) /\ upto # {}
      <4>1. PICK u \in DOMAIN active : ~(u > a) BY <2>2
      <4>2. u \in upto BY <1>1, <1>6, <4>1
      <4> QED BY <1>3, <4>2 DEF SeriesOK
    <3>2. Max(upto) \in upto /\ \A v \in upto : v <= Max(upto)
      BY <3>1, ScaleTyped, GreatestIs
    <3>3. PICK u \in upto : \A v \in upto : v <= u BY <3>2
    <3>4. u \in DOMAIN active /\ u \in Nat /\ u <= a BY <1>6, <3>3
    <3>5. \A v \in DOMAIN active : v <= a => v <= u BY <3>3
    <3> HIDE DEF upto
    <3>6. PICK t \in T : /\ t \in Nat /\ u <= t /\ t < u + Bucket
                         /\ \A v \in T : BucketOf(v) <= u => v <= t
                         /\ active[u] = IsCharging(store["flow"][t])
      BY <1>6, <3>4
    <3>7. IsCharging(store["flow"][t])
      <4>1. CASE t <= a
        <5>1. \A v \in T : v <= a => v <= t
          <6> SUFFICES ASSUME NEW v \in T, v <= a PROVE v <= t OBVIOUS
          <6>1. /\ v \in Nat /\ BucketOf(v) \in DOMAIN active
                /\ BucketOf(v) \in Nat /\ BucketOf(v) <= v
            BY <1>7
          <6>2. BucketOf(v) <= a BY <1>1, <6>1
          <6>3. BucketOf(v) <= u BY <3>5, <6>1, <6>2
          <6> QED BY <3>6, <6>3
        <5>2. a \in a..(b - 1) BY <1>1, <1>5
        <5> QED BY <1>8, <4>1, <5>1, <5>2
      <4>2. CASE t > a
        <5>1. t \in a..(b - 1) BY <1>1, <1>5, <3>4, <3>6, <4>2
        <5>2. t <= t BY <3>6
        <5> QED BY <1>8, <5>1, <5>2
      <4> QED BY <1>1, <3>6, <4>1, <4>2
    <3> QED BY <3>4, <3>5, <3>6, <3>7 DEF On
  <2> QED BY <2>1, <2>2
<1>10. \A u \in DOMAIN active : a < u /\ u < e => active[u]
  <2> SUFFICES ASSUME NEW u \in DOMAIN active, a < u, u < e PROVE active[u] OBVIOUS
  <2> HIDE DEF T, active
  <2>1. PICK t \in T : /\ t \in Nat /\ u <= t /\ t < u + Bucket
                       /\ active[u] = IsCharging(store["flow"][t])
    BY <1>6
  <2>2. t \in a..(b - 1) /\ t <= t BY <1>1, <1>5, <1>6, <2>1
  <2>3. IsCharging(store["flow"][t]) BY <1>8, <2>2
  <2> QED BY <2>1, <2>3
<1> HIDE DEF active, baseline
<1>11. \E p \in PeriodsFromActive(opens, closes, baseline, MinCharge, active) :
           p.start <= a /\ p.end >= e /\ a < p.end
  BY <1>1, <1>2, <1>3, <1>5, <1>9, <1>10, OnIsInPeriod
<1> QED BY <1>3, <1>4, <1>11

-----------------------------------------------------------------------------
(* What a report must be, against the instants at which the flow ran.      *)

RightCharges(opens, closes, charges, runs) ==
    /\ \A a \in opens..closes : \A b \in (a + MinCharge + Bucket - 1)..closes :
          (\A x \in a..(b - 1) : x \in runs) =>
              \E p \in charges : p.start <= a /\ p.end >= b - (Bucket - 1)
    /\ \A x \in Instants(charges) : Min({BucketOf(x) + Bucket, closes}) - 1 \in runs
    /\ \A p \in charges :
          /\ Duration(p) >= MinCharge
          /\ opens - Bucket < p.start /\ p.end <= closes
    /\ \A p, q \in charges : p # q => p.end < q.start \/ q.end < p.start

Runs(opens) == {x \in Int : RunningAt(opens, x)}

\* Charges, one for each period, with its start and its end.
Describe(charges, periods) ==
    /\ \A p \in periods : \E c \in charges : c.start = p.start /\ c.end = p.end
    /\ \A c \in charges : \E p \in periods : c.start = p.start /\ c.end = p.end
    /\ \A c, d \in charges :
          c # d => \E p, q \in periods : /\ c.start = p.start /\ c.end = p.end
                                         /\ d.start = q.start /\ d.end = q.end /\ p # q

LEMMA ChargesAreRight ==
    ASSUME NEW opens, NEW closes, Window(opens, closes), NEW charges,
           Describe(charges, ChargePeriods(opens, closes))
    PROVE  RightCharges(opens, closes, charges, Runs(opens))
<1> DEFINE periods == ChargePeriods(opens, closes)
<1>1. ASSUME NEW a \in opens..closes, NEW b \in (a + MinCharge + Bucket - 1)..closes,
             \A x \in a..(b - 1) : x \in Runs(opens)
      PROVE  \E c \in charges : c.start <= a /\ c.end >= b - (Bucket - 1)
  <2>1. \A x \in a..(b - 1) : RunningAt(opens, x) BY <1>1 DEF Runs
  <2>2. PICK p \in periods : p.start <= a /\ p.end >= b - (Bucket - 1)
    BY <2>1, RunIsInPeriod
  <2>3. PICK c \in charges : c.start = p.start /\ c.end = p.end BY DEF Describe
  <2> QED BY <2>2, <2>3
<1>2. ASSUME NEW x \in Instants(charges)
      PROVE  Min({BucketOf(x) + Bucket, closes}) - 1 \in Runs(opens)
  <2>1. PICK c \in charges : x \in c.start..(c.end - 1) BY DEF Instants
  <2>2. PICK p \in periods : c.start = p.start /\ c.end = p.end BY DEF Describe
  <2>3. x \in p.start..(p.end - 1) BY <2>1, <2>2
  <2>4. RunningAt(opens, Min({BucketOf(x) + Bucket, closes}) - 1) BY <2>3, ChargePeriodRuns
  <2>5. Min({BucketOf(x) + Bucket, closes}) - 1 \in Int
    <3>1. p.start \in Nat /\ p.end \in Nat BY ChargePeriodBounds
    <3>2. x \in Nat BY <2>3, <3>1
    <3>3. PICK e \in Int : e = BucketOf(x) + Bucket BY <3>2, BucketIs, ScaleTyped
    <3>4. closes \in Int BY ScaleTyped DEF Window
    <3>5. Min({e, closes}) = IF e <= closes THEN e ELSE closes BY <3>4, PairIs
    <3>6. Min({e, closes}) - 1 \in Int BY <3>4, <3>5
    <3> QED BY <3>3, <3>6
  <2> QED BY <2>4, <2>5 DEF Runs
<1>3. ASSUME NEW c \in charges
      PROVE  /\ Duration(c) >= MinCharge
             /\ opens - Bucket < c.start /\ c.end <= closes
  <2>1. PICK p \in periods : c.start = p.start /\ c.end = p.end BY DEF Describe
  <2>2. opens - Bucket < p.start /\ p.end <= closes /\ p.end - p.start >= MinCharge
    BY ChargePeriodBounds
  <2> QED BY <2>1, <2>2 DEF Duration
<1>4. ASSUME NEW c \in charges, NEW d \in charges, c # d
      PROVE  c.end < d.start \/ d.end < c.start
  <2>1. PICK p, q \in periods : /\ c.start = p.start /\ c.end = p.end
                                /\ d.start = q.start /\ d.end = q.end /\ p # q
    BY <1>4 DEF Describe
  <2>2. p.end < q.start \/ q.end < p.start BY <2>1, ChargePeriodsAreApart
  <2> QED BY <2>1, <2>2
<1> QED BY <1>1, <1>2, <1>3, <1>4 DEF RightCharges

LEMMA PeriodsDescribe ==
    ASSUME NEW opens, NEW closes
    PROVE  Describe(ChargePeriods(opens, closes), ChargePeriods(opens, closes))
BY DEF Describe

LEMMA SummariesDescribe ==
    ASSUME NEW opens, NEW closes
    PROVE  Describe(Charges(opens, closes), ChargePeriods(opens, closes))
<1> DEFINE periods == ChargePeriods(opens, closes)
           charges == Charges(opens, closes)
<1>1. charges = {ChargeSummary(p) : p \in periods} BY DEF Charges
<1>2. \A p : ChargeSummary(p).start = p.start /\ ChargeSummary(p).end = p.end
  BY DEF ChargeSummary
<1> HIDE DEF charges, periods
<1>3. ASSUME NEW p \in periods
      PROVE  \E c \in charges : c.start = p.start /\ c.end = p.end
  <2>1. ChargeSummary(p) \in charges BY <1>1
  <2> QED BY <1>2, <2>1
<1>4. ASSUME NEW c \in charges
      PROVE  \E p \in periods : c = ChargeSummary(p) /\ c.start = p.start /\ c.end = p.end
  <2>1. PICK p \in periods : c = ChargeSummary(p) BY <1>1
  <2> QED BY <1>2, <2>1
<1>5. ASSUME NEW c \in charges, NEW d \in charges, c # d
      PROVE  \E p, q \in periods : /\ c.start = p.start /\ c.end = p.end
                                   /\ d.start = q.start /\ d.end = q.end /\ p # q
  <2>1. PICK p \in periods : c = ChargeSummary(p) /\ c.start = p.start /\ c.end = p.end
    BY <1>4
  <2>2. PICK q \in periods : d = ChargeSummary(q) /\ d.start = q.start /\ d.end = q.end
    BY <1>4
  <2>3. p # q BY <1>5, <2>1, <2>2
  <2> QED BY <2>1, <2>2, <2>3
<1>6. Describe(charges, periods)
  <2>1. \A c \in charges : \E p \in periods : c.start = p.start /\ c.end = p.end BY <1>4
  <2> QED BY <1>3, <1>5, <2>1 DEF Describe
<1> QED BY <1>6 DEF charges, periods

RightMisses(opens, closes, misses, colds) ==
    /\ Instants(misses) = {x \in opens..(closes - 1) :
                              x % Day \in WakingStart..(WakingEnd - 1) /\ x \in colds}
    /\ \A m, n \in misses : m # n => m.end <= n.start \/ n.end <= m.start
    /\ \A m \in misses : m.start \in Int /\ m.end \in Int /\ m.start < m.end

Colds(opens) == {x \in Int : ColdAt(opens, x)}

LEMMA MissesAreRight ==
    ASSUME NEW opens, NEW closes, Window(opens, closes)
    PROVE  RightMisses(opens, closes, ComfortMisses(opens, closes), Colds(opens))
<1>1. \A x \in opens..(closes - 1) : x \in Colds(opens) <=> ColdAt(opens, x) BY DEF Colds
<1>2. MissInstants(opens, closes)
        = {x \in opens..(closes - 1) :
              x % Day \in WakingStart..(WakingEnd - 1) /\ x \in Colds(opens)}
  BY <1>1 DEF MissInstants
<1> QED BY <1>2, MissesAreInstants, MissesAreApart DEF RightMisses

-----------------------------------------------------------------------------
(* Two windows of one record.                                              *)

\* A value in force is in force for whoever looks back further.
LEMMA ForceWidens ==
    ASSUME NEW opens, NEW closes, NEW from, NEW to, NEW s, NEW lookback \in Nat, NEW x,
           Within(opens, closes, x), Within(from, to, x), from <= opens,
           InForce(opens, s, x, lookback) # Missing
    PROVE  InForce(from, s, x, lookback) = InForce(opens, s, x, lookback)
<1> DEFINE near == Seen(opens, s, x, lookback)
           far == Seen(from, s, x, lookback)
<1>1. /\ near \in SUBSET (0..Horizon)
      /\ \A t : t \in near <=>
                  /\ t \in 0..(Horizon - 1) /\ opens - lookback <= t /\ t <= x
                  /\ store[s][t] # Missing
      /\ InForce(opens, s, x, lookback)
           = IF near = {} THEN Missing ELSE store[s][Max(near)]
  BY SeenAre
<1>2. /\ far \in SUBSET (0..Horizon)
      /\ \A t : t \in far <=>
                  /\ t \in 0..(Horizon - 1) /\ from - lookback <= t /\ t <= x
                  /\ store[s][t] # Missing
      /\ InForce(from, s, x, lookback)
           = IF far = {} THEN Missing ELSE store[s][Max(far)]
  BY SeenAre
<1>3. opens \in Int /\ from \in Int /\ Horizon \in Nat BY ScaleTyped DEF Within
<1> HIDE DEF near, far
<1>4. near # {} BY <1>1
<1>5. Max(near) \in near /\ \A t \in near : t <= Max(near) BY <1>1, <1>3, <1>4, GreatestIs
<1>6. near \subseteq far
  <2> SUFFICES ASSUME NEW t \in near PROVE t \in far OBVIOUS
  <2>1. /\ t \in 0..(Horizon - 1) /\ opens - lookback <= t /\ t <= x
        /\ store[s][t] # Missing
    BY <1>1
  <2>2. from - lookback <= t BY <1>3, <2>1
  <2> QED BY <1>2, <2>1, <2>2
<1>7. Max(far) \in far /\ \A t \in far : t <= Max(far)
  BY <1>2, <1>3, <1>4, <1>6, GreatestIs
<1>8. Max(near) <= Max(far) BY <1>5, <1>6, <1>7
<1>9. /\ Max(far) \in 0..(Horizon - 1) /\ Max(far) <= x /\ store[s][Max(far)] # Missing
  BY <1>2, <1>7
<1>10. Max(near) \in 0..(Horizon - 1) /\ opens - lookback <= Max(near) BY <1>1, <1>5
<1>11. opens - lookback <= Max(far) BY <1>3, <1>8, <1>9, <1>10
<1>12. Max(far) \in near BY <1>1, <1>9, <1>11
<1>13. Max(far) <= Max(near) BY <1>5, <1>12
<1>14. Max(far) = Max(near) BY <1>8, <1>9, <1>10, <1>13
<1> QED BY <1>1, <1>2, <1>4, <1>6, <1>14

\* A cold room of the narrower window is cold in the wider one.
LEMMA ColdWidens ==
    ASSUME NEW opens, NEW closes, NEW from, NEW to, NEW x,
           Within(opens, closes, x), Within(from, to, x), from <= opens, ColdAt(opens, x)
    PROVE  ColdAt(from, x)
<1>1. PICK s : s = "leather" OBVIOUS
<1>2. ColdAt(opens, x) = IsCold(InForce(opens, s, x, LeatherLookback)) BY <1>1 DEF ColdAt
<1>3. InForce(opens, s, x, LeatherLookback) # Missing BY <1>2 DEF IsCold
<1>4. InForce(from, s, x, LeatherLookback) = InForce(opens, s, x, LeatherLookback)
  BY <1>3, ForceWidens, ScaleTyped
<1> QED BY <1>1, <1>2, <1>4 DEF ColdAt

\* low_t1 says that one of the window's rows is low.
LowRow(opens, closes) == \E t \in Times("t1", opens, closes) : store["t1"][t] < 42

LEMMA LowIs ==
    ASSUME NEW opens, NEW closes, StoreOK
    PROVE  DhwSummary(opens, closes).low_t1 <=> LowRow(opens, closes)
<1> DEFINE T == Times("t1", opens, closes)
           rows == Series("t1", opens, closes)
           values == {rows[t] : t \in DOMAIN rows}
           summary == Summary(rows)
<1>1. DhwSummary(opens, closes).low_t1 = (summary.samples > 0 /\ summary.min < 42)
  BY DEF DhwSummary
<1>2. DOMAIN rows = T /\ \A t \in T : rows[t] = store["t1"][t] BY DEF Series
<1>3. T \in SUBSET (0..Horizon) /\ Horizon \in Nat BY TimesAre, ScaleTyped
<1>4. \A t \in T : store["t1"][t] \in Nat
  <2> SUFFICES ASSUME NEW t \in T PROVE store["t1"][t] \in Nat OBVIOUS
  <2>1. t \in 0..(Horizon - 1) /\ store["t1"][t] # Missing BY TimesAre
  <2>2. "t1" \in Signals BY DEF Signals
  <2>3. store["t1"][t] \in Nat \union {Missing} BY <2>1, <2>2 DEF StoreOK
  <2> QED BY <2>1, <2>3
<1> HIDE DEF T, rows
<1>5. CASE T = {}
  <2>1. summary = [samples |-> 0] BY <1>2, <1>5 DEF Summary
  <2>2. ~(summary.samples > 0) BY <2>1
  <2> QED BY <1>1, <1>5, <2>2 DEF LowRow, T
<1>6. CASE T # {}
  <2>1. summary.samples = Cardinality(T) /\ summary.min = Min(values)
    BY <1>2, <1>6 DEF Summary
  <2>2. Cardinality(T) > 0
    <3>1. IsFiniteSet(0..Horizon) BY <1>3, FS_Interval
    <3>2. IsFiniteSet(T) BY <1>3, <3>1, FS_Subset
    <3>3. Cardinality(T) \in Nat /\ Cardinality(T) # 0
      BY <1>6, <3>2, FS_CardinalityType, FS_EmptySet
    <3> QED BY <3>3
  <2>3. values \in SUBSET Nat /\ values # {} BY <1>2, <1>4, <1>6
  <2>4. Min(values) \in values /\ \A v \in values : Min(values) <= v BY <2>3, LeastIs
  <2>5. Min(values) < 42 <=> \E t \in T : store["t1"][t] < 42
    <3>1. ASSUME Min(values) < 42 PROVE \E t \in T : store["t1"][t] < 42
      <4>1. PICK t \in DOMAIN rows : Min(values) = rows[t] BY <2>4
      <4> QED BY <1>2, <3>1, <4>1
    <3>2. ASSUME NEW t \in T, store["t1"][t] < 42 PROVE Min(values) < 42
      <4>1. rows[t] \in values /\ rows[t] = store["t1"][t] BY <1>2
      <4>2. PICK v \in values : v = store["t1"][t] BY <4>1
      <4>3. PICK m \in Nat : m = Min(values) BY <2>3, <2>4
      <4>4. m <= v /\ v \in Nat BY <2>3, <2>4, <4>3
      <4> HIDE DEF values
      <4> QED BY <3>2, <4>2, <4>3, <4>4
    <3> QED BY <3>1, <3>2
  <2> HIDE DEF summary, values
  <2> QED BY <1>1, <2>1, <2>2, <2>5 DEF LowRow, T
<1> QED BY <1>5, <1>6

LEMMA LowWidens ==
    ASSUME NEW opens \in Int, NEW closes \in Int, NEW from \in Int, NEW to \in Int,
           from <= opens, closes <= to, LowRow(opens, closes)
    PROVE  LowRow(from, to)
<1>1. PICK s : s = "t1" OBVIOUS
<1>2. PICK t \in Times(s, opens, closes) : store[s][t] < 42 BY <1>1 DEF LowRow
<1>3. t \in 0..(Horizon - 1) /\ opens <= t /\ t < closes /\ store[s][t] # Missing
  BY TimesAre
<1>4. from <= t /\ t < to BY <1>3, ScaleTyped
<1>5. t \in Times(s, from, to) BY <1>3, <1>4, TimesAre
<1> QED BY <1>1, <1>2, <1>5 DEF LowRow

-----------------------------------------------------------------------------
(* The report.                                                             *)

RunsNow == {x \in Int : Running(x)}
ColdNow == {x \in Int : Cold(x)}

LowNow ==
    \E t \in 0..(Horizon - 1) :
        since <= t /\ t < until /\ store["t1"][t] # Missing /\ store["t1"][t] < 42

\* The store keeps readings. A report is about a window of the record, its charges and
\* misses are those of the store, and "failing" has something of the store to show.
ReportOK ==
    Asked =>
        /\ Window(since, until)
        /\ RightCharges(since, until, report.charges, RunsNow)
        /\ target = "heating" => RightMisses(since, until, report.misses, ColdNow)
        /\ report.status = "failing" =>
              IF target = "heating" THEN report.misses # {} ELSE LowNow

ReviewInv ==
    /\ StoreOK
    /\ plant \in [Signals -> Nat]
    /\ ReportOK

\* The same readings, of any store and any window.
ForceOf(st, s, low, x) ==
    LET seen == {t \in low..x : st[s][t] # Missing}
    IN  IF seen = {} THEN Missing ELSE st[s][Max(seen)]

RunsOf(st, opens) ==
    {x \in Int : IsCharging(ForceOf(st, "flow", Max({0, opens - FlowLookback}), x))}
ColdOf(st, opens) ==
    {x \in Int : IsCold(ForceOf(st, "leather", Max({0, opens - LeatherLookback}), x))}
LowOf(st, opens, closes) ==
    \E t \in 0..(Horizon - 1) :
        opens <= t /\ t < closes /\ st["t1"][t] # Missing /\ st["t1"][t] < 42

LEMMA ReadingsNow ==
    /\ RunsNow = RunsOf(store, report.since)
    /\ ColdNow = ColdOf(store, report.since)
    /\ LowNow = LowOf(store, report.since, report.until)
    /\ RunsNow' = RunsOf(store', report'.since)
    /\ ColdNow' = ColdOf(store', report'.since)
    /\ LowNow' = LowOf(store', report'.since, report'.until)
<1>1. RunsNow = RunsOf(store, report.since)
  BY DEF RunsNow, Running, InForce, since, RunsOf, ForceOf
<1>2. ColdNow = ColdOf(store, report.since)
  BY DEF ColdNow, Cold, InForce, since, ColdOf, ForceOf
<1>3. LowNow = LowOf(store, report.since, report.until) BY DEF LowNow, LowOf, since, until
<1>4. RunsNow' = RunsOf(store', report'.since)
  BY DEF RunsNow, Running, InForce, since, RunsOf, ForceOf
<1>5. ColdNow' = ColdOf(store', report'.since)
  BY DEF ColdNow, Cold, InForce, since, ColdOf, ForceOf
<1>6. LowNow' = LowOf(store', report'.since, report'.until) BY DEF LowNow, LowOf, since, until
<1> QED BY <1>1, <1>2, <1>3, <1>4, <1>5, <1>6

LEMMA ReadingsOf ==
    ASSUME NEW opens, NEW closes
    PROVE  /\ Runs(opens) = RunsOf(store, opens)
           /\ Colds(opens) = ColdOf(store, opens)
           /\ LowRow(opens, closes) <=> LowOf(store, opens, closes)
<1>1. Runs(opens) = RunsOf(store, opens) BY DEF Runs, RunningAt, InForce, RunsOf, ForceOf
<1>2. Colds(opens) = ColdOf(store, opens) BY DEF Colds, ColdAt, InForce, ColdOf, ForceOf
<1>3. LowRow(opens, closes) <=> LowOf(store, opens, closes) BY DEF LowRow, LowOf, Times
<1> QED BY <1>1, <1>2, <1>3

LEMMA HeatingReportIs ==
    ASSUME NEW opens, NEW closes
    PROVE  /\ HeatingReport(opens, closes).since = opens
           /\ HeatingReport(opens, closes).until = closes
           /\ HeatingReport(opens, closes).charges = ChargePeriods(opens, closes)
           /\ HeatingReport(opens, closes).misses = ComfortMisses(opens, closes)
           /\ HeatingReport(opens, closes).status = "failing" => ComfortMisses(opens, closes) # {}
<1> DEFINE summary == HeatingSummary(opens, closes)
<1>1. /\ summary.misses = ComfortMisses(opens, closes)
      /\ summary.overlaps = ChargePeriods(opens, closes)
  BY DEF HeatingSummary
<1> HIDE DEF summary
<1>2. HeatingReport(opens, closes)
        = [since |-> opens, until |-> closes, status |-> HeatingVerdict(summary),
           misses |-> summary.misses, charges |-> summary.overlaps]
  BY DEF HeatingReport, summary
<1>3. HeatingVerdict(summary) = "failing" => summary.misses # {} BY DEF HeatingVerdict
<1> QED BY <1>1, <1>2, <1>3

LEMMA DhwReportIs ==
    ASSUME NEW opens, NEW closes
    PROVE  /\ DhwReport(opens, closes).since = opens
           /\ DhwReport(opens, closes).until = closes
           /\ DhwReport(opens, closes).charges = Charges(opens, closes)
           /\ DhwReport(opens, closes).status = "failing" => DhwSummary(opens, closes).low_t1
<1> DEFINE summary == DhwSummary(opens, closes)
<1>1. summary.charges = Charges(opens, closes) BY DEF DhwSummary
<1> HIDE DEF summary
<1>2. DhwReport(opens, closes)
        = [since |-> opens, until |-> closes, status |-> DhwVerdict(summary),
           charges |-> summary.charges, charging |-> summary.charging,
           load_stuck |-> summary.load_stuck]
  BY DEF DhwReport, summary
<1>3. DhwVerdict(summary) = "failing" => summary.low_t1 BY DEF DhwVerdict
<1> QED BY <1>1, <1>2, <1>3 DEF summary

\* ReportOK, of any report on any store for any target.
Reported(st, tgt, rep) ==
    rep # NoReport =>
        /\ Window(rep.since, rep.until)
        /\ RightCharges(rep.since, rep.until, rep.charges, RunsOf(st, rep.since))
        /\ tgt = "heating" =>
              RightMisses(rep.since, rep.until, rep.misses, ColdOf(st, rep.since))
        /\ rep.status = "failing" =>
              IF tgt = "heating" THEN rep.misses # {} ELSE LowOf(st, rep.since, rep.until)

LEMMA ReportedIs ==
    /\ ReportOK <=> Reported(store, target, report)
    /\ ReportOK' <=> Reported(store', target', report')
<1>1. ReportOK <=> Reported(store, target, report)
  BY ReadingsNow DEF ReportOK, Reported, Asked, since, until
<1>2. ReportOK' <=> Reported(store', target', report')
  BY ReadingsNow DEF ReportOK, Reported, Asked, since, until
<1> QED BY <1>1, <1>2

LEMMA ReviewReports ==
    ASSUME StoreOK, NEW opens, NEW closes, Window(opens, closes), NEW rep,
           rep = IF target = "heating" THEN HeatingReport(opens, closes)
                                       ELSE DhwReport(opens, closes)
    PROVE  Reported(store, target, rep)
<1>1. CASE target = "heating"
  <2>1. rep = HeatingReport(opens, closes) BY <1>1
  <2>2. /\ rep.since = opens /\ rep.until = closes
        /\ rep.charges = ChargePeriods(opens, closes)
        /\ rep.misses = ComfortMisses(opens, closes)
        /\ rep.status = "failing" => rep.misses # {}
    BY <2>1, HeatingReportIs
  <2>3. RightCharges(opens, closes, rep.charges, RunsOf(store, opens))
    BY <2>2, PeriodsDescribe, ChargesAreRight, ReadingsOf
  <2>4. RightMisses(opens, closes, rep.misses, ColdOf(store, opens))
    BY <2>2, MissesAreRight, ReadingsOf
  <2> QED BY <1>1, <2>2, <2>3, <2>4 DEF Reported
<1>2. CASE target # "heating"
  <2>1. rep = DhwReport(opens, closes) BY <1>2
  <2>2. /\ rep.since = opens /\ rep.until = closes
        /\ rep.charges = Charges(opens, closes)
        /\ rep.status = "failing" => DhwSummary(opens, closes).low_t1
    BY <2>1, DhwReportIs
  <2>3. RightCharges(opens, closes, rep.charges, RunsOf(store, opens))
    BY <2>2, SummariesDescribe, ChargesAreRight, ReadingsOf
  <2>4. rep.status = "failing" => LowOf(store, opens, closes) BY <2>2, LowIs, ReadingsOf
  <2> QED BY <1>2, <2>2, <2>3, <2>4 DEF Reported
<1> QED BY <1>1, <1>2

LEMMA ValuesAreReadings == \A s \in Signals : \A v \in Values[s] : v \in Nat
BY DEF Signals, Values, AutoMode, LoadMode

LEMMA ReviewInit == Init => ReviewInv
<1> SUFFICES ASSUME Init PROVE ReviewInv OBVIOUS
<1>1. StoreOK BY DEF Init, StoreOK
<1>2. plant \in [Signals -> Nat]
  <2>1. 0 \in Nat /\ 46 \in Nat /\ 40 \in Nat /\ AutoMode \in Nat /\ 21 \in Nat /\ 50 \in Nat
    BY DEF AutoMode
  <2> QED BY <2>1 DEF Init, Signals
<1>3. ReportOK BY ReportedIs DEF Init, Reported
<1> QED BY <1>1, <1>2, <1>3 DEF ReviewInv

LEMMA ReviewNext == ReviewInv /\ [Next]_vars => ReviewInv'
<1> SUFFICES ASSUME ReviewInv, [Next]_vars PROVE ReviewInv' OBVIOUS
<1> USE DEF ReviewInv
<1>1. ASSUME Turn, target' = target PROVE StoreOK' /\ ReportOK'
  <2>1. store' = store /\ report' = NoReport BY <1>1 DEF Turn
  <2>2. ReportOK' BY <2>1, ReportedIs DEF Reported
  <2> QED BY <2>1, <2>2 DEF StoreOK
<1>2. ASSUME NEW s \in Signals, NEW v \in Values[s], PlantTurns(s, v) PROVE ReviewInv'
  <2>1. Turn /\ plant' = [plant EXCEPT ![s] = v] BY <1>2 DEF PlantTurns
  <2>2. target' = target BY <2>1 DEF Turn
  <2>3. plant' \in [Signals -> Nat] BY <2>1, ValuesAreReadings
  <2> QED BY <1>1, <2>1, <2>2, <2>3
<1>3. CASE LoopStartsHunting
  <2>1. Turn /\ plant' = plant BY <1>3 DEF LoopStartsHunting
  <2>2. target' = target BY <2>1 DEF Turn
  <2> QED BY <1>1, <2>1, <2>2
<1>4. ASSUME NEW l, LoggerTurns(l) PROVE ReviewInv'
  <2>1. Turn /\ plant' = plant BY <1>4 DEF LoggerTurns
  <2>2. target' = target BY <2>1 DEF Turn
  <2> QED BY <1>1, <2>1, <2>2
<1>5. CASE Record
  <2>1. report' = NoReport BY <1>5 DEF Record
  <2>2. ReportOK' BY <2>1, ReportedIs DEF Reported
  <2>3. plant' \in [Signals -> Nat]
    <3>1. CASE hunting
      <4>1. plant' = [plant EXCEPT !["curve"] = IF plant["curve"] = 50 THEN 60 ELSE 50]
        BY <1>5, <3>1 DEF Record
      <4> QED BY <4>1
    <3>2. CASE ~hunting BY <1>5, <3>2 DEF Record
    <3> QED BY <3>1, <3>2
  <2>4. StoreOK'
    <3>1. ASSUME NEW s \in Signals
          PROVE  [store[s] EXCEPT ![now] = plant[s]] \in [0..(Horizon - 1) -> Nat \union {Missing}]
      BY DEF StoreOK
    <3>2. store' = [s \in Signals |->
                       IF \E l \in down : s \in Writes[l] THEN store[s]
                       ELSE [store[s] EXCEPT ![now] = plant[s]]]
      BY <1>5 DEF Record
    <3>3. \A s \in Signals : store[s] \in [0..(Horizon - 1) -> Nat \union {Missing}]
      BY DEF StoreOK
    <3>4. store' \in [Signals -> [0..(Horizon - 1) -> Nat \union {Missing}]]
      BY <3>1, <3>2, <3>3
    <3> QED BY <3>4 DEF StoreOK
  <2> QED BY <2>2, <2>3, <2>4
<1>6. ASSUME NEW w \in Windows, Review(w[1], w[2]) PROVE ReviewInv'
  <2>1. /\ store' = store /\ target' = target /\ plant' = plant
        /\ report' = IF target = "heating" THEN HeatingReport(w[1], w[2])
                                           ELSE DhwReport(w[1], w[2])
    BY <1>6 DEF Review
  <2>2. Window(w[1], w[2]) BY WindowsAssumption DEF Window
  <2>3. PICK opens, closes : opens = w[1] /\ closes = w[2] OBVIOUS
  <2>4. PICK rep : rep = report' OBVIOUS
  <2>5. Window(opens, closes)
        /\ rep = IF target = "heating" THEN HeatingReport(opens, closes)
                                       ELSE DhwReport(opens, closes)
    BY <2>1, <2>2, <2>3, <2>4
  <2>6. Reported(store, target, rep) BY <2>5, ReviewReports
  <2>7. ReportOK' BY <2>1, <2>4, <2>6, ReportedIs
  <2>8. StoreOK' BY <2>1 DEF StoreOK
  <2> QED BY <2>1, <2>7, <2>8
<1>7. CASE UNCHANGED vars
  <2>1. store' = store /\ target' = target /\ plant' = plant /\ report' = report
    BY <1>7 DEF vars
  <2>2. ReportOK' BY <2>1, ReportedIs
  <2>3. StoreOK' BY <2>1 DEF StoreOK
  <2> QED BY <2>1, <2>2, <2>3
<1> QED BY <1>2, <1>3, <1>4, <1>5, <1>6, <1>7 DEF Next

LEMMA ReviewInvariant == Spec => []ReviewInv
BY ReviewInit, ReviewNext, PTL DEF Spec

-----------------------------------------------------------------------------
(* The theorems.                                                           *)

\* The charges printed are those of the record, whatever cut the window or the loggers
\* made: no run of the minimum and a bucket is missed or split, none is made up, and
\* none is shorter than the minimum or counted twice.
THEOREM ChargesAreTheRecords == Spec => []ChargesAsRecorded
<1>1. ReviewInv => ChargesAsRecorded
  <2> SUFFICES ASSUME ReviewInv, Asked PROVE ChargesAsRecorded BY DEF ChargesAsRecorded
  <2>1. RightCharges(since, until, report.charges, RunsNow) BY DEF ReviewInv, ReportOK
  <2>2. \A x \in Int : Running(x) => x \in RunsNow BY DEF RunsNow
  <2>3. \A x \in RunsNow : Running(x) BY DEF RunsNow
  <2>4. \A a \in since..until : \A b \in (a + MinCharge + Bucket - 1)..until :
              (\A x \in a..(b - 1) : Running(x)) =>
                  \E p \in report.charges :
                      p.start <= a /\ p.end >= b - (Bucket - 1)
    <3> SUFFICES ASSUME NEW a \in since..until,
                        NEW b \in (a + MinCharge + Bucket - 1)..until,
                        \A x \in a..(b - 1) : Running(x)
                 PROVE  \E p \in report.charges : p.start <= a /\ p.end >= b - (Bucket - 1)
      OBVIOUS
    <3>1. \A x \in a..(b - 1) : x \in RunsNow BY <2>2
    <3> QED BY <2>1, <3>1 DEF RightCharges
  <2>5. \A x \in Instants(report.charges) : Running(Min({BucketOf(x) + Bucket, until}) - 1)
    BY <2>1, <2>3 DEF RightCharges
  <2> QED BY <2>1, <2>4, <2>5 DEF RightCharges, ChargesAsRecorded
<1> QED BY <1>1, ReviewInvariant, PTL

\* The comfort misses printed are, to the instant, the cold waking instants of the window,
\* and no instant is counted twice: neither the periods nor the clipping at midnight and
\* at the waking hours adds or loses one.
THEOREM MissesAreTheRecords == Spec => []MissesAsRecorded
<1>1. ReviewInv => MissesAsRecorded
  <2> SUFFICES ASSUME ReviewInv, Asked, target = "heating" PROVE MissesAsRecorded
    BY DEF MissesAsRecorded
  <2>1. RightMisses(since, until, report.misses, ColdNow) BY DEF ReviewInv, ReportOK
  <2>2. \A x \in since..(until - 1) : x \in ColdNow <=> Cold(x) BY DEF ColdNow
  <2>3. Instants(report.misses) =
              {x \in since..(until - 1) :
                  x % Day \in WakingStart..(WakingEnd - 1) /\ Cold(x)}
    BY <2>1, <2>2 DEF RightMisses
  <2> QED BY <2>1, <2>3 DEF RightMisses, MissesAsRecorded
<1> QED BY <1>1, ReviewInvariant, PTL

\* Evidence of a failure is not lost by asking about more: whatever the record, no window
\* around one that is "failing" is "working".
THEOREM WiderIsNeverBlessed == Spec => []WiderNeverBlessed
<1>1. ReviewInv => WiderNeverBlessed
  <2> SUFFICES ASSUME ReviewInv, Asked, report.status = "failing",
                      NEW from \in 0..since, NEW to \in until..Horizon
               PROVE  StatusOf(from, to) # "working"
    BY DEF WiderNeverBlessed
  <2>1. PICK opens, closes : opens = report.since /\ closes = report.until OBVIOUS
  <2>2. /\ opens = since /\ closes = until /\ Window(opens, closes)
        /\ target = "heating" => RightMisses(opens, closes, report.misses, ColdNow)
        /\ IF target = "heating" THEN report.misses # {} ELSE LowNow
    BY <2>1 DEF ReviewInv, ReportOK, since, until
  <2>3. ColdNow = Colds(opens) /\ (LowNow <=> LowRow(opens, closes))
    BY <2>1, ReadingsNow, ReadingsOf
  <2>4. opens \in 0..Horizon /\ closes \in 0..Horizon /\ Horizon \in Nat
    BY <2>2, ScaleTyped DEF Window
  <2>5. /\ from \in Nat /\ from <= opens /\ to \in Int /\ closes <= to /\ to <= Horizon
        /\ opens \in Int /\ closes \in Int /\ from \in Int
    BY <2>2, <2>4
  <2>6. Window(from, to) BY <2>4, <2>5 DEF Window
  <2>7. CASE target = "heating"
    <3>1. PICK m \in report.misses : TRUE BY <2>2, <2>7
    <3>2. m.start \in Int /\ m.end \in Int /\ m.start < m.end
      BY <2>2, <2>7 DEF RightMisses
    <3>3. PICK x : x = m.start OBVIOUS
    <3>4. x \in m.start..(m.end - 1) BY <3>2, <3>3
    <3>5. x \in Instants(report.misses) BY <3>4 DEF Instants
    <3>6. /\ x \in opens..(closes - 1) /\ x \in Colds(opens)
          /\ x % Day \in WakingStart..(WakingEnd - 1)
      BY <2>2, <2>3, <2>7, <3>5 DEF RightMisses
    <3>7. x \in from..(to - 1) BY <2>4, <2>5, <3>6
    <3>8. Within(opens, closes, x) BY <2>4, <3>6 DEF Within
    <3>9. Within(from, to, x) BY <2>6, <3>7 DEF Within, Window
    <3>10. ColdAt(opens, x) BY <3>6 DEF Colds
    <3>11. ColdAt(from, x) BY <2>5, <3>8, <3>9, <3>10, ColdWidens
    <3>12. x \in MissInstants(from, to) BY <3>6, <3>7, <3>11 DEF MissInstants
    <3>13. x \in Instants(ComfortMisses(from, to)) BY <2>6, <3>12, MissesAreInstants
    <3>14. ComfortMisses(from, to) # {} BY <3>13 DEF Instants
    <3>15. PICK summary : summary = HeatingSummary(from, to) OBVIOUS
    <3>16. summary.misses # {} BY <3>14, <3>15 DEF HeatingSummary
    <3>17. HeatingVerdict(summary) # "working" BY <3>16 DEF HeatingVerdict
    <3> QED BY <2>7, <3>15, <3>17 DEF StatusOf
  <2>8. CASE target # "heating"
    <3>1. LowRow(opens, closes) BY <2>2, <2>3, <2>8
    <3>2. LowRow(from, to) BY <2>5, <3>1, LowWidens
    <3>3. DhwSummary(from, to).low_t1 BY <3>2, LowIs DEF ReviewInv
    <3>4. PICK summary : summary = DhwSummary(from, to) OBVIOUS
    <3>5. summary.low_t1 BY <3>3, <3>4
    <3>6. DhwVerdict(summary) # "working" BY <3>5 DEF DhwVerdict
    <3> QED BY <2>8, <3>4, <3>6 DEF StatusOf
  <2> QED BY <2>7, <2>8
<1> QED BY <1>1, ReviewInvariant, PTL
=============================================================================
