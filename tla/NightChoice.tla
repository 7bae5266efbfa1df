---------------------------- MODULE NightChoice ----------------------------
(***************************************************************************)
(* What overnight_analysis does with the backtest of each night: the       *)
(* strategy it picks at each target temperature, the totals it adds up and *)
(* the counts it prints. The results themselves are any numbers here;      *)
(* Overnight computes them from the recorded nights.                       *)
(***************************************************************************)
EXTENDS Integers, Sequences

CONSTANTS
    TARGET_SWEEP,   \* target temperatures compared
    TARGET_TEMP,    \* the strict target, one of them
    Flexed,         \* the relaxed target of the key insight
    Recommended     \* the target of the strategy breakdown

ASSUME NightChoiceAssumption ==
    /\ TARGET_SWEEP \subseteq Int
    /\ {TARGET_TEMP, Flexed, Recommended} \subseteq TARGET_SWEEP
    /\ Flexed <= TARGET_TEMP

VARIABLES
    schedules,  \* the strategies, in the order they were generated
    results,    \* per night, the actual result and one per strategy
    tallied,    \* nights added to the totals below
    adaptive,   \* target |-> cost, nights that met it
    actual,     \* cost and nights at the strict target as measured
    strat_accum, \* strategy |-> cost, nights at the strict target
    optimal,    \* cost of the night summaries
    picks,      \* strategy, 0 for the actual one |-> nights, pence saved
    breakdown,  \* counts of the breakdown by kind
    outcome     \* how the run stands

choiceVars == <<schedules, results, tallied, adaptive, actual, strat_accum, optimal,
                picks, breakdown, outcome>>

Shape == {"continuous", "dhw_first", "heat_first"}
Mode == {"norm", "eco"}
Counted == {"off", "continuous", "actual", "norm", "eco", "heat_first", "dhw_first"}

SimResult == [cost: Nat, cosy: Nat, total: Nat, t07: Int]
NightResult == [actual: SimResult, sims: Seq(SimResult)]
Strategy == [shape: Shape, mode: Mode, off_at: Int, dhw_start: Int, heat_on: Int]

\* The sum of a function over what it has of 0..n.
Summed(f, n) ==
    LET upTo[i \in 0..n] == (IF i = 0 THEN 0 ELSE upTo[i - 1])
                                + IF i \in DOMAIN f THEN f[i] ELSE 0
    IN  upTo[n]

-----------------------------------------------------------------------------
Feasible(r, target) == {i \in DOMAIN r.sims : r.sims[i].t07 >= target}

\* Mutant: max_by.
CheapestMax(r, target) ==
    CHOOSE i \in Feasible(r, target) : \A j \in Feasible(r, target) :
        r.sims[i].cost >= r.sims[j].cost

\* min_by keeps the first of equals.
Cheapest(r, target) ==
    CHOOSE i \in Feasible(r, target) : \A j \in Feasible(r, target) :
        \/ r.sims[i].cost < r.sims[j].cost
        \/ r.sims[i].cost = r.sims[j].cost /\ i <= j

\* Mutant: the cheapest feasible strategy even where the actual night was cheaper.
ChosenAlways(r, target) ==
    IF Feasible(r, target) # {} THEN Cheapest(r, target) ELSE 0

\* The strategy of a night at a target; 0 keeps what was done.
Chosen(r, target) ==
    IF Feasible(r, target) # {} /\ r.sims[Cheapest(r, target)].cost <= r.actual.cost
    THEN Cheapest(r, target) ELSE 0

Of(r, i) == IF i = 0 THEN r.actual ELSE r.sims[i]

\* max_by keeps the last of equals.
Warmest(r) ==
    CHOOSE i \in DOMAIN r.sims : \A j \in DOMAIN r.sims :
        \/ r.sims[i].t07 > r.sims[j].t07
        \/ r.sims[i].t07 = r.sims[j].t07 /\ j <= i

\* Mutant: the warmest strategy, whatever it costs.
SummarisedWarm(r) ==
    IF Feasible(r, TARGET_TEMP) = {} THEN Warmest(r) ELSE Chosen(r, TARGET_TEMP)

\* The strategy of a night in the sample and the monthly summary.
Summarised(r) ==
    IF Feasible(r, TARGET_TEMP) = {} /\ r.sims[Warmest(r)].cost <= r.actual.cost
    THEN Warmest(r) ELSE Chosen(r, TARGET_TEMP)

Met(result, target) == IF result.t07 >= target THEN 1 ELSE 0

Add(total, result, target) ==
    [cost |-> total.cost + result.cost, nights |-> total.nights + Met(result, target)]

-----------------------------------------------------------------------------
Zero == [cost |-> 0, nights |-> 0]

ChoiceInit ==
    /\ schedules = <<>> /\ results = <<>> /\ tallied = 0
    /\ adaptive = [target \in TARGET_SWEEP |-> Zero]
    /\ actual = Zero /\ strat_accum = <<>> /\ optimal = 0
    /\ picks = <<>> /\ breakdown = [c \in Counted |-> 0] /\ outcome = "none"

\* The command starts: nothing is known of earlier runs.
ChoiceBegin ==
    /\ outcome' = "running" /\ schedules' = <<>> /\ results' = <<>> /\ tallied' = 0
    /\ adaptive' = [target \in TARGET_SWEEP |-> Zero]
    /\ actual' = Zero /\ strat_accum' = <<>> /\ optimal' = 0
    /\ picks' = <<>> /\ breakdown' = [c \in Counted |-> 0]

\* The strategies are listed.
ChoiceSchedules(list) ==
    /\ outcome = "running" /\ results = <<>> /\ tallied = 0
    /\ schedules' = list
    /\ strat_accum' = [i \in DOMAIN list |-> Zero]
    /\ picks' = [i \in {0} \union DOMAIN list |-> [nights |-> 0, saved |-> 0]]
    /\ UNCHANGED <<results, tallied, adaptive, actual, optimal, breakdown, outcome>>

\* The backtest of one more night is done.
ChoiceDeliver(r) ==
    /\ outcome = "running"
    /\ r \in NightResult /\ DOMAIN r.sims = DOMAIN schedules
    /\ results' = Append(results, r)
    /\ UNCHANGED <<schedules, tallied, adaptive, actual, strat_accum, optimal, picks,
                   breakdown, outcome>>

Kinds(i) ==
    IF i = 0 THEN {"actual"}
    ELSE LET l == schedules[i]
         IN  {l.mode} \union (IF l.shape = "continuous" THEN {"continuous"}
                              ELSE {"off", l.shape})

\* Mutant: the saving is that of the cheapest feasible strategy, taken or not.
PickAny(r) ==
    LET i == Chosen(r, Recommended)
    IN  [picks EXCEPT ![i].nights = @ + 1,
                      ![i].saved = @ + r.actual.cost - Of(r, ChosenAlways(r, Recommended)).cost]

Pick(r) ==
    LET i == Chosen(r, Recommended)
    IN  [picks EXCEPT ![i].nights = @ + 1,
                      ![i].saved = @ + r.actual.cost - Of(r, i).cost]

\* One more night is added to every total; without a strategy to fall back on, the
\* warmest of none is unwrapped.
TallyNight(r) ==
    /\ outcome = "running"
    /\ IF r.sims = <<>>
       THEN outcome' = "panicked" /\ UNCHANGED <<tallied, adaptive, actual, strat_accum,
                                                 optimal, picks, breakdown>>
       ELSE /\ tallied' = tallied + 1
            /\ adaptive' = [target \in TARGET_SWEEP |->
                    Add(adaptive[target], Of(r, Chosen(r, target)), target)]
            /\ actual' = Add(actual, r.actual, TARGET_TEMP)
            /\ strat_accum' = [i \in DOMAIN strat_accum |->
                    Add(strat_accum[i], r.sims[i], TARGET_TEMP)]
            /\ optimal' = optimal + Of(r, Summarised(r)).cost
            /\ picks' = Pick(r)
            /\ breakdown' = [c \in Counted |->
                    breakdown[c] + IF c \in Kinds(Chosen(r, Recommended)) THEN 1 ELSE 0]
            /\ UNCHANGED outcome
    /\ UNCHANGED <<schedules, results>>

ChoiceTally ==
    /\ tallied < Len(results)
    /\ TallyNight(results[tallied + 1])

\* "more cold-night savings" is a difference of unsigned counts.
ChoiceReport ==
    /\ outcome = "running" /\ tallied = Len(results)
    /\ outcome' = IF adaptive[Flexed].nights < adaptive[TARGET_TEMP].nights
                  THEN "panicked" ELSE "printed"
    /\ UNCHANGED <<schedules, results, tallied, adaptive, actual, strat_accum, optimal,
                   picks, breakdown>>

\* An error ends the run: the tariff cannot be loaded, or has no rate for an instant.
ChoiceFail ==
    /\ outcome = "running"
    /\ outcome' = "failed"
    /\ UNCHANGED <<schedules, results, tallied, adaptive, actual, strat_accum, optimal,
                   picks, breakdown>>

ChoiceNext ==
    \/ ChoiceBegin
    \/ schedules' \in Seq(Strategy) /\ ChoiceSchedules(schedules')
    \/ results' # <<>> /\ ChoiceDeliver(results'[Len(results')])
    \/ ChoiceTally \/ ChoiceReport \/ ChoiceFail

ChoiceSpec == ChoiceInit /\ [][ChoiceNext]_choiceVars

-----------------------------------------------------------------------------
(* A lower target never costs more and is never met on fewer nights, so    *)
(* that the count of nights gained by flexing the target (overnight.rs,    *)
(* relaxed.feasible_count - strict.feasible_count) does not wrap.          *)
TargetsMonotone ==
    \A a, b \in TARGET_SWEEP : a <= b =>
        /\ adaptive[a].cost <= adaptive[b].cost
        /\ adaptive[a].nights >= adaptive[b].nights

(* The printed totals are ordered: the monthly optimum is at most the      *)
(* adaptive total, which is at most the measured one, and at most that of  *)
(* any one strategy that met the target every night.                       *)
TotalsOrdered ==
    /\ optimal <= adaptive[TARGET_TEMP].cost
    /\ \A target \in TARGET_SWEEP : adaptive[target].cost <= actual.cost
    /\ \A i \in DOMAIN strat_accum : strat_accum[i].nights = tallied =>
            adaptive[TARGET_TEMP].cost <= strat_accum[i].cost

(* The strategy breakdown counts every night once in each of its           *)
(* partitions, and the savings it lists by strategy add up to what the     *)
(* sensitivity sweep prints for the same target.                           *)
PicksAddUp ==
    outcome \in {"running", "printed"} =>
        /\ Summed([i \in DOMAIN picks |-> picks[i].nights], Len(schedules)) = tallied
        /\ Summed([i \in DOMAIN picks |-> picks[i].saved], Len(schedules))
                = actual.cost - adaptive[Recommended].cost
        /\ breakdown["off"] + breakdown["continuous"] + breakdown["actual"] = tallied
        /\ breakdown["norm"] + breakdown["eco"] = breakdown["off"] + breakdown["continuous"]
        /\ breakdown["heat_first"] + breakdown["dhw_first"] = breakdown["off"]
=============================================================================
