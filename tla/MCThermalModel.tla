--------------------------- MODULE MCThermalModel ---------------------------
(* ThermalModel on the canonical house, with four days of telemetry in      *)
(* readings every two hours: four nights without heating, three days with.  *)
EXTENDS ThermalModel, CanonicalHouse

\* The rows and columns of the printed table.
TableOutsides == [i \in 1..26 |-> i - 6]
TableSuns == <<0, 100, 300, 500>>

Series(is(_)) == Tabled([i \in 1..63 |-> [at |-> 4 * (i - 1), is |-> is(4 * (i - 1))]])

\* From midnight in steps of two hours: how often a room has lost what it
\* loses in two hours, and what the heat pump does.
Lost == <<1, 2, 3, 4, 4, 3, 2, 2, 1, 1, 0, 0>>
Flow == <<0, 0, 0, 0, 800, 800, 800, 800, 850, 1000, 1000, 0>>
Phase(t) == ((t % 48) \div 4) + 1

\* Base temperature and loss in two hours, in 1/20 degC.
Cooling == [
    aldora |-> <<400, 6>>, bathroom |-> <<410, 4>>, conservatory |-> <<340, 22>>,
    elvina |-> <<400, 7>>, front |-> <<400, 6>>, hall |-> <<390, 7>>, jackcarol |-> <<400, 4>>,
    kitchen |-> <<400, 7>>, landing |-> <<395, 8>>, leather |-> <<410, 6>>,
    office |-> <<390, 9>>, sterling |-> <<385, 3>>]

Room(n) == Series(LAMBDA t : Cooling[n][1] - Cooling[n][2] * Lost[Phase(t)])

FourDays == [
    rooms   |-> [n \in DOMAIN Cooling |-> Room(n)]
                @@ [shower |-> <<[at |-> 48, is |-> 400]>>],
    outside |-> Series(LAMBDA t : Degrees(8) - 10 * Lost[Phase(t)]),
    status  |-> Series(LAMBDA t : IF Flow[Phase(t)] = 0 THEN 100 ELSE 104),
    flow    |-> Series(LAMBDA t : Flow[Phase(t)]),
    mwt     |-> Series(LAMBDA t : Degrees(32)),
    pv      |-> Series(LAMBDA t : IF Phase(t) \in 6..8 THEN -1500 ELSE 0),
    wind    |-> Series(LAMBDA t : 4),
    sun     |-> Series(LAMBDA t : [sw |-> 100, ne |-> 20, neHorizontal |-> 40])]

Step(min, max, step) == [min |-> min, max |-> max, step |-> step]
Span(from, to) == [from |-> from, to |-> to]
Holdout(from, to, closed) == [from |-> from, to |-> to, closed |-> closed]

\* thermal-config.toml with a coarser grid.
Plain == [
    nights      |-> <<Span(46, 58), Span(94, 106)>>,
    exclude     |-> {"landing", "conservatory"},
    priorWeight |-> 10,
    priors      |-> [landing |-> 130, cd |-> 20],
    bounds      |-> [leather |-> Step(40, 90, 25), landing |-> Step(80, 160, 20),
                     conservatory |-> Step(100, 600, 250), office |-> Step(80, 400, 160),
                     cd |-> Step(10, 30, 10)],
    wind        |-> [enabled |-> FALSE, perMs |-> 0, max |-> 250],
    windows     |-> <<Holdout(142, 154, FALSE), Holdout(190, 202, TRUE)>>,
    thresholds  |-> [rmse |-> 700, bias |-> 300, within |-> 800],
    fit         |-> [from |-> Some(0), to |-> None, off |-> {100, 134}, minPeriod |-> 0,
                     minRecord |-> 1, minCooling |-> 30, minRatio |-> 10, closed |-> FALSE]]

Windy == [Plain EXCEPT
    !.exclude = {}, !.priorWeight = 0, !.wind = [enabled |-> TRUE, perMs |-> 10, max |-> 250],
    !.thresholds.rmse = 100, !.fit.from = None, !.fit.minCooling = 10000]

\* A second night beyond the telemetry.
Early == [Plain EXCEPT !.nights[2] = Span(350, 360)]

SomeConfigs == [plain |-> Plain, windy |-> Windy, early |-> Early]
TwoNows == {202, 250}

Held == [config |-> "plain", at |-> 202]
=============================================================================
