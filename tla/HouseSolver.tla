----------------------------- MODULE HouseSolver -----------------------------
(* How the thermal model finds the water temperature that holds a room at a *)
(* target: solve_equilibrium_temps, bisect_mwt_for_room and                 *)
(* generate_control_table of src/thermal/display.rs. A step is one sweep    *)
(* over the rooms, or the use that is made of the temperatures found.       *)
EXTENDS HousePhysics

CONSTANTS
    House,              \* the geometry, see HousePhysics
    Outsides,           \* degC, the rows of the table from the first
    Suns                \* W/m2 on the south-west wall, its columns

VARIABLES
    ask,                \* the point being worked on and where its search is
    temps,              \* room temperatures of the sweep under way
    change,             \* largest change the last sweep saw
    sweeps,             \* sweeps made for this water temperature
    probed,             \* water temperature -> Leather, for this point
    table               \* point -> required water temperature, or None

solverVars == <<ask, temps, change, sweeps, probed, table>>

Idle == [stage |-> "idle"]

(* The code halves [-10, 50] degC until it is 1e-6 wide and stops sweeping  *)
(* when no room moved by 1e-4; here the search stops one unit wide and a    *)
(* room has moved when it moves by two. The 100 halvings the code allows    *)
(* are never used up: 26 suffice there, 11 here.                            *)
Coldest == Degrees(-10)
Hottest == Degrees(50)
Tol == 2
MaxSweeps == 200
FirstGuess == [n \in DOMAIN House.rooms |-> Degrees(19)]

ColdestWater == Degrees(15)
HottestWater == Degrees(60)
Width == 1                          \* 0.05 degC
TargetLeather == 410                \* 20.5 degC

(* Daytime, doorways at a coefficient of 0.20, no wind.                     *)
Daytime(outside, mwt, sw, ne) ==
    [outside |-> outside, mwt |-> mwt, cd |-> 20, wind |-> 100, sleeping |-> FALSE,
     sun |-> [sw |-> sw, ne |-> ne, neHorizontal |-> 0]]

(* The search for the temperature at which room n gains nothing. Each probe *)
(* is written into the map of temperatures, which keeps the last of them.   *)
SolveRoom(n, known, at) ==
    LET probe(t) == [known EXCEPT ![n] = t]
        warms(t) == RoomEnergyBalance(House, n, t, probe(t), at) > 0
        halve[lo \in Int, hi \in Int, last \in Int] ==
            LET mid == (lo + hi) \div 2
            IN  CASE hi - lo <= 1 -> [found |-> mid, temps |-> probe(last)]
                  [] hi - lo > 1 /\ warms(mid) -> halve[mid, hi, mid]
                  [] OTHER -> halve[lo, mid, mid]
    IN  halve[Coldest, Hottest, known[n]]

(* One room of a sweep. The change is measured from what insert returns.    *)
Settle(sweep, n, at) ==
    LET solved == SolveRoom(n, sweep.temps, at)
        old == solved.temps[n]
    IN  [temps |-> [solved.temps EXCEPT ![n] = solved.found],
         change |-> Max({sweep.change, AbsOf(solved.found - old)})]

Swept(known, at) ==
    FoldLeft(LAMBDA s, n : Settle(s, n, at), [temps |-> known, change |-> 0], House.order)

(* The water temperature being tried.                                       *)
Water ==
    CASE ask.stage = "hottest" -> HottestWater
      [] ask.stage = "coldest" -> ColdestWater
      [] OTHER -> (ask.lo + ask.hi) \div 2

At == Daytime(Degrees(ask.outside), Water, ask.sun, 0)

Converged == sweeps > 0 /\ (change < Tol \/ sweeps = MaxSweeps)

SweepRooms ==
    /\ ask # Idle
    /\ ~Converged
    /\ LET swept == Swept(temps, At)
       IN  temps' = swept.temps /\ change' = swept.change
    /\ sweeps' = sweeps + 1
    /\ UNCHANGED <<ask, probed, table>>

(* The next water temperature starts from the first guess again.            *)
TryAnother ==
    /\ temps' = FirstGuess
    /\ change' = 0
    /\ sweeps' = 0

Leather == temps["leather"]
Probed == probed' = Inserted(probed, Water, Leather)

(* Required and the point is done.                                          *)
Fill(mwt) ==
    /\ table' = Inserted(table, <<ask.outside, ask.sun>>, mwt)
    /\ ask' = Idle

Continue(next) ==
    /\ ask' = next
    /\ UNCHANGED table

HottestTried ==
    /\ ask.stage = "hottest"
    /\ IF Leather < TargetLeather THEN Fill(None) ELSE Continue([ask EXCEPT !.stage = "coldest"])

ColdestTried ==
    /\ ask.stage = "coldest"
    /\ IF Leather >= TargetLeather
       THEN Fill(Some(ColdestWater))
       ELSE Continue([ask EXCEPT !.stage = "halve"])

\* Mutant: the half is kept on which Leather is warm enough.
HalfTriedWrongWay ==
    /\ ask.stage = "halve"
    /\ LET next == IF Leather >= TargetLeather
                   THEN [ask EXCEPT !.lo = Water]
                   ELSE [ask EXCEPT !.hi = Water]
       IN  IF next.hi - next.lo <= Width
           THEN Fill(Some((next.lo + next.hi) \div 2))
           ELSE Continue(next)

HalfTried ==
    /\ ask.stage = "halve"
    /\ LET next == IF Leather < TargetLeather
                   THEN [ask EXCEPT !.lo = Water]
                   ELSE [ask EXCEPT !.hi = Water]
       IN  IF next.hi - next.lo <= Width
           THEN Fill(Some((next.lo + next.hi) \div 2))
           ELSE Continue(next)

UseTemps ==
    /\ ask # Idle
    /\ Converged
    /\ HottestTried \/ ColdestTried \/ HalfTried
    /\ Probed
    /\ TryAnother

(* generate_control_table takes the outside temperatures in turn and, for   *)
(* each, the suns.                                                          *)
Filled == Cardinality(DOMAIN table)
TableDone == Filled = Len(Outsides) * Len(Suns)

NextPoint ==
    /\ ask = Idle
    /\ ~TableDone
    /\ ask' = [outside |-> Outsides[Filled \div Len(Suns) + 1],
               sun |-> Suns[(Filled % Len(Suns)) + 1],
               lo |-> ColdestWater, hi |-> HottestWater, stage |-> "hottest"]
    /\ probed' = <<>>
    /\ TryAnother
    /\ UNCHANGED table

SolverInit ==
    /\ ask = Idle
    /\ temps = FirstGuess
    /\ change = 0
    /\ sweeps = 0
    /\ probed = <<>>
    /\ table = <<>>

SolverNext == NextPoint \/ SweepRooms \/ UseTemps

-----------------------------------------------------------------------------

(* What the search for the water temperature stands on: the interval it has *)
(* narrowed down to is too cold at its lower end and warm enough at its     *)
(* upper one, and of two water temperatures tried for one point the hotter  *)
(* never left Leather colder.                                               *)
BisectionSound ==
    /\ ask.stage = "halve" =>
           /\ probed[ask.lo] < TargetLeather
           /\ probed[ask.hi] >= TargetLeather
    /\ \A m1, m2 \in DOMAIN probed : m1 <= m2 => probed[m1] <= probed[m2]

(* Across the table milder weather or more sun never asks for hotter water, *)
(* and the points out of reach lie at the cold and dull corner.             *)
TableMonotone ==
    \A p, q \in DOMAIN table :
        (p[1] <= q[1] /\ p[2] <= q[2]) =>
            \/ table[p] = None
            \/ table[q] # None /\ \A a \in table[p], b \in table[q] : b <= a

(* "for each room in turn, find the temperature where total energy balance  *)
(* = 0 (holding other rooms fixed), then sweep repeatedly until all rooms   *)
(* converge": the temperatures used are an equilibrium, every room's        *)
(* balance changing sign within the tolerance.                              *)
SweepsConverge ==
    ask # Idle /\ Converged =>
        \A n \in DOMAIN House.rooms :
            /\ RoomEnergyBalance(House, n, temps[n] - Tol, temps, At) > 0
            /\ RoomEnergyBalance(House, n, temps[n] + Tol, temps, At) <= 0
=============================================================================
