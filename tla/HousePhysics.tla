---------------------------- MODULE HousePhysics ----------------------------
(* The thermal network of src/thermal/physics.rs: what flows into a room at *)
(* a temperature, given the other rooms, the weather and the radiators.     *)
(*                                                                          *)
(* Temperatures are in 1/20 degC, conductances in 1/10 W/K, so a power is   *)
(* in 1/200 W. A house is a record of its rooms, the order in which the     *)
(* code walks them, its internal walls and its doorways, as                 *)
(* build_rooms, build_connections and build_doorways make them from         *)
(* thermal_geometry.json. Sums over fabric elements of one reference        *)
(* temperature are taken beforehand, since the loss is linear in them.      *)
EXTENDS Integers, FiniteSets, FiniteSetsExt, Sequences, SequencesExt

None == {}                          \* Option: no element, or the one
Some(x) == {x}
TheOne(option) == CHOOSE x \in option : TRUE

(* A map with one more entry, or with another value for a key it has.       *)
Inserted(map, key, value) ==
    [k \in DOMAIN map \cup {key} |-> IF k = key THEN value ELSE map[k]]

SumOver(f) == MapThenSumSet(LAMBDA x : f[x], DOMAIN f)

Degrees(c) == 20 * c
Ground == 210                       \* 10.5 degC
CylinderTemp == Degrees(44)
CylinderUA == 16                    \* 1.6 W/K
PipeAndShower == 200 * (42 + 16)
Asleep == 200 * 70
Awake == 200 * 100

(* ACH, kept share of the heat and wind multiplier are in per cent.         *)
VentilationUA(r, wind) ==
    (((335 * r.ach * r.volume * r.kept) \div 1000000) * wind) \div 100

ExternalLoss(r, t, outside) == r.fabric * (t - outside) + r.ground * (t - Ground)
VentilationLoss(r, t, outside, wind) == VentilationUA(r, wind) * (t - outside)
WallConduction(ua, ta, tb) == ua * (ta - tb)

(* 1000 * (dt / 50 K) ^ 1.3, by straight lines between knots 5 K apart.     *)
Knots == <<0, 50, 123, 209, 304, 406, 515, 629, 748, 872, 1000, 1132, 1267,
           1406, 1549, 1694, 1843>>

RadiatorOutput(t50, mwt, t) ==
    LET dt == mwt - t
        k == dt \div 100
        share == Knots[k + 1] + ((Knots[k + 2] - Knots[k + 1]) * (dt % 100)) \div 100
    IN  IF dt <= 0 THEN 0 ELSE (t50 * share) \div 5

(* Ten times the square root of 0 .. 1400, rounded down.                    *)
TenRoots == [n \in 0..1400 |-> CHOOSE r \in 0..375 :
                                   r * r <= 100 * n /\ 100 * n < (r + 1) * (r + 1)]

AbsOf(x) == IF x < 0 THEN -x ELSE x

(* A doorway carries heat as dt ^ 1.5. Its gain is the watts it carries at  *)
(* 1 K per unit of discharge coefficient, at a mean of 19 degC: the code's  *)
(* division by the mean temperature changes it by less than 3 per cent.     *)
(* Its deadband of 0.01 K is below one unit. cd is in per cent.             *)
DoorwayExchange(door, ta, tb, cd) ==
    LET dt == ta - tb
        gain == IF door.state = "partial" THEN door.gain \div 2 ELSE door.gain
        power == ((gain * cd * AbsOf(dt)) \div 447) * TenRoots[AbsOf(dt)]
    IN  CASE door.state = "closed" -> 0
          [] dt < 0 -> -power
          [] OTHER -> power

Irradiance(pane, sun) ==
    CASE pane.facing = "SW" /\ pane.tilt = "vertical"   -> sun.sw
      [] pane.facing = "SW" /\ pane.tilt = "sloping"    -> (14 * sun.sw) \div 10
      [] pane.facing = "SW" /\ pane.tilt = "horizontal" -> (12 * sun.sw) \div 10
      [] pane.facing = "NE" /\ pane.tilt = "horizontal" -> sun.neHorizontal
      [] pane.facing = "NE" /\ pane.tilt = "sloping"    -> (14 * sun.ne) \div 10
      [] pane.facing = "SE"                             -> (sun.sw + sun.ne) \div 2
      [] OTHER                                          -> sun.ne

\* Mutant: the sun counted among the losses.
SolarLoss(r, sun) == -SumOver([p \in r.panes |-> 2 * p.size * Irradiance(p, sun)])

(* A pane's size is its area, g-value and shading together, in 1/100 m2.    *)
SolarGain(r, sun) == SumOver([p \in r.panes |-> 2 * p.size * Irradiance(p, sun)])

(* The temperatures a wall or doorway to room n sees: its own, or for the   *)
(* head of the stairs the rooms around it, or none.                         *)
Seen(n, known) ==
    CASE n \in DOMAIN known -> {n}
      [] n \notin DOMAIN known /\ n = "top_landing" -> {"landing", "shower"} \cap DOMAIN known
      [] OTHER -> {}

MeanOf(rooms, known) == SumOver([r \in rooms |-> known[r]]) \div Cardinality(rooms)

(* The links of room n with the temperature on their other side.            *)
Across(n, links, known) ==
    LET other(l) == Seen(IF l.a = n THEN l.b ELSE l.a, known)
        mine == {l \in links : n \in {l.a, l.b} /\ other(l) # {}}
    IN  [l \in mine |-> MeanOf(other(l), known)]

(* What flows into a room at t: at has the outside temperature, mean water  *)
(* temperature, discharge coefficient, wind multiplier, whether people      *)
(* sleep, and the sun.                                                      *)
Balance(r, n, walls, doors, t, at) ==
    LET radiators == SelectSeq(r.radiators, LAMBDA x : x.active)
    IN  - ExternalLoss(r, t, at.outside)
        - VentilationLoss(r, t, at.outside, at.wind)
        + (IF at.mwt > 0
           THEN SumOver([i \in DOMAIN radiators |-> RadiatorOutput(radiators[i].t50, at.mwt, t)])
           ELSE 0)
        + r.people * (IF at.sleeping THEN Asleep ELSE Awake)
        + SolarGain(r, at.sun)
        + (IF n = "bathroom"
           THEN CylinderUA * Max({CylinderTemp - t, 0}) + PipeAndShower
           ELSE 0)
        - SumOver([l \in DOMAIN walls |-> WallConduction(l.ua, t, walls[l])])
        - SumOver([l \in DOMAIN doors |-> DoorwayExchange(l, t, doors[l], at.cd)])

RoomEnergyBalance(house, n, t, known, at) ==
    Balance(house.rooms[n], n, Across(n, house.walls, known), Across(n, house.doors, known),
            t, at)

Dark == [sw |-> 0, ne |-> 0, neHorizontal |-> 0]

(* A night with the heating off: room_energy_balance.                       *)
Cooldown(outside, cd, wind) ==
    [outside |-> outside, mwt |-> 0, cd |-> cd, wind |-> wind, sleeping |-> TRUE,
     sun |-> Dark]

(* kJ/K of a room: air, brick or studwork with plaster for its outer walls  *)
(* and for the inner walls its conductances imply (2.37 W/m2K), a concrete  *)
(* or timber floor, plaster and furniture.                                  *)
Mass(r, n, walls) ==
    LET brick == r.construction \in {"brick", "brick_suspended"}
        implied == SumOver([w \in {w \in walls : n \in {w.a, w.b} /\ w.ua > 0} |->
                                (w.ua * 100) \div 237])
        slab == r.floor = "Gnd" /\ r.construction # "brick_suspended"
    IN  (12 * r.volume + (IF brick THEN 89 ELSE 27) * (10 * r.wall + implied)
         + 10 * (IF slab THEN 200 ELSE 50) * r.area + 320 * r.area) \div 10

ThermalMass(house, n) == Mass(house.rooms[n], n, house.walls)

AllDoorsClosedExceptChimney(doors) ==
    {[d EXCEPT !.state = IF @ = "chimney" THEN @ ELSE "closed"] : d \in doors}
=============================================================================
