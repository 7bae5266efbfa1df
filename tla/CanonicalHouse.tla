--------------------------- MODULE CanonicalHouse ---------------------------
(* The house of data/canonical/thermal_geometry.json, in the units of       *)
(* HousePhysics: conductances rounded to 0.1 W/K, volumes to 1 m3, areas to *)
(* 1 m2, panes (area, g-value and shading together) to 0.01 m2.             *)
LOCAL INSTANCE Integers

Radiator(t50, active) == [t50 |-> t50, active |-> active]
Pane(facing, tilt, size) == [facing |-> facing, tilt |-> tilt, size |-> size]
Wall(a, b, ua) == [a |-> a, b |-> b, ua |-> ua]
Door(a, b, gain, state) == [a |-> a, b |-> b, gain |-> gain, state |-> state]

CanonicalRooms == [
    aldora |->
        [fabric |-> 92, ground |-> 0, ach |-> 30, volume |-> 31, kept |-> 100, people |-> 1,
         construction |-> "timber", floor |-> "Loft", area |-> 14, wall |-> 31,
         radiators |-> <<Radiator(376, TRUE)>>,
         panes |-> {Pane("NE", "horizontal", 21), Pane("NE", "vertical", 108)}],
    bathroom |->
        [fabric |-> 256, ground |-> 0, ach |-> 75, volume |-> 43, kept |-> 22, people |-> 0,
         construction |-> "brick", floor |-> "1st", area |-> 18, wall |-> 13,
         radiators |-> <<Radiator(614, TRUE), Radiator(382, TRUE)>>,
         panes |-> {}],
    conservatory |->
        [fabric |-> 752, ground |-> 84, ach |-> 100, volume |-> 55, kept |-> 100, people |-> 0,
         construction |-> "brick", floor |-> "Gnd", area |-> 21, wall |-> 15,
         radiators |-> <<Radiator(2833, TRUE), Radiator(2867, TRUE)>>,
         panes |-> {Pane("NE", "horizontal", 206), Pane("NE", "vertical", 88)}],
    elvina |->
        [fabric |-> 145, ground |-> 0, ach |-> 51, volume |-> 61, kept |-> 100, people |-> 1,
         construction |-> "timber", floor |-> "Loft", area |-> 28, wall |-> 54,
         radiators |-> <<Radiator(909, TRUE)>>,
         panes |-> {Pane("SW", "sloping", 60), Pane("SW", "vertical", 166)}],
    front |->
        [fabric |-> 258, ground |-> 123, ach |-> 75, volume |-> 42, kept |-> 100, people |-> 0,
         construction |-> "brick_suspended", floor |-> "Gnd", area |-> 16, wall |-> 8,
         radiators |-> <<Radiator(2425, TRUE), Radiator(2376, TRUE)>>,
         panes |-> {Pane("SW", "vertical", 101)}],
    hall |->
        [fabric |-> 413, ground |-> 73, ach |-> 10, volume |-> 25, kept |-> 100, people |-> 0,
         construction |-> "brick_suspended", floor |-> "Gnd", area |-> 10, wall |-> 17,
         radiators |-> <<Radiator(2376, TRUE)>>,
         panes |-> {Pane("SW", "vertical", 20)}],
    jackcarol |->
        [fabric |-> 222, ground |-> 0, ach |-> 29, volume |-> 34, kept |-> 100, people |-> 2,
         construction |-> "brick", floor |-> "1st", area |-> 14, wall |-> 7,
         radiators |-> <<Radiator(1950, TRUE)>>,
         panes |-> {Pane("SW", "vertical", 94)}],
    kitchen |->
        [fabric |-> 216, ground |-> 44, ach |-> 10, volume |-> 23, kept |-> 100, people |-> 0,
         construction |-> "brick", floor |-> "Gnd", area |-> 9, wall |-> 9,
         radiators |-> <<>>,
         panes |-> {}],
    landing |->
        [fabric |-> 63, ground |-> 0, ach |-> 30, volume |-> 14, kept |-> 100, people |-> 0,
         construction |-> "timber", floor |-> "1st", area |-> 6, wall |-> 3,
         radiators |-> <<>>,
         panes |-> {}],
    leather |->
        [fabric |-> 0, ground |-> 85, ach |-> 67, volume |-> 44, kept |-> 100, people |-> 0,
         construction |-> "brick_suspended", floor |-> "Gnd", area |-> 17, wall |-> 0,
         radiators |-> <<Radiator(2376, TRUE), Radiator(2376, TRUE)>>,
         panes |-> {}],
    office |->
        [fabric |-> 214, ground |-> 0, ach |-> 120, volume |-> 13, kept |-> 100, people |-> 0,
         construction |-> "brick", floor |-> "1st", area |-> 5, wall |-> 9,
         radiators |-> <<Radiator(1345, TRUE)>>,
         panes |-> {Pane("SW", "vertical", 7)}],
    shower |->
        [fabric |-> 49, ground |-> 0, ach |-> 5, volume |-> 9, kept |-> 100, people |-> 0,
         construction |-> "timber", floor |-> "Loft", area |-> 4, wall |-> 20,
         radiators |-> <<Radiator(752, TRUE)>>,
         panes |-> {}],
    sterling |->
        [fabric |-> 154, ground |-> 0, ach |-> 5, volume |-> 43, kept |-> 100, people |-> 0,
         construction |-> "brick", floor |-> "1st", area |-> 18, wall |-> 9,
         radiators |-> <<Radiator(1176, FALSE)>>,
         panes |-> {}],
    top_landing |->
        [fabric |-> 0, ground |-> 0, ach |-> 20, volume |-> 4, kept |-> 100, people |-> 0,
         construction |-> "timber", floor |-> "Loft", area |-> 2, wall |-> 0,
         radiators |-> <<>>,
         panes |-> {}]]

CanonicalWalls == {
    Wall("bathroom", "landing", 29), Wall("bathroom", "shower", 79),
    Wall("front", "jackcarol", 226), Wall("front", "leather", 151),
    Wall("hall", "elvina", 8), Wall("hall", "front", 268),
    Wall("hall", "kitchen", 188), Wall("hall", "leather", 219),
    Wall("hall", "office", 13), Wall("jackcarol", "elvina", 63),
    Wall("jackcarol", "landing", 123), Wall("jackcarol", "office", 100),
    Wall("kitchen", "bathroom", 139), Wall("kitchen", "front", 120),
    Wall("kitchen", "leather", 71), Wall("leather", "conservatory", 211),
    Wall("leather", "sterling", 269), Wall("office", "elvina", 23),
    Wall("office", "landing", 125), Wall("sterling", "aldora", 79),
    Wall("sterling", "bathroom", 71), Wall("sterling", "jackcarol", 165),
    Wall("sterling", "landing", 190)}

CanonicalDoors == {
    Door("hall", "front", 167, "partial"), Door("hall", "kitchen", 167, "open"),
    Door("hall", "landing", 262, "chimney"), Door("kitchen", "conservatory", 167, "open"),
    Door("landing", "bathroom", 167, "open"), Door("landing", "jackcarol", 167, "closed"),
    Door("landing", "office", 167, "open"), Door("top_landing", "shower", 146, "chimney"),
    Door("landing", "sterling", 167, "closed"), Door("landing", "top_landing", 216, "chimney")}

(* The names in the order of the BTreeMap the code walks.                   *)
CanonicalOrder ==
    <<"aldora", "bathroom", "conservatory", "elvina", "front", "hall", "jackcarol",
      "kitchen", "landing", "leather", "office", "shower", "sterling", "top_landing">>

CanonicalHouse ==
    [rooms |-> CanonicalRooms, walls |-> CanonicalWalls, doors |-> CanonicalDoors,
     order |-> CanonicalOrder]
=============================================================================
