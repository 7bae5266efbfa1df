--------------------------- MODULE MCDhwSessions ---------------------------
(* Instances of DhwSessions for TLC.                                       *)
EXTENDS DhwSessions

At(flow, bc, t1, t2, hwc) ==
    [flow |-> flow, bc |-> bc, t1 |-> t1, t2 |-> t2, hwc |-> hwc, m |-> TRUE, e |-> TRUE]
NoMeter(s) == [s EXCEPT !.m = FALSE]
NoPoll(s) == [s EXCEPT !.e = FALSE]

Idle(t1) == At(0, 900, t1, 3000, 4000)
Charging(t1, hwc) == At(0, 1260, t1, 3000, hwc)
Bath(t1) == At(12, 900, t1, 1000, 4000)
During(s) == [s EXCEPT !.bc = 1260]
Colder(t1) == At(12, 900, t1, 600, 4000)
Shower(t1) == At(6, 900, t1, 2200, 4000)

(* A draw before a charge, the charge, and two draws that empty what it stored. *)
Day == <<
    {Idle(4700), Bath(4500)},
    {Idle(4500)},
    {Charging(4500, 4000)},
    {Charging(4450, 4500), NoPoll(Charging(4450, 4500))},
    {Idle(4500), During(Bath(4500))},
    {Bath(4500), Shower(4500)},
    {Bath(4500), NoMeter(Bath(4500))},
    {Bath(4450), Shower(4490)},
    {Idle(4490), Idle(4400)},
    {Idle(4400)},
    {Idle(4400)},
    {Idle(4400), Colder(4350)},
    {Colder(4250)},
    {Idle(4200)}>>
=============================================================================
