------------------------ MODULE MCHeatingController ------------------------
(* Instances of HeatingController for TLC.                                 *)
EXTENDS HeatingController, TLC

Handlers == Permutations(Handler)

Occupied == <<"Occupied", "mode">>
ShortAbsence == <<"ShortAbsence", "mode">>

OnAndOff == {Occupied, Kill}
OnOffAndAway == {Occupied, ShortAbsence, Kill}
KillOnly == {Kill}

(* The history variables decide nothing, so a run whose properties do not  *)
(* look at late and since need not tell states apart by them.              *)
WithoutModeHistory ==
    <<vrc, rt, file, pc, loc, inp, hs, cli, now, bounds, launches>>
=============================================================================
