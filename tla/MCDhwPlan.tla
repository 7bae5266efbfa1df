----------------------------- MODULE MCDhwPlan -----------------------------
(* Instances of DhwPlan for TLC.                                           *)
EXTENDS DhwPlan

At(hour, minute) == Stroke(60 * hour + minute)
W(from, to) == [start |-> 60 * from, end |-> to]

\* The deployed fallback windows, windows whose morning does not end at
\* waking, and a tariff with two windows; both ways to write midnight.
Tariffs ==
    { { W(4, 420), W(13, 960), W(22, 1439) },
      { W(3, 360), W(13, 960), W(22, 0) },
      { W(4, 420), W(22, 0) } }

\* The corners of the windows, of the night and of waking.
Corners ==
    { At(0, 0), At(1, 30), At(4, 0), At(6, 59) + 1, At(7, 0),
      At(13, 0), At(23, 59), At(23, 59) + 1 }

\* Cold, warm by waking only if read after 00:28, and warm all day.
Temperatures == {3700, 4150, 4700}

\* The last reading counts by its day, by whether it came after waking, and by the
\* morning it called for: readings that agree on these are one.
Gist(r) == <<r.day, r.clock > Stroke(Waking) + 1, r.t1 = 0, Call(r)>>
PlanView == <<windows, day, clock, dst, timer, memory, Gist(seen), needed, launched, again, restored>>
=============================================================================
