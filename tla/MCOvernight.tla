---------------------------- MODULE MCOvernight ----------------------------
(* Instances of Overnight for TLC: a night of ten coarse minutes.          *)
EXTENDS Overnight

Pumped(out, in, elec, heat, flow, dt) ==
    [out |-> out, in |-> in, elec |-> elec, heat |-> heat, flow |-> flow, dt |-> dt]
Heat(out, in, elec) == Pumped(out, in, elec, 4 * elec, 143, 40)
Poor(out, in, elec) == Pumped(out, in, elec, 2 * elec, 143, 30)
Idle(out, in) == Pumped(out, in, 10, 0, 0, 0)
Dhw(out, in) == Pumped(out, in, 1200, 3000, 205, 50)

\* The valve on its way, and a reversed cycle.
Between(out, in) == Pumped(out, in, 1100, 2800, 148, 40)
Defrost(out, in) == Pumped(out, in, 900, -600, 205, -20)

InDhwBefore == [current |-> "dhw", pre |-> "dhw"]
Winter(rows) == [winter |-> TRUE, before |-> Unknown, rows |-> [o \in 0..Len(rows) - 1 |-> rows[o + 1]]]
Without(track, gone) ==
    [track EXCEPT !.rows = [o \in DOMAIN track.rows \ gone |-> track.rows[o]]]

\* Held at a setback all night, then hot water and a recovery.
Setback(out, elec) == Winter(<<
    Idle(out, 197), Idle(out, 182), Idle(out, 180), Poor(out, 180, elec),
    Poor(out, 180, elec), Dhw(out, 180), Dhw(out, 170), Poor(out, 172, elec + 600),
    Poor(out, 176, elec + 600), Poor(out, 180, elec + 600)>>)

\* Off, and recovered in the morning.
Off(out, elec) == Winter(<<
    Heat(out, 196, elec), Heat(out, 199, elec), Idle(out, 198), Idle(out, 190),
    Idle(out, 182), Heat(out, 179, elec), Heat(out, 185, elec), Heat(out, 192, elec),
    Heat(out, 197, elec), Dhw(out, 196)>>)

\* A charge from before the night is thrown into reverse and taken up again; then
\* heated all night, poorly.
Held(out, elec) == [Winter(<<
    Between(out, 197), Defrost(out, 196), Between(out, 194), Poor(out, 192, elec),
    Poor(out, 190, elec), Dhw(out, 185), Poor(out, 185, elec), Between(out, 186),
    Poor(out, 186, elec), Poor(out, 186, elec)>>) EXCEPT !.before = InDhwBefore]

MCTracks == <<
    {Held(30, 1800), Off(-10, 1500)},
    {Setback(-10, 2600), Without(Off(30, 1400), {7, 8, 9})},
    {Without(Held(30, 1900), {4, 6}), Held(70, 2000),
     [Setback(30, 900) EXCEPT !.winter = FALSE], Without(Off(30, 900), 4..9),
     Winter([o \in 1..10 |-> Idle(180, 200)])}>>
MCTariffs == {[from |-> 5, to |-> 8], [from |-> 4, to |-> 7], [from |-> 3, to |-> 5],
               [from |-> 5, to |-> 5]}
MCFallback == [from |-> 5, to |-> 8]
MCModes == <<[name |-> "norm", duration |-> 1, elec |-> 2400],
             [name |-> "eco", duration |-> 2, elec |-> 950]>>
MCDefrostDt == -5
MCOffTimes == <<3, 4>>
MCBinEdges == <<-20, 0, 20, 40, 60>>
MCSweep == {195, 190, 185, 180, 175, 170}
=============================================================================
