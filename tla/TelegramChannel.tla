-------------------------- MODULE TelegramChannel --------------------------
(***************************************************************************)
(* What a listener of the eBUS may count on: telegrams are heard in the    *)
(* order they were sent, each at most once and exactly as it was sent;     *)
(* any of them may be missed.                                              *)
(***************************************************************************)
EXTENDS Naturals, Sequences

CONSTANT Telegrams

VARIABLES
    transit,    \* sent, and neither heard nor missed so far
    heard

Init == transit = <<>> /\ heard = <<>>

Send == \E t \in Telegrams :
    /\ transit' = Append(transit, t)
    /\ UNCHANGED heard

\* The first n are over: one of them was heard, or none.
Pass(n) ==
    /\ transit' = SubSeq(transit, n + 1, Len(transit))
    /\ \/ heard' = heard
       \/ \E i \in 1..n : heard' = Append(heard, transit[i])

Next == Send \/ \E n \in 1..Len(transit) : Pass(n)

Spec == Init /\ [][Next]_<<transit, heard>>
=============================================================================
