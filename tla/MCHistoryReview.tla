-------------------------- MODULE MCHistoryReview --------------------------
(***************************************************************************)
(* A record of ten ticks.  A bucket is two ticks and the minimum charge    *)
(* three, so that windows begin and end inside a bucket; a day is five     *)
(* ticks with three of waking, so that a cold room crosses two nights.     *)
(***************************************************************************)
EXTENDS HistoryReview

MCWindows == {<<1, 10>>, <<3, 10>>, <<4, 9>>, <<6, 6>>}
=============================================================================
