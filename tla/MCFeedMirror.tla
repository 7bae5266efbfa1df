---------------------------- MODULE MCFeedMirror ----------------------------
(* Instances of FeedMirror for TLC.                                        *)
EXTENDS FeedMirror

AllFeeds == <<"outside_temp", "elec_power", "elec_energy", "flow_temp">>
FilledFeeds == {"elec_power", "flow_temp"}
OutsideOnly == {"outside_temp"}

\* A cold snap puts one minute out of the reach of the others' bins.
Weather == [t \in Minute |-> IF t = 3 THEN 1 ELSE 5]

\* A charge may start the day; an outage may take any minute but the first.
Days == <<{"heat", "dhw"}, {"heat", "lostRun"}, {"dhw", "lostRun"}, {"heat", "lostRun"}>>
=============================================================================
