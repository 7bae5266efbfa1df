----------------------------- MODULE MCEbusLine -----------------------------
(* Instances of EbusLine for TLC.                                          *)
EXTENDS EbusLine

\* A broadcast with a SYN among its data, a command to a master, a read answered by a
\* byte that needs an escape.
Time == [qq |-> 16, zz |-> 254, pb |-> 7, sb |-> 0, db |-> <<170>>, sdb |-> <<>>]
Status == [qq |-> 16, zz |-> 0, pb |-> 181, sb |-> 5, db |-> <<39>>, sdb |-> <<>>]
Query == [qq |-> 16, zz |-> 8, pb |-> 181, sb |-> 9, db |-> <<>>, sdb |-> <<169>>]

Traffic == {Time, Status, Query}
AllCourses == {"acked", "refused", "unanswered", "repeated"}
Glitches == {170, 0, 16}
=============================================================================
