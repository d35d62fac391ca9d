----------------------------- MODULE MCFixtures -----------------------------
(* Instances of Fixtures. *)
EXTENDS Fixtures

Saturday == 20001   \* 2024-10-05
MCStartDates == {Saturday, Saturday + 3}
MCDaySets == {{6, 0}, {3}, {1, 4, 5}}
DayTimes == {<<18, 0>>, <<9, 30>>, <<7, 0>>, <<23, 30>>}
Closing == {<<22, 0>>, <<23, 59>>, <<19, 30>>}
Early == {<<6, 30>>}
NewYork == -5 * 60
Zones == {NewYork, 0, 7 * 60, 9 * 60}
MCDurations == {45, 120}
=============================================================================
