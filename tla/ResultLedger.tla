---------------------------- MODULE ResultLedger ----------------------------
(***************************************************************************)
(* What syncLeagueStandings promises the reader of the league table, with  *)
(* no handlers, stale reads or rows in it: a result is posted to the lines *)
(* of its two teams, one after the other, before the result may change     *)
(* again; and it is always posted in the end.                              *)
(***************************************************************************)
CONSTANTS
  Matches,
  Sides,
  Rows,          \* what the Match table may hold for a match
  StatsOf(_, _)  \* what a row is worth to the team on a side

VARIABLES
  matches,  \* the stored matches
  posted    \* posted[m][s]: what m has added to the line of its team on side s

vars == <<matches, posted>>

Current(m) == \A s \in Sides : posted[m][s] = StatsOf(matches[m], s)

Init ==
  /\ matches \in [Matches -> Rows]
  /\ posted \in [Matches -> [Sides -> {StatsOf(row, s) : row \in Rows, s \in Sides}]]
  /\ \A m \in Matches : Current(m)

\* A match is created, scheduled, scored, decided, corrected or withdrawn.
Change(m, row) ==
  /\ Current(m)
  /\ matches' = [matches EXCEPT ![m] = row]
  /\ UNCHANGED posted

Post(m, s) ==
  /\ posted[m][s] # StatsOf(matches[m], s)
  /\ posted' = [posted EXCEPT ![m][s] = StatsOf(matches[m], s)]
  /\ UNCHANGED matches

Next ==
  \E m \in Matches :
    \/ \E row \in Rows : Change(m, row)
    \/ \E s \in Sides : Post(m, s)

Spec ==
  /\ Init /\ [][Next]_vars
  /\ \A m \in Matches, s \in Sides : WF_vars(Post(m, s))
=============================================================================
