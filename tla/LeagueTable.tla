----------------------------- MODULE LeagueTable -----------------------------
(***************************************************************************)
(* The league table as its readers see it (getStandings, getTopScorers):   *)
(* properties of MatchResults that add up the rows of a team, of a player  *)
(* or of the whole table, and the ledger MatchResults implements.          *)
(***************************************************************************)
EXTENDS MatchResults, FiniteSetsExt

CONSTANT LedgerRows   \* what the Match table holds in the instance checked

AllQuiet == \A m \in Matches : Quiet(m)

\* A column of the table, over all the rows team t has.
RowSum(t, c) ==
  MapThenSumSet(LAMBDA i : standings[t][i][c], DOMAIN standings[t])

\* The same column, from the match results themselves.
Earned(t, c) ==
  LET Worth(m) == (IF Home[m] = t THEN GetStats(matches[m], "home")[c] ELSE 0)
                + (IF Away[m] = t THEN GetStats(matches[m], "away")[c] ELSE 0)
  IN  MapThenSumSet(Worth, Matches)

\* Whenever no handler is at work the table says what the results say, column
\* by column, even if handlers of different matches of a team interleaved and
\* both found no row and created one.  Needs what Settled needs.
TableExact ==
  AllQuiet => \A t \in Teams, c \in Columns : RowSum(t, c) = Earned(t, c)

Total(c) == MapThenSumSet(LAMBDA t : RowSum(t, c), Teams)

NoneFailed == \A r \in Requests : pc[r] # "failed"

\* Whenever no handler is at work, and none failed, every goal for is a goal
\* against, every win somebody's defeat and the draws pair up, even after
\* updates of one match overlapped and counted it twice: both teams get deltas
\* of the same two rows.
TableBalanced ==
  AllQuiet /\ NoneFailed =>
              /\ Total("goalsFor") = Total("goalsAgainst")
              /\ Total("won") = Total("lost")
              /\ Total("drawn") % 2 = 0

\* The events of each kind a player has been credited with in PlayerStat are
\* those in the event log, if no handler failed, also when two first events
\* of a player raced and left the player with two rows.
PlayerTally ==
  AllQuiet /\ NoneFailed => \A p \in Players, t \in StatTypes :
    MapThenSumSet(LAMBDA i : statRows[p][i][t], DOMAIN statRows[p])
      = Cardinality({e \in events : e.body.player = p /\ e.body.type = t})

Ledger == INSTANCE ResultLedger WITH Rows <- LedgerRows, StatsOf <- GetStats

\* If requests for a match do not overlap, none fails and no goal is logged
\* after the final whistle, the handlers implement the ledger: no result
\* changes before it is posted to both lines, each posting is exact, and a
\* handler that has written a result goes on to post it.
ImplementsLedger == Ledger!Spec
=============================================================================
