--------------------------- MODULE MCMatchResults ---------------------------
(* Instances of MatchResults: team A plays B at home and C away, so that    *)
(* handlers of the two matches meet in the line of A.                       *)
EXTENDS LeagueTable, TLC

CONSTANTS A, B, C, m1, m2

MCTeams == {A, B, C}
MCMatches == {m1, m2}
MCHome == m1 :> A @@ m2 :> C
MCAway == m1 :> B @@ m2 :> A

Dto(status, home, away) == [status |-> status, home |-> home, away |-> away]
Row(status, home, away) == Dto(status, home, away)
Event(type, side, player) == [type |-> type, side |-> side, player |-> player]

\* reportScore twice with different results, a correction of one score, and a
\* result withdrawn.
MCUpdateDtos == {Dto("COMPLETED", 1, 0), Dto("COMPLETED", 1, 1),
                 Dto(NoStatus, NoScore, 2), Dto("LIVE", NoScore, NoScore)}
SomeUpdates == {Dto("COMPLETED", 1, 0), Dto(NoStatus, NoScore, 2),
                Dto("LIVE", NoScore, NoScore)}
OneUpdate == {Dto("COMPLETED", 1, 0)}

AnyPlayer == CHOOSE p \in Players : TRUE
MCEventDtos == {Event("GOAL", "home", AnyPlayer),
                Event("OWN_GOAL", "home", NoPlayer),
                Event("ASSIST", "away", NoPlayer)}
GoalDtos == {Event("GOAL", "home", AnyPlayer),
             Event("OWN_GOAL", "home", NoPlayer)}
OneGoal == {Event("GOAL", "away", AnyPlayer)}
NoEvents == {}

OpenRows == {Row("SCHEDULED", 0, 0), Row("DRAFT", 0, 0)}
SomeOpenRows == {NoMatch, Row("LIVE", 0, 1)}
MCNewRows == {Row("SCHEDULED", 0, 0)}
PlayedRows == {Row("SCHEDULED", 0, 0), Row("COMPLETED", 2, 1)}
NoRows == {}

MCLedgerRows == [status : Statuses \cup {NoStatus}, home : 0..4, away : 0..4]

SymmetricRequests == Permutations(Requests)
=============================================================================
