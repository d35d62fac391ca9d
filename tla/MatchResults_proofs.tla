------------------------ MODULE MatchResults_proofs ------------------------
(***************************************************************************)
(* Theorems about the match handlers, for any number of teams, matches,    *)
(* players and requests, any bodies and scores.                            *)
(***************************************************************************)
EXTENDS MatchResults, SequenceTheorems, TLAPS

-----------------------------------------------------------------------------
(* The arithmetic of the table. *)

\* What a match is worth to a team has the columns of a line.
LEMMA GetStatsType ==
  ASSUME NEW row \in MatchRow, NEW s \in Sides
  PROVE  GetStats(row, s) \in StatLine
<1>1. CASE row.status # "COMPLETED"
  BY <1>1 DEF GetStats, StatLine, NoStats
<1>2. CASE row.status = "COMPLETED"
  <2>1. GoalsFor(row, s) \in Nat /\ GoalsAgainst(row, s) \in Nat
    BY DEF GoalsFor, GoalsAgainst, MatchRow
  <2>2. QED
    BY <1>2, <2>1 DEF GetStats, StatLine, Columns
<1>3. QED
  BY <1>1, <1>2

\* Differences and sums of lines are lines.
LEMMA LineType ==
  ASSUME NEW s \in StatLine, NEW t \in StatLine
  PROVE  Minus(s, t) \in StatLine /\ Plus(s, t) \in StatLine
<1>1. Minus(s, t) \in StatLine
  BY DEF StatLine, Minus
<1>2. Plus(s, t) \in StatLine
  BY DEF StatLine, Plus
<1>3. QED
  BY <1>1, <1>2

\* A created standing and an incremented one are rows of the table.
LEMMA StandingType ==
  ASSUME NEW s \in StatLine
  PROVE  /\ NewStanding(s) \in Standing
         /\ \A row \in Standing : Increment(row, s) \in Standing
<1>1. NewStanding(s) \in Standing
  BY DEF StatLine, Standing, NewStanding, Difference, Columns
<1>2. ASSUME NEW row \in Standing PROVE Increment(row, s) \in Standing
  BY DEF StatLine, Standing, Increment, Difference, Columns
<1>3. QED
  BY <1>1, <1>2

\* A line that is undone and replaced becomes the new line.
LEMMA Replace ==
  ASSUME NEW s \in StatLine, NEW t \in StatLine
  PROVE  /\ Plus(s, Minus(t, s)) = t
         /\ Plus(NoStats, t) = t
         /\ Minus(t, s) = NoStats => t = s
<1>1. Plus(s, Minus(t, s)) = t
  BY DEF StatLine, Plus, Minus
<1>2. Plus(NoStats, t) = t
  BY DEF StatLine, Plus, NoStats
<1>3. ASSUME Minus(t, s) = NoStats PROVE t = s
  BY <1>3 DEF StatLine, Minus, NoStats
<1>4. QED
  BY <1>1, <1>2, <1>3

\* Writing one element of a sequence changes neither its kind nor its length;
\* writing outside the sequence changes nothing.
LEMMA WriteElement ==
  ASSUME NEW S, NEW q \in Seq(S), NEW i, NEW v, i \in DOMAIN q => v \in S
  PROVE  /\ [q EXCEPT ![i] = v] \in Seq(S)
         /\ Len([q EXCEPT ![i] = v]) = Len(q)
         /\ DOMAIN [q EXCEPT ![i] = v] = DOMAIN q
<1> DEFINE w == [q EXCEPT ![i] = v]
<1>1. Len(q) \in Nat /\ DOMAIN q = 1 .. Len(q) /\ \A j \in DOMAIN q : q[j] \in S
  BY LenProperties, ElementOfSeq
<1>2. DOMAIN w = 1 .. Len(q)
  BY <1>1
<1>3. \A j \in 1 .. Len(q) : w[j] \in S
  BY <1>1
<1>4. w = [j \in 1 .. Len(q) |-> w[j]]
  BY <1>2
<1>5. w \in [1 .. Len(q) -> S]
  BY <1>3, <1>4
<1>6. w \in Seq(S) /\ Len(w) = Len(q)
  BY <1>1, <1>2, <1>5, SeqDef, LenProperties
<1>7. QED
  BY <1>1, <1>2, <1>6

-----------------------------------------------------------------------------
(* Type correctness. *)

\* A handler may go to any label; to the player statistics only with a player.
LEMMA GotoType ==
  ASSUME TypeOK, NEW r \in Requests, NEW label \in Labels, Goto(r, label),
         event' = event,
         label \in {"findStat", "applyStat"} =>
           event[r].player \in Players /\ event[r].type \in StatTypes
  PROVE  pc' \in [Requests -> Labels] /\ StatsHavePlayer'
BY DEF Goto, TypeOK, StatsHavePlayer

LEMMA MergeType ==
  ASSUME NEW row \in MatchRow, NEW d \in UpdateDto
  PROVE  Merge(row, d) \in MatchRow
BY DEF Merge, MatchRow, UpdateDto, NoScore, NoStatus

LEMMA FindStandingType ==
  ASSUME TypeOK, NEW r \in Requests, NEW s \in Sides,
         NEW go \in Labels \ {"findStat", "applyStat"},
         NEW skip \in Labels \ {"findStat", "applyStat"},
         FindStanding(r, s, go, skip)
  PROVE  TypeOK'
<1>1. pc' \in [Requests -> Labels] /\ StatsHavePlayer'
  BY GotoType DEF FindStanding
<1>2. TeamOf(on[r], s) \in Teams
  BY MatchesAssumption DEF TypeOK, TeamOf
<1>3. DOMAIN standings[TeamOf(on[r], s)] \subseteq Nat
  BY <1>2 DEF TypeOK
<1>4. found' \in [Requests -> Nat]
  <2>1. CASE \E i \in FindFirst(standings[TeamOf(on[r], s)]) :
               found' = [found EXCEPT ![r] = i]
    BY <2>1, <1>3 DEF TypeOK, FindFirst
  <2>2. CASE found' = found
    BY <2>2 DEF TypeOK
  <2>3. QED
    BY <2>1, <2>2 DEF FindStanding
<1>5. QED
  BY <1>1, <1>4 DEF FindStanding, TypeOK, tables

LEMMA ApplyStandingType ==
  ASSUME TypeOK, NEW r \in Requests, NEW s \in Sides,
         NEW next \in Labels \ {"findStat", "applyStat"},
         ApplyStanding(r, s, next)
  PROVE  TypeOK'
<1> DEFINE team == TeamOf(on[r], s)
           newT == GetStats(new[r], s)
<1>1. team \in Teams /\ on[r] \in Matches
  BY MatchesAssumption DEF TypeOK, TeamOf
<1>2. newT \in StatLine /\ Delta(r, s) \in StatLine
  <2>1. old[r] \in MatchRow /\ new[r] \in MatchRow
    BY DEF TypeOK
  <2>2. newT \in StatLine /\ GetStats(old[r], s) \in StatLine
    BY <2>1, GetStatsType
  <2>3. QED
    BY <2>2, LineType DEF Delta
<1>3. \A row \in Standing : Increment(row, Delta(r, s)) \in Standing
  BY <1>2, StandingType
<1>4. NewStanding(newT) \in Standing
  BY <1>2, StandingType
<1>5. standings' \in [Teams -> Seq(Standing)]
  <2>1. CASE standings' = [standings EXCEPT ![team][found[r]] =
                             Increment(@, Delta(r, s))]
    <3>1. standings[team] \in Seq(Standing)
      BY <1>1 DEF TypeOK
    <3>2. [standings[team] EXCEPT ![found[r]] = Increment(@, Delta(r, s))]
            \in Seq(Standing)
      <4>1. found[r] \in DOMAIN standings[team] =>
              Increment(standings[team][found[r]], Delta(r, s)) \in Standing
        BY <3>1, <1>3, ElementOfSeq, LenProperties
      <4>2. QED
        BY <3>1, <4>1, WriteElement
    <3>3. QED
      BY <2>1, <3>2, <1>1 DEF TypeOK
  <2>2. CASE standings' = [standings EXCEPT ![team] =
                             Append(@, NewStanding(newT))]
    BY <2>2, <1>1, <1>4 DEF TypeOK
  <2>3. CASE standings' = standings
    BY <2>3 DEF TypeOK
  <2>4. QED
    BY <2>1, <2>2, <2>3 DEF ApplyStanding
<1>6. posted' \in [Matches -> [Sides -> StatLine]]
  <2>1. \A x \in StatLine : Plus(posted[on[r]][s], x) \in StatLine
    <3>1. posted[on[r]][s] \in StatLine
      BY <1>1 DEF TypeOK
    <3>2. QED
      BY <3>1, LineType
  <2>2. CASE posted' = [posted EXCEPT ![on[r]][s] = Plus(@, Delta(r, s))]
    BY <2>1, <2>2, <1>1, <1>2 DEF TypeOK
  <2>3. CASE posted' = [posted EXCEPT ![on[r]][s] = Plus(@, newT)]
    BY <2>1, <2>3, <1>1, <1>2 DEF TypeOK
  <2>4. CASE posted' = posted
    BY <2>4 DEF TypeOK
  <2>5. QED
    BY <2>2, <2>3, <2>4 DEF ApplyStanding
<1>7. pc' \in [Requests -> Labels] /\ StatsHavePlayer'
  BY GotoType DEF ApplyStanding, locals
<1>8. QED
  BY <1>5, <1>6, <1>7 DEF ApplyStanding, TypeOK, locals

\* addEvent goes on to the player statistics only with a player.
LEMMA AfterScoreLabel ==
  ASSUME NEW e \in EventDto
  PROVE  /\ AfterScore(e) \in Labels
         /\ AfterScore(e) \in {"findStat", "applyStat"} =>
              e.player \in Players /\ e.type \in StatTypes
BY DEF AfterScore, EventDto, Labels, Ended

\* A handler that moves on keeps every type.
LEMMA StepType ==
  ASSUME TypeOK, NEW r \in Requests, Step(r)
  PROVE  TypeOK'
<1>1. CASE WriteMatch(r)
  <2> DEFINE row == Merge(matches[on[r]], dto[r])
  <2>1. row \in MatchRow /\ on[r] \in Matches
    BY MergeType DEF TypeOK
  <2>2. matches' \in [Matches -> MatchRow] /\ new' \in [Requests -> MatchRow]
    BY <2>1, <1>1 DEF TypeOK, WriteMatch
  <2>3. pc' \in [Requests -> Labels] /\ StatsHavePlayer'
    BY <1>1, GotoType DEF WriteMatch, Labels
  <2>4. QED
    BY <2>2, <2>3, <1>1 DEF TypeOK, WriteMatch
<1>2. CASE FindHome(r)
  BY <1>2, FindStandingType DEF FindHome, Labels, Sides
<1>3. CASE ApplyHome(r)
  BY <1>3, ApplyStandingType DEF ApplyHome, Labels, Sides
<1>4. CASE FindAway(r)
  BY <1>4, FindStandingType DEF FindAway, Labels, Sides
<1>5. CASE ApplyAway(r)
  BY <1>5, ApplyStandingType DEF ApplyAway, Labels, Sides
<1>6. CASE PublishUpdate(r)
  <2>1. live' \in [Matches -> [home : Nat \cup {NoScore}, away : Nat \cup {NoScore}]]
    BY <1>6 DEF PublishUpdate, TypeOK, MatchRow, Score
  <2>2. pc' \in [Requests -> Labels] /\ StatsHavePlayer'
    BY <1>6, GotoType DEF PublishUpdate, locals, Labels, Ended
  <2>3. QED
    BY <2>1, <2>2, <1>6 DEF TypeOK, PublishUpdate, locals
<1>7. CASE CreateEvent(r)
  <2>1. pc' \in [Requests -> Labels] /\ StatsHavePlayer'
    <3>1. event[r] \in EventDto
      BY DEF TypeOK
    <3>2. PICK label \in Labels :
            /\ Goto(r, label)
            /\ label \in {"findStat", "applyStat"} =>
                 event[r].player \in Players /\ event[r].type \in StatTypes
      BY <1>7, <3>1, AfterScoreLabel DEF CreateEvent, Labels
    <3>3. event' = event
      BY <1>7 DEF CreateEvent, locals
    <3>4. QED
      BY <3>2, <3>3, GotoType
  <2>2. QED
    BY <2>1, <1>7 DEF TypeOK, CreateEvent, locals
<1>8. CASE ScoreGoal(r)
  <2> DEFINE g == GoalsOf(event[r])
             row == AddGoals(matches[on[r]], g)
  <2>1. row \in MatchRow /\ on[r] \in Matches
    <3>1. matches[on[r]] \in MatchRow /\ on[r] \in Matches
      BY DEF TypeOK
    <3>2. g.home \in Nat /\ g.away \in Nat
      BY DEF GoalsOf
    <3>3. QED
      BY <3>1, <3>2 DEF MatchRow, AddGoals
  <2>2. matches' \in [Matches -> MatchRow] /\ new' \in [Requests -> MatchRow]
    BY <2>1, <1>8 DEF TypeOK, ScoreGoal
  <2>3. pc' \in [Requests -> Labels] /\ StatsHavePlayer'
    BY <1>8, GotoType DEF ScoreGoal, Labels
  <2>4. QED
    BY <2>2, <2>3, <1>8 DEF TypeOK, ScoreGoal
<1>9. CASE PublishGoal(r)
  <2>1. live' \in [Matches -> [home : Nat \cup {NoScore}, away : Nat \cup {NoScore}]]
    BY <1>9 DEF PublishGoal, TypeOK, MatchRow, Score
  <2>2. pc' \in [Requests -> Labels] /\ StatsHavePlayer'
    <3>1. event[r] \in EventDto
      BY DEF TypeOK
    <3>2. PICK label \in Labels :
            /\ Goto(r, label)
            /\ label \in {"findStat", "applyStat"} =>
                 event[r].player \in Players /\ event[r].type \in StatTypes
      BY <1>9, <3>1, AfterScoreLabel DEF PublishGoal, Labels
    <3>3. event' = event
      BY <1>9 DEF PublishGoal, locals
    <3>4. QED
      BY <3>2, <3>3, GotoType
  <2>3. QED
    BY <2>1, <2>2, <1>9 DEF TypeOK, PublishGoal, locals
<1>10. CASE FindStat(r)
  <2>1. event[r].player \in Players /\ event[r].type \in StatTypes
    BY <1>10 DEF FindStat, TypeOK, StatsHavePlayer
  <2>2. pc' \in [Requests -> Labels] /\ StatsHavePlayer'
    BY <1>10, <2>1, GotoType DEF FindStat, Labels
  <2>3. found' \in [Requests -> Nat]
    <3>1. PICK i \in FindFirst(statRows[event[r].player]) :
            found' = [found EXCEPT ![r] = i]
      BY <1>10 DEF FindStat
    <3>2. i \in Nat
      BY <3>1, <2>1, LenProperties DEF TypeOK, FindFirst
    <3>3. QED
      BY <3>1, <3>2 DEF TypeOK
  <2>4. QED
    BY <2>2, <2>3, <1>10 DEF TypeOK, FindStat, tables
<1>11. CASE ApplyStat(r)
  <2> DEFINE p == event[r].player
             t == event[r].type
             fresh == Credit([s \in StatTypes |-> 0], t)
  <2>1. p \in Players /\ t \in StatTypes
    BY <1>11 DEF ApplyStat, TypeOK, StatsHavePlayer
  <2>2. pc' \in [Requests -> Labels] /\ StatsHavePlayer'
    BY <1>11, GotoType DEF ApplyStat, locals, Labels, Ended
  <2>3. statRows[p] \in Seq(PlayerStat)
    BY <2>1 DEF TypeOK
  <2>4. Append(statRows[p], fresh) \in Seq(PlayerStat)
    <3>1. fresh \in PlayerStat
      BY <2>1 DEF PlayerStat, Credit
    <3>2. QED
      BY <2>3, <3>1, AppendProperties
  <2>5. [statRows[p] EXCEPT ![found[r]] = Credit(@, t)] \in Seq(PlayerStat)
    <3> DEFINE i == found[r]
               v == Credit(statRows[p][i], t)
    <3>1. ASSUME i \in DOMAIN statRows[p] PROVE v \in PlayerStat
      <4>1. statRows[p][i] \in PlayerStat
        BY <2>3, <3>1, ElementOfSeq, LenProperties
      <4>2. QED
        BY <4>1, <2>1 DEF PlayerStat, Credit
    <3>2. [statRows[p] EXCEPT ![i] = v] \in Seq(PlayerStat)
      BY <2>3, <3>1, WriteElement
    <3>3. QED
      BY <3>2
  <2>6. statRows' \in [Players -> Seq(PlayerStat)]
    BY <2>1, <2>4, <2>5, <1>11 DEF ApplyStat, TypeOK
  <2>7. QED
    BY <2>2, <2>6, <1>11 DEF TypeOK, ApplyStat, locals
<1>12. QED
  BY <1>1, <1>2, <1>3, <1>4, <1>5, <1>6, <1>7, <1>8, <1>9, <1>10, <1>11 DEF Step

\* Type correctness holds of every instance.
THEOREM TypeCorrect == Spec => []TypeOK
<1>1. Init => TypeOK
  <2> SUFFICES ASSUME Init PROVE TypeOK
    OBVIOUS
  <2>1. matches \in [Matches -> MatchRow]
    BY DtoAssumption DEF Init
  <2>2. standings \in [Teams -> Seq(Standing)]
    <3>1. NewStanding(NoStats) \in Standing
      BY DEF NewStanding, Difference, NoStats, Standing, Columns
    <3>2. \A t \in Teams : standings[t] \in Seq(Standing)
      BY <3>1 DEF Init
    <3>3. QED
      BY <3>2 DEF Init
  <2>3. on \in [Requests -> Matches]
    BY MatchesAssumption DEF Init
  <2>4. dto \in [Requests -> UpdateDto] /\ event \in [Requests -> EventDto]
    BY DEF Init, UpdateDto, EventDto, EventTypes, StatTypes
  <2>5. old \in [Requests -> MatchRow] /\ new \in [Requests -> MatchRow]
    BY DEF Init, NoMatch, MatchRow
  <2>6. live \in [Matches -> [home : Nat \cup {NoScore}, away : Nat \cup {NoScore}]]
    BY DEF Init, NoScoreSent
  <2>7. posted \in [Matches -> [Sides -> StatLine]]
    BY DEF Init, NoStats, StatLine
  <2>8. pc \in [Requests -> Labels] /\ StatsHavePlayer /\ found \in [Requests -> Nat]
    BY DEF Init, Labels, StatsHavePlayer
  <2>9. statRows \in [Players -> Seq(PlayerStat)] /\ events = {}
    BY DEF Init
  <2>10. QED
    BY <2>1, <2>2, <2>3, <2>4, <2>5, <2>6, <2>7, <2>8, <2>9 DEF TypeOK
<1>2. TypeOK /\ [Next]_vars => TypeOK'
  <2> SUFFICES ASSUME TypeOK, [Next]_vars PROVE TypeOK'
    OBVIOUS
  <2>1. ASSUME NEW m \in Matches, NEW row \in NewRows, Create(m, row)
        PROVE  TypeOK'
    BY <2>1, DtoAssumption DEF Create, TypeOK, locals, StatsHavePlayer
  <2>2. ASSUME NEW r \in Requests, NEW m \in Matches, NEW d \in UpdateDtos,
               BeginUpdate(r, m, d)
        PROVE  TypeOK'
    <3>1. d \in UpdateDto
      BY DtoAssumption
    <3>2. pc' \in [Requests -> Labels] /\ StatsHavePlayer'
      BY <2>2, GotoType DEF BeginUpdate, locals, Labels, Ended
    <3>3. QED
      BY <2>2, <3>1, <3>2 DEF BeginUpdate, TypeOK, tables, locals
  <2>3. ASSUME NEW r \in Requests, NEW m \in Matches, NEW e \in EventDtos,
               BeginEvent(r, m, e)
        PROVE  TypeOK'
    <3>1. e \in EventDto
      BY DtoAssumption
    <3>2. pc' \in [Requests -> Labels] /\ StatsHavePlayer'
      BY <2>3 DEF BeginEvent, TypeOK, Goto, Labels, StatsHavePlayer
    <3>3. QED
      BY <2>3, <3>1, <3>2 DEF BeginEvent, TypeOK, tables
  <2>4. ASSUME NEW r \in Requests, Step(r) PROVE TypeOK'
    BY <2>4, StepType
  <2>5. ASSUME NEW r \in Requests, Fail(r) PROVE TypeOK'
    <3>1. pc' \in [Requests -> Labels] /\ StatsHavePlayer'
      BY <2>5, GotoType DEF Fail, locals, Labels, Ended
    <3>2. QED
      BY <2>5, <3>1 DEF Fail, TypeOK, tables, locals
  <2>6. CASE UNCHANGED vars
    BY <2>6 DEF TypeOK, vars, StatsHavePlayer
  <2>7. QED
    BY <2>1, <2>2, <2>3, <2>4, <2>5, <2>6 DEF Next, Arrive, Terminated
<1>3. QED
  BY <1>1, <1>2, PTL DEF Spec

-----------------------------------------------------------------------------
(* The lines of the table are consistent, whatever the handlers do. *)

Adds(s) == /\ s.played = s.won + s.drawn + s.lost
           /\ s.points = 3 * s.won + s.drawn

RowAdds(row) == Adds(row) /\ row.goalDifference = row.goalsFor - row.goalsAgainst

\* A played match is won, drawn or lost, and its points follow.
LEMMA GetStatsAdds ==
  ASSUME NEW row \in MatchRow, NEW s \in Sides
  PROVE  Adds(GetStats(row, s))
<1>1. CASE row.status # "COMPLETED"
  BY <1>1 DEF GetStats, NoStats, Columns, Adds
<1>2. CASE row.status = "COMPLETED"
  <2>1. GoalsFor(row, s) \in Nat /\ GoalsAgainst(row, s) \in Nat
    BY DEF GoalsFor, GoalsAgainst, MatchRow
  <2>2. QED
    BY <1>2, <2>1 DEF GetStats, Adds
<1>3. QED
  BY <1>1, <1>2

LEMMA MinusAdds ==
  ASSUME NEW s \in StatLine, NEW t \in StatLine, Adds(s), Adds(t)
  PROVE  Adds(Minus(s, t))
BY DEF StatLine, Columns, Minus, Adds

LEMMA StandingAdds ==
  ASSUME NEW s \in StatLine, Adds(s)
  PROVE  /\ RowAdds(NewStanding(s))
         /\ \A row \in Standing : RowAdds(row) => RowAdds(Increment(row, s))
<1>1. RowAdds(NewStanding(s))
  BY DEF StatLine, Columns, NewStanding, Difference, Adds, RowAdds
<1>2. ASSUME NEW row \in Standing, RowAdds(row)
      PROVE  RowAdds(Increment(row, s))
  BY <1>2 DEF StatLine, Standing, Columns, Increment, Difference, Adds, RowAdds
<1>3. QED
  BY <1>1, <1>2

\* A handler that writes a line leaves every line consistent.
LEMMA ApplyStandingAdds ==
  ASSUME TypeOK, RowArithmetic, NEW r \in Requests, NEW s \in Sides, NEW next,
         ApplyStanding(r, s, next)
  PROVE  RowArithmetic'
<1> DEFINE team == TeamOf(on[r], s)
           newT == GetStats(new[r], s)
           d == Delta(r, s)
           Consistent(q) == \A i \in DOMAIN q : RowAdds(q[i])
<1>1. team \in Teams
  BY MatchesAssumption DEF TypeOK, TeamOf
<1>2. standings \in [Teams -> Seq(Standing)] /\ standings[team] \in Seq(Standing)
  BY <1>1 DEF TypeOK
<1>3. \A t \in Teams : Consistent(standings[t])
  BY DEF RowArithmetic, RowAdds, Adds
<1>4. newT \in StatLine /\ d \in StatLine /\ Adds(newT) /\ Adds(d)
  <2>1. old[r] \in MatchRow /\ new[r] \in MatchRow
    BY DEF TypeOK
  <2>2. newT \in StatLine /\ GetStats(old[r], s) \in StatLine
    BY <2>1, GetStatsType
  <2>3. Adds(newT) /\ Adds(GetStats(old[r], s))
    BY <2>1, GetStatsAdds
  <2>4. QED
    BY <2>2, <2>3, LineType, MinusAdds DEF Delta
<1>5. CASE standings' = [standings EXCEPT ![team][found[r]] = Increment(@, d)]
  <2> DEFINE q == [standings[team] EXCEPT ![found[r]] = Increment(@, d)]
  <2>1. Consistent(q)
    <3> SUFFICES ASSUME NEW i \in DOMAIN q PROVE RowAdds(q[i])
      OBVIOUS
    <3>1. i \in DOMAIN standings[team]
      OBVIOUS
    <3>2. standings[team][i] \in Standing /\ RowAdds(standings[team][i])
      BY <3>1, <1>1, <1>2, <1>3, ElementOfSeq, LenProperties
    <3>3. RowAdds(Increment(standings[team][i], d))
      BY <3>2, <1>4, StandingAdds
    <3>4. QED
      BY <3>1, <3>2, <3>3
  <2>2. \A t \in Teams : standings'[t] = IF t = team THEN q ELSE standings[t]
    BY <1>5, <1>2
  <2>3. \A t \in Teams : Consistent(standings'[t])
    BY <2>1, <2>2, <1>3
  <2>4. QED
    BY <2>3 DEF RowArithmetic, RowAdds, Adds
<1>6. CASE standings' = [standings EXCEPT ![team] = Append(@, NewStanding(newT))]
  <2> DEFINE q == Append(standings[team], NewStanding(newT))
  <2>1. Consistent(q)
    <3>1. NewStanding(newT) \in Standing /\ RowAdds(NewStanding(newT))
      BY <1>4, StandingType, StandingAdds
    <3>2. /\ Len(standings[team]) \in Nat
          /\ DOMAIN standings[team] = 1 .. Len(standings[team])
          /\ DOMAIN q = 1 .. (Len(standings[team]) + 1)
          /\ \A i \in 1 .. Len(standings[team]) : q[i] = standings[team][i]
          /\ q[Len(standings[team]) + 1] = NewStanding(newT)
      BY <1>2, <3>1, AppendProperties, LenProperties
    <3>3. \A i \in DOMAIN q : i \in DOMAIN standings[team]
                                \/ i = Len(standings[team]) + 1
      BY <3>2
    <3>4. QED
      BY <3>1, <3>2, <3>3, <1>1, <1>3
  <2>2. \A t \in Teams : standings'[t] = IF t = team THEN q ELSE standings[t]
    BY <1>6, <1>2
  <2>3. \A t \in Teams : Consistent(standings'[t])
    BY <2>1, <2>2, <1>3
  <2>4. QED
    BY <2>3 DEF RowArithmetic, RowAdds, Adds
<1>7. CASE standings' = standings
  BY <1>7 DEF RowArithmetic
<1>8. QED
  BY <1>5, <1>6, <1>7 DEF ApplyStanding

\* Overlapping updates, failures and late goals included, no interleaving of
\* the handlers leaves a line whose columns contradict each other.
THEOREM RowsConsistent == Spec => []RowArithmetic
<1>1. Init => RowArithmetic
  <2>1. RowAdds(NewStanding(NoStats))
    BY DEF NewStanding, Difference, NoStats, Columns, RowAdds, Adds
  <2> SUFFICES ASSUME Init, NEW t \in Teams, NEW i \in DOMAIN standings[t]
               PROVE  RowAdds(standings[t][i])
    BY DEF RowArithmetic, RowAdds, Adds
  <2>2. standings[t] \in {<<>>, <<NewStanding(NoStats)>>}
    BY DEF Init
  <2>3. QED
    BY <2>1, <2>2
<1>2. TypeOK /\ RowArithmetic /\ [Next]_vars => RowArithmetic'
  <2> SUFFICES ASSUME TypeOK, RowArithmetic, [Next]_vars
               PROVE  RowArithmetic'
    OBVIOUS
  <2>1. ASSUME NEW r \in Requests, ApplyHome(r) \/ ApplyAway(r)
        PROVE  RowArithmetic'
    BY <2>1, ApplyStandingAdds DEF ApplyHome, ApplyAway, Sides
  <2>2. CASE standings' = standings
    BY <2>2 DEF RowArithmetic
  <2>3. ASSUME NEW r \in Requests, Step(r) PROVE RowArithmetic'
    BY <2>1, <2>2, <2>3
       DEF Step, WriteMatch, FindHome, FindAway, FindStanding, PublishUpdate,
           CreateEvent, ScoreGoal, PublishGoal, FindStat, ApplyStat, tables
  <2>4. QED
    BY <2>2, <2>3
       DEF Next, Arrive, Create, BeginUpdate, BeginEvent, Fail, Terminated,
           tables, vars
<1>3. QED
  BY <1>1, <1>2, TypeCorrect, PTL DEF Spec
=============================================================================
