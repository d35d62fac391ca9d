------------------------- MODULE MatchLedger_proofs -------------------------
(***************************************************************************)
(* Theorems about the results the table holds.  They are stated for the    *)
(* conditions under which the code keeps its promise, and for any number   *)
(* of teams, matches, requests and corrections.                            *)
(***************************************************************************)
EXTENDS MatchResults_proofs

\* What the callers must respect and the code does not enforce.
ExactRegime ==
  /\ SerialPerMatch
  /\ ~Failures
  /\ ~LateGoals
  /\ \A row \in NewRows \cup InitialRows : row.status # "COMPLETED"

Applying == {"applyHome", "applyAway"}

-----------------------------------------------------------------------------
(* One standing per team. *)

\* What a handler knows between findFirst and the write: with a
\* line for every team findFirst never comes back empty.
Seeded ==
  TableInitialised =>
    /\ \A t \in Teams : Len(standings[t]) = 1
    /\ \A r \in Requests : pc[r] \in Applying => found[r] # 0

\* With a line for every team findFirst returns one.
LEMMA FindStandingSeeded ==
  ASSUME TypeOK, Seeded, NEW r \in Requests, NEW s \in Sides,
         NEW go, NEW skip, skip \notin Applying,
         FindStanding(r, s, go, skip)
  PROVE  Seeded'
<1> SUFFICES ASSUME TableInitialised
             PROVE  /\ \A t \in Teams : Len(standings'[t]) = 1
                    /\ \A q \in Requests : pc'[q] \in Applying => found'[q] # 0
  BY DEF Seeded
<1> DEFINE rows == DOMAIN standings[TeamOf(on[r], s)]
<1>1. standings' = standings
  BY DEF FindStanding, tables
<1>2. TeamOf(on[r], s) \in Teams
  BY MatchesAssumption DEF TypeOK, TeamOf
<1>3. rows = {1}
  <2>1. standings[TeamOf(on[r], s)] \in Seq(Standing)
    BY <1>2 DEF TypeOK
  <2>2. rows = 1 .. 1
    BY <1>2, <2>1, LenProperties DEF Seeded
  <2>3. QED
    BY <2>2
<1>4. ASSUME NEW q \in Requests, pc'[q] \in Applying PROVE found'[q] # 0
  <2>1. CASE q = r
    <3>1. \E i \in FindFirst(standings[TeamOf(on[r], s)]) :
            found' = [found EXCEPT ![r] = i]
      BY <1>3, <1>4, <2>1 DEF FindStanding, Goto, TypeOK
    <3>2. FindFirst(standings[TeamOf(on[r], s)]) = {1}
      BY <1>3, EmptySeq DEF FindFirst
    <3>3. QED
      BY <3>1, <3>2, <2>1 DEF TypeOK
  <2>2. CASE q # r
    BY <1>4, <2>2 DEF FindStanding, Goto, TypeOK, Seeded
  <2>3. QED
    BY <2>1, <2>2
<1>5. QED
  BY <1>1, <1>4 DEF Seeded

LEMMA ApplyStandingSeeded ==
  ASSUME TypeOK, Seeded, NEW r \in Requests, pc[r] \in Applying,
         NEW s \in Sides, NEW next, next \notin Applying,
         ApplyStanding(r, s, next)
  PROVE  Seeded'
<1> SUFFICES ASSUME TableInitialised
             PROVE  /\ \A t \in Teams : Len(standings'[t]) = 1
                    /\ \A q \in Requests : pc'[q] \in Applying => found'[q] # 0
  BY DEF Seeded
<1> DEFINE team == TeamOf(on[r], s)
<1>1. found[r] # 0
  BY DEF Seeded
<1>2. standings' = [standings EXCEPT ![team][found[r]] = Increment(@, Delta(r, s))]
  BY <1>1 DEF ApplyStanding
<1>3. ASSUME NEW t \in Teams PROVE Len(standings'[t]) = 1
  <2>1. standings[t] \in Seq(Standing) /\ Len(standings[t]) = 1
    BY DEF TypeOK, Seeded
  <2>2. CASE t # team
    BY <2>1, <2>2, <1>2 DEF TypeOK
  <2>3. CASE t = team
    <3> DEFINE v == Increment(standings[t][found[r]], Delta(r, s))
    <3>1. standings'[t] = [standings[t] EXCEPT ![found[r]] = v]
      BY <1>2, <2>3 DEF TypeOK
    <3>2. Delta(r, s) \in StatLine
      <4>1. old[r] \in MatchRow /\ new[r] \in MatchRow
        BY DEF TypeOK
      <4>2. QED
        BY <4>1, GetStatsType, LineType DEF Delta
    <3>3. found[r] \in DOMAIN standings[t] => v \in Standing
      BY <2>1, <3>2, StandingType, ElementOfSeq, LenProperties
    <3>4. QED
      BY <2>1, <3>1, <3>3, WriteElement
  <2>4. QED
    BY <2>2, <2>3
<1>4. \A q \in Requests : pc'[q] \in Applying => found'[q] # 0
  BY DEF ApplyStanding, Goto, locals, TypeOK, Seeded
<1>5. QED
  BY <1>3, <1>4

\* findFirst never comes back empty once startSeason has made the lines.
LEMMA AlwaysSeeded == Spec => []Seeded
<1>1. Init => Seeded
  BY DEF Init, Seeded, Applying
<1>2. TypeOK /\ Seeded /\ [Next]_vars => Seeded'
  <2> SUFFICES ASSUME TypeOK, Seeded, [Next]_vars PROVE Seeded'
    OBVIOUS
  <2>1. ASSUME NEW r \in Requests, FindHome(r) \/ FindAway(r) PROVE Seeded'
    BY <2>1, FindStandingSeeded DEF FindHome, FindAway, Sides, Applying
  <2>2. ASSUME NEW r \in Requests, ApplyHome(r) \/ ApplyAway(r) PROVE Seeded'
    BY <2>2, ApplyStandingSeeded DEF ApplyHome, ApplyAway, Sides, Applying
  <2>3. ASSUME NEW r \in Requests, NEW label, label \notin Applying,
               Goto(r, label), UNCHANGED standings, 
               \A q \in Requests : q # r => found'[q] = found[q]
        PROVE  Seeded'
    BY <2>3 DEF Seeded, Goto, TypeOK
  <2>4. ASSUME NEW r \in Requests, Step(r) PROVE Seeded'
    BY <2>1, <2>2, <2>3, <2>4
       DEF Step, WriteMatch, PublishUpdate, CreateEvent, ScoreGoal,
           PublishGoal, FindStat, ApplyStat, AfterScore, Applying, tables,
           locals, TypeOK
  <2>5. ASSUME NEW r \in Requests, Fail(r) PROVE Seeded'
    BY <2>3, <2>5 DEF Fail, Applying, tables, locals
  <2>6. ASSUME NEW r \in Requests, Arrive(r) PROVE Seeded'
    BY <2>3, <2>6 DEF Arrive, BeginUpdate, BeginEvent, Applying, tables, locals
  <2>7. ASSUME NEW m \in Matches, NEW row \in NewRows, Create(m, row)
        PROVE  Seeded'
    BY <2>7 DEF Create, Seeded, locals
  <2>8. CASE UNCHANGED vars
    BY <2>8 DEF Seeded, vars
  <2>9. QED
    BY <2>4, <2>5, <2>6, <2>7, <2>8 DEF Next, Terminated
<1>3. QED
  BY <1>1, <1>2, TypeCorrect, PTL DEF Spec

\* Once every team has a line no interleaving of results adds a second one.
THEOREM OneStanding == Spec => []OneStandingPerTeam
<1>1. Seeded => OneStandingPerTeam
  BY DEF Seeded, OneStandingPerTeam
<1>2. QED
  BY <1>1, AlwaysSeeded, PTL

-----------------------------------------------------------------------------
(* The table follows the results. *)

\* What is posted for m is worth what row is worth to both teams.
Holds(m, row) == \A s \in Sides : posted[m][s] = GetStats(row, s)

\* A match has at most one handler.
Alone ==
  \A r, q \in Requests : Active(r) /\ Active(q) /\ on[r] = on[q] => r = q

\* What is posted for the match of handler r at each point of the handler: the
\* old result until a line is written, the new one from then on.
Stage(r) ==
  LET m == on[r] IN
    /\ Active(r) => matches[m].status # NoStatus
    /\ pc[r] = "write" => old[r] = matches[m] /\ Holds(m, old[r])
    /\ pc[r] \in {"findHome", "applyHome"} =>
         new[r] = matches[m] /\ Holds(m, old[r])
    /\ pc[r] \in {"findAway", "applyAway"} =>
         /\ new[r] = matches[m]
         /\ posted[m]["home"] = GetStats(new[r], "home")
         /\ posted[m]["away"] = GetStats(old[r], "away")
    /\ pc[r] \in {"publish", "event", "goal", "publishGoal", "findStat",
                  "applyStat"} => Holds(m, matches[m])
    /\ pc[r] \in {"event", "goal"} /\ IsGoal(event[r]) =>
         matches[m].status # "COMPLETED"
    /\ pc[r] = "goal" => IsGoal(event[r])

\* findFirst: a row of the team, or none, and then nothing has been posted.
Lookup(r, label, s) ==
  pc[r] = label =>
    /\ found[r] \in 0 .. Len(standings[TeamOf(on[r], s)])
    /\ found[r] = 0 => GetStats(old[r], s) = NoStats

\* A team without a line has been posted nothing.
NoLineNothingPosted ==
  \A m \in Matches, s \in Sides :
    standings[TeamOf(m, s)] = <<>> => posted[m][s] = NoStats

NoStatusNoMatch ==
  \A m \in Matches : matches[m].status = NoStatus => matches[m] = NoMatch

ExactInv ==
  /\ Alone
  /\ NoStatusNoMatch
  /\ \A r \in Requests : Stage(r)
  /\ \A r \in Requests : Lookup(r, "applyHome", "home")
  /\ \A r \in Requests : Lookup(r, "applyAway", "away")
  /\ NoLineNothingPosted
  /\ Settled

\* A step of handler r that touches no match but its own.
OwnStep(r) ==
  /\ \A q \in Requests : q # r =>
       /\ pc'[q] = pc[q] /\ on'[q] = on[q] /\ event'[q] = event[q]
       /\ old'[q] = old[q] /\ new'[q] = new[q] /\ found'[q] = found[q]
  /\ \A m \in Matches : m # on'[r] =>
       matches'[m] = matches[m] /\ posted'[m] = posted[m]
  /\ Active(r) => on'[r] = on[r]

\* Such a step disturbs neither the other handlers nor the other matches.
LEMMA Frame ==
  ASSUME ExactInv, NEW r \in Requests, OwnStep(r), Alone',
         \A q \in Requests : Active(q)' => on'[q] \in Matches,
         Active(r)' \/ Active(r),
         Stage(r)', Quiet(on[r])' => Holds(on[r], matches[on[r]])'
  PROVE  (\A q \in Requests : Stage(q))' /\ Settled'
<1>1. ASSUME NEW q \in Requests PROVE Stage(q)'
  <2>1. CASE q = r
    BY <2>1
  <2>2. CASE q # r /\ ~Active(q)
    BY <2>2 DEF OwnStep, Stage, Active, Ended
  <2>3. CASE q # r /\ Active(q)
    <3>1. on[q] # on'[r]
      BY <2>3 DEF OwnStep, Alone, Active, ExactInv
    <3>2. on'[q] = on[q] /\ on[q] \in Matches
      BY <2>3 DEF OwnStep, Active
    <3>3. matches'[on[q]] = matches[on[q]] /\ posted'[on[q]] = posted[on[q]]
      BY <3>1, <3>2 DEF OwnStep
    <3>4. Stage(q)
      BY DEF ExactInv
    <3>5. QED
      BY <2>3, <3>2, <3>3, <3>4 DEF OwnStep, Stage, Holds, Active
  <2>4. QED
    BY <2>1, <2>2, <2>3
<1>2. ASSUME NEW m \in Matches, Quiet(m)' PROVE Holds(m, matches[m])'
  <2>1. CASE m = on'[r]
    BY <1>2, <2>1
  <2>2. CASE m # on'[r]
    <3>1. Quiet(m)
      <4> SUFFICES ASSUME NEW q \in Requests, Active(q), on[q] = m PROVE FALSE
        BY DEF Quiet
      <4>1. q # r
        BY <2>2 DEF OwnStep
      <4>2. Active(q)' /\ on'[q] = m
        BY <4>1 DEF OwnStep, Active
      <4>3. QED
        BY <4>2, <1>2 DEF Quiet
    <3>2. Holds(m, matches[m])
      BY <3>1 DEF ExactInv, Settled, Holds
    <3>3. QED
      BY <2>2, <3>2 DEF OwnStep, Holds
  <2>3. QED
    BY <2>1, <2>2
<1>3. QED
  BY <1>1, <1>2 DEF Settled, Holds

\* A handler that moves on stays alone with its match.
LEMMA StaysAlone ==
  ASSUME ExactInv, NEW r \in Requests, Active(r), OwnStep(r)
  PROVE  Alone'
<1> SUFFICES ASSUME NEW p \in Requests, NEW q \in Requests,
                    Active(p)', Active(q)', on'[p] = on'[q]
             PROVE  p = q
  BY DEF Alone
<1>1. Active(p) /\ Active(q) /\ on[p] = on'[p] /\ on[q] = on'[q]
  BY DEF OwnStep, Active
<1>2. QED
  BY <1>1 DEF ExactInv, Alone

\* Lookups of the other handlers survive as long as no line disappears.
LEMMA LookupFrame ==
  ASSUME TypeOK, ExactInv, NEW r \in Requests, OwnStep(r),
         \A t \in Teams : Len(standings'[t]) \in Nat
                          /\ Len(standings'[t]) >= Len(standings[t]),
         Lookup(r, "applyHome", "home")', Lookup(r, "applyAway", "away")'
  PROVE  /\ (\A q \in Requests : Lookup(q, "applyHome", "home"))'
         /\ (\A q \in Requests : Lookup(q, "applyAway", "away"))'
<1>1. ASSUME NEW q \in Requests, q # r, NEW label, NEW s \in Sides,
             Lookup(q, label, s)
      PROVE  Lookup(q, label, s)'
  <2>1. TeamOf(on[q], s) \in Teams
    BY MatchesAssumption DEF TypeOK, TeamOf
  <2>2. Len(standings[TeamOf(on[q], s)]) \in Nat
    BY <2>1, LenProperties DEF TypeOK
  <2>3. pc'[q] = pc[q] /\ on'[q] = on[q] /\ old'[q] = old[q]
        /\ found'[q] = found[q]
    BY <1>1 DEF OwnStep
  <2>4. TeamOf(on[q], s)' = TeamOf(on[q], s)
    BY <2>3 DEF TeamOf
  <2>5. QED
    BY <1>1, <2>1, <2>2, <2>3, <2>4 DEF Lookup
<1>2. QED
  BY <1>1 DEF ExactInv, Sides

\* Handlers that neither look up nor write a line.
LEMMA Elsewhere ==
  ASSUME TypeOK, ExactInv, NEW r \in Requests, OwnStep(r),
         UNCHANGED <<standings, posted>>,
         pc'[r] \notin Applying
  PROVE  /\ (\A q \in Requests : Lookup(q, "applyHome", "home"))'
         /\ (\A q \in Requests : Lookup(q, "applyAway", "away"))'
         /\ NoLineNothingPosted'
<1>1. \A t \in Teams : Len(standings'[t]) \in Nat
                       /\ Len(standings'[t]) >= Len(standings[t])
  BY LenProperties DEF TypeOK
<1>2. Lookup(r, "applyHome", "home")' /\ Lookup(r, "applyAway", "away")'
  BY DEF Lookup, Applying
<1>3. NoLineNothingPosted'
  BY DEF NoLineNothingPosted, ExactInv, TeamOf
<1>4. QED
  BY <1>1, <1>2, <1>3, LookupFrame

\* A line for one side of a match is written exactly once per result.
LEMMA ApplyExact ==
  ASSUME TypeOK, ExactInv, NEW r \in Requests, NEW s \in Sides,
         NEW label \in Applying, NEW next,
         pc[r] = label, Lookup(r, label, s),
         posted[on[r]][s] = GetStats(old[r], s),
         ApplyStanding(r, s, next)
  PROVE  /\ posted' = [posted EXCEPT ![on[r]][s] = GetStats(new[r], s)]
         /\ \A t \in Teams : Len(standings'[t]) \in Nat
                             /\ Len(standings'[t]) >= Len(standings[t])
         /\ NoLineNothingPosted'
<1> DEFINE m == on[r]
           team == TeamOf(m, s)
           oldT == GetStats(old[r], s)
           newT == GetStats(new[r], s)
           d == Delta(r, s)
<1>1. m \in Matches /\ team \in Teams /\ standings[team] \in Seq(Standing)
  BY MatchesAssumption DEF TypeOK, TeamOf
<1>2. newT \in StatLine /\ oldT \in StatLine /\ d \in StatLine
  <2>1. old[r] \in MatchRow /\ new[r] \in MatchRow
    BY DEF TypeOK
  <2>2. QED
    BY <2>1, GetStatsType, LineType DEF Delta
<1>3. found[r] \in 0 .. Len(standings[team]) /\ (found[r] = 0 => oldT = NoStats)
  BY DEF Lookup
<1>4. posted \in [Matches -> [Sides -> StatLine]] /\ posted[m][s] = oldT
  BY DEF TypeOK
<1>5. \A x, n \in Matches, y, z \in Sides :
        TeamOf(x, y)' = TeamOf(x, y)
  BY DEF TeamOf
<1>6. CASE found[r] # 0
  <2> DEFINE v == Increment(standings[team][found[r]], d)
             q == [standings[team] EXCEPT ![found[r]] = v]
  <2>1. standings' = [standings EXCEPT ![team] = q]
        /\ posted' = [posted EXCEPT ![m][s] = Plus(@, d)]
    BY <1>6 DEF ApplyStanding
  <2>2. Plus(posted[m][s], d) = newT
    BY <1>2, <1>4, Replace DEF Delta
  <2>3. posted' = [posted EXCEPT ![m][s] = newT]
    BY <2>1, <2>2
  <2>4. found[r] \in 1 .. Len(standings[team])
    BY <1>1, <1>3, <1>6, LenProperties
  <2>5. v \in Standing
    BY <1>1, <1>2, <2>4, ElementOfSeq, StandingType
  <2>6. Len(q) = Len(standings[team]) /\ q \in Seq(Standing)
    BY <1>1, <2>4, <2>5, WriteElement
  <2>7. \A t \in Teams : standings'[t] = IF t = team THEN q ELSE standings[t]
    BY <2>1 DEF TypeOK
  <2>8. \A t \in Teams : Len(standings'[t]) = Len(standings[t])
                         /\ standings[t] \in Seq(Standing)
    BY <2>6, <2>7 DEF TypeOK
  <2>9. \A t \in Teams : standings'[t] = <<>> => standings[t] = <<>> /\ t # team
    <3>1. Len(q) # 0
      BY <2>4, <2>6, <1>1, LenProperties
    <3>2. QED
      BY <3>1, <2>6, <2>7, EmptySeq
  <2>10. NoLineNothingPosted'
    <3> SUFFICES ASSUME NEW n \in Matches, NEW z \in Sides,
                        standings'[TeamOf(n, z)] = <<>>
                 PROVE  posted'[n][z] = NoStats
      BY <1>5 DEF NoLineNothingPosted
    <3>1. TeamOf(n, z) \in Teams
      BY MatchesAssumption DEF TeamOf
    <3>2. standings[TeamOf(n, z)] = <<>> /\ TeamOf(n, z) # team
      BY <2>9, <3>1
    <3>3. posted[n][z] = NoStats /\ ~(n = m /\ z = s)
      BY <3>2 DEF ExactInv, NoLineNothingPosted
    <3>4. QED
      BY <2>3, <3>3, <1>4
  <2>11. QED
    BY <2>3, <2>8, <2>10, LenProperties
<1>7. CASE found[r] = 0 /\ new[r].status = "COMPLETED"
  <2> DEFINE q == Append(standings[team], NewStanding(newT))
  <2>1. standings' = [standings EXCEPT ![team] = q]
        /\ posted' = [posted EXCEPT ![m][s] = Plus(@, newT)]
    BY <1>7 DEF ApplyStanding
  <2>2. Plus(posted[m][s], newT) = newT
    BY <1>2, <1>3, <1>4, <1>7, Replace
  <2>3. posted' = [posted EXCEPT ![m][s] = newT]
    BY <2>1, <2>2
  <2>4. Len(q) = Len(standings[team]) + 1 /\ q \in Seq(Standing) /\ q # <<>>
    BY <1>1, <1>2, StandingType, AppendProperties
  <2>5. \A t \in Teams : standings'[t] = IF t = team THEN q ELSE standings[t]
    BY <2>1 DEF TypeOK
  <2>6. \A t \in Teams : standings[t] \in Seq(Standing) /\ Len(standings[t]) \in Nat
    BY LenProperties DEF TypeOK
  <2>7. \A t \in Teams : Len(standings'[t]) \in Nat
                         /\ Len(standings'[t]) >= Len(standings[t])
    <3> SUFFICES ASSUME NEW t \in Teams
                 PROVE  Len(standings'[t]) \in Nat
                        /\ Len(standings'[t]) >= Len(standings[t])
      OBVIOUS
    <3>1. Len(standings[t]) \in Nat
      BY <2>6
    <3>2. CASE t = team
      <4>1. standings'[t] = q /\ Len(q) = Len(standings[t]) + 1
        BY <2>4, <2>5, <3>2
      <4> HIDE DEF q
      <4>2. QED
        BY <3>1, <4>1
    <3>3. CASE t # team
      BY <2>5, <3>1, <3>3
    <3>4. QED
      BY <3>2, <3>3
  <2>8. NoLineNothingPosted'
    <3> SUFFICES ASSUME NEW n \in Matches, NEW z \in Sides,
                        standings'[TeamOf(n, z)] = <<>>
                 PROVE  posted'[n][z] = NoStats
      BY <1>5 DEF NoLineNothingPosted
    <3>1. TeamOf(n, z) \in Teams
      BY MatchesAssumption DEF TeamOf
    <3>2. standings[TeamOf(n, z)] = <<>> /\ TeamOf(n, z) # team
      BY <2>4, <2>5, <3>1
    <3>3. posted[n][z] = NoStats /\ ~(n = m /\ z = s)
      BY <3>2 DEF ExactInv, NoLineNothingPosted
    <3>4. QED
      BY <2>3, <3>3, <1>4
  <2>9. QED
    BY <2>3, <2>7, <2>8
<1>8. CASE found[r] = 0 /\ new[r].status # "COMPLETED"
  <2>1. standings' = standings /\ posted' = posted
    BY <1>8 DEF ApplyStanding
  <2>2. newT = NoStats
    BY <1>8 DEF GetStats
  <2>3. posted' = [posted EXCEPT ![m][s] = newT]
    BY <2>1, <2>2, <1>3, <1>4, <1>8
  <2>4. NoLineNothingPosted'
    BY <2>1, <1>5 DEF NoLineNothingPosted, ExactInv
  <2>5. \A t \in Teams : Len(standings'[t]) \in Nat
                         /\ Len(standings'[t]) >= Len(standings[t])
    BY <2>1, LenProperties DEF TypeOK
  <2>6. QED
    BY <2>3, <2>4, <2>5
<1>9. QED
  BY <1>6, <1>7, <1>8

\* Handlers that change neither a match nor a posting: only their own stage is
\* left to check.
LEMMA LocalStep ==
  ASSUME TypeOK, ExactInv, NEW r \in Requests, Active(r), OwnStep(r),
         UNCHANGED <<matches, posted, standings>>, on' = on,
         Stage(r)', Active(r)' \/ Holds(on[r], matches[on[r]]),
         Lookup(r, "applyHome", "home")', Lookup(r, "applyAway", "away")'
  PROVE  ExactInv'
<1>1. Alone'
  BY StaysAlone
<1>2. NoStatusNoMatch'
  BY DEF ExactInv, NoStatusNoMatch
<1>3. NoLineNothingPosted'
  BY DEF ExactInv, NoLineNothingPosted, TeamOf
<1>4. \A t \in Teams : Len(standings'[t]) \in Nat
                       /\ Len(standings'[t]) >= Len(standings[t])
  BY LenProperties DEF TypeOK
<1>5. /\ (\A q \in Requests : Lookup(q, "applyHome", "home"))'
      /\ (\A q \in Requests : Lookup(q, "applyAway", "away"))'
  BY <1>4, LookupFrame
<1>6. Quiet(on[r])' => Holds(on[r], matches[on[r]])'
  BY DEF Quiet, Holds
<1>7. \A q \in Requests : Active(q)' => on'[q] \in Matches
  BY DEF TypeOK
<1>8. (\A q \in Requests : Stage(q))' /\ Settled'
  BY <1>1, <1>6, <1>7, Frame
<1>9. QED
  BY <1>1, <1>2, <1>3, <1>5, <1>8 DEF ExactInv

\* findFirst for the home and for the away team.
LEMMA FindExact ==
  ASSUME TypeOK, ExactInv, NEW r \in Requests, FindHome(r) \/ FindAway(r)
  PROVE  ExactInv'
<1>1. CASE FindHome(r)
  <2> DEFINE rows == standings[TeamOf(on[r], "home")]
  <2>1. UNCHANGED <<matches, posted, standings, on, old, new, event>>
    BY <1>1 DEF FindHome, FindStanding, tables
  <2>2. Active(r) /\ OwnStep(r) /\ pc'[r] \in {"applyHome", "findAway"}
    BY <1>1, <2>1 DEF FindHome, FindStanding, Goto, TypeOK, Active, Ended, OwnStep
  <2>3. new[r] = matches[on[r]] /\ Holds(on[r], old[r])
    BY <1>1 DEF FindHome, ExactInv, Stage
  <2>4. /\ on[r] \in Matches /\ TeamOf(on[r], "home") \in Teams
        /\ old[r] \in MatchRow /\ new[r] \in MatchRow
    BY MatchesAssumption DEF TypeOK, TeamOf
  <2>5. pc'[r] = "findAway" => GetStats(new[r], "home") = GetStats(old[r], "home")
    <3>1. pc'[r] = "findAway" => Delta(r, "home") = NoStats
      BY <1>1 DEF FindHome, FindStanding, Goto, TypeOK
    <3>2. GetStats(new[r], "home") \in StatLine /\ GetStats(old[r], "home") \in StatLine
      BY <2>4, GetStatsType DEF Sides
    <3>3. QED
      BY <3>1, <3>2, Replace DEF Delta
  <2>6. Stage(r)'
    BY <2>1, <2>2, <2>3, <2>5 DEF Stage, Holds, Sides, Active, ExactInv
  <2>7. Lookup(r, "applyHome", "home")'
    <3> SUFFICES ASSUME pc'[r] = "applyHome"
                 PROVE  /\ found'[r] \in 0 .. Len(standings[TeamOf(on[r], "home")])
                        /\ found'[r] = 0 => GetStats(old[r], "home") = NoStats
      BY <2>1 DEF Lookup, TeamOf
    <3>1. PICK i \in FindFirst(rows) : found'[r] = i
      BY <1>1 DEF FindHome, FindStanding, Goto, TypeOK
    <3>2. /\ rows \in Seq(Standing)
          /\ DOMAIN rows = 1 .. Len(rows)
          /\ Len(rows) \in Nat
      BY <2>4, LenProperties DEF TypeOK
    <3>3. rows = <<>> => GetStats(old[r], "home") = NoStats
      BY <2>3, <2>4 DEF ExactInv, NoLineNothingPosted, Holds, Sides
    <3>4. QED
      BY <3>1, <3>2, <3>3 DEF FindFirst
  <2>8. Lookup(r, "applyAway", "away")'
    BY <2>2 DEF Lookup
  <2>9. Active(r)'
    BY <2>2 DEF Active, Ended
  <2>10. QED
    BY <2>1, <2>2, <2>6, <2>7, <2>8, <2>9, LocalStep
<1>2. CASE FindAway(r)
  <2> DEFINE rows == standings[TeamOf(on[r], "away")]
  <2>1. UNCHANGED <<matches, posted, standings, on, old, new, event>>
    BY <1>2 DEF FindAway, FindStanding, tables
  <2>2. Active(r) /\ OwnStep(r) /\ pc'[r] \in {"applyAway", "publish"}
    BY <1>2, <2>1 DEF FindAway, FindStanding, Goto, TypeOK, Active, Ended, OwnStep
  <2>3. /\ new[r] = matches[on[r]]
        /\ posted[on[r]]["home"] = GetStats(new[r], "home")
        /\ posted[on[r]]["away"] = GetStats(old[r], "away")
    BY <1>2 DEF FindAway, ExactInv, Stage
  <2>4. /\ on[r] \in Matches /\ TeamOf(on[r], "away") \in Teams
        /\ old[r] \in MatchRow /\ new[r] \in MatchRow
    BY MatchesAssumption DEF TypeOK, TeamOf
  <2>5. pc'[r] = "publish" => GetStats(new[r], "away") = GetStats(old[r], "away")
    <3>1. pc'[r] = "publish" => Delta(r, "away") = NoStats
      BY <1>2 DEF FindAway, FindStanding, Goto, TypeOK
    <3>2. GetStats(new[r], "away") \in StatLine /\ GetStats(old[r], "away") \in StatLine
      BY <2>4, GetStatsType DEF Sides
    <3>3. QED
      BY <3>1, <3>2, Replace DEF Delta
  <2>6. Stage(r)'
    BY <2>1, <2>2, <2>3, <2>5 DEF Stage, Holds, Sides, Active, ExactInv
  <2>7. Lookup(r, "applyAway", "away")'
    <3> SUFFICES ASSUME pc'[r] = "applyAway"
                 PROVE  /\ found'[r] \in 0 .. Len(standings[TeamOf(on[r], "away")])
                        /\ found'[r] = 0 => GetStats(old[r], "away") = NoStats
      BY <2>1 DEF Lookup, TeamOf
    <3>1. PICK i \in FindFirst(rows) : found'[r] = i
      BY <1>2 DEF FindAway, FindStanding, Goto, TypeOK
    <3>2. /\ rows \in Seq(Standing)
          /\ DOMAIN rows = 1 .. Len(rows)
          /\ Len(rows) \in Nat
      BY <2>4, LenProperties DEF TypeOK
    <3>3. rows = <<>> => GetStats(old[r], "away") = NoStats
      BY <2>3, <2>4 DEF ExactInv, NoLineNothingPosted, Sides
    <3>4. QED
      BY <3>1, <3>2, <3>3 DEF FindFirst
  <2>8. Lookup(r, "applyHome", "home")'
    BY <2>2 DEF Lookup
  <2>9. Active(r)'
    BY <2>2 DEF Active, Ended
  <2>10. QED
    BY <2>1, <2>2, <2>6, <2>7, <2>8, <2>9, LocalStep
<1>3. QED
  BY <1>1, <1>2

\* The write of one line posts the stored result to that line, and nothing else.
LEMMA ApplyKeepsExact ==
  ASSUME TypeOK, ExactInv, NEW r \in Requests, ApplyHome(r) \/ ApplyAway(r)
  PROVE  /\ ExactInv'
         /\ matches' = matches
         /\ \E s \in Sides :
              posted' = [posted EXCEPT ![on[r]][s] = GetStats(matches[on[r]], s)]
<1>1. UNCHANGED <<matches, locals>>
  BY DEF ApplyHome, ApplyAway, ApplyStanding
<1>2. Active(r) /\ on[r] \in Matches /\ new[r] = matches[on[r]]
  BY DEF ApplyHome, ApplyAway, TypeOK, Active, Ended, ExactInv, Stage
<1>3. CASE ApplyHome(r)
  <2>1. /\ posted' = [posted EXCEPT ![on[r]]["home"] = GetStats(new[r], "home")]
        /\ \A t \in Teams : Len(standings'[t]) \in Nat
                            /\ Len(standings'[t]) >= Len(standings[t])
        /\ NoLineNothingPosted'
    BY <1>3, ApplyExact DEF ApplyHome, ExactInv, Stage, Holds, Sides, Applying
  <2>2. pc' = [pc EXCEPT ![r] = "findAway"]
    BY <1>3 DEF ApplyHome, ApplyStanding, Goto
  <2>3. OwnStep(r)
    BY <1>1, <2>1, <2>2 DEF OwnStep, TypeOK, locals
  <2>4. posted[on[r]]["away"] = GetStats(old[r], "away")
    BY <1>3 DEF ApplyHome, ExactInv, Stage, Holds, Sides
  <2>5. /\ posted'[on[r]]["home"] = GetStats(new[r], "home")
        /\ posted'[on[r]]["away"] = GetStats(old[r], "away")
    BY <2>1, <2>4, <1>2 DEF TypeOK, Sides
  <2>6. pc'[r] = "findAway" /\ Active(r)'
    BY <2>2 DEF TypeOK, Active, Ended
  <2>7. Stage(r)'
    BY <1>1, <1>2, <2>5, <2>6 DEF Stage, locals, ExactInv
  <2>8. Lookup(r, "applyHome", "home")' /\ Lookup(r, "applyAway", "away")'
    BY <2>6 DEF Lookup
  <2>9. ~Quiet(on[r])'
    BY <1>1, <2>6 DEF Quiet, locals
  <2>10. QED
    BY <1>1, <1>2, <2>1, <2>3, <2>6, <2>7, <2>8, <2>9, StaysAlone, LookupFrame,
       Frame DEF ExactInv, Sides, NoStatusNoMatch, TypeOK, locals
<1>4. CASE ApplyAway(r)
  <2>1. /\ posted' = [posted EXCEPT ![on[r]]["away"] = GetStats(new[r], "away")]
        /\ \A t \in Teams : Len(standings'[t]) \in Nat
                            /\ Len(standings'[t]) >= Len(standings[t])
        /\ NoLineNothingPosted'
    BY <1>4, ApplyExact DEF ApplyAway, ExactInv, Stage, Holds, Sides, Applying
  <2>2. pc' = [pc EXCEPT ![r] = "publish"]
    BY <1>4 DEF ApplyAway, ApplyStanding, Goto
  <2>3. OwnStep(r)
    BY <1>1, <2>1, <2>2 DEF OwnStep, TypeOK, locals
  <2>4. posted[on[r]]["home"] = GetStats(new[r], "home")
    BY <1>4 DEF ApplyAway, ExactInv, Stage
  <2>5. Holds(on[r], matches[on[r]])'
    BY <1>1, <1>2, <2>1, <2>4 DEF Holds, TypeOK, Sides, locals
  <2>6. pc'[r] = "publish" /\ Active(r)'
    BY <2>2 DEF TypeOK, Active, Ended
  <2>7. Stage(r)'
    BY <1>1, <1>2, <2>5, <2>6 DEF Stage, locals, ExactInv
  <2>8. Lookup(r, "applyHome", "home")' /\ Lookup(r, "applyAway", "away")'
    BY <2>6 DEF Lookup
  <2>9. ~Quiet(on[r])'
    BY <1>1, <2>6 DEF Quiet, locals
  <2>10. QED
    BY <1>1, <1>2, <2>1, <2>3, <2>6, <2>7, <2>8, <2>9, StaysAlone, LookupFrame,
       Frame DEF ExactInv, Sides, NoStatusNoMatch, TypeOK, locals
<1>5. QED
  BY <1>3, <1>4

-----------------------------------------------------------------------------
(* Handlers that change a match. *)

\* A match changed by its only handler, which then has it as `updatedMatch`.
LEMMA ChangeKeepsExact ==
  ASSUME TypeOK, ExactInv, NEW r \in Requests, Active(r), OwnStep(r),
         Active(r)', NEW row \in MatchRow, row.status # NoStatus,
         matches' = [matches EXCEPT ![on[r]] = row],
         UNCHANGED <<standings, posted, on>>, pc'[r] \notin Applying,
         Stage(r)'
  PROVE  ExactInv'
<1>1. Alone'
  BY StaysAlone
<1>2. NoStatusNoMatch'
  BY DEF ExactInv, NoStatusNoMatch, TypeOK
<1>3. /\ (\A q \in Requests : Lookup(q, "applyHome", "home"))'
      /\ (\A q \in Requests : Lookup(q, "applyAway", "away"))'
      /\ NoLineNothingPosted'
  BY Elsewhere
<1>4. ~Quiet(on[r])'
  BY DEF Quiet
<1>5. \A q \in Requests : Active(q)' => on'[q] \in Matches
  BY DEF TypeOK
<1>6. (\A q \in Requests : Stage(q))' /\ Settled'
  BY <1>1, <1>4, <1>5, Frame
<1>7. QED
  BY <1>1, <1>2, <1>3, <1>6 DEF ExactInv

\* match.update and the increments of a goal happen while the old result is
\* posted, and the new row is worth the same or its handler goes on to post it.
LEMMA WriteKeepsExact ==
  ASSUME TypeOK, ExactInv, NEW r \in Requests, WriteMatch(r) \/ ScoreGoal(r)
  PROVE  /\ ExactInv'
         /\ Holds(on[r], matches[on[r]])
         /\ \E row \in MatchRow : matches' = [matches EXCEPT ![on[r]] = row]
         /\ posted' = posted
<1>1. /\ on[r] \in Matches /\ matches[on[r]] \in MatchRow
      /\ dto[r] \in UpdateDto /\ Active(r)
      /\ matches[on[r]].status # NoStatus
  BY DEF TypeOK, WriteMatch, ScoreGoal, Active, Ended, ExactInv, Stage
<1>2. CASE WriteMatch(r)
  <2> DEFINE row == Merge(matches[on[r]], dto[r])
  <2>1. row \in MatchRow /\ row.status # NoStatus
    BY <1>1, MergeType DEF Merge
  <2>2. /\ matches' = [matches EXCEPT ![on[r]] = row]
        /\ UNCHANGED <<standings, posted, on, old, event, found>>
        /\ new'[r] = row
    BY <1>2 DEF WriteMatch, TypeOK
  <2>3. OwnStep(r) /\ pc'[r] = IF NeedsSync(old[r], row) THEN "findHome" ELSE "publish"
    BY <1>2 DEF WriteMatch, OwnStep, Goto, TypeOK
  <2>4. old[r] = matches[on[r]] /\ Holds(on[r], old[r])
    BY <1>2 DEF WriteMatch, ExactInv, Stage
  <2>5. ~NeedsSync(old[r], row) =>
           \A s \in Sides : GetStats(old[r], s) = GetStats(row, s)
    BY DEF NeedsSync, GetStats
  <2>6. Stage(r)'
    BY <1>1, <2>1, <2>2, <2>3, <2>4, <2>5 DEF Stage, Holds, TypeOK, Active, Ended
  <2>7. Active(r)' /\ pc'[r] \notin Applying
    BY <2>3 DEF Active, Ended, Applying
  <2>8. QED
    BY <1>1, <2>1, <2>2, <2>3, <2>4, <2>6, <2>7, ChangeKeepsExact
<1>3. CASE ScoreGoal(r)
  <2> DEFINE row == AddGoals(matches[on[r]], GoalsOf(event[r]))
  <2>1. row \in MatchRow /\ row.status = matches[on[r]].status
    BY <1>1 DEF AddGoals, GoalsOf, MatchRow
  <2>2. /\ matches' = [matches EXCEPT ![on[r]] = row]
        /\ UNCHANGED <<standings, posted, on, old, event, found>>
        /\ new'[r] = row
    BY <1>3 DEF ScoreGoal, TypeOK
  <2>3. OwnStep(r) /\ pc'[r] = "publishGoal"
    BY <1>3 DEF ScoreGoal, OwnStep, Goto, TypeOK
  <2>4. Holds(on[r], matches[on[r]]) /\ matches[on[r]].status # "COMPLETED"
    BY <1>3 DEF ScoreGoal, ExactInv, Stage
  <2>5. \A s \in Sides : GetStats(row, s) = GetStats(matches[on[r]], s)
    BY <2>1, <2>4 DEF GetStats
  <2>6. Stage(r)'
    BY <1>1, <2>1, <2>2, <2>3, <2>4, <2>5 DEF Stage, Holds, TypeOK, Active, Ended
  <2>7. Active(r)' /\ pc'[r] \notin Applying
    BY <2>3 DEF Active, Ended, Applying
  <2>8. QED
    BY <1>1, <2>1, <2>2, <2>3, <2>4, <2>6, <2>7, ChangeKeepsExact
<1>4. QED
  BY <1>2, <1>3

\* A match is created while nobody works on it, and is worth nothing yet.
LEMMA CreateKeepsExact ==
  ASSUME ExactRegime, TypeOK, ExactInv, NEW m \in Matches, NEW row \in NewRows,
         Create(m, row)
  PROVE  ExactInv' /\ Holds(m, matches[m])
<1>1. row \in MatchRow /\ row.status # NoStatus /\ row.status # "COMPLETED"
  BY DtoAssumption DEF ExactRegime
<1>2. Quiet(m)
  BY DEF Create, Quiet, ExactInv, Stage, NoMatch
<1>3. Holds(m, NoMatch) /\ matches[m] = NoMatch
  BY <1>2 DEF Create, ExactInv, Settled, Holds
<1>4. \A s \in Sides : GetStats(row, s) = GetStats(NoMatch, s)
  BY <1>1 DEF GetStats, NoMatch, NoStatus
<1>5. Holds(m, row)
  BY <1>3, <1>4 DEF Holds
<1>6. matches' = [matches EXCEPT ![m] = row]
      /\ UNCHANGED <<standings, pc, locals, posted>>
  BY DEF Create
<1>7. Alone' /\ NoStatusNoMatch' /\ NoLineNothingPosted'
  BY <1>1, <1>6 DEF ExactInv, Alone, Active, NoStatusNoMatch, TypeOK,
     NoLineNothingPosted, TeamOf, locals
<1>8. ASSUME NEW r \in Requests PROVE Stage(r)'
  <2>1. Stage(r) /\ (Active(r) => on[r] # m)
    BY <1>2 DEF ExactInv, Quiet
  <2>2. CASE Active(r)
    <3>1. matches'[on[r]] = matches[on[r]]
      BY <1>6, <2>1, <2>2 DEF TypeOK
    <3>2. QED
      BY <1>6, <2>1, <3>1 DEF Stage, Holds, Active, locals
  <2>3. CASE ~Active(r)
    BY <1>6, <2>3 DEF Stage, Active, Ended, locals
  <2>4. QED
    BY <2>2, <2>3
<1>9. /\ (\A q \in Requests : Lookup(q, "applyHome", "home"))'
      /\ (\A q \in Requests : Lookup(q, "applyAway", "away"))'
  BY <1>6 DEF ExactInv, Lookup, TeamOf, locals
<1>10. Settled'
  BY <1>5, <1>6 DEF ExactInv, Settled, Holds, Quiet, Active, TypeOK, locals
<1>11. QED
  BY <1>3, <1>7, <1>8, <1>9, <1>10 DEF ExactInv

\* A handler starts on a match nobody works on.
LEMMA BeginKeepsExact ==
  ASSUME ExactRegime, TypeOK, ExactInv, NEW r \in Requests, NEW m \in Matches,
         pc[r] = "idle", matches[m] # NoMatch, Quiet(m),
         on' = [on EXCEPT ![r] = m], NEW label \in {"write", "event"},
         Goto(r, label), UNCHANGED <<tables, new, found, posted>>,
         \/ label = "write" /\ old' = [old EXCEPT ![r] = matches[m]]
                            /\ event' = event
         \/ label = "event" /\ old' = old
                            /\ \E e : /\ event' = [event EXCEPT ![r] = e]
                                      /\ IsGoal(e) => matches[m].status # "COMPLETED"
  PROVE  ExactInv'
<1>1. pc' = [pc EXCEPT ![r] = label] /\ ~Active(r)
  BY DEF Goto, Active
<1>2. UNCHANGED <<matches, standings, posted>>
  BY DEF tables
<1>3. OwnStep(r)
  BY <1>1, <1>2 DEF OwnStep, TypeOK
<1>4. pc'[r] = label /\ on'[r] = m /\ Active(r)'
  BY <1>1 DEF TypeOK, Active, Ended
<1>5. Alone'
  <2> SUFFICES ASSUME NEW p \in Requests, NEW q \in Requests,
                      Active(p)', Active(q)', on'[p] = on'[q]
               PROVE  p = q
    BY DEF Alone
  <2>1. \A x \in Requests : x # r /\ Active(x)' => Active(x) /\ on'[x] = on[x]
                                                   /\ on[x] # m
    BY <1>3 DEF OwnStep, Active, Quiet
  <2>2. QED
    BY <2>1, <1>4 DEF ExactInv, Alone
<1>6. matches[m].status # NoStatus /\ Holds(m, matches[m])
  BY DEF ExactInv, NoStatusNoMatch, Settled, Holds
<1>7. Stage(r)'
  BY <1>2, <1>4, <1>6 DEF Stage, Holds, TypeOK
<1>8. ASSUME NEW q \in Requests PROVE Stage(q)'
  <2>1. CASE q = r
    BY <1>7, <2>1
  <2>2. CASE q # r
    <3>1. /\ pc'[q] = pc[q] /\ on'[q] = on[q] /\ event'[q] = event[q]
          /\ old'[q] = old[q] /\ new'[q] = new[q]
      BY <1>3, <2>2 DEF OwnStep
    <3>2. QED
      BY <1>2, <3>1 DEF ExactInv, Stage, Holds, Active
  <2>3. QED
    BY <2>1, <2>2
<1>9. Settled'
  <2> SUFFICES ASSUME NEW n \in Matches, Quiet(n)' PROVE Holds(n, matches[n])
    BY <1>2 DEF Settled, Holds
  <2>1. n # m
    BY <1>4 DEF Quiet
  <2>2. Quiet(n)
    BY <1>1, <1>3 DEF OwnStep, Quiet, Active
  <2>3. QED
    BY <2>2 DEF ExactInv, Settled, Holds
<1>10. NoStatusNoMatch' /\ NoLineNothingPosted'
  BY <1>2 DEF ExactInv, NoStatusNoMatch, NoLineNothingPosted, TeamOf
<1>11. ASSUME NEW q \in Requests
       PROVE  Lookup(q, "applyHome", "home")' /\ Lookup(q, "applyAway", "away")'
  <2>1. CASE q = r
    BY <1>4, <2>1 DEF Lookup
  <2>2. CASE q # r
    BY <1>2, <1>3, <2>2 DEF OwnStep, ExactInv, Lookup, TeamOf
  <2>3. QED
    BY <2>1, <2>2
<1>12. QED
  BY <1>5, <1>8, <1>9, <1>10, <1>11 DEF ExactInv

\* Handlers that have nothing more to post.
LEMMA RestKeepsExact ==
  ASSUME TypeOK, ExactInv, NEW r \in Requests,
         \/ PublishUpdate(r) \/ CreateEvent(r) \/ PublishGoal(r)
         \/ FindStat(r) \/ ApplyStat(r)
  PROVE  ExactInv' /\ UNCHANGED <<matches, posted>>
<1>1. PICK label \in {"done", "goal", "findStat", "applyStat"} :
        Goto(r, label) /\ (label = "goal" => pc[r] = "event" /\ IsGoal(event[r]))
  BY DEF PublishUpdate, CreateEvent, PublishGoal, FindStat, ApplyStat, AfterScore
<1>2. UNCHANGED <<matches, posted, standings, on, event, old, new>>
      /\ \A q \in Requests : q # r => found'[q] = found[q]
  BY DEF PublishUpdate, CreateEvent, PublishGoal, FindStat, ApplyStat, locals,
     tables, TypeOK
<1>3. pc' = [pc EXCEPT ![r] = label] /\ pc'[r] = label
  BY <1>1 DEF Goto, TypeOK
<1>4. Active(r) /\ OwnStep(r)
  BY <1>2, <1>3 DEF OwnStep, TypeOK, Active, Ended, PublishUpdate, CreateEvent,
     PublishGoal, FindStat, ApplyStat
<1>5. Holds(on[r], matches[on[r]])
  BY DEF PublishUpdate, CreateEvent, PublishGoal, FindStat, ApplyStat, ExactInv,
     Stage
<1>6. Stage(r)'
  <2>1. Stage(r)
    BY DEF ExactInv
  <2>2. QED
    BY <1>1, <1>2, <1>3, <1>4, <1>5, <2>1 DEF Stage, Holds, Active, Ended
<1>7. Lookup(r, "applyHome", "home")' /\ Lookup(r, "applyAway", "away")'
  BY <1>3 DEF Lookup
<1>8. QED
  BY <1>2, <1>4, <1>5, <1>6, <1>7, LocalStep

\* The invariant behind Settled, and what each step does to the ledger.
LEMMA ExactStep ==
  ASSUME ExactRegime, TypeOK, ExactInv, [Next]_vars
  PROVE  /\ ExactInv'
         /\ \/ UNCHANGED <<matches, posted>>
            \/ \E m \in Matches, row \in MatchRow :
                 /\ Holds(m, matches[m])
                 /\ matches' = [matches EXCEPT ![m] = row]
                 /\ UNCHANGED posted
            \/ \E m \in Matches, s \in Sides :
                 /\ posted' = [posted EXCEPT ![m][s] = GetStats(matches[m], s)]
                 /\ UNCHANGED matches
<1> DEFINE LedgerStep ==
        \/ UNCHANGED <<matches, posted>>
        \/ \E m \in Matches, row \in MatchRow :
             /\ Holds(m, matches[m])
             /\ matches' = [matches EXCEPT ![m] = row]
             /\ UNCHANGED posted
        \/ \E m \in Matches, s \in Sides :
             /\ posted' = [posted EXCEPT ![m][s] = GetStats(matches[m], s)]
             /\ UNCHANGED matches
<1>1. ASSUME NEW m \in Matches, NEW row \in NewRows, Create(m, row)
      PROVE  ExactInv' /\ LedgerStep
  BY <1>1, CreateKeepsExact, DtoAssumption DEF Create
<1>2. ASSUME NEW r \in Requests, NEW m \in Matches, NEW d \in UpdateDtos,
             BeginUpdate(r, m, d)
      PROVE  ExactInv' /\ LedgerStep
  <2>1. UNCHANGED <<tables, posted>> /\ pc[r] = "idle" /\ Quiet(m)
    BY <1>2 DEF BeginUpdate, ExactRegime
  <2>2. CASE Goto(r, "write") /\ on' = [on EXCEPT ![r] = m]
    BY <1>2, <2>1, <2>2, BeginKeepsExact DEF BeginUpdate, tables, locals, Goto, TypeOK
  <2>3. CASE Goto(r, "rejected") /\ UNCHANGED locals
    <3>1. \A q \in Requests : (Active(q)' <=> Active(q)) /\
                              (q # r => pc'[q] = pc[q])
      BY <2>1, <2>3 DEF Goto, TypeOK, Active, Ended
    <3>2. pc'[r] = "rejected"
      BY <2>3 DEF Goto, TypeOK
    <3>3. \A q \in Requests : Stage(q)'
      BY <2>1, <2>3, <3>1, <3>2 DEF ExactInv, Stage, Holds, tables, locals, Active, Ended
    <3>4. Alone' /\ NoStatusNoMatch' /\ NoLineNothingPosted' /\ Settled'
      BY <2>1, <2>3, <3>1 DEF ExactInv, Alone, NoStatusNoMatch, Settled, Quiet,
         NoLineNothingPosted, TeamOf, tables, locals
    <3>5. \A q \in Requests : Lookup(q, "applyHome", "home")'
                              /\ Lookup(q, "applyAway", "away")'
      BY <2>1, <2>3, <3>1, <3>2 DEF ExactInv, Lookup, TeamOf, tables, locals
    <3>6. QED
      BY <2>1, <3>3, <3>4, <3>5 DEF ExactInv, tables
  <2>4. QED
    BY <1>2, <2>2, <2>3 DEF BeginUpdate
<1>3. ASSUME NEW r \in Requests, NEW m \in Matches, NEW e \in EventDtos,
             BeginEvent(r, m, e)
      PROVE  ExactInv' /\ LedgerStep
  <2>1. IsGoal(e) => matches[m].status # "COMPLETED"
    BY <1>3 DEF BeginEvent, ExactRegime
  <2>2. QED
    BY <1>3, <2>1, BeginKeepsExact DEF BeginEvent, ExactRegime, tables
<1>4. ASSUME NEW r \in Requests, Step(r) PROVE ExactInv' /\ LedgerStep
  <2>1. on[r] \in Matches
    BY DEF TypeOK
  <2>2. CASE WriteMatch(r) \/ ScoreGoal(r)
    BY <2>1, <2>2, WriteKeepsExact
  <2>3. CASE ApplyHome(r) \/ ApplyAway(r)
    BY <2>1, <2>3, ApplyKeepsExact
  <2>4. CASE FindHome(r) \/ FindAway(r)
    BY <2>4, FindExact DEF FindHome, FindAway, FindStanding, tables
  <2>5. CASE \/ PublishUpdate(r) \/ CreateEvent(r) \/ PublishGoal(r)
             \/ FindStat(r) \/ ApplyStat(r)
    BY <2>5, RestKeepsExact
  <2>6. QED
    BY <1>4, <2>2, <2>3, <2>4, <2>5 DEF Step
<1>5. ASSUME NEW r \in Requests, Fail(r) PROVE FALSE
  BY <1>5 DEF Fail, ExactRegime
<1>6. CASE UNCHANGED vars
  BY <1>6 DEF vars, ExactInv, Alone, NoStatusNoMatch, Stage, Holds, Lookup, Quiet,
     NoLineNothingPosted, Settled, Active, TeamOf
<1>7. QED
  BY <1>1, <1>2, <1>3, <1>4, <1>5, <1>6 DEF Next, Arrive, Terminated

LEMMA ExactInit ==
  ASSUME ExactRegime, Init
  PROVE  ExactInv
<1>1. \A m \in Matches, s \in Sides :
        posted[m][s] = NoStats /\ GetStats(matches[m], s) = NoStats
  <2>1. \A m \in Matches : matches[m] \in InitialRows
    BY DEF Init
  <2>2. QED
    BY <2>1 DEF Init, ExactRegime, GetStats
<1>2. \A r \in Requests : pc[r] = "idle"
  BY DEF Init
<1>3. Alone /\ Settled /\ NoLineNothingPosted
  BY <1>1, <1>2 DEF Alone, Settled, NoLineNothingPosted, Active
<1>4. NoStatusNoMatch
  BY DtoAssumption DEF Init, NoStatusNoMatch
<1>5. \A r \in Requests : Stage(r) /\ Lookup(r, "applyHome", "home")
                          /\ Lookup(r, "applyAway", "away")
  BY <1>2 DEF Stage, Lookup, Active
<1>6. QED
  BY <1>3, <1>4, <1>5 DEF ExactInv

\* Where requests for a match do not overlap, none fails and goals are not
\* logged late, every match at rest has added exactly its stored result to the
\* lines of its two teams.
THEOREM TableFollowsResults ==
  ASSUME ExactRegime
  PROVE  Spec => []Settled
<1>1. Init => ExactInv
  BY ExactInit
<1>2. TypeOK /\ ExactInv /\ [Next]_vars => ExactInv'
  BY ExactStep
<1>3. ExactInv => Settled
  BY DEF ExactInv
<1>4. QED
  BY <1>1, <1>2, <1>3, TypeCorrect, PTL DEF Spec

-----------------------------------------------------------------------------
(* The handlers implement the ledger. *)

RowLedger == INSTANCE ResultLedger WITH Rows <- MatchRow, StatsOf <- GetStats

\* Under the same conditions every step of the handlers is a step of the ledger
\* or leaves it alone: no result changes before it is posted to both lines.
THEOREM HandlersImplementLedger ==
  ASSUME ExactRegime
  PROVE  Spec => RowLedger!Init /\ [][RowLedger!Next]_(RowLedger!vars)
<1>1. Init => RowLedger!Init
  <2> SUFFICES ASSUME Init PROVE RowLedger!Init
    OBVIOUS
  <2>1. matches \in [Matches -> MatchRow]
    BY DtoAssumption DEF Init
  <2>2. \A m \in Matches : Holds(m, matches[m])
    BY ExactInit DEF ExactInv, Settled, Holds, Init, Quiet, Active
  <2>3. posted = [m \in Matches |-> [s \in Sides |-> NoStats]]
    BY DEF Init
  <2>4. \A s \in Sides : NoStats = GetStats(NoMatch, s) /\ NoMatch \in MatchRow
    BY DEF GetStats, NoMatch, MatchRow, NoStatus
  <2>5. posted \in [Matches -> [Sides -> {GetStats(row, s) : row \in MatchRow,
                                                            s \in Sides}]]
    BY <2>3, <2>4
  <2>6. QED
    BY <2>1, <2>2, <2>5 DEF RowLedger!Init, RowLedger!Current, Holds
<1>2. TypeOK /\ ExactInv /\ [Next]_vars => [RowLedger!Next]_(RowLedger!vars)
  <2> SUFFICES ASSUME TypeOK, ExactInv, [Next]_vars
               PROVE  [RowLedger!Next]_(RowLedger!vars)
    OBVIOUS
  <2>1. CASE UNCHANGED <<matches, posted>>
    BY <2>1 DEF RowLedger!vars
  <2>2. ASSUME NEW m \in Matches, NEW row \in MatchRow, Holds(m, matches[m]),
               matches' = [matches EXCEPT ![m] = row], UNCHANGED posted
        PROVE  RowLedger!Next
    BY <2>2 DEF RowLedger!Next, RowLedger!Change, RowLedger!Current, Holds
  <2>3. ASSUME NEW m \in Matches, NEW s \in Sides,
               posted' = [posted EXCEPT ![m][s] = GetStats(matches[m], s)],
               UNCHANGED matches
        PROVE  [RowLedger!Next]_(RowLedger!vars)
    <3>1. CASE posted[m][s] = GetStats(matches[m], s)
      BY <2>3, <3>1 DEF RowLedger!vars, TypeOK
    <3>2. CASE posted[m][s] # GetStats(matches[m], s)
      BY <2>3, <3>2 DEF RowLedger!Next, RowLedger!Post
    <3>3. QED
      BY <3>1, <3>2
  <2>4. QED
    BY <2>1, <2>2, <2>3, ExactStep
<1>3. TypeOK /\ ExactInv /\ [Next]_vars => ExactInv'
  BY ExactStep
<1>4. Init => ExactInv
  BY ExactInit
<1>5. QED
  BY <1>1, <1>2, <1>3, <1>4, TypeCorrect, PTL DEF Spec

-----------------------------------------------------------------------------
(* What was published last. *)

\* A handler that has written the row of its match and not yet published it.
Written == {"findHome", "applyHome", "findAway", "applyAway", "publish", "publishGoal"}

UpToDate(m) == live[m] \in {NoScoreSent, Score(matches[m])}

\* A match has one handler at most; if that has written the row, it holds the row
\* as it is stored, and otherwise what was published last is what is stored.
Sent ==
  /\ Alone
  /\ \A m \in Matches : matches[m].status = NoStatus =>
                          matches[m] = NoMatch /\ live[m] = NoScoreSent
  /\ \A r \in Requests : Active(r) => matches[on[r]].status # NoStatus
  /\ \A r \in Requests : pc[r] \in Written => new[r] = matches[on[r]]
  /\ \A m \in Matches :
       (\A r \in Requests : pc[r] \in Written => on[r] # m) => UpToDate(m)

LEMMA SentStep ==
  ASSUME SerialPerMatch, ~Failures
  PROVE  TypeOK /\ Sent /\ [Next]_vars => Sent'
<1> SUFFICES ASSUME TypeOK, Sent, [Next]_vars PROVE Sent'
  OBVIOUS
<1>1. ASSUME NEW r \in Requests, NEW label \in Labels, NEW m \in Matches,
             Goto(r, label), on'[r] = m, Active(r) => on[r] = m,
             Active(r) \/ Quiet(m),
             \A q \in Requests : q # r => on'[q] = on[q] /\ new'[q] = new[q],
             \A n \in Matches : n # m => matches'[n] = matches[n] /\ live'[n] = live[n],
             matches'[m].status # NoStatus,
             label \in Written => new'[r] = matches'[m],
             label \notin Written => UpToDate(m)'
      PROVE  Sent'
  <2>1. pc'[r] = label /\ \A q \in Requests : q # r => pc'[q] = pc[q]
    BY <1>1 DEF Goto, TypeOK
  <2>2. \A q \in Requests : q # r /\ Active(q) => on[q] # m
    BY <1>1 DEF Sent, Alone, Quiet
  <2>3. \A q \in Requests : q # r => (Active(q)' <=> Active(q))
    BY <2>1 DEF Active
  <2>4. \A q \in Requests : q # r /\ pc[q] \in Written => Active(q)
    BY DEF Active, Written, Ended
  <2>5. Alone'
    <3> SUFFICES ASSUME NEW p \in Requests, NEW q \in Requests, Active(p)', Active(q)',
                        on'[p] = on'[q], p # q
                 PROVE  FALSE
      BY DEF Alone
    <3>1. CASE p = r
      BY <1>1, <2>2, <2>3, <3>1
    <3>2. CASE q = r
      BY <1>1, <2>2, <2>3, <3>2
    <3>3. CASE p # r /\ q # r
      BY <1>1, <2>3, <3>3 DEF Sent, Alone
    <3>4. QED
      BY <3>1, <3>2, <3>3
  <2>6. \A n \in Matches : matches'[n].status = NoStatus =>
                             matches'[n] = NoMatch /\ live'[n] = NoScoreSent
    BY <1>1 DEF Sent
  <2>7. \A q \in Requests : on[q] \in Matches
    BY DEF TypeOK
  <2>8. \A q \in Requests : Active(q)' => matches'[on'[q]].status # NoStatus
    BY <1>1, <2>2, <2>3, <2>7 DEF Sent
  <2>9. \A q \in Requests : pc'[q] \in Written => new'[q] = matches'[on'[q]]
    BY <1>1, <2>1, <2>2, <2>4, <2>7 DEF Sent
  <2>10. ASSUME NEW n \in Matches, \A q \in Requests : pc'[q] \in Written => on'[q] # n
         PROVE  UpToDate(n)'
    <3>1. CASE n = m
      BY <1>1, <2>1, <2>10, <3>1
    <3>2. CASE n # m
      <4>1. \A q \in Requests : pc[q] \in Written => on[q] # n
        BY <1>1, <2>1, <2>10, <3>2 DEF Active, Written, Ended
      <4>2. QED
        BY <1>1, <3>2, <4>1 DEF Sent, UpToDate
    <3>3. QED
      BY <3>1, <3>2
  <2>11. QED
    BY <2>5, <2>6, <2>8, <2>9, <2>10 DEF Sent
<1>2. ASSUME NEW r \in Requests, NEW label \in Labels, pc[r] \notin Written,
             label \notin Written, Goto(r, label), Active(r) \/ label \in Ended,
             UNCHANGED <<matches, live, on, new>>
      PROVE  Sent'
  <2>1. pc'[r] = label /\ \A q \in Requests : q # r => pc'[q] = pc[q]
    BY <1>2 DEF Goto, TypeOK
  <2>2. \A q \in Requests : /\ Active(q)' => Active(q)
                            /\ pc'[q] \in Written <=> pc[q] \in Written
    BY <1>2, <2>1 DEF Active
  <2>3. QED
    BY <1>2, <2>2 DEF Sent, Alone, UpToDate
<1>3. ASSUME NEW r \in Requests, Active(r)
      PROVE  on[r] \in Matches /\ matches[on[r]].status # NoStatus
             /\ (pc[r] \in Written => new[r] = matches[on[r]])
             /\ (pc[r] \notin Written => UpToDate(on[r]))
  BY <1>3 DEF Sent, TypeOK, Alone, Written, Active, Ended
<1>4. ASSUME NEW r \in Requests, WriteMatch(r) PROVE Sent'
  <2> DEFINE row == Merge(matches[on[r]], dto[r])
  <2>1. Active(r) /\ row.status # NoStatus
    BY <1>3, <1>4 DEF WriteMatch, Active, Ended, Merge
  <2>2. PICK label \in {"findHome", "publish"} : Goto(r, label)
    BY <1>4 DEF WriteMatch
  <2>3. /\ matches' = [matches EXCEPT ![on[r]] = row] /\ new' = [new EXCEPT ![r] = row]
        /\ UNCHANGED <<live, on>>
    BY <1>4 DEF WriteMatch
  <2> HIDE DEF row
  <2>4. QED
    BY <1>1, <1>3, <2>1, <2>2, <2>3 DEF TypeOK, Written, Labels
<1>5. ASSUME NEW r \in Requests, ScoreGoal(r) PROVE Sent'
  <2> DEFINE row == AddGoals(matches[on[r]], GoalsOf(event[r]))
  <2>1. Active(r) /\ row.status # NoStatus
    BY <1>3, <1>5 DEF ScoreGoal, Active, Ended, AddGoals
  <2>2. /\ matches' = [matches EXCEPT ![on[r]] = row] /\ new' = [new EXCEPT ![r] = row]
        /\ UNCHANGED <<live, on>> /\ Goto(r, "publishGoal")
    BY <1>5 DEF ScoreGoal
  <2> HIDE DEF row
  <2>3. QED
    BY <1>1, <1>3, <2>1, <2>2 DEF TypeOK, Written, Labels
<1>6. ASSUME NEW r \in Requests, FindHome(r) \/ ApplyHome(r) \/ FindAway(r) \/ ApplyAway(r)
      PROVE  Sent'
  <2>1. /\ UNCHANGED <<matches, live, on, new>>
        /\ \E label \in Written \ {"publishGoal"} : Goto(r, label)
    BY <1>6 DEF FindHome, ApplyHome, FindAway, ApplyAway, FindStanding, ApplyStanding,
       tables, locals, Written
  <2>2. pc[r] \in Written /\ Active(r)
    BY <1>6 DEF FindHome, ApplyHome, FindAway, ApplyAway, Written, Active, Ended
  <2>3. Written \subseteq Labels
    BY DEF Written, Labels
  <2>4. QED
    BY <1>1, <1>3, <2>1, <2>2, <2>3
<1>7. ASSUME NEW r \in Requests, PublishUpdate(r) \/ PublishGoal(r) PROVE Sent'
  <2>1. pc[r] \in Written /\ Active(r)
    BY <1>7 DEF PublishUpdate, PublishGoal, Written, Active, Ended
  <2>2. /\ live' = [live EXCEPT ![on[r]] = Score(new[r])]
        /\ UNCHANGED <<matches, on, new>>
    BY <1>7 DEF PublishUpdate, PublishGoal, locals
  <2>3. PICK label \in {"done", "findStat"} : Goto(r, label)
    BY <1>7 DEF PublishUpdate, PublishGoal, AfterScore
  <2>4. UpToDate(on[r])'
    BY <1>3, <2>1, <2>2 DEF UpToDate, TypeOK
  <2>5. label \in Labels \ Written
    BY DEF Labels, Ended, Written
  <2>6. QED
    BY <1>1, <1>3, <2>1, <2>2, <2>3, <2>4, <2>5 DEF TypeOK
<1>8. ASSUME NEW r \in Requests, CreateEvent(r) \/ FindStat(r) \/ ApplyStat(r) PROVE Sent'
  <2>1. /\ UNCHANGED <<matches, live, on, new>>
        /\ \E label \in {"goal", "findStat", "applyStat", "done"} : Goto(r, label)
    BY <1>8 DEF CreateEvent, FindStat, ApplyStat, AfterScore, tables, locals
  <2>2. pc[r] \notin Written /\ Active(r)
    BY <1>8 DEF CreateEvent, FindStat, ApplyStat, Written, Active, Ended
  <2>3. {"goal", "findStat", "applyStat", "done"} \subseteq Labels \ Written
    BY DEF Labels, Ended, Written
  <2>4. QED
    BY <1>2, <2>1, <2>2, <2>3
<1>9. ASSUME NEW r \in Requests, NEW m \in Matches, NEW label \in {"write", "event"},
             pc[r] = "idle", matches[m] # NoMatch, Quiet(m), Goto(r, label),
             on' = [on EXCEPT ![r] = m], UNCHANGED <<matches, live, new>>
      PROVE  Sent'
  <2>1. matches[m].status # NoStatus /\ ~Active(r)
    BY <1>9 DEF Sent, Active
  <2>2. UpToDate(m)
    BY <1>9 DEF Sent, Quiet, Active, Written, Ended
  <2>3. UpToDate(m)'
    BY <1>9, <2>2 DEF UpToDate
  <2>4. label \in Labels \ Written
    BY DEF Labels, Written
  <2>5. on'[r] = m /\ \A q \in Requests : q # r => on'[q] = on[q]
    BY <1>9 DEF TypeOK
  <2>6. QED
    BY <1>1, <1>9, <2>1, <2>3, <2>4, <2>5
<1>10. ASSUME NEW r \in Requests, Arrive(r) PROVE Sent'
  <2>1. PICK m \in Matches : \/ \E d \in UpdateDtos : BeginUpdate(r, m, d)
                             \/ \E e \in EventDtos : BeginEvent(r, m, e)
    BY <1>10 DEF Arrive
  <2>2. ASSUME NEW d \in UpdateDtos, BeginUpdate(r, m, d) PROVE Sent'
    <3>1. CASE Goto(r, "rejected") /\ UNCHANGED locals
      <4>1. "rejected" \in Labels \ Written /\ pc[r] \notin Written /\ "rejected" \in Ended
        BY <2>2 DEF BeginUpdate, Labels, Ended, Written
      <4>2. QED
        BY <1>2, <2>2, <3>1, <4>1 DEF BeginUpdate, tables, locals
    <3>2. CASE Goto(r, "write") /\ on' = [on EXCEPT ![r] = m] /\ new' = new
      BY <1>9, <2>2, <3>2, SerialPerMatch DEF BeginUpdate, tables
    <3>3. QED
      BY <2>2, <3>1, <3>2 DEF BeginUpdate
  <2>3. ASSUME NEW e \in EventDtos, BeginEvent(r, m, e) PROVE Sent'
    BY <1>9, <2>3, SerialPerMatch DEF BeginEvent, tables
  <2>4. QED
    BY <2>1, <2>2, <2>3
<1>11. ASSUME NEW m \in Matches, NEW row \in NewRows, Create(m, row) PROVE Sent'
  <2>1. /\ matches' = [matches EXCEPT ![m] = row] /\ UNCHANGED <<live, pc, on, new>>
        /\ matches[m] = NoMatch
    BY <1>11 DEF Create, locals
  <2>2. live[m] = NoScoreSent /\ row.status # NoStatus
    BY <2>1, DtoAssumption DEF Sent, NoMatch
  <2>3. \A r \in Requests : Active(r) => on[r] # m
    BY <2>1 DEF Sent, NoMatch
  <2>4. \A n \in Matches : matches'[n] = IF n = m THEN row ELSE matches[n]
    BY <2>1 DEF TypeOK
  <2>5. \A r \in Requests : on[r] \in Matches /\ (pc[r] \in Written => Active(r))
    BY DEF TypeOK, Written, Active, Ended
  <2>6. \A n \in Matches : (\A r \in Requests : pc[r] \in Written => on[r] # n) => UpToDate(n)'
    BY <2>1, <2>2, <2>4 DEF Sent, UpToDate
  <2>7. QED
    BY <2>1, <2>2, <2>3, <2>4, <2>5, <2>6 DEF Sent, Alone, Active
<1>12. CASE UNCHANGED vars
  BY <1>12 DEF vars, Sent, Alone, Active, UpToDate
<1>13. QED
  BY <1>4, <1>5, <1>6, <1>7, <1>8, <1>10, <1>11, <1>12 DEF Next, Step, Terminated, Fail

\* Where requests for a match do not overlap and none fails, the score last sent
\* to the viewers of a match at rest is the stored one, goals logged after the
\* final whistle included.
THEOREM ViewersSeeStoredScore ==
  ASSUME SerialPerMatch, ~Failures
  PROVE  Spec => []LiveSettled
<1>1. Init => Sent
  BY DtoAssumption DEF Init, Sent, Alone, Active, Written, UpToDate
<1>2. TypeOK /\ Sent /\ [Next]_vars => Sent'
  BY SentStep
<1>3. Sent => LiveSettled
  BY DEF Sent, LiveSettled, UpToDate, Quiet, Active, Written, Ended
<1>4. QED
  BY <1>1, <1>2, <1>3, TypeCorrect, PTL DEF Spec
=============================================================================
