---------------------------- MODULE MatchResults ----------------------------
(***************************************************************************)
(* The match handlers of modules/matches/matches.service.ts and the league *)
(* table they keep: create, update (also reached through reportScore),     *)
(* syncLeagueStandings, addEvent and updatePlayerStats, for the matches of *)
(* one league.                                                             *)
(*                                                                         *)
(* Every handler is a process that gives up control at each `await`.  A    *)
(* statement of PostgreSQL is atomic, a handler is not: none of these runs *)
(* in a transaction, so what a handler read may be stale when it is used.  *)
(* One action below is the code between two awaits, ending with the query  *)
(* it waits for.                                                           *)
(***************************************************************************)
EXTENDS Integers, Sequences, FiniteSets

CONSTANTS
  Teams, Matches, Players,
  Requests,       \* handler invocations; each identifier is used once
  Home, Away,     \* Match.homeTeamId and awayTeamId: update never writes them
  NoPlayer,       \* MatchEvent.playerId = null
  UpdateDtos,     \* bodies of PATCH /matches/:id and /matches/:id/score
  EventDtos,      \* bodies of POST /matches/:id/events
  NewRows,        \* rows POST /matches may create
  InitialRows,    \* what the Match table may hold at the start
  \* What the callers do.  The code enforces none of these.
  SerialPerMatch, \* at most one request at a time works on a match
  Failures,       \* a handler may die at any await (database, Redis, process)
  LateGoals,      \* goals may be logged for a match that is COMPLETED
  TableInitialised \* startSeason has created a standing for every team

Sides    == {"home", "away"}
Statuses == {"DRAFT", "SCHEDULED", "LIVE", "COMPLETED", "CANCELLED"}
StatTypes  == {"GOAL", "ASSIST", "YELLOW_CARD", "RED_CARD"}
EventTypes == StatTypes \cup {"OWN_GOAL"}

NoStatus == "none"   \* a field the body leaves out; also: no such match
NoScore  == -1       \* a score the body leaves out (a given one is >= 0)

MatchRow == [status : Statuses \cup {NoStatus}, home : Nat, away : Nat]
NoMatch  == [status |-> NoStatus, home |-> 0, away |-> 0]

UpdateDto == [status : Statuses \cup {NoStatus},
              home : Nat \cup {NoScore}, away : Nat \cup {NoScore}]
EventDto  == [type : EventTypes, side : Sides \cup {"neither"},
              player : Players \cup {NoPlayer}]

\* What one match adds to one team's line of the table (getStats), and a line.
Columns  == {"played", "won", "drawn", "lost", "goalsFor", "goalsAgainst",
             "points"}
StatLine == [Columns -> Int]
Standing == [Columns \cup {"goalDifference"} -> Int]
PlayerStat == [StatTypes -> Nat]

ASSUME MatchesAssumption ==
  /\ IsFiniteSet(Teams)
  /\ IsFiniteSet(Matches) /\ Matches # {}
  /\ Home \in [Matches -> Teams]
  /\ Away \in [Matches -> Teams]
  /\ \A m \in Matches : Home[m] # Away[m]
  /\ NoPlayer \notin Players
ASSUME DtoAssumption ==
  /\ UpdateDtos \subseteq UpdateDto
  /\ EventDtos \subseteq EventDto
  /\ NewRows \subseteq MatchRow
  /\ \A row \in NewRows : row.status # NoStatus
  /\ InitialRows \subseteq MatchRow
  /\ \A row \in InitialRows : row.status = NoStatus => row = NoMatch
ASSUME RegimeAssumption ==
  /\ SerialPerMatch \in BOOLEAN
  /\ Failures \in BOOLEAN
  /\ LateGoals \in BOOLEAN
  /\ TableInitialised \in BOOLEAN

VARIABLES
  matches,     \* the Match table
  standings,   \* the LeagueStanding rows of each team: no unique constraint
  statRows,    \* the PlayerStat rows of each player: no unique constraint
  events,      \* the MatchEvent table, an event named by its request
  live,        \* last score published on channel match:<id>
  pc,          \* where each handler is
  on,          \* the match it works on
  dto,         \* the body of an update
  event,       \* the body of an addEvent
  old,         \* `match` as update read it
  new,         \* `updatedMatch`
  found,       \* position of the row findFirst returned, 0 for none
  posted       \* history: what each match has added to its teams' lines

tables == <<matches, standings, statRows, events, live>>
locals == <<on, dto, event, old, new, found>>
vars   == <<matches, standings, statRows, events, live, pc, on, dto, event,
            old, new, found, posted>>

Ended  == {"done", "failed", "rejected"}
Labels == Ended \cup {"idle", "write", "findHome", "applyHome", "findAway",
                      "applyAway", "publish", "event", "goal", "publishGoal",
                      "findStat", "applyStat"}

NoScoreSent == [home |-> NoScore, away |-> NoScore]
Score(row) == [home |-> row.home, away |-> row.away]

-----------------------------------------------------------------------------
(* The arithmetic of syncLeagueStandings. *)

NoStats == [c \in Columns |-> 0]

\* Mutant of GoalsAgainst: not swapped for the away side.
GoalsAgainstUnswapped(row, side) == row.away

GoalsFor(row, side) == IF side = "home" THEN row.home ELSE row.away
GoalsAgainst(row, side) == IF side = "home" THEN row.away ELSE row.home

\* getStats: nothing unless the match is COMPLETED.
GetStats(row, side) ==
  LET gf == GoalsFor(row, side)
      ga == GoalsAgainst(row, side)
  IN  IF row.status # "COMPLETED" THEN NoStats
      ELSE [played       |-> 1,
            won          |-> IF gf > ga THEN 1 ELSE 0,
            drawn        |-> IF gf = ga THEN 1 ELSE 0,
            lost         |-> IF gf < ga THEN 1 ELSE 0,
            goalsFor     |-> gf,
            goalsAgainst |-> ga,
            points       |-> IF gf > ga THEN 3 ELSE IF gf = ga THEN 1 ELSE 0]

Minus(s, t) == [c \in Columns |-> s[c] - t[c]]
Plus(s, t)  == [c \in Columns |-> s[c] + t[c]]

\* Mutant of Difference: goals against are forgotten.
DifferenceForOnly(t) == t.goalsFor

Difference(t) == t.goalsFor - t.goalsAgainst

\* The increments of leagueStanding.update.
Increment(row, d) ==
  [c \in DOMAIN row |->
     row[c] + IF c = "goalDifference" THEN Difference(d) ELSE d[c]]

\* leagueStanding.create writes newT itself.
NewStanding(t) ==
  [c \in Columns \cup {"goalDifference"} |->
     IF c = "goalDifference" THEN Difference(t) ELSE t[c]]

TeamOf(m, side) == IF side = "home" THEN Home[m] ELSE Away[m]

\* Mutant of Delta: what the match counted for before is not taken back.
DeltaWithoutOld(r, side) == GetStats(new[r], side)

Delta(r, side) == Minus(GetStats(new[r], side), GetStats(old[r], side))

-----------------------------------------------------------------------------
Init ==
  /\ matches \in [Matches -> InitialRows]
  /\ standings = [t \in Teams |->
                    IF TableInitialised THEN <<NewStanding(NoStats)>> ELSE <<>>]
  /\ statRows = [p \in Players |-> <<>>]
  /\ events = {}
  /\ live = [m \in Matches |-> NoScoreSent]
  /\ pc = [r \in Requests |-> "idle"]
  /\ on = [r \in Requests |-> CHOOSE m \in Matches : TRUE]
  /\ dto = [r \in Requests |->
              [status |-> NoStatus, home |-> NoScore, away |-> NoScore]]
  /\ event = [r \in Requests |->
              [type |-> "GOAL", side |-> "neither", player |-> NoPlayer]]
  /\ old = [r \in Requests |-> NoMatch]
  /\ new = [r \in Requests |-> NoMatch]
  /\ found = [r \in Requests |-> 0]
  /\ posted = [m \in Matches |-> [s \in Sides |-> NoStats]]

\* Mutant of FindFirst: the rows are looked for in the wrong place.
FindNothing(rows) == {0}

\* findFirst without an order returns the position of any row, 0 for none.
FindFirst(rows) == IF rows = <<>> THEN {0} ELSE DOMAIN rows

Active(r) == pc[r] \notin Ended \cup {"idle"}

\* No handler is working on m.
Quiet(m) == \A r \in Requests : Active(r) => on[r] # m

Goto(r, label) == pc' = [pc EXCEPT ![r] = label]

-----------------------------------------------------------------------------
(* create: any status, COMPLETED included, and no syncLeagueStandings. *)
Create(m, row) ==
  /\ matches[m] = NoMatch
  /\ matches' = [matches EXCEPT ![m] = row]
  /\ UNCHANGED <<standings, statRows, events, live, pc, locals, posted>>

-----------------------------------------------------------------------------
(* update *)

IsScoreUpdate(d) ==
  \/ d.home # NoScore
  \/ d.away # NoScore
  \/ d.status = "COMPLETED"

\* match.findUnique, the DRAFT check and the building of updateData.
BeginUpdate(r, m, d) ==
  /\ pc[r] = "idle"
  /\ matches[m] # NoMatch
  /\ SerialPerMatch => Quiet(m)
  /\ IF matches[m].status = "DRAFT" /\ IsScoreUpdate(d)
       THEN Goto(r, "rejected") /\ UNCHANGED locals
       ELSE /\ Goto(r, "write")
            /\ on' = [on EXCEPT ![r] = m]
            /\ dto' = [dto EXCEPT ![r] = d]
            /\ old' = [old EXCEPT ![r] = matches[m]]
            /\ UNCHANGED <<event, new, found>>
  /\ UNCHANGED <<tables, posted>>

\* match.update: only the given fields, on the row as it is now.
Merge(row, d) ==
  [status |-> IF d.status # NoStatus THEN d.status ELSE row.status,
   home   |-> IF d.home # NoScore THEN d.home ELSE row.home,
   away   |-> IF d.away # NoScore THEN d.away ELSE row.away]

\* Mutant of NeedsSync: a result that is withdrawn is not synchronised.
NeedsSyncAfterOnly(before, after) == after.status = "COMPLETED"

NeedsSync(before, after) ==
  after.status = "COMPLETED" \/ before.status = "COMPLETED"

WriteMatch(r) ==
  LET row == Merge(matches[on[r]], dto[r])
  IN  /\ pc[r] = "write"
      /\ matches' = [matches EXCEPT ![on[r]] = row]
      /\ new' = [new EXCEPT ![r] = row]
      /\ Goto(r, IF NeedsSync(old[r], row) THEN "findHome" ELSE "publish")
      /\ UNCHANGED <<standings, statRows, events, live, on, dto, event, old,
                     found, posted>>

\* updateTeam up to leagueStanding.findFirst.
FindStanding(r, side, applyLabel, skipLabel) ==
  /\ IF Delta(r, side) = NoStats
       THEN Goto(r, skipLabel) /\ UNCHANGED found
       ELSE /\ \E i \in FindFirst(standings[TeamOf(on[r], side)]) :
                 found' = [found EXCEPT ![r] = i]
            /\ Goto(r, applyLabel)
  /\ UNCHANGED <<tables, on, dto, event, old, new, posted>>

\* leagueStanding.update, or create for a team without a line.
ApplyStanding(r, side, nextLabel) ==
  LET m    == on[r]
      team == TeamOf(m, side)
      newT == GetStats(new[r], side)
      Post(s) == posted' = [posted EXCEPT ![m][side] = Plus(@, s)]
  IN  /\ \/ /\ found[r] # 0
            /\ standings' = [standings EXCEPT ![team][found[r]] =
                               Increment(@, Delta(r, side))]
            /\ Post(Delta(r, side))
         \/ /\ found[r] = 0
            /\ new[r].status = "COMPLETED"
            /\ standings' = [standings EXCEPT ![team] =
                               Append(@, NewStanding(newT))]
            /\ Post(newT)
         \/ /\ found[r] = 0
            /\ new[r].status # "COMPLETED"
            /\ UNCHANGED <<standings, posted>>
      /\ Goto(r, nextLabel)
      /\ UNCHANGED <<matches, statRows, events, live, locals>>

FindHome(r) == pc[r] = "findHome"  /\ FindStanding(r, "home", "applyHome", "findAway")

\* Mutant of ApplyHome: the away team is forgotten.
ApplyHomeOnly(r) == pc[r] = "applyHome" /\ ApplyStanding(r, "home", "publish")

ApplyHome(r) == pc[r] = "applyHome" /\ ApplyStanding(r, "home", "findAway")
FindAway(r) == pc[r] = "findAway"  /\ FindStanding(r, "away", "applyAway", "publish")
ApplyAway(r) == pc[r] = "applyAway" /\ ApplyStanding(r, "away", "publish")

\* Mutant of PublishUpdate: the row as it was read, not as it was written.
PublishStale(r) ==
  /\ pc[r] = "publish"
  /\ live' = [live EXCEPT ![on[r]] = Score(old[r])]
  /\ Goto(r, "done")
  /\ UNCHANGED <<matches, standings, statRows, events, locals, posted>>

\* redis.publish of the row this handler wrote.
PublishUpdate(r) ==
  /\ pc[r] = "publish"
  /\ live' = [live EXCEPT ![on[r]] = Score(new[r])]
  /\ Goto(r, "done")
  /\ UNCHANGED <<matches, standings, statRows, events, locals, posted>>

-----------------------------------------------------------------------------
(* addEvent *)

IsGoal(e) == e.type \in {"GOAL", "OWN_GOAL"}

\* Goals for the home and the away side; a team of neither side scores none.
GoalsOf(e) ==
  [home |-> IF \/ e.type = "GOAL" /\ e.side = "home"
               \/ e.type = "OWN_GOAL" /\ e.side = "away" THEN 1 ELSE 0,
   away |-> IF \/ e.type = "GOAL" /\ e.side = "away"
               \/ e.type = "OWN_GOAL" /\ e.side = "home" THEN 1 ELSE 0]

\* match.findUnique; the row is used for its teams and its league only.
BeginEvent(r, m, e) ==
  /\ pc[r] = "idle"
  /\ matches[m] # NoMatch
  /\ SerialPerMatch => Quiet(m)
  /\ LateGoals \/ matches[m].status # "COMPLETED" \/ ~IsGoal(e)
  /\ Goto(r, "event")
  /\ on' = [on EXCEPT ![r] = m]
  /\ event' = [event EXCEPT ![r] = e]
  /\ UNCHANGED <<tables, dto, old, new, found, posted>>

\* Mutant of AfterScore: the check that the event has a player is dropped.
AfterScoreUnchecked(e) == IF e.type \in StatTypes THEN "findStat" ELSE "done"

\* Where addEvent continues once the score is dealt with.
AfterScore(e) ==
  IF e.player # NoPlayer /\ e.type \in StatTypes THEN "findStat" ELSE "done"

CreateEvent(r) ==
  /\ pc[r] = "event"
  /\ events' = events \cup {[id |-> r, match |-> on[r], body |-> event[r]]}
  /\ Goto(r, IF IsGoal(event[r]) THEN "goal" ELSE AfterScore(event[r]))
  /\ UNCHANGED <<matches, standings, statRows, live, locals, posted>>

AddGoals(row, g) == [status |-> row.status,
                     home |-> row.home + g.home, away |-> row.away + g.away]

\* match.update with increments; the league table is not synchronised.
ScoreGoal(r) ==
  LET row == AddGoals(matches[on[r]], GoalsOf(event[r]))
  IN  /\ pc[r] = "goal"
      /\ matches' = [matches EXCEPT ![on[r]] = row]
      /\ new' = [new EXCEPT ![r] = row]
      /\ Goto(r, "publishGoal")
      /\ UNCHANGED <<standings, statRows, events, live, on, dto, event, old,
                     found, posted>>

PublishGoal(r) ==
  /\ pc[r] = "publishGoal"
  /\ live' = [live EXCEPT ![on[r]] = Score(new[r])]
  /\ Goto(r, AfterScore(event[r]))
  /\ UNCHANGED <<matches, standings, statRows, events, locals, posted>>

\* updatePlayerStats: findFirst, then update or create.
FindStat(r) ==
  /\ pc[r] = "findStat"
  /\ \E i \in FindFirst(statRows[event[r].player]) :
       found' = [found EXCEPT ![r] = i]
  /\ Goto(r, "applyStat")
  /\ UNCHANGED <<tables, on, dto, event, old, new, posted>>

\* Mutant of Credit: the statistic is set, not incremented.
CreditOnce(row, t) == [row EXCEPT ![t] = 1]

Credit(row, t) == [row EXCEPT ![t] = @ + 1]

ApplyStat(r) ==
  LET p == event[r].player
      t == event[r].type
      none == [s \in StatTypes |-> 0]
  IN  /\ pc[r] = "applyStat"
      /\ statRows' = IF found[r] # 0
           THEN [statRows EXCEPT ![p][found[r]] = Credit(@, t)]
           ELSE [statRows EXCEPT ![p] = Append(@, Credit(none, t))]
      /\ Goto(r, "done")
      /\ UNCHANGED <<matches, standings, events, live, locals, posted>>

-----------------------------------------------------------------------------
(* The handler stops at its await: the query failed or the process died.   *)
(* What it wrote before stays; nothing resumes it.                         *)
Fail(r) ==
  /\ Failures
  /\ Active(r)
  /\ Goto(r, "failed")
  /\ UNCHANGED <<tables, locals, posted>>

\* Every request has been answered: the bounded instance stops.
Terminated ==
  /\ \A r \in Requests : pc[r] \in Ended
  /\ UNCHANGED vars

Step(r) ==
  \/ WriteMatch(r)
  \/ FindHome(r)
  \/ ApplyHome(r)
  \/ FindAway(r)
  \/ ApplyAway(r)
  \/ PublishUpdate(r)
  \/ CreateEvent(r)
  \/ ScoreGoal(r)
  \/ PublishGoal(r)
  \/ FindStat(r)
  \/ ApplyStat(r)

Arrive(r) ==
  \E m \in Matches :
    \/ \E d \in UpdateDtos : BeginUpdate(r, m, d)
    \/ \E e \in EventDtos : BeginEvent(r, m, e)

Next ==
  \/ \E m \in Matches, row \in NewRows : Create(m, row)
  \/ \E r \in Requests : Arrive(r) \/ Step(r) \/ Fail(r)
  \/ Terminated

\* A handler that is waiting for a query gets its answer: the event loop runs
\* every callback.  Nothing obliges a client to send a request.
Fairness == \A r \in Requests : WF_vars(Step(r))

Spec == Init /\ [][Next]_vars /\ Fairness

-----------------------------------------------------------------------------
(* Properties.  Those that add up lines of the table are in LeagueTable. *)

\* updatePlayerStats runs only for an event with a player and a statistic.
StatsHavePlayer ==
  \A r \in Requests : pc[r] \in {"findStat", "applyStat"} =>
    event[r].player \in Players /\ event[r].type \in StatTypes

\* Every variable holds what its column or local may hold.
TypeOK ==
  /\ matches \in [Matches -> MatchRow]
  /\ standings \in [Teams -> Seq(Standing)]
  /\ statRows \in [Players -> Seq(PlayerStat)]
  /\ events \subseteq [id : Requests, match : Matches, body : EventDto]
  /\ live \in [Matches -> [home : Nat \cup {NoScore}, away : Nat \cup {NoScore}]]
  /\ pc \in [Requests -> Labels]
  /\ on \in [Requests -> Matches]
  /\ dto \in [Requests -> UpdateDto]
  /\ event \in [Requests -> EventDto]
  /\ old \in [Requests -> MatchRow]
  /\ new \in [Requests -> MatchRow]
  /\ found \in [Requests -> Nat]
  /\ posted \in [Matches -> [Sides -> StatLine]]
  /\ StatsHavePlayer

\* However the handlers interleave, overlap or fail, each line of the table is
\* consistent in itself: syncLeagueStandings moves all of its columns at once.
RowArithmetic ==
  \A t \in Teams : \A i \in DOMAIN standings[t] :
    LET row == standings[t][i] IN
      /\ row.played = row.won + row.drawn + row.lost
      /\ row.points = 3 * row.won + row.drawn
      /\ row.goalDifference = row.goalsFor - row.goalsAgainst

\* Once startSeason has created the lines no result ever adds a second one for
\* a team, although the table has no unique constraint.
OneStandingPerTeam ==
  TableInitialised => \A t \in Teams : Len(standings[t]) = 1

\* If requests for the same match do not overlap, none fails, and goals are not
\* logged after the final whistle, then a match that nobody is working on has
\* added to its teams' lines exactly what its stored result is worth, however
\* often the result was corrected or withdrawn.
Settled ==
  \A m \in Matches : Quiet(m) =>
    \A s \in Sides : posted[m][s] = GetStats(matches[m], s)

\* Under the same conditions the score last sent to the viewers of a match
\* nobody is working on is the score the database holds.
LiveSettled ==
  \A m \in Matches :
    Quiet(m) => live[m] \in {NoScoreSent, Score(matches[m])}

\* "Report match result (scores) and auto-update standings": when an update is
\* answered with success and no other request works on the match, the lines of
\* the two teams hold its result.
ReportUpdatesTable ==
  [][\A r \in Requests :
       /\ pc[r] = "publish" /\ pc'[r] = "done"
       /\ \A q \in Requests : Active(q) /\ q # r => on[q] # on[r]
       => \A s \in Sides : posted[on[r]][s] = GetStats(matches[on[r]], s)]_vars
=============================================================================
