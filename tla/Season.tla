------------------------------- MODULE Season -------------------------------
(***************************************************************************)
(* The way of a league from registration to the first match day:           *)
(* registration and approval of teams (modules/teams/teams.service.ts),    *)
(* status changes, generateFixtures and startSeason                        *)
(* (modules/leagues/leagues.service.ts), and the matches made and updated  *)
(* by hand (create and update of modules/matches/matches.service.ts).      *)
(*                                                                         *)
(* A handler gives up control at each `await`; startSeason and             *)
(* generateFixtures are sequences of statements without a transaction, so  *)
(* other handlers run in between and a failure leaves them half done.  The *)
(* order and dates of the fixtures are the subject of Fixtures; here a     *)
(* fixture is the pair of its teams and the leg.                           *)
(***************************************************************************)
EXTENDS Integers, FiniteSets

CONSTANTS
  Leagues, Teams,
  Requests,       \* handler invocations; each identifier is used once
  NoLeague,       \* Team.leagueId = null
  NoOne,          \* of a handler that works on no team
  MaxTeams,       \* League.maxTeams
  Legs,           \* matchFormat: {1} for SINGLE, {1, 2} for DOUBLE
  HandMade,       \* what POST /matches may say of the teams and the status
  Starts,         \* what status, team and serial may be at the start
  \* What the administrators do.  The code enforces none of these.
  Failures,       \* a handler may die at any await
  UncheckedStatus, \* PATCH /teams/:id is used to set a team's status
  RosterFrozen,   \* teams enter, leave and are judged during REGISTRATION only
  ForwardOnly     \* a league's status is set by hand only as far as PRE_SEASON,
                  \* and matches are made and updated by hand only when it
                  \* is ONGOING

LeagueStatuses == {"REGISTRATION", "PRE_SEASON", "ONGOING", "COMPLETED"}
TeamStatuses   == {"PENDING", "APPROVED", "REJECTED"}
\* A row that has not been created yet, and one that has been deleted.
Missing == {"ABSENT", "REMOVED"}
Team    == [league : Leagues \cup {NoLeague}, status : TeamStatuses]
NoTeam(s) == [league |-> NoLeague, status |-> s]
MatchStatuses == {"DRAFT", "SCHEDULED", "LIVE", "COMPLETED", "CANCELLED"}
\* The leg of a match that was not drawn.
ByHand == 0
\* A row of the Match table: drawn by generateFixtures, or made by POST, which
\* accepts a team against itself.  touched is history: PATCH has changed the
\* status of the row.
MatchOf(pairs, legs) == [league : Leagues, pair : pairs, leg : legs,
                         state : MatchStatuses, by : Requests, touched : BOOLEAN]
Drawn    == MatchOf({p \in SUBSET Teams : Cardinality(p) = 2}, Legs)
Arranged == MatchOf({p \in SUBSET Teams : Cardinality(p) \in 1 .. 2}, {ByHand})
Fixture  == Drawn \cup Arranged

Job     == [league : Leagues \cup {NoLeague}, who : Teams \cup {NoOne},
            wanted : TeamStatuses, approved : SUBSET Teams]
NoJob   == [league |-> NoLeague, who |-> NoOne, wanted |-> "PENDING", approved |-> {}]

ASSUME SeasonAssumption ==
  /\ NoLeague \notin Leagues /\ NoOne \notin Teams
  /\ Teams # {} /\ IsFiniteSet(Teams)
  /\ MaxTeams \in [Leagues -> Nat]
  /\ ByHand \notin Legs
  /\ HandMade \subseteq [pair : {p \in SUBSET Teams : Cardinality(p) \in 1 .. 2},
                        state : MatchStatuses]
  /\ Starts \subseteq [status : [Leagues -> LeagueStatuses \cup Missing],
                     team : [Teams -> Team \cup {NoTeam(s) : s \in Missing}],
                     serial : BOOLEAN]
  \* the foreign key Team.leagueId
  /\ \A s \in Starts, t \in Teams :
       s.team[t].league # NoLeague => s.status[s.team[t].league] \notin Missing
  /\ {Failures, UncheckedStatus, RosterFrozen, ForwardOnly} \subseteq BOOLEAN

VARIABLES
  status,     \* League.status
  team,       \* the Team table: league and registration status
  matches,    \* the Match table; by names the request that created the row
  standing,   \* number of LeagueStanding rows of a team in a league
  pc,         \* where each handler is
  job,        \* its locals: the league and the team it works on, the status it
              \* is to write, the approved teams read and not dealt with yet
  serial      \* the callers' discipline: requests do not overlap.  Nothing in
              \* the code enforces it.

tables == <<status, team, matches, standing>>
vars   == <<status, team, matches, standing, pc, job, serial>>

Ended  == {"done", "failed", "rejected"}
Labels == Ended \cup {"idle", "count", "setStatus", "readLeague", "enter",
                      "leave", "readTeams", "clear", "insert", "countDrafts",
                      "schedule", "readApproved", "nextTeam", "createStanding",
                      "goOngoing", "deleteTeam", "deleteLeague"}

Approved(l) == {t \in Teams : team[t] = [league |-> l, status |-> "APPROVED"]}
Exists(t) == team[t].status \notin Missing
LeagueExists(l) == status[l] \notin Missing
Active(r) == pc[r] \notin Ended \cup {"idle"}

Init ==
  /\ \E s \in Starts : status = s.status /\ team = s.team /\ serial = s.serial
  /\ \A l \in Leagues : Cardinality(Approved(l)) <= MaxTeams[l]
  /\ matches = {}
  /\ standing = [l \in Leagues |-> [t \in Teams |-> 0]]
  /\ pc = [r \in Requests |-> "idle"]
  /\ job = [r \in Requests |-> NoJob]

\* On to the next await; a handler that has ended has no locals any more.
GoWith(r, label, j) ==
  /\ pc' = [pc EXCEPT ![r] = label]
  /\ job' = [job EXCEPT ![r] = IF label \in Ended THEN NoJob ELSE j]
Goto(r, label) == GoWith(r, label, job[r])

\* A new request arrives.
MayBegin(r) ==
  /\ pc[r] = "idle"
  /\ serial => \A q \in Requests : ~Active(q)

\* The roster of l may change.
Open(l) == RosterFrozen /\ l # NoLeague => status[l] = "REGISTRATION"

-----------------------------------------------------------------------------
(* Registration and approval of teams. *)

\* team.update: the row must be there, and the league it is to refer to.
UpdateTeam(r, row) ==
  /\ IF Exists(job[r].who) /\ (row.league # NoLeague => LeagueExists(row.league))
       THEN team' = [team EXCEPT ![job[r].who] = row] /\ Goto(r, "done")
       ELSE Goto(r, "rejected") /\ UNCHANGED team
  /\ UNCHANGED <<serial, status, matches, standing>>

\* updateStatus: findOne, and whether there is a league to be counted.
BeginSetStatus(r, t, s) ==
  /\ Exists(t)
  /\ MayBegin(r)
  /\ Open(team[t].league)
  /\ GoWith(r, IF s = "APPROVED" /\ team[t].league # NoLeague
                 THEN "count" ELSE "setStatus",
            [NoJob EXCEPT !.who = t, !.wanted = s, !.league = team[t].league])
  /\ UNCHANGED <<serial, tables>>

\* Mutant of Full: one team too many.
FullWithOneMore(l) == Cardinality(Approved(l)) > MaxTeams[l]

\* The capacity check; the team itself counts too if it is APPROVED already.
Full(l) == Cardinality(Approved(l)) >= MaxTeams[l]

CountApproved(r) ==
  /\ pc[r] = "count"
  /\ Goto(r, IF Full(job[r].league) THEN "rejected" ELSE "setStatus")
  /\ UNCHANGED <<serial, tables>>

\* team.update writes the status only, whatever league the team is in by now.
SetTeamStatus(r) ==
  /\ pc[r] = "setStatus"
  /\ UpdateTeam(r, [team[job[r].who] EXCEPT !.status = job[r].wanted])

\* update of a team: UpdateTeamDto has a status, and nothing counts.
BeginUpdateTeam(r, t, s) ==
  /\ Exists(t)
  /\ UncheckedStatus
  /\ MayBegin(r)
  /\ Open(team[t].league)
  /\ GoWith(r, "setStatus", [NoJob EXCEPT !.who = t, !.wanted = s])
  /\ UNCHANGED <<serial, tables>>

\* joinLeague: the checks on the team as checkOwnership read it.
BeginJoin(r, t, l) ==
  LET now == team[t] IN
  /\ Exists(t) /\ MayBegin(r)
  /\ Open(now.league)
  /\ GoWith(r, IF \/ now.league = l /\ now.status # "REJECTED"
                  \/ /\ now.league \notin {NoLeague, l}
                     /\ now.status # "REJECTED"
                     /\ status[now.league] # "COMPLETED"
                 THEN "rejected" ELSE "readLeague",
            [NoJob EXCEPT !.who = t, !.league = l])
  /\ UNCHANGED <<serial, tables>>

\* The checks on the league; the registration window may be closed and the
\* team may have too few players.
CheckLeague(r) ==
  /\ pc[r] = "readLeague"
  /\ \/ status[job[r].league] = "REGISTRATION" /\ Goto(r, "enter")
     \/ Goto(r, "rejected")
  /\ UNCHANGED <<serial, tables>>

EnterLeague(r) ==
  /\ pc[r] = "enter"
  /\ UpdateTeam(r, [league |-> job[r].league, status |-> "PENDING"])

\* Mutant of MayLeave: the league's status is not looked at.
MayLeaveAnytime(l) == l # NoLeague

MayLeave(l) == l # NoLeague /\ status[l] # "ONGOING"

\* removeFromLeague
BeginRemove(r, t) ==
  /\ Exists(t)
  /\ MayBegin(r)
  /\ Open(team[t].league)
  /\ GoWith(r, IF MayLeave(team[t].league) THEN "leave" ELSE "rejected",
            [NoJob EXCEPT !.who = t])
  /\ UNCHANGED <<serial, tables>>

LeaveLeague(r) ==
  /\ pc[r] = "leave"
  /\ UpdateTeam(r, [league |-> NoLeague, status |-> "PENDING"])

\* create: straight into any league there is, whatever its status.
CreateTeam(t, l) ==
  /\ team[t] = NoTeam("ABSENT")
  /\ Open(l)
  /\ l # NoLeague => LeagueExists(l)
  /\ team' = [team EXCEPT ![t] = [league |-> l, status |-> "PENDING"]]
  /\ UNCHANGED <<serial, status, matches, standing, pc, job>>

BeginDelete(r, t) ==
  /\ Exists(t)
  /\ MayBegin(r)
  /\ Open(team[t].league)
  /\ GoWith(r, "deleteTeam", [NoJob EXCEPT !.who = t])
  /\ UNCHANGED <<serial, tables>>

\* remove: a match or a join request of the team stops it (foreign keys); its
\* lines of the table go with it.
DeleteTeam(r) ==
  LET t == job[r].who IN
  /\ pc[r] = "deleteTeam"
  /\ \/ /\ Exists(t) /\ \A x \in matches : t \notin x.pair
        /\ team' = [team EXCEPT ![t] = NoTeam("REMOVED")]
        /\ standing' = [l \in Leagues |-> [standing[l] EXCEPT ![t] = 0]]
        /\ Goto(r, "done")
     \/ Goto(r, "rejected") /\ UNCHANGED <<team, standing>>
  /\ UNCHANGED <<serial, status, matches>>

-----------------------------------------------------------------------------
(* The league. *)

\* updateStatus and update of a league: any status, from any status.
SetLeagueStatus(l, s) ==
  /\ LeagueExists(l) /\ s # status[l]
  /\ ForwardOnly => status[l] = "REGISTRATION" /\ s = "PRE_SEASON"
  /\ serial => \A q \in Requests : ~Active(q)
  /\ status' = [status EXCEPT ![l] = s]
  /\ UNCHANGED <<serial, team, matches, standing, pc, job>>

\* create: with any status.
CreateLeague(l, s) ==
  /\ status[l] = "ABSENT"
  /\ ForwardOnly => s = "REGISTRATION"
  /\ status' = [status EXCEPT ![l] = s]
  /\ UNCHANGED <<serial, team, matches, standing, pc, job>>

BeginDeleteLeague(r, l) ==
  /\ LeagueExists(l)
  /\ MayBegin(r)
  /\ ForwardOnly => status[l] = "REGISTRATION"
  /\ GoWith(r, "deleteLeague", [NoJob EXCEPT !.league = l])
  /\ UNCHANGED <<serial, tables>>

\* remove: a match stops it; its teams are in no league any more, whatever
\* their status, and its table goes.
DeleteLeague(r) ==
  LET l == job[r].league IN
  /\ pc[r] = "deleteLeague"
  /\ IF LeagueExists(l) /\ \A x \in matches : x.league # l
       THEN /\ status' = [status EXCEPT ![l] = "REMOVED"]
            /\ team' = [t \in Teams |-> IF team[t].league = l
                          THEN [team[t] EXCEPT !.league = NoLeague] ELSE team[t]]
            /\ standing' = [standing EXCEPT ![l] = [t \in Teams |-> 0]]
            /\ Goto(r, "done")
       ELSE Goto(r, "rejected") /\ UNCHANGED <<status, team, standing>>
  /\ UNCHANGED <<serial, matches>>

\* generateFixtures
BeginGenerate(r, l) ==
  /\ MayBegin(r)
  /\ GoWith(r, IF status[l] = "PRE_SEASON" THEN "readTeams" ELSE "rejected",
            [NoJob EXCEPT !.league = l])
  /\ UNCHANGED <<serial, tables>>

ReadTeams(r) ==
  LET teams == Approved(job[r].league)
  IN  /\ pc[r] = "readTeams"
      /\ GoWith(r, IF Cardinality(teams) < 2 THEN "rejected" ELSE "clear",
                [job[r] EXCEPT !.approved = teams])
      /\ UNCHANGED <<serial, tables>>

\* Mutants of Unplayed: only drafts; everything.
DraftsOnly == {"DRAFT"}
Everything == MatchStatuses

Unplayed == {"DRAFT", "SCHEDULED"}

\* match.deleteMany: unplayed fixtures go, played ones stay.
ClearFixtures(r) ==
  /\ pc[r] = "clear"
  /\ matches' = {x \in matches : x.league # job[r].league \/ x.state \notin Unplayed}
  /\ Goto(r, "insert")
  /\ UNCHANGED <<serial, status, team, standing>>

\* Mutant of Pairs: a team is drawn against itself.
PairsAndSelf(teams) == {p \in SUBSET teams : Cardinality(p) \in 1 .. 2}

\* Who meets whom; Fixtures has the order and the dates.
Pairs(teams) == {p \in SUBSET teams : Cardinality(p) = 2}

\* match.createMany: every pair of the teams read above, once per leg; nothing
\* at all if one of them, or the league, has been deleted.
InsertFixtures(r) ==
  /\ pc[r] = "insert"
  /\ IF LeagueExists(job[r].league) /\ \A t \in job[r].approved : Exists(t)
       THEN /\ matches' = matches \cup
                 [league : {job[r].league}, pair : Pairs(job[r].approved), leg : Legs,
                  state : {"DRAFT"}, by : {r}, touched : {FALSE}]
            /\ Goto(r, "done")
       ELSE Goto(r, "rejected") /\ UNCHANGED matches
  /\ UNCHANGED <<serial, status, team, standing>>

\* startSeason
BeginStart(r, l) ==
  /\ MayBegin(r)
  /\ GoWith(r, IF status[l] = "PRE_SEASON" THEN "countDrafts" ELSE "rejected",
            [NoJob EXCEPT !.league = l])
  /\ UNCHANGED <<serial, tables>>

In(l, state) == {x \in matches : x.league = l /\ x.state = state}

CountDrafts(r) ==
  /\ pc[r] = "countDrafts"
  /\ Goto(r, IF In(job[r].league, "DRAFT") = {} THEN "rejected" ELSE "schedule")
  /\ UNCHANGED <<serial, tables>>

\* "1. Update all DRAFT matches to SCHEDULED"
ScheduleDrafts(r) ==
  LET drafts == In(job[r].league, "DRAFT")
  IN  /\ pc[r] = "schedule"
      /\ matches' = (matches \ drafts)
                      \cup {[x EXCEPT !.state = "SCHEDULED"] : x \in drafts}
      /\ Goto(r, "readApproved")
      /\ UNCHANGED <<serial, status, team, standing>>

\* "2. Initialize Standings for all approved teams"
ReadApproved(r) ==
  /\ pc[r] = "readApproved"
  /\ GoWith(r, "nextTeam", [job[r] EXCEPT !.approved = Approved(job[r].league)])
  /\ UNCHANGED <<serial, tables>>

\* Mutant of HasStanding: findFirst never finds a row.
HasNoStanding(l, t) == FALSE

HasStanding(l, t) == standing[l][t] > 0

\* leagueStanding.findFirst for the next team of the list.
NextTeam(r) ==
  /\ pc[r] = "nextTeam"
  /\ IF job[r].approved = {}
       THEN Goto(r, "goOngoing")
       ELSE LET t == CHOOSE x \in job[r].approved : TRUE IN
            GoWith(r, IF HasStanding(job[r].league, t) THEN "nextTeam" ELSE "createStanding",
                   [job[r] EXCEPT !.who = t, !.approved = @ \ {t}])
  /\ UNCHANGED <<serial, tables>>

CreateStanding(r) ==
  /\ pc[r] = "createStanding"
  /\ IF LeagueExists(job[r].league) /\ Exists(job[r].who)
       THEN /\ standing' = [standing EXCEPT ![job[r].league][job[r].who] = @ + 1]
            /\ Goto(r, "nextTeam")
       ELSE Goto(r, "rejected") /\ UNCHANGED standing
  /\ UNCHANGED <<serial, status, team, matches>>

\* "3. Change League status to ONGOING"
GoOngoing(r) ==
  /\ pc[r] = "goOngoing"
  /\ IF LeagueExists(job[r].league)
       THEN status' = [status EXCEPT ![job[r].league] = "ONGOING"] /\ Goto(r, "done")
       ELSE Goto(r, "rejected") /\ UNCHANGED status
  /\ UNCHANGED <<serial, team, matches, standing>>

-----------------------------------------------------------------------------
(* Matches by hand. *)

\* create: in any league, with any status, and without a line of the table.
CreateMatch(r, l, m) ==
  /\ MayBegin(r)
  /\ ForwardOnly => status[l] = "ONGOING"
  /\ LeagueExists(l) /\ \A t \in m.pair : Exists(t)
  /\ matches' = matches \cup {[league |-> l, pair |-> m.pair, leg |-> ByHand,
                               state |-> m.state, by |-> r, touched |-> FALSE]}
  /\ Goto(r, "done")
  /\ UNCHANGED <<serial, status, team, standing>>

\* syncLeagueStandings creates the lines that the teams do not have yet.
WithLines(l, teams) ==
  [standing EXCEPT ![l] = [t \in Teams |->
     IF t \in teams /\ ~HasStanding(l, t) THEN 1 ELSE @[t]]]

\* update: any status from any status, but a DRAFT is given no result.  A
\* result entered again unchanged has no difference to post, and a result
\* withdrawn creates no line.  MatchResults has the steps of this.
UpdateMatch(x, s) ==
  /\ x.state = "DRAFT" => s # "COMPLETED"
  /\ ForwardOnly => status[x.league] = "ONGOING"
  /\ matches' = (matches \ {x})
       \cup {[x EXCEPT !.state = s, !.touched = @ \/ s # x.state]}
  /\ \/ s = "COMPLETED" /\ standing' = WithLines(x.league, x.pair)
     \/ (s = "COMPLETED" => x.state = s) /\ UNCHANGED standing
  /\ UNCHANGED <<serial, status, team, pc, job>>

-----------------------------------------------------------------------------
\* The handler stops at its await; what it wrote stays.
Fail(r) ==
  /\ Failures
  /\ Active(r)
  /\ Goto(r, "failed")
  /\ UNCHANGED <<serial, tables>>

\* Every request has been answered: the bounded instance stops.
Terminated ==
  /\ \A r \in Requests : pc[r] \in Ended
  /\ UNCHANGED vars

\* The endpoints of teams.controller.ts that touch registration.
ArriveTeams(r) ==
  \/ \E t \in Teams, s \in TeamStatuses :
       BeginSetStatus(r, t, s) \/ BeginUpdateTeam(r, t, s)
  \/ \E t \in Teams, l \in Leagues : BeginJoin(r, t, l)
  \/ \E t \in Teams : BeginRemove(r, t) \/ BeginDelete(r, t)

\* The endpoints of leagues.controller.ts that make and start a season.
ArriveLeagues(r) ==
  \E l \in Leagues : BeginGenerate(r, l) \/ BeginStart(r, l) \/ BeginDeleteLeague(r, l)

Step(r) ==
  \/ CountApproved(r)
  \/ SetTeamStatus(r)
  \/ CheckLeague(r)
  \/ EnterLeague(r)
  \/ LeaveLeague(r)
  \/ DeleteTeam(r)
  \/ DeleteLeague(r)
  \/ ReadTeams(r)
  \/ ClearFixtures(r)
  \/ InsertFixtures(r)
  \/ CountDrafts(r)
  \/ ScheduleDrafts(r)
  \/ ReadApproved(r)
  \/ NextTeam(r)
  \/ CreateStanding(r)
  \/ GoOngoing(r)

Next ==
  \/ \E r \in Requests : ArriveTeams(r) \/ ArriveLeagues(r) \/ Step(r) \/ Fail(r)
  \/ \E l \in Leagues, s \in LeagueStatuses : SetLeagueStatus(l, s) \/ CreateLeague(l, s)
  \/ \E t \in Teams, l \in Leagues \cup {NoLeague} : CreateTeam(t, l)
  \/ \E r \in Requests, l \in Leagues, m \in HandMade : CreateMatch(r, l, m)
  \/ \E x \in matches, s \in MatchStatuses : UpdateMatch(x, s)
  \/ Terminated

Spec == Init /\ [][Next]_vars

-----------------------------------------------------------------------------
(* Properties. *)

TypeOK ==
  /\ status \in [Leagues -> LeagueStatuses \cup Missing]
  /\ team \in [Teams -> Team \cup {NoTeam(s) : s \in Missing}]
  /\ matches \subseteq Fixture
  /\ standing \in [Leagues -> [Teams -> Nat]]
  /\ pc \in [Requests -> Labels]
  /\ job \in [Requests -> Job]
  /\ serial \in BOOLEAN

\* "League is full ... Cannot approve more": a league never has more approved
\* teams than maxTeams.  Holds as long as approvals do not overlap and nobody
\* sets a status through PATCH /teams/:id.
CapacityRespected ==
  serial => \A l \in Leagues : Cardinality(Approved(l)) <= MaxTeams[l]

\* generateFixtures may be repeated, and repeated after it or startSeason failed
\* half way, or after the league was sent back to PRE_SEASON: a pair of teams
\* has two drawn matches for the same leg only if the status of one of them was
\* changed by hand.  deleteMany keeps what is LIVE, COMPLETED or CANCELLED.
FixturesOnce ==
  serial => \A x, y \in matches :
    /\ ByHand \notin {x.leg, y.leg} /\ ~x.touched /\ ~y.touched
    /\ x.league = y.league /\ x.pair = y.pair /\ x.leg = y.leg
    => x = y

\* A league that is ONGOING is ready to be played, whatever failed on the way
\* there: its approved teams, and no others, have a drawn match for every pair
\* and leg, none of them a DRAFT unless by hand, and one line each in the table;
\* another team has a line only if a match was made for it by hand.
SeasonReady ==
  \A l \in Leagues : serial /\ status[l] = "ONGOING" =>
    LET mine  == {x \in matches : x.league = l}
        drawn == {x \in mine : x.leg # ByHand}
    IN  /\ {<<x.pair, x.leg>> : x \in drawn} =
             {p \in SUBSET Approved(l) : Cardinality(p) = 2} \X Legs
        /\ \A x \in drawn : x.state = "DRAFT" => x.touched
        /\ \A t \in Teams :
             \/ standing[l][t] = IF t \in Approved(l) THEN 1 ELSE 0
             \/ standing[l][t] = 1 /\ \E x \in mine \ drawn : t \in x.pair

\* A result once played is never lost by generating fixtures again or starting
\* the season again, even if the league is sent back to PRE_SEASON in between,
\* teams are deleted, and handlers overlap: a COMPLETED match is written by
\* PATCH /matches/:id and nothing else.
PlayedKept ==
  [][\A x \in matches : x.state = "COMPLETED" =>
       x \in matches' \/ \E s \in MatchStatuses : UpdateMatch(x, s)]_vars

\* removeFromLeague, joinLeague, remove: an approved team stays in its league
\* while the league is ONGOING, whatever is asked for one after the other, unless
\* it or the league is deleted before it has any match.
ApprovedStay ==
  [][\A t \in Teams, l \in Leagues :
       serial /\ t \in Approved(l) /\ status[l] = "ONGOING" =>
         \/ team'[t].league = l
         \/ /\ "REMOVED" \in {team'[t].status, status'[l]}
            /\ \A x \in matches : x.league = l => t \notin x.pair]_vars
=============================================================================
