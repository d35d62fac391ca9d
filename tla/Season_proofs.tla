--------------------------- MODULE Season_proofs ---------------------------
(***************************************************************************)
(* Theorems about the way of a league to its first match day, for any      *)
(* leagues, teams, limits, legs and requests: its size, its results and,   *)
(* in the second part, that a league that goes ONGOING is ready to be      *)
(* played, however often generateFixtures and startSeason were repeated    *)
(* and wherever they failed.                                               *)
(***************************************************************************)
EXTENDS Season, FiniteSetTheorems, TLAPS

-----------------------------------------------------------------------------
(* Type correctness. *)

\* The labels at which a handler uses its local league, and its local team.
UsesLeague == {"count", "readLeague", "enter", "readTeams", "clear", "insert",
               "countDrafts", "schedule", "readApproved", "nextTeam",
               "createStanding", "goOngoing", "deleteLeague"}
UsesTeam   == {"count", "setStatus", "readLeague", "enter", "leave",
               "deleteTeam", "createStanding"}

\* A handler has a league, or a team, wherever it uses one.
LocalsPresent ==
  \A r \in Requests :
    /\ pc[r] \in UsesLeague => job[r].league \in Leagues
    /\ pc[r] \in UsesTeam => job[r].who \in Teams

TypeInv == TypeOK /\ LocalsPresent

\* A row of the Match table after its status, and its history, were written.
LEMMA RowKept ==
  ASSUME NEW x \in Fixture, NEW s \in MatchStatuses, NEW b \in BOOLEAN
  PROVE  /\ [x EXCEPT !.state = s] \in Fixture
         /\ [x EXCEPT !.state = s, !.touched = b] \in Fixture
         /\ [x EXCEPT !.state = s].state = s
         /\ [x EXCEPT !.state = s].touched = x.touched
         /\ [x EXCEPT !.state = s, !.touched = b].state = s
         /\ [x EXCEPT !.state = s, !.touched = b].touched = b
<1>1. CASE x \in Drawn
  BY <1>1 DEF Fixture, Drawn, MatchOf
<1>2. CASE x \in Arranged
  BY <1>2 DEF Fixture, Arranged, MatchOf
<1>3. QED
  BY <1>1, <1>2 DEF Fixture

LEMMA RowParts ==
  ASSUME NEW x \in Fixture
  PROVE  /\ x.league \in Leagues /\ x.pair \subseteq Teams /\ x.touched \in BOOLEAN
         /\ x.state \in MatchStatuses
         /\ x.leg # ByHand => x.leg \in Legs
BY DEF Fixture, Drawn, Arranged, MatchOf

LEMMA GoWithType ==
  ASSUME TypeInv, NEW r \in Requests, NEW label \in Labels, NEW j \in Job,
         GoWith(r, label, j),
         label \in UsesLeague => j.league \in Leagues,
         label \in UsesTeam => j.who \in Teams
  PROVE  /\ pc' \in [Requests -> Labels] /\ job' \in [Requests -> Job]
         /\ LocalsPresent'
<1>1. NoJob \in Job
  BY DEF NoJob, Job, TeamStatuses
<1>2. Ended \cap (UsesLeague \cup UsesTeam) = {}
  BY DEF Ended, UsesLeague, UsesTeam
<1>3. pc' \in [Requests -> Labels] /\ job' \in [Requests -> Job]
  BY <1>1 DEF GoWith, TypeInv, TypeOK
<1>4. LocalsPresent'
  BY <1>2 DEF GoWith, TypeInv, TypeOK, LocalsPresent
<1>5. QED
  BY <1>3, <1>4

\* A handler that goes on with the locals it has.
LEMMA GotoType ==
  ASSUME TypeInv, NEW r \in Requests, NEW label \in Labels, Goto(r, label),
         label \in UsesLeague => job[r].league \in Leagues,
         label \in UsesTeam => job[r].who \in Teams
  PROVE  /\ pc' \in [Requests -> Labels] /\ job' \in [Requests -> Job]
         /\ LocalsPresent'
BY GoWithType DEF Goto, TypeInv, TypeOK

\* What a handler knows when it reaches a label, of the rows it has read.  It
\* stays true as long as no other handler is active.
Knows(label, j) ==
  /\ label \in {"count", "setStatus", "readLeague", "enter", "leave", "deleteTeam"} =>
       Exists(j.who) /\ Open(team[j.who].league)
  /\ label = "count" => j.league = team[j.who].league
  /\ label = "setStatus" =>
       \/ j.wanted # "APPROVED" \/ UncheckedStatus
       \/ team[j.who].league = NoLeague
       \/ ~Full(team[j.who].league)
  /\ label \in {"readLeague", "enter"} =>
       \/ team[j.who].status = "REJECTED"
       \/ team[j.who].league = NoLeague
       \/ /\ team[j.who].league # j.league
          /\ status[team[j.who].league] = "COMPLETED"
  /\ label = "enter" => status[j.league] = "REGISTRATION"
  /\ label = "leave" => MayLeave(team[j.who].league)
  /\ label = "deleteLeague" =>
       LeagueExists(j.league) /\ (ForwardOnly => status[j.league] = "REGISTRATION")
  /\ label \in {"readTeams", "clear", "insert", "countDrafts", "schedule",
                "readApproved", "nextTeam", "createStanding", "goOngoing"} =>
       status[j.league] = "PRE_SEASON"

\* What the first step of a handler establishes, whatever the others do.
LEMMA Arrival ==
  ASSUME TypeOK, NEW r \in Requests, ArriveTeams(r) \/ ArriveLeagues(r)
  PROVE  /\ MayBegin(r) /\ UNCHANGED <<serial, tables>>
         /\ \E label \in {"rejected", "count", "setStatus", "readLeague", "leave",
                          "deleteTeam", "deleteLeague", "readTeams", "countDrafts"},
               j \in Job :
              /\ GoWith(r, label, j)
              /\ label \in UsesLeague => j.league \in Leagues
              /\ label \in UsesTeam => j.who \in Teams
              /\ Knows(label, j)
<1> DEFINE Labelled == {"rejected", "count", "setStatus", "readLeague", "leave",
                        "deleteTeam", "deleteLeague", "readTeams", "countDrafts"}
           Goal == /\ MayBegin(r) /\ UNCHANGED <<serial, tables>>
                   /\ \E label \in Labelled, j \in Job :
                        /\ GoWith(r, label, j)
                        /\ label \in UsesLeague => j.league \in Leagues
                        /\ label \in UsesTeam => j.who \in Teams
                        /\ Knows(label, j)
<1>1. \A t \in Teams : Exists(t) => team[t].league \in Leagues \cup {NoLeague}
  BY DEF TypeOK, Team, NoTeam
<1>2. ASSUME NEW t \in Teams, NEW s \in TeamStatuses, BeginSetStatus(r, t, s)
      PROVE  Goal
  <2> DEFINE j == [NoJob EXCEPT !.who = t, !.wanted = s, !.league = team[t].league]
  <2>1. j \in Job /\ j.who = t /\ j.league = team[t].league /\ j.wanted = s
    BY <1>1, <1>2 DEF BeginSetStatus, NoJob, Job
  <2>2. \E label \in {"count", "setStatus"} :
          /\ GoWith(r, label, j)
          /\ IF label = "count" THEN team[t].league # NoLeague
             ELSE s # "APPROVED" \/ team[t].league = NoLeague
    BY <1>2 DEF BeginSetStatus
  <2>3. UNCHANGED <<serial, tables>> /\ MayBegin(r) /\ Exists(t) /\ Open(team[t].league)
    BY <1>2 DEF BeginSetStatus
  <2> HIDE DEF j
  <2>4. QED
    BY <1>1, <2>1, <2>2, <2>3 DEF UsesLeague, UsesTeam, Knows
<1>3. ASSUME NEW t \in Teams, NEW s \in TeamStatuses, BeginUpdateTeam(r, t, s)
      PROVE  Goal
  <2> DEFINE j == [NoJob EXCEPT !.who = t, !.wanted = s]
  <2>1. j \in Job /\ j.who = t
    BY DEF NoJob, Job
  <2>2. GoWith(r, "setStatus", j) /\ UNCHANGED <<serial, tables>> /\ MayBegin(r)
        /\ UncheckedStatus /\ Exists(t) /\ Open(team[t].league)
    BY <1>3 DEF BeginUpdateTeam
  <2> HIDE DEF j
  <2>3. QED
    BY <2>1, <2>2 DEF UsesLeague, UsesTeam, Knows
<1>4. ASSUME NEW t \in Teams, NEW l \in Leagues, BeginJoin(r, t, l)
      PROVE  Goal
  <2> DEFINE j == [NoJob EXCEPT !.who = t, !.league = l]
  <2>1. j \in Job /\ j.who = t /\ j.league = l
    BY DEF NoJob, Job, TeamStatuses
  <2>2. /\ \/ GoWith(r, "rejected", j)
           \/ /\ GoWith(r, "readLeague", j)
              /\ \/ team[t].status = "REJECTED"
                 \/ team[t].league = NoLeague
                 \/ team[t].league # l /\ status[team[t].league] = "COMPLETED"
        /\ UNCHANGED <<serial, tables>> /\ MayBegin(r)
        /\ Exists(t) /\ Open(team[t].league)
    BY <1>4 DEF BeginJoin
  <2> HIDE DEF j
  <2>3. QED
    BY <2>1, <2>2 DEF Knows, UsesLeague, UsesTeam
<1>5. ASSUME NEW t \in Teams, BeginRemove(r, t) \/ BeginDelete(r, t)
      PROVE  Goal
  <2> DEFINE j == [NoJob EXCEPT !.who = t]
  <2>1. j \in Job /\ j.who = t
    BY DEF NoJob, Job, TeamStatuses
  <2>2. /\ \E label \in {"rejected", "leave", "deleteTeam"} :
             /\ GoWith(r, label, j)
             /\ label = "leave" => MayLeave(team[t].league)
        /\ UNCHANGED <<serial, tables>> /\ MayBegin(r)
        /\ Exists(t) /\ Open(team[t].league)
    BY <1>5 DEF BeginRemove, BeginDelete
  <2> HIDE DEF j
  <2>3. QED
    BY <2>1, <2>2 DEF Knows, UsesLeague, UsesTeam
<1>6. ASSUME NEW l \in Leagues,
             BeginGenerate(r, l) \/ BeginStart(r, l) \/ BeginDeleteLeague(r, l)
      PROVE  Goal
  <2> DEFINE j == [NoJob EXCEPT !.league = l]
  <2>1. j \in Job /\ j.league = l
    BY DEF NoJob, Job, TeamStatuses
  <2>2. /\ \E label \in {"rejected", "readTeams", "countDrafts", "deleteLeague"} :
             /\ GoWith(r, label, j)
             /\ label \in {"readTeams", "countDrafts"} => status[l] = "PRE_SEASON"
             /\ label = "deleteLeague" =>
                  LeagueExists(l) /\ (ForwardOnly => status[l] = "REGISTRATION")
        /\ UNCHANGED <<serial, tables>> /\ MayBegin(r)
    BY <1>6 DEF BeginGenerate, BeginStart, BeginDeleteLeague
  <2> HIDE DEF j
  <2>3. QED
    BY <2>1, <2>2 DEF Knows, UsesLeague, UsesTeam
<1>7. QED
  BY <1>2, <1>3, <1>4, <1>5, <1>6 DEF ArriveTeams, ArriveLeagues

LEMMA ArrivalType ==
  ASSUME TypeInv, NEW r \in Requests, ArriveTeams(r) \/ ArriveLeagues(r)
  PROVE  TypeInv'
<1>1. PICK label \in {"rejected", "count", "setStatus", "readLeague", "leave",
                      "deleteTeam", "deleteLeague", "readTeams", "countDrafts"},
           j \in Job :
        /\ GoWith(r, label, j)
        /\ label \in UsesLeague => j.league \in Leagues
        /\ label \in UsesTeam => j.who \in Teams
  BY Arrival DEF TypeInv
<1>2. label \in Labels
  BY DEF Labels, Ended
<1>3. UNCHANGED <<serial, tables>>
  BY Arrival DEF TypeInv
<1>4. QED
  BY <1>1, <1>2, <1>3, GoWithType DEF TypeInv, TypeOK, tables

\* team.update keeps the types if the row is one.
LEMMA UpdateTeamType ==
  ASSUME TypeInv, NEW r \in Requests, NEW row,
         Exists(job[r].who) => row \in Team, UpdateTeam(r, row)
  PROVE  TypeInv'
<1>1. pc' \in [Requests -> Labels] /\ job' \in [Requests -> Job] /\ LocalsPresent'
  BY GotoType DEF UpdateTeam, UsesLeague, UsesTeam, Labels, Ended
<1>2. team' \in [Teams -> Team \cup {NoTeam(s) : s \in Missing}]
  BY DEF UpdateTeam, TypeInv, TypeOK
<1>3. QED
  BY <1>1, <1>2 DEF UpdateTeam, TypeInv, TypeOK

LEMMA StepType ==
  ASSUME TypeInv, NEW r \in Requests, Step(r)
  PROVE  TypeInv'
<1> USE DEF UsesLeague, UsesTeam, Labels, Ended
<1>0. job[r] \in Job /\ job[r].approved \subseteq Teams
  BY DEF TypeInv, TypeOK, Job
<1>1. CASE CountApproved(r) \/ CheckLeague(r) \/ CountDrafts(r)
  BY <1>1, GotoType DEF CountApproved, CheckLeague, CountDrafts, TypeInv, TypeOK,
     LocalsPresent, tables
<1>2. CASE SetTeamStatus(r)
  <2>1. job[r].who \in Teams /\ job[r].wanted \in TeamStatuses
    BY <1>2 DEF SetTeamStatus, TypeInv, TypeOK, LocalsPresent, Job
  <2>2. Exists(job[r].who) => team[job[r].who] \in Team
    BY <2>1 DEF TypeInv, TypeOK, Exists, NoTeam
  <2>3. Exists(job[r].who) =>
          [team[job[r].who] EXCEPT !.status = job[r].wanted] \in Team
    BY <2>1, <2>2 DEF Team
  <2>4. QED
    BY <1>2, <2>3, UpdateTeamType DEF SetTeamStatus
<1>3. CASE EnterLeague(r)
  <2>1. [league |-> job[r].league, status |-> "PENDING"] \in Team
    BY <1>3 DEF EnterLeague, TypeInv, LocalsPresent, Team, TeamStatuses
  <2>2. QED
    BY <1>3, <2>1, UpdateTeamType DEF EnterLeague
<1>4. CASE LeaveLeague(r)
  <2>1. [league |-> NoLeague, status |-> "PENDING"] \in Team
    BY DEF Team, TeamStatuses
  <2>2. QED
    BY <1>4, <2>1, UpdateTeamType DEF LeaveLeague
<1>5. CASE DeleteTeam(r)
  <2>1. pc' \in [Requests -> Labels] /\ job' \in [Requests -> Job] /\ LocalsPresent'
    BY <1>5, GotoType DEF DeleteTeam
  <2>2. NoTeam("REMOVED") \in {NoTeam(s) : s \in Missing}
    BY DEF Missing
  <2>3. team' \in [Teams -> Team \cup {NoTeam(s) : s \in Missing}]
    BY <1>5, <2>2 DEF DeleteTeam, TypeInv, TypeOK
  <2>4. standing' \in [Leagues -> [Teams -> Nat]]
    BY <1>5 DEF DeleteTeam, TypeInv, TypeOK
  <2>5. QED
    BY <1>5, <2>1, <2>3, <2>4 DEF DeleteTeam, TypeInv, TypeOK
<1>6. CASE DeleteLeague(r)
  <2>1. pc' \in [Requests -> Labels] /\ job' \in [Requests -> Job] /\ LocalsPresent'
    BY <1>6, GotoType DEF DeleteLeague
  <2>2. job[r].league \in Leagues
    BY <1>6 DEF DeleteLeague, TypeInv, LocalsPresent
  <2>3. \A t \in Teams : team[t].league = job[r].league =>
          [team[t] EXCEPT !.league = NoLeague] \in Team
    <3>1. \A t \in Teams : team[t].league \in Leagues => team[t] \in Team
      BY SeasonAssumption DEF TypeInv, TypeOK, NoTeam
    <3>2. \A row \in Team : [row EXCEPT !.league = NoLeague] \in Team
      BY DEF Team
    <3>3. QED
      BY <2>2, <3>1, <3>2
  <2>4. team' \in [Teams -> Team \cup {NoTeam(s) : s \in Missing}]
    BY <1>6, <2>3 DEF DeleteLeague, TypeInv, TypeOK
  <2>5. standing' \in [Leagues -> [Teams -> Nat]]
    BY <1>6, <2>2 DEF DeleteLeague, TypeInv, TypeOK
  <2>6. status' \in [Leagues -> LeagueStatuses \cup Missing]
    BY <1>6 DEF DeleteLeague, TypeInv, TypeOK, Missing
  <2>7. QED
    BY <1>6, <2>1, <2>4, <2>5, <2>6 DEF DeleteLeague, TypeInv, TypeOK
<1>7. CASE ReadTeams(r) \/ ReadApproved(r)
  <2>1. job[r].league \in Leagues /\ Approved(job[r].league) \subseteq Teams
    BY <1>7 DEF ReadTeams, ReadApproved, TypeInv, LocalsPresent, Approved
  <2> DEFINE j == [job[r] EXCEPT !.approved = Approved(job[r].league)]
  <2>2. j \in Job /\ j.league \in Leagues
    BY <1>0, <2>1 DEF Job
  <2>3. /\ \E label \in {"rejected", "clear", "nextTeam"} : GoWith(r, label, j)
        /\ UNCHANGED <<serial, tables>>
    BY <1>7 DEF ReadTeams, ReadApproved
  <2> HIDE DEF j
  <2>4. QED
    BY <2>2, <2>3, GoWithType DEF TypeInv, TypeOK, tables
<1>8. CASE ClearFixtures(r)
  BY <1>8, GotoType DEF ClearFixtures, TypeInv, TypeOK, LocalsPresent
<1>9. CASE InsertFixtures(r)
  <2>1. pc' \in [Requests -> Labels] /\ job' \in [Requests -> Job] /\ LocalsPresent'
    BY <1>9, GotoType DEF InsertFixtures
  <2>2. job[r].league \in Leagues /\ Pairs(job[r].approved) \subseteq
                                       {p \in SUBSET Teams : Cardinality(p) = 2}
    BY <1>0, <1>9 DEF InsertFixtures, TypeInv, LocalsPresent, Pairs
  <2>3. [league : {job[r].league}, pair : Pairs(job[r].approved), leg : Legs,
         state : {"DRAFT"}, by : {r}, touched : {FALSE}] \subseteq Fixture
    BY <2>2 DEF Fixture, Drawn, MatchOf, MatchStatuses
  <2>4. matches' \subseteq Fixture
    BY <1>9, <2>3 DEF InsertFixtures, TypeInv, TypeOK
  <2>5. QED
    BY <1>9, <2>1, <2>4 DEF InsertFixtures, TypeInv, TypeOK
<1>10. CASE ScheduleDrafts(r)
  <2>1. pc' \in [Requests -> Labels] /\ job' \in [Requests -> Job] /\ LocalsPresent'
    BY <1>10, GotoType DEF ScheduleDrafts, TypeInv, LocalsPresent
  <2>2. \A x \in Fixture : [x EXCEPT !.state = "SCHEDULED"] \in Fixture
    BY RowKept DEF MatchStatuses
  <2>3. matches' \subseteq Fixture
    BY <1>10, <2>2 DEF ScheduleDrafts, In, TypeInv, TypeOK
  <2>4. QED
    BY <1>10, <2>1, <2>3 DEF ScheduleDrafts, TypeInv, TypeOK
<1>11. CASE NextTeam(r)
  <2>1. job[r].league \in Leagues
    BY <1>11 DEF NextTeam, TypeInv, LocalsPresent
  <2>2. CASE job[r].approved = {}
    BY <1>11, <2>1, <2>2, GotoType DEF NextTeam, TypeInv, TypeOK, tables
  <2>3. CASE job[r].approved # {}
    <3> DEFINE t == CHOOSE x \in job[r].approved : TRUE
               j == [job[r] EXCEPT !.who = t, !.approved = @ \ {t}]
    <3>1. t \in Teams
      BY <1>0, <2>3
    <3>2. /\ \E label \in {"nextTeam", "createStanding"} : GoWith(r, label, j)
          /\ UNCHANGED <<serial, tables>>
      BY <1>11, <2>3 DEF NextTeam
    <3> HIDE DEF t
    <3>3. j \in Job /\ j.league \in Leagues /\ j.who \in Teams
      BY <1>0, <2>1, <3>1 DEF Job
    <3> HIDE DEF j
    <3>4. QED
      BY <3>2, <3>3, GoWithType DEF TypeInv, TypeOK, tables
  <2>4. QED
    BY <2>2, <2>3
<1>12. CASE CreateStanding(r)
  <2>1. job[r].league \in Leagues /\ job[r].who \in Teams
    BY <1>12 DEF CreateStanding, TypeInv, LocalsPresent
  <2>2. standing' \in [Leagues -> [Teams -> Nat]]
    BY <1>12, <2>1 DEF CreateStanding, TypeInv, TypeOK
  <2>3. pc' \in [Requests -> Labels] /\ job' \in [Requests -> Job] /\ LocalsPresent'
    BY <1>12, <2>1, GotoType DEF CreateStanding
  <2>4. QED
    BY <1>12, <2>2, <2>3 DEF CreateStanding, TypeInv, TypeOK
<1>13. CASE GoOngoing(r)
  <2>1. pc' \in [Requests -> Labels] /\ job' \in [Requests -> Job] /\ LocalsPresent'
    BY <1>13, GotoType DEF GoOngoing
  <2>2. status' \in [Leagues -> LeagueStatuses \cup Missing]
    BY <1>13 DEF GoOngoing, TypeInv, TypeOK, LeagueStatuses
  <2>3. QED
    BY <1>13, <2>1, <2>2 DEF GoOngoing, TypeInv, TypeOK
<1>14. QED
  BY <1>1, <1>2, <1>3, <1>4, <1>5, <1>6, <1>7, <1>8, <1>9, <1>10, <1>11, <1>12, <1>13
     DEF Step

LEMMA TypeStep ==
  ASSUME TypeInv, [Next]_vars
  PROVE  TypeInv'
<1>1. ASSUME NEW r \in Requests, ArriveTeams(r) \/ ArriveLeagues(r) PROVE TypeInv'
  BY <1>1, ArrivalType
<1>2. ASSUME NEW r \in Requests, Step(r) PROVE TypeInv'
  BY <1>2, StepType
<1>3. ASSUME NEW r \in Requests, Fail(r) PROVE TypeInv'
  BY <1>3, GotoType DEF Fail, Labels, Ended, UsesLeague, UsesTeam, TypeInv, TypeOK, tables
<1>4. ASSUME NEW l \in Leagues, NEW s \in LeagueStatuses,
             SetLeagueStatus(l, s) \/ CreateLeague(l, s)
      PROVE  TypeInv'
  BY <1>4 DEF SetLeagueStatus, CreateLeague, TypeInv, TypeOK, LocalsPresent
<1>5. ASSUME NEW t \in Teams, NEW l \in Leagues \cup {NoLeague}, CreateTeam(t, l)
      PROVE  TypeInv'
  <2>1. [league |-> l, status |-> "PENDING"] \in Team
    BY DEF Team, TeamStatuses
  <2>2. team' \in [Teams -> Team \cup {NoTeam(s) : s \in Missing}]
    BY <1>5, <2>1 DEF CreateTeam, TypeInv, TypeOK
  <2>3. QED
    BY <1>5, <2>2 DEF CreateTeam, TypeInv, TypeOK, LocalsPresent
<1>6. ASSUME NEW x \in matches, NEW s \in MatchStatuses, UpdateMatch(x, s)
      PROVE  TypeInv'
  <2>1. x \in Fixture /\ x.league \in Leagues
    BY RowParts DEF TypeInv, TypeOK
  <2>2. [x EXCEPT !.state = s, !.touched = x.touched \/ s # x.state] \in Fixture
    BY <2>1, RowKept
  <2>3. matches' \subseteq Fixture
    BY <1>6, <2>2 DEF UpdateMatch, TypeInv, TypeOK
  <2>4. standing' \in [Leagues -> [Teams -> Nat]]
    <3>1. WithLines(x.league, x.pair) \in [Leagues -> [Teams -> Nat]]
      BY <2>1 DEF WithLines, TypeInv, TypeOK
    <3>2. standing' = standing \/ standing' = WithLines(x.league, x.pair)
      BY <1>6 DEF UpdateMatch
    <3>3. QED
      BY <3>1, <3>2 DEF TypeInv, TypeOK
  <2>5. QED
    BY <1>6, <2>3, <2>4 DEF UpdateMatch, TypeInv, TypeOK, LocalsPresent
<1>7. ASSUME NEW r \in Requests, NEW l \in Leagues, NEW m \in HandMade, CreateMatch(r, l, m)
      PROVE  TypeInv'
  <2>1. pc' \in [Requests -> Labels] /\ job' \in [Requests -> Job] /\ LocalsPresent'
    BY <1>7, GotoType DEF CreateMatch, Labels, Ended, UsesLeague, UsesTeam
  <2>2. [league |-> l, pair |-> m.pair, leg |-> ByHand, state |-> m.state, by |-> r,
         touched |-> FALSE] \in Fixture
    BY SeasonAssumption DEF Fixture, Arranged, MatchOf
  <2>3. matches' \subseteq Fixture
    BY <1>7, <2>2 DEF CreateMatch, TypeInv, TypeOK
  <2>4. QED
    BY <1>7, <2>1, <2>3 DEF CreateMatch, TypeInv, TypeOK
<1>8. CASE UNCHANGED vars
  BY <1>8 DEF vars, TypeInv, TypeOK, LocalsPresent
<1>9. QED
  BY <1>1, <1>2, <1>3, <1>4, <1>5, <1>6, <1>7, <1>8 DEF Next, Terminated

LEMMA InitType == Init => TypeInv
<1> SUFFICES ASSUME Init PROVE TypeInv
  OBVIOUS
<1>1. NoJob \in Job
  BY DEF NoJob, Job, TeamStatuses
<1>2. "idle" \in Labels \ (UsesLeague \cup UsesTeam)
  BY DEF Labels, UsesLeague, UsesTeam
<1>3. LocalsPresent
  BY <1>2 DEF Init, LocalsPresent
<1>4. TypeOK
  BY <1>1, <1>2, SeasonAssumption DEF Init, TypeOK
<1>5. QED
  BY <1>3, <1>4 DEF TypeInv

\* Every table stays within its type, and no handler uses a league or a team
\* that it does not have, however the requests overlap.
THEOREM SeasonTypeCorrect == Spec => []TypeOK
<1>1. TypeInv => TypeOK
  BY DEF TypeInv
<1>2. QED
  BY <1>1, InitType, TypeStep, PTL DEF Spec

-----------------------------------------------------------------------------
(* What the writes to the Match table leave alone. *)

\* The same fixture, in whatever state.
SameFixture(x, y) == x.league = y.league /\ x.pair = y.pair /\ x.leg = y.leg

\* A row after the drafts of l have been scheduled; after x was given status s.
Rescheduled(l, y) ==
  IF y.league = l /\ y.state = "DRAFT" THEN [y EXCEPT !.state = "SCHEDULED"] ELSE y
Updated(x, s, y) ==
  IF y = x THEN [x EXCEPT !.state = s, !.touched = @ \/ s # x.state] ELSE y

LEMMA ScheduledState ==
  ASSUME NEW y \in Fixture
  PROVE  [y EXCEPT !.state = "SCHEDULED"].state = "SCHEDULED"
BY DEF Fixture, Drawn, Arranged, MatchOf

LEMMA Scheduled ==
  ASSUME TypeInv, NEW r \in Requests, ScheduleDrafts(r)
  PROVE  /\ \A x : x \in matches' <=> \E y \in matches : x = Rescheduled(job[r].league, y)
         /\ \A y \in matches :
              /\ SameFixture(Rescheduled(job[r].league, y), y)
              /\ Rescheduled(job[r].league, y).touched = y.touched
<1> DEFINE drafts == In(job[r].league, "DRAFT")
<1>1. matches' = (matches \ drafts)
                   \cup {[x EXCEPT !.state = "SCHEDULED"] : x \in drafts}
  BY DEF ScheduleDrafts
<1>2. \A y : y \in drafts <=> /\ y \in matches
                              /\ y.league = job[r].league /\ y.state = "DRAFT"
  BY DEF In
<1> HIDE DEF drafts
<1>3. \A x : x \in matches' <=> \E y \in matches : x = Rescheduled(job[r].league, y)
  BY <1>1, <1>2 DEF Rescheduled
<1>4. \A y \in Fixture : /\ SameFixture([y EXCEPT !.state = "SCHEDULED"], y)
                         /\ [y EXCEPT !.state = "SCHEDULED"].touched = y.touched
  BY DEF Fixture, Drawn, Arranged, MatchOf, SameFixture
<1>5. QED
  BY <1>3, <1>4 DEF Rescheduled, SameFixture, TypeInv, TypeOK

LEMMA Patched ==
  ASSUME TypeInv, NEW x \in matches, NEW s \in MatchStatuses, UpdateMatch(x, s)
  PROVE  /\ \A y : y \in matches' <=> \E z \in matches : y = Updated(x, s, z)
         /\ \A z \in matches :
              /\ SameFixture(Updated(x, s, z), z)
              /\ ~Updated(x, s, z).touched =>
                   ~z.touched /\ Updated(x, s, z).state = z.state
<1>1. x \in Fixture
  BY DEF TypeInv, TypeOK
<1>2. SameFixture([x EXCEPT !.state = s, !.touched = @ \/ s # x.state], x)
  BY <1>1 DEF Fixture, Drawn, Arranged, MatchOf, SameFixture
<1>3. /\ [x EXCEPT !.state = s, !.touched = x.touched \/ s # x.state].state = s
      /\ [x EXCEPT !.state = s, !.touched = x.touched \/ s # x.state].touched =
           (x.touched \/ s # x.state)
  <2> DEFINE b == x.touched \/ s # x.state
  <2>1. b \in BOOLEAN
    OBVIOUS
  <2> HIDE DEF b
  <2>2. /\ [x EXCEPT !.state = s, !.touched = b].state = s
        /\ [x EXCEPT !.state = s, !.touched = b].touched = b
    BY <1>1, <2>1 DEF Fixture, Drawn, Arranged, MatchOf
  <2>3. QED
    BY <2>2 DEF b
<1> DEFINE new == [x EXCEPT !.state = s, !.touched = @ \/ s # x.state]
<1>4. matches' = (matches \ {x}) \cup {new}
  BY DEF UpdateMatch
<1>5. /\ SameFixture(new, x)
      /\ ~new.touched => ~x.touched /\ new.state = x.state
  <2>1. SameFixture(new, x)
    BY <1>2
  <2>2. new.state = s /\ (new.touched <=> (x.touched \/ s # x.state))
    BY <1>3
  <2>3. QED
    BY <2>1, <2>2
<1>6. \A z : Updated(x, s, z) = IF z = x THEN new ELSE z
  BY DEF Updated
<1> HIDE DEF new
<1>7. QED
  BY <1>4, <1>5, <1>6 DEF SameFixture

-----------------------------------------------------------------------------
(* Foreign keys. *)

\* The league of a team, and the league and the teams of a match, are there.
ReferencesKept ==
  /\ \A t \in Teams : team[t].league # NoLeague => LeagueExists(team[t].league)
  /\ \A x \in matches : LeagueExists(x.league) /\ \A t \in x.pair : Exists(t)

LEMMA UpdateTeamReferences ==
  ASSUME TypeInv, ReferencesKept, NEW r \in Requests, NEW row, UpdateTeam(r, row),
         row.status \notin Missing
  PROVE  ReferencesKept'
<1>1. CASE UNCHANGED team
  BY <1>1 DEF UpdateTeam, ReferencesKept, Exists, LeagueExists
<1>2. CASE /\ row.league # NoLeague => LeagueExists(row.league)
           /\ team' = [team EXCEPT ![job[r].who] = row]
  BY <1>2 DEF UpdateTeam, ReferencesKept, TypeInv, TypeOK, Exists, LeagueExists
<1>3. QED
  BY <1>1, <1>2 DEF UpdateTeam

LEMMA ReferencesStep ==
  ASSUME TypeInv, ReferencesKept, [Next]_vars
  PROVE  ReferencesKept'
<1> USE DEF Exists, LeagueExists
<1>1. CASE UNCHANGED tables
  BY <1>1 DEF tables, ReferencesKept
<1>2. ASSUME NEW r \in Requests,
             SetTeamStatus(r) \/ EnterLeague(r) \/ LeaveLeague(r)
      PROVE  ReferencesKept'
  <2>1. \A s \in TeamStatuses : s \notin Missing
    BY DEF TeamStatuses, Missing
  <2>2. CASE SetTeamStatus(r)
    <3>1. job[r].wanted \in TeamStatuses /\ job[r].who \in Teams
      BY <2>2 DEF SetTeamStatus, TypeInv, TypeOK, Job, LocalsPresent, UsesTeam
    <3>2. [team[job[r].who] EXCEPT !.status = job[r].wanted].status = job[r].wanted
      BY <3>1, SeasonAssumption DEF TypeInv, TypeOK, Team, NoTeam
    <3>3. QED
      BY <2>1, <2>2, <3>1, <3>2, UpdateTeamReferences DEF SetTeamStatus
  <2>3. CASE EnterLeague(r)
    BY <2>1, <2>3, UpdateTeamReferences DEF EnterLeague, TeamStatuses
  <2>4. CASE LeaveLeague(r)
    BY <2>1, <2>4, UpdateTeamReferences DEF LeaveLeague, TeamStatuses
  <2>5. QED
    BY <1>2, <2>2, <2>3, <2>4
<1>3. ASSUME NEW r \in Requests, DeleteTeam(r) PROVE ReferencesKept'
  <2>1. CASE UNCHANGED tables
    BY <1>1, <2>1
  <2>2. CASE ~UNCHANGED tables
    <3>1. /\ \A x \in matches : job[r].who \notin x.pair
          /\ team' = [team EXCEPT ![job[r].who] = NoTeam("REMOVED")]
          /\ matches' = matches /\ status' = status
      BY <1>3, <2>2 DEF DeleteTeam, tables
    <3>2. \A t : t # job[r].who => team'[t] = team[t]
      BY <3>1 DEF TypeInv, TypeOK
    <3>3. \A t \in Teams : t = job[r].who => team'[t].league = NoLeague
      BY <3>1 DEF TypeInv, TypeOK, NoTeam
    <3>4. QED
      BY <3>1, <3>2, <3>3 DEF ReferencesKept
  <2>3. QED
    BY <2>1, <2>2
<1>4. ASSUME NEW r \in Requests, DeleteLeague(r) PROVE ReferencesKept'
  <2> DEFINE l == job[r].league
  <2>1. CASE UNCHANGED tables
    BY <1>1, <2>1
  <2>2. CASE ~UNCHANGED tables
    <3>1. /\ l \in Leagues /\ \A x \in matches : x.league # l
          /\ status' = [status EXCEPT ![l] = "REMOVED"]
          /\ team' = [t \in Teams |-> IF team[t].league = l
                        THEN [team[t] EXCEPT !.league = NoLeague] ELSE team[t]]
          /\ matches' = matches
      BY <1>4, <2>2 DEF DeleteLeague, tables, TypeInv, LocalsPresent, UsesLeague
    <3>2. \A t \in Teams :
            /\ team'[t].status = team[t].status
            /\ team'[t].league = IF team[t].league = l THEN NoLeague ELSE team[t].league
      BY <3>1 DEF TypeInv, TypeOK, Team, NoTeam
    <3>3. \A x \in matches : x.pair \subseteq Teams
      BY RowParts DEF TypeInv, TypeOK
    <3>4. QED
      BY <3>1, <3>2, <3>3 DEF ReferencesKept, TypeInv, TypeOK
  <2>3. QED
    BY <2>1, <2>2
<1>5. ASSUME NEW r \in Requests, ClearFixtures(r) PROVE ReferencesKept'
  BY <1>5 DEF ClearFixtures, ReferencesKept
<1>6. ASSUME NEW r \in Requests, InsertFixtures(r) PROVE ReferencesKept'
  <2>1. \A x \in [league : {job[r].league}, pair : Pairs(job[r].approved), leg : Legs,
                  state : {"DRAFT"}, by : {r}, touched : {FALSE}] :
          x.league = job[r].league /\ x.pair \subseteq job[r].approved
    BY DEF Pairs
  <2>2. CASE UNCHANGED matches
    BY <1>6, <2>2 DEF InsertFixtures, ReferencesKept
  <2>3. CASE ~UNCHANGED matches
    BY <1>6, <2>1, <2>3 DEF InsertFixtures, ReferencesKept
  <2>4. QED
    BY <2>2, <2>3
<1>7. ASSUME NEW r \in Requests, ScheduleDrafts(r) PROVE ReferencesKept'
  <2>1. \A x \in matches' : \E y \in matches : x.league = y.league /\ x.pair = y.pair
    BY <1>7, Scheduled DEF SameFixture
  <2>2. team' = team /\ status' = status
    BY <1>7 DEF ScheduleDrafts
  <2>3. QED
    BY <2>1, <2>2 DEF ReferencesKept
<1>8. ASSUME NEW r \in Requests, CreateStanding(r) PROVE ReferencesKept'
  BY <1>8 DEF CreateStanding, ReferencesKept
<1>9. ASSUME NEW r \in Requests, GoOngoing(r) PROVE ReferencesKept'
  <2>1. "ONGOING" \notin Missing
    BY DEF Missing
  <2>2. status' = status \/ status' = [status EXCEPT ![job[r].league] = "ONGOING"]
    BY <1>9 DEF GoOngoing
  <2>3. \A k \in Leagues : status[k] \notin Missing => status'[k] \notin Missing
    BY <2>1, <2>2 DEF TypeInv, TypeOK
  <2>4. \A t \in Teams : team[t].league # NoLeague => team[t].league \in Leagues
    BY DEF TypeInv, TypeOK, Team, NoTeam
  <2>5. \A x \in matches : x.league \in Leagues
    BY RowParts DEF TypeInv, TypeOK
  <2>6. QED
    BY <1>9, <2>3, <2>4, <2>5 DEF GoOngoing, ReferencesKept
<1>10. ASSUME NEW l \in Leagues, NEW s \in LeagueStatuses,
              SetLeagueStatus(l, s) \/ CreateLeague(l, s)
       PROVE  ReferencesKept'
  <2>1. s \notin Missing
    BY DEF Missing, LeagueStatuses
  <2>2. status' = [status EXCEPT ![l] = s] /\ team' = team /\ matches' = matches
    BY <1>10 DEF SetLeagueStatus, CreateLeague
  <2>3. \A k : status[k] \notin Missing => status'[k] \notin Missing
    BY <2>1, <2>2 DEF TypeInv, TypeOK
  <2>4. QED
    BY <2>2, <2>3 DEF ReferencesKept
<1>11. ASSUME NEW t \in Teams, NEW l \in Leagues \cup {NoLeague}, CreateTeam(t, l)
       PROVE  ReferencesKept'
  <2>1. /\ team' = [team EXCEPT ![t] = [league |-> l, status |-> "PENDING"]]
        /\ status' = status /\ matches' = matches
        /\ l # NoLeague => status[l] \notin Missing
    BY <1>11 DEF CreateTeam
  <2>2. "PENDING" \notin Missing
    BY DEF Missing
  <2>3. \A k : k # t => team'[k] = team[k]
    BY <2>1 DEF TypeInv, TypeOK
  <2>4. team'[t] = [league |-> l, status |-> "PENDING"]
    BY <2>1 DEF TypeInv, TypeOK
  <2>5. QED
    BY <2>1, <2>2, <2>3, <2>4 DEF ReferencesKept
<1>12. ASSUME NEW x \in matches, NEW s \in MatchStatuses, UpdateMatch(x, s)
       PROVE  ReferencesKept'
  <2>1. \A y \in matches' : \E z \in matches : y.league = z.league /\ y.pair = z.pair
    BY <1>12, Patched DEF SameFixture
  <2>2. team' = team /\ status' = status
    BY <1>12 DEF UpdateMatch
  <2>3. QED
    BY <2>1, <2>2 DEF ReferencesKept
<1>15. ASSUME NEW r \in Requests, NEW l \in Leagues, NEW m \in HandMade,
              CreateMatch(r, l, m)
       PROVE  ReferencesKept'
  <2>1. \A x \in matches' : x \in matches \/ (x.league = l /\ x.pair = m.pair)
    BY <1>15 DEF CreateMatch
  <2>2. QED
    BY <1>15, <2>1 DEF CreateMatch, ReferencesKept
<1>13. ASSUME NEW r \in Requests,
              \/ ArriveTeams(r) \/ ArriveLeagues(r) \/ Fail(r)
              \/ CountApproved(r) \/ CheckLeague(r) \/ ReadTeams(r) \/ CountDrafts(r)
              \/ ReadApproved(r) \/ NextTeam(r)
       PROVE  ReferencesKept'
  <2>1. UNCHANGED tables
    BY <1>13, Arrival DEF TypeInv, Fail, CountApproved, CheckLeague, ReadTeams,
       CountDrafts, ReadApproved, NextTeam
  <2>2. QED
    BY <1>1, <2>1
<1>14. CASE UNCHANGED vars
  BY <1>1, <1>14 DEF vars, tables
<1>16. QED
  BY <1>2, <1>3, <1>4, <1>5, <1>6, <1>7, <1>8, <1>9, <1>10, <1>11, <1>12, <1>13, <1>14, <1>15
     DEF Next, Step, Terminated

LEMMA ReferencesInit == Init => ReferencesKept
BY SeasonAssumption DEF Init, ReferencesKept, LeagueExists

\* No team and no match refers to a league or a team that has been deleted or
\* was never there, however handlers overlap and wherever they fail: every write
\* checks the row it refers to, and every removal the rows that refer to it.
THEOREM ReferencesHold == Spec => []ReferencesKept
BY InitType, TypeStep, ReferencesInit, ReferencesStep, PTL DEF Spec

-----------------------------------------------------------------------------
(* Requests that follow each other. *)

\* A handler is alone then, and what it has read is still so.
Undisturbed ==
  serial => /\ \A q, r \in Requests : Active(q) /\ Active(r) => q = r
            /\ \A r \in Requests : Knows(pc[r], job[r])

LEMMA KnowsNothing ==
  ASSUME NEW label \in Ended \cup {"idle"}, NEW j
  PROVE  Knows(label, j)
BY DEF Knows, Ended

\* Reading changes nothing of what a handler knows.
LEMMA KnowsTables ==
  ASSUME UNCHANGED <<status, team>>
  PROVE  \A label, j : Knows(label, j)' <=> Knows(label, j)
<1>1. \A l : Full(l)' <=> Full(l)
  BY DEF Full, Approved
<1>2. QED
  BY <1>1 DEF Knows, Exists, Open, MayLeave, LeagueExists

\* The moving handler knows what it should: that is enough, for it is alone.
LEMMA UndisturbedMove ==
  ASSUME TypeInv, Undisturbed, NEW r \in Requests, Active(r) \/ MayBegin(r),
         \E label, j : GoWith(r, label, j), UNCHANGED serial,
         serial => Knows(pc[r], job[r])'
  PROVE  Undisturbed'
<1> SUFFICES ASSUME serial
             PROVE  /\ \A p, q \in Requests : (Active(p) /\ Active(q))' => p = q
                    /\ \A q \in Requests : Knows(pc[q], job[q])'
  BY DEF Undisturbed
<1>1. ASSUME NEW q \in Requests, q # r
      PROVE  pc'[q] = pc[q] /\ pc[q] \in Ended \cup {"idle"}
  BY <1>1 DEF Undisturbed, MayBegin, Active, GoWith, TypeInv, TypeOK
<1>2. \A q \in Requests : q # r => ~Active(q)'
  BY <1>1 DEF Active
<1>3. \A q \in Requests : q # r => Knows(pc[q], job[q])'
  BY <1>1, KnowsNothing DEF Knows, Ended
<1>4. QED
  BY <1>2, <1>3

\* The discipline of the callers does not change.
LEMMA SerialKept == [Next]_vars => serial' = serial
<1>. SUFFICES ASSUME [Next]_vars PROVE serial' = serial
  OBVIOUS
<1>1. ASSUME NEW r \in Requests, ArriveTeams(r) \/ ArriveLeagues(r) \/ Fail(r)
      PROVE  serial' = serial
  BY <1>1 DEF ArriveTeams, ArriveLeagues, Fail, BeginSetStatus, BeginUpdateTeam,
     BeginJoin, BeginRemove, BeginDelete, BeginGenerate, BeginStart, BeginDeleteLeague
<1>2. ASSUME NEW r \in Requests,
             \/ CountApproved(r) \/ SetTeamStatus(r) \/ CheckLeague(r) \/ EnterLeague(r)
             \/ LeaveLeague(r) \/ DeleteTeam(r) \/ DeleteLeague(r) \/ ReadTeams(r)
      PROVE  serial' = serial
  BY <1>2 DEF CountApproved, SetTeamStatus, CheckLeague, EnterLeague, LeaveLeague,
     UpdateTeam, DeleteTeam, DeleteLeague, ReadTeams
<1>3. ASSUME NEW r \in Requests,
             \/ ClearFixtures(r) \/ InsertFixtures(r) \/ CountDrafts(r)
             \/ ScheduleDrafts(r) \/ ReadApproved(r) \/ NextTeam(r)
             \/ CreateStanding(r) \/ GoOngoing(r)
      PROVE  serial' = serial
  BY <1>3 DEF ClearFixtures, InsertFixtures, CountDrafts, ScheduleDrafts, ReadApproved,
     NextTeam, CreateStanding, GoOngoing
<1>4. CASE \E r \in Requests : ArriveTeams(r) \/ ArriveLeagues(r) \/ Step(r) \/ Fail(r)
  BY <1>1, <1>2, <1>3, <1>4 DEF Step
<1>5. CASE \/ \E l \in Leagues, s \in LeagueStatuses : SetLeagueStatus(l, s) \/ CreateLeague(l, s)
           \/ \E t \in Teams, l \in Leagues \cup {NoLeague} : CreateTeam(t, l)
           \/ \E r \in Requests, l \in Leagues, m \in HandMade : CreateMatch(r, l, m)
           \/ \E x \in matches, s \in MatchStatuses : UpdateMatch(x, s)
  BY <1>5 DEF SetLeagueStatus, CreateLeague, CreateTeam, CreateMatch, UpdateMatch
<1>6. CASE UNCHANGED vars \/ Terminated
  BY <1>6 DEF vars, Terminated
<1>. QED BY <1>4, <1>5, <1>6 DEF Next

\* Each step of a handler leads to a label at which it knows what it should.
LEMMA StepKnows ==
  ASSUME TypeInv, NEW r \in Requests, Step(r), Knows(pc[r], job[r])
  PROVE  /\ Active(r) /\ UNCHANGED serial /\ \E label, j : GoWith(r, label, j)
         /\ Knows(pc[r], job[r])'
<1> DEFINE Goal == /\ Active(r) /\ UNCHANGED serial /\ \E label, j : GoWith(r, label, j)
                   /\ Knows(pc[r], job[r])'
<1>1. \A label, j : GoWith(r, label, j) =>
        pc'[r] = label /\ (label \notin Ended => job'[r] = j)
  BY DEF GoWith, TypeInv, TypeOK
<1>2. ASSUME NEW label \in Ended, Goto(r, label), Active(r), UNCHANGED serial PROVE Goal
  BY <1>1, <1>2 DEF Goto, Knows, Ended
<1>3. CASE \/ SetTeamStatus(r) \/ EnterLeague(r) \/ LeaveLeague(r) \/ DeleteTeam(r)
           \/ DeleteLeague(r) \/ InsertFixtures(r) \/ GoOngoing(r)
  <2>1. Active(r) /\ UNCHANGED serial
    BY <1>3 DEF SetTeamStatus, EnterLeague, LeaveLeague, DeleteTeam, DeleteLeague,
       InsertFixtures, GoOngoing, UpdateTeam, Active, Ended
  <2>2. Goto(r, "done") \/ Goto(r, "rejected")
    BY <1>3 DEF SetTeamStatus, EnterLeague, LeaveLeague, DeleteTeam, DeleteLeague,
       InsertFixtures, GoOngoing, UpdateTeam
  <2>3. QED
    BY <1>2, <2>1, <2>2 DEF Ended
<1>4. CASE CountApproved(r)
  <2>1. CASE Full(job[r].league)
    BY <1>2, <1>4, <2>1 DEF CountApproved, Active, Ended
  <2>2. CASE ~Full(job[r].league)
    BY <1>1, <1>4, <2>2, KnowsTables
       DEF CountApproved, Goto, Active, Ended, Knows, tables
  <2>3. QED
    BY <2>1, <2>2
<1>5. CASE CheckLeague(r)
  <2>1. CASE Goto(r, "rejected")
    BY <1>2, <1>5, <2>1 DEF CheckLeague, Active, Ended
  <2>2. CASE status[job[r].league] = "REGISTRATION" /\ Goto(r, "enter")
    BY <1>1, <1>5, <2>2, KnowsTables
       DEF CheckLeague, Goto, Active, Ended, Knows, tables
  <2>3. QED
    BY <1>5, <2>1, <2>2 DEF CheckLeague
\* The other steps only go on with a league whose status they have read.
<1>6. CASE \/ ReadTeams(r) \/ ClearFixtures(r) \/ CountDrafts(r) \/ ScheduleDrafts(r)
           \/ ReadApproved(r) \/ NextTeam(r) \/ CreateStanding(r)
  <2> DEFINE Drawing == {"readTeams", "clear", "insert", "countDrafts", "schedule",
                         "readApproved", "nextTeam", "createStanding", "goOngoing"}
  <2>1. pc[r] \in Drawing /\ UNCHANGED <<serial, status>> /\ Active(r)
    BY <1>6 DEF ReadTeams, ClearFixtures, CountDrafts, ScheduleDrafts, ReadApproved,
       NextTeam, CreateStanding, Active, Ended, tables
  <2>2. \A T : [job[r] EXCEPT !.approved = T].league = job[r].league
    BY DEF TypeInv, TypeOK, Job
  <2>3. \E label, j : /\ GoWith(r, label, j)
                      /\ label \in Drawing \cup {"rejected"} /\ j.league = job[r].league
    <3>1. CASE ReadTeams(r) \/ ReadApproved(r)
      BY <2>2, <3>1 DEF ReadTeams, ReadApproved
    <3>2. CASE NextTeam(r)
      <4>1. CASE job[r].approved = {}
        BY <3>2, <4>1 DEF NextTeam, Goto
      <4>2. CASE job[r].approved # {}
        <5> DEFINE t == CHOOSE x \in job[r].approved : TRUE
                   j == [job[r] EXCEPT !.who = t, !.approved = @ \ {t}]
        <5>1. \E label \in Drawing : GoWith(r, label, j)
          BY <3>2, <4>2 DEF NextTeam
        <5>2. j.league = job[r].league
          BY DEF TypeInv, TypeOK, Job
        <5> HIDE DEF j
        <5>3. QED
          BY <5>1, <5>2
      <4>3. QED
        BY <4>1, <4>2
    <3>3. CASE \/ ClearFixtures(r) \/ CountDrafts(r) \/ ScheduleDrafts(r)
               \/ CreateStanding(r)
      BY <3>3 DEF ClearFixtures, CountDrafts, ScheduleDrafts, CreateStanding, Goto
    <3>4. QED
      BY <1>6, <3>1, <3>2, <3>3
  <2>4. status[job[r].league] = "PRE_SEASON"
    BY <2>1 DEF Knows
  <2>5. QED
    BY <1>1, <2>1, <2>3, <2>4 DEF Knows, Ended
<1>7. QED
  BY <1>3, <1>4, <1>5, <1>6 DEF Step

LEMMA UndisturbedStep ==
  ASSUME TypeInv, ReferencesKept, Undisturbed, [Next]_vars
  PROVE  Undisturbed'
<1>1. ASSUME NEW r \in Requests, ArriveTeams(r) \/ ArriveLeagues(r)
      PROVE  Undisturbed'
  <2>1. PICK label, j : GoWith(r, label, j) /\ Knows(label, j)
    BY <1>1, Arrival DEF TypeInv
  <2>2. MayBegin(r) /\ UNCHANGED serial /\ Knows(label, j)'
    BY <1>1, <2>1, Arrival, KnowsTables DEF TypeInv, tables
  <2>3. pc'[r] = label /\ (label \notin Ended => job'[r] = j)
    BY <2>1 DEF GoWith, TypeInv, TypeOK
  <2>4. Knows(pc[r], job[r])'
    BY <2>2, <2>3 DEF Knows, Ended
  <2>5. QED
    BY <2>1, <2>2, <2>4, UndisturbedMove
<1>2. ASSUME NEW r \in Requests, Step(r) PROVE Undisturbed'
  <2>1. serial => Knows(pc[r], job[r])
    BY DEF Undisturbed
  <2>2. CASE serial
    BY <1>2, <2>1, <2>2, StepKnows, UndisturbedMove
  <2>3. CASE ~serial
    BY <1>2, <2>3 DEF Undisturbed, Step, CountApproved, SetTeamStatus, CheckLeague,
       EnterLeague, LeaveLeague, UpdateTeam, DeleteTeam, DeleteLeague, ReadTeams,
       ClearFixtures, InsertFixtures, CountDrafts, ScheduleDrafts, ReadApproved,
       NextTeam, CreateStanding, GoOngoing
  <2>4. QED
    BY <2>2, <2>3
<1>3. ASSUME NEW r \in Requests, Fail(r) PROVE Undisturbed'
  <2>1. Active(r) /\ GoWith(r, "failed", job[r]) /\ UNCHANGED serial
    BY <1>3 DEF Fail, Goto
  <2>2. pc'[r] = "failed"
    BY <2>1 DEF GoWith, TypeInv, TypeOK
  <2>3. Knows(pc[r], job[r])'
    BY <2>2 DEF Knows
  <2>4. QED
    BY <2>1, <2>3, UndisturbedMove
<1>4. ASSUME NEW l \in Leagues, NEW s \in LeagueStatuses, SetLeagueStatus(l, s)
      PROVE  Undisturbed'
  <2> SUFFICES ASSUME serial PROVE Undisturbed'
    BY <1>4 DEF SetLeagueStatus, Undisturbed
  <2>1. pc' = pc /\ \A q \in Requests : pc[q] \in Ended \cup {"idle"}
    BY <1>4 DEF SetLeagueStatus, Active
  <2>2. QED
    BY <2>1 DEF Undisturbed, Active, Knows, Ended
<1>5. ASSUME NEW l \in Leagues, NEW s \in LeagueStatuses, CreateLeague(l, s)
      PROVE  Undisturbed'
  <2>1. UNCHANGED <<serial, team, matches, standing, pc, job>>
        /\ status[l] = "ABSENT" /\ status' = [status EXCEPT ![l] = s]
    BY <1>5 DEF CreateLeague
  <2>2. \A k : status[k] # "ABSENT" => status'[k] = status[k]
    BY <2>1 DEF TypeInv, TypeOK
  <2>3. \A k : Full(k)' <=> Full(k)
    BY <2>1 DEF Full, Approved
  <2>4. ASSUME NEW label, NEW j, Knows(label, j), label = "leave" => j.who \in Teams
        PROVE  Knows(label, j)'
    BY <2>1, <2>2, <2>3, <2>4 DEF Knows, Open, Exists, LeagueExists, MayLeave,
       ReferencesKept, Missing
  <2>5. \A r \in Requests : pc[r] = "leave" => job[r].who \in Teams
    BY DEF TypeInv, LocalsPresent, UsesTeam
  <2>6. QED
    BY <2>1, <2>4, <2>5 DEF Undisturbed, Active
<1>6. ASSUME NEW t \in Teams, NEW l \in Leagues \cup {NoLeague}, CreateTeam(t, l)
      PROVE  Undisturbed'
  <2>1. UNCHANGED <<serial, status, matches, standing, pc, job>>
        /\ team[t] = NoTeam("ABSENT")
        /\ team' = [team EXCEPT ![t] = [league |-> l, status |-> "PENDING"]]
    BY <1>6 DEF CreateTeam
  <2>2. \A k : team[k].status \notin Missing => team'[k] = team[k]
    BY <2>1 DEF TypeInv, TypeOK, NoTeam, Missing
  <2>3. \A k : Full(k)' <=> Full(k)
    <3>1. \A u \in Teams : \A k :
            team'[u] = [league |-> k, status |-> "APPROVED"] <=>
              team[u] = [league |-> k, status |-> "APPROVED"]
      BY <2>1 DEF TypeInv, TypeOK, NoTeam
    <3>2. \A k : Approved(k)' = Approved(k)
      BY <3>1 DEF Approved
    <3>3. QED
      BY <3>2 DEF Full
  <2>4. ASSUME NEW label, NEW j, Knows(label, j) PROVE Knows(label, j)'
    BY <2>1, <2>2, <2>3, <2>4 DEF Knows, Open, Exists, LeagueExists, MayLeave
  <2>5. QED
    BY <2>1, <2>4 DEF Undisturbed, Active
<1>7. ASSUME NEW x \in matches, NEW s \in MatchStatuses, UpdateMatch(x, s)
      PROVE  Undisturbed'
  BY <1>7, KnowsTables DEF UpdateMatch, Undisturbed, Active
<1>8. ASSUME NEW r \in Requests, NEW l \in Leagues, NEW m \in HandMade, CreateMatch(r, l, m)
      PROVE  Undisturbed'
  <2>1. MayBegin(r) /\ GoWith(r, "done", job[r]) /\ UNCHANGED serial
    BY <1>8 DEF CreateMatch, Goto
  <2>2. pc'[r] = "done"
    BY <2>1 DEF GoWith, TypeInv, TypeOK
  <2>3. Knows(pc[r], job[r])'
    BY <2>2 DEF Knows
  <2>4. QED
    BY <2>1, <2>3, UndisturbedMove
<1>9. CASE UNCHANGED vars
  BY <1>9, KnowsTables DEF vars, Undisturbed, Active
<1>10. QED
  BY <1>1, <1>2, <1>3, <1>4, <1>5, <1>6, <1>7, <1>8, <1>9 DEF Next, Terminated

LEMMA UndisturbedInit == Init => Undisturbed
BY KnowsNothing DEF Init, Undisturbed, Active

-----------------------------------------------------------------------------
(* The capacity of a league. *)

\* Fewer approved teams never exceed what more did not exceed.
LEMMA CapacityKept ==
  ASSUME NEW l \in Leagues, Cardinality(Approved(l)) <= MaxTeams[l],
         Approved(l)' \subseteq Approved(l)
  PROVE  Cardinality(Approved(l)') <= MaxTeams[l]
<1>1. IsFiniteSet(Approved(l))
  BY FS_Subset, SeasonAssumption DEF Approved
<1>2. Cardinality(Approved(l)') <= Cardinality(Approved(l))
  BY <1>1, FS_Subset
<1>3. /\ Cardinality(Approved(l)) \in Nat /\ Cardinality(Approved(l)') \in Nat
      /\ MaxTeams[l] \in Nat
  BY <1>1, FS_Subset, FS_CardinalityType, SeasonAssumption
<1>4. QED
  BY <1>2, <1>3

\* updateStatus approves a team of a league that has room for it.
LEMMA ApprovalKeepsCapacity ==
  ASSUME TypeInv, Undisturbed, serial, ~UncheckedStatus, NEW r \in Requests,
         SetTeamStatus(r), NEW l \in Leagues, Cardinality(Approved(l)) <= MaxTeams[l]
  PROVE  Cardinality(Approved(l)') <= MaxTeams[l]
<1> DEFINE t == job[r].who
<1>1. t \in Teams /\ pc[r] = "setStatus" /\ Knows("setStatus", job[r])
  BY DEF SetTeamStatus, TypeInv, LocalsPresent, UsesTeam, Undisturbed
<1>2. /\ \A u \in Teams : u # t => team'[u] = team[u]
      /\ \/ team'[t] = team[t]
         \/ team'[t] = [team[t] EXCEPT !.status = job[r].wanted]
  BY <1>1 DEF SetTeamStatus, UpdateTeam, TypeInv, TypeOK
<1>3. CASE Approved(l)' \subseteq Approved(l)
  BY <1>3, CapacityKept
<1>4. CASE ~(Approved(l)' \subseteq Approved(l))
  <2>1. /\ team'[t] = [team[t] EXCEPT !.status = job[r].wanted]
        /\ team'[t] = [league |-> l, status |-> "APPROVED"]
    BY <1>2, <1>4 DEF Approved
  <2>2. job[r].wanted = "APPROVED" /\ team[t].league = l
    BY <1>1, <2>1 DEF TypeInv, TypeOK, Team, NoTeam
  <2>3. ~Full(l)
    BY <1>1, <2>2, SeasonAssumption DEF Knows
  <2>4. Approved(l)' \subseteq Approved(l) \cup {t}
    BY <1>2 DEF Approved
  <2>5. IsFiniteSet(Approved(l))
    BY FS_Subset, SeasonAssumption DEF Approved
  <2>6. /\ IsFiniteSet(Approved(l) \cup {t})
        /\ Cardinality(Approved(l) \cup {t}) <= Cardinality(Approved(l)) + 1
    <3> DEFINE A == Approved(l)
    <3>1. IsFiniteSet(A) /\ Cardinality(A) \in Nat
      BY <2>5, FS_CardinalityType
    <3> HIDE DEF A, t
    <3>2. /\ IsFiniteSet(A \cup {t})
          /\ Cardinality(A \cup {t}) = IF t \in A THEN Cardinality(A) ELSE Cardinality(A) + 1
      BY <3>1, FS_AddElement
    <3>3. QED
      BY <3>1, <3>2 DEF A
  <2>7. Cardinality(Approved(l)') <= Cardinality(Approved(l) \cup {t})
    BY <2>4, <2>6, FS_Subset
  <2>8. /\ Cardinality(Approved(l)) \in Nat /\ Cardinality(Approved(l)') \in Nat
        /\ Cardinality(Approved(l) \cup {t}) \in Nat /\ MaxTeams[l] \in Nat
    BY <2>4, <2>5, <2>6, FS_Subset, FS_CardinalityType, SeasonAssumption
  <2>9. QED
    BY <2>3, <2>6, <2>7, <2>8 DEF Full
<1>5. QED
  BY <1>3, <1>4

\* Nothing but a change of status adds to the approved teams of a league.
LEMMA OnlyApprovalAdds ==
  ASSUME TypeInv, [Next]_vars, ~\E r \in Requests : SetTeamStatus(r), NEW l \in Leagues
  PROVE  Approved(l)' \subseteq Approved(l)
<1>1. CASE UNCHANGED team
  BY <1>1 DEF Approved
<1>2. ASSUME NEW r \in Requests, EnterLeague(r) \/ LeaveLeague(r)
      PROVE  Approved(l)' \subseteq Approved(l)
  <2>1. PICK row : row.status = "PENDING" /\ UpdateTeam(r, row)
    BY <1>2 DEF EnterLeague, LeaveLeague
  <2>2. team' = team \/ team' = [team EXCEPT ![job[r].who] = row]
    BY <2>1 DEF UpdateTeam
  <2>3. \A u \in Teams : team'[u] = team[u] \/ team'[u].status = "PENDING"
    BY <2>1, <2>2 DEF TypeInv, TypeOK
  <2>4. QED
    BY <2>3 DEF Approved
<1>3. ASSUME NEW r \in Requests, DeleteTeam(r) PROVE Approved(l)' \subseteq Approved(l)
  BY <1>3 DEF DeleteTeam, Approved, TypeInv, TypeOK, NoTeam
<1>4. ASSUME NEW r \in Requests, DeleteLeague(r) PROVE Approved(l)' \subseteq Approved(l)
  <2>1. CASE UNCHANGED team
    BY <1>1, <2>1
  <2>2. CASE team' = [t \in Teams |-> IF team[t].league = job[r].league
                        THEN [team[t] EXCEPT !.league = NoLeague] ELSE team[t]]
    <3>1. \A t \in Teams : team'[t] = team[t] \/ team'[t].league = NoLeague
      BY <2>2 DEF TypeInv, TypeOK, Team, NoTeam
    <3>2. QED
      BY <3>1, SeasonAssumption DEF Approved
  <2>3. QED
    BY <1>4, <2>1, <2>2 DEF DeleteLeague
<1>5. ASSUME NEW t \in Teams, NEW k \in Leagues \cup {NoLeague}, CreateTeam(t, k)
      PROVE  Approved(l)' \subseteq Approved(l)
  <2>1. \A u \in Teams : team'[u] = team[u] \/ team'[u].status = "PENDING"
    BY <1>5 DEF CreateTeam, TypeInv, TypeOK
  <2>2. QED
    BY <2>1 DEF Approved
<1>6. ASSUME NEW r \in Requests,
             \/ ArriveTeams(r) \/ ArriveLeagues(r) \/ Fail(r)
             \/ CountApproved(r) \/ CheckLeague(r) \/ ReadTeams(r) \/ ClearFixtures(r)
             \/ InsertFixtures(r) \/ CountDrafts(r) \/ ScheduleDrafts(r)
             \/ ReadApproved(r) \/ NextTeam(r) \/ CreateStanding(r) \/ GoOngoing(r)
      PROVE  UNCHANGED team
  BY <1>6, Arrival DEF TypeInv, Fail, CountApproved, CheckLeague, ReadTeams,
     ClearFixtures, InsertFixtures, CountDrafts, ScheduleDrafts, ReadApproved,
     NextTeam, CreateStanding, GoOngoing, tables
<1>7. ASSUME \/ \E k \in Leagues, s \in LeagueStatuses :
                  SetLeagueStatus(k, s) \/ CreateLeague(k, s)
             \/ \E r \in Requests, k \in Leagues, m \in HandMade : CreateMatch(r, k, m)
             \/ \E x \in matches, s \in MatchStatuses : UpdateMatch(x, s)
             \/ UNCHANGED vars
      PROVE  UNCHANGED team
  BY <1>7 DEF SetLeagueStatus, CreateLeague, CreateMatch, UpdateMatch, vars
<1>8. QED
  BY <1>1, <1>2, <1>3, <1>4, <1>5, <1>6, <1>7 DEF Next, Step, Terminated

LEMMA CapacityStep ==
  ASSUME ~UncheckedStatus, TypeInv, Undisturbed, CapacityRespected, [Next]_vars
  PROVE  CapacityRespected'
<1>1. serial' = serial
  BY SerialKept
<1> SUFFICES ASSUME serial, NEW l \in Leagues
             PROVE  Cardinality(Approved(l)') <= MaxTeams[l]
  BY <1>1 DEF CapacityRespected
<1>2. CASE \E r \in Requests : SetTeamStatus(r)
  BY <1>2, ApprovalKeepsCapacity DEF CapacityRespected
<1>3. CASE ~\E r \in Requests : SetTeamStatus(r)
  BY <1>3, OnlyApprovalAdds, CapacityKept DEF CapacityRespected
<1>4. QED
  BY <1>2, <1>3

\* updateStatus: as long as requests follow each other and PATCH /teams/:id is
\* not used to set a status, a league never has more approved teams than it has
\* places, whatever its limit, however often teams join, leave and are judged.
THEOREM CapacityHolds ==
  ASSUME ~UncheckedStatus
  PROVE  Spec => []CapacityRespected
<1>1. Init => CapacityRespected
  BY DEF Init, CapacityRespected
<1>2. QED
  BY <1>1, InitType, TypeStep, ReferencesInit, ReferencesStep, UndisturbedInit,
     UndisturbedStep, CapacityStep, PTL DEF Spec

-----------------------------------------------------------------------------
(* What steps never do. *)

\* Generating fixtures again and starting a season again lose no result, in any
\* interleaving and wherever a handler dies: only PATCH /matches/:id writes a
\* match that is COMPLETED.
THEOREM ResultsKept == Spec => PlayedKept
<1> DEFINE Kept == \A x \in matches : x.state = "COMPLETED" =>
                     x \in matches' \/ \E s \in MatchStatuses : UpdateMatch(x, s)
<1>1. ASSUME TypeInv, [Next]_vars PROVE Kept
  <2>1. CASE UNCHANGED matches
    BY <2>1
  <2>2. ASSUME NEW r \in Requests, ClearFixtures(r) PROVE Kept
    BY <2>2 DEF ClearFixtures, Unplayed
  <2>3. ASSUME NEW r \in Requests, InsertFixtures(r) PROVE Kept
    BY <2>3 DEF InsertFixtures
  <2>4. ASSUME NEW r \in Requests, ScheduleDrafts(r) PROVE Kept
    BY <2>4 DEF ScheduleDrafts, In
  <2>5. ASSUME NEW x \in matches, NEW s \in MatchStatuses, UpdateMatch(x, s) PROVE Kept
    <3>1. \A y \in matches : y # x => y \in matches'
      BY <2>5 DEF UpdateMatch
    <3>2. QED
      BY <2>5, <3>1
  <2>6. ASSUME NEW r \in Requests, NEW l \in Leagues, NEW m \in HandMade,
               CreateMatch(r, l, m)
        PROVE  Kept
    BY <2>6 DEF CreateMatch
  <2>7. ASSUME NEW r \in Requests,
               \/ ArriveTeams(r) \/ ArriveLeagues(r) \/ Fail(r)
               \/ CountApproved(r) \/ SetTeamStatus(r) \/ CheckLeague(r)
               \/ EnterLeague(r) \/ LeaveLeague(r) \/ DeleteTeam(r) \/ DeleteLeague(r)
               \/ ReadTeams(r) \/ CountDrafts(r) \/ ReadApproved(r) \/ NextTeam(r)
               \/ CreateStanding(r) \/ GoOngoing(r)
        PROVE  UNCHANGED matches
    BY <1>1, <2>7, Arrival DEF TypeInv, Fail, CountApproved, SetTeamStatus, UpdateTeam,
       CheckLeague, EnterLeague, LeaveLeague, DeleteTeam, DeleteLeague, ReadTeams,
       CountDrafts, ReadApproved, NextTeam, CreateStanding, GoOngoing, tables
  <2>8. ASSUME \/ \E l \in Leagues, s \in LeagueStatuses :
                    SetLeagueStatus(l, s) \/ CreateLeague(l, s)
               \/ \E t \in Teams, l \in Leagues \cup {NoLeague} : CreateTeam(t, l)
               \/ UNCHANGED vars
        PROVE  UNCHANGED matches
    BY <2>8 DEF SetLeagueStatus, CreateLeague, CreateTeam, vars
  <2> HIDE DEF Kept
  <2>9. UNCHANGED matches => Kept
    BY <2>1
  <2>10. QED
    BY <1>1, <2>2, <2>3, <2>4, <2>5, <2>6, <2>7, <2>8, <2>9 DEF Next, Step, Terminated
<1>2. TypeInv /\ [Next]_vars =>
        [\A x \in matches : x.state = "COMPLETED" =>
           x \in matches' \/ \E s \in MatchStatuses : UpdateMatch(x, s)]_vars
  BY <1>1
<1>3. QED
  BY <1>2, InitType, TypeStep, PTL DEF Spec, PlayedKept

\* What ApprovedStay allows to happen to an approved team of a running league.
Stays(t, l) ==
  \/ team'[t].league = l
  \/ /\ "REMOVED" \in {team'[t].status, status'[l]}
     /\ \A x \in matches : x.league = l => t \notin x.pair

LEMMA StaysStep ==
  ASSUME TypeInv, Undisturbed, serial, [Next]_vars,
         NEW t \in Teams, NEW l \in Leagues, t \in Approved(l), status[l] = "ONGOING"
  PROVE  Stays(t, l)
<1>1. team[t] = [league |-> l, status |-> "APPROVED"] /\ l # NoLeague /\ Exists(t)
  BY SeasonAssumption DEF Approved, Exists, Missing
<1>2. CASE team'[t].league = team[t].league
  BY <1>1, <1>2 DEF Stays
<1>3. ASSUME NEW r \in Requests, SetTeamStatus(r) PROVE Stays(t, l)
  <2>1. team' = team \/ team' = [team EXCEPT ![job[r].who] =
                                   [team[job[r].who] EXCEPT !.status = job[r].wanted]]
    BY <1>3 DEF SetTeamStatus, UpdateTeam
  <2>2. [team[t] EXCEPT !.status = job[r].wanted].league = l
    BY <1>1
  <2>3. team'[t].league = l
    BY <1>1, <2>1, <2>2 DEF TypeInv, TypeOK
  <2>4. QED
    BY <2>3 DEF Stays
<1>4. ASSUME NEW r \in Requests, EnterLeague(r) PROVE Stays(t, l)
  <2>1. pc[r] = "enter" /\ Knows("enter", job[r])
    BY <1>4 DEF EnterLeague, Undisturbed
  <2>2. job[r].who # t
    BY <1>1, <2>1 DEF Knows
  <2>3. team' = team \/ team' = [team EXCEPT ![job[r].who] =
                                   [league |-> job[r].league, status |-> "PENDING"]]
    BY <1>4 DEF EnterLeague, UpdateTeam
  <2>4. QED
    BY <1>2, <2>2, <2>3 DEF TypeInv, TypeOK
<1>5. ASSUME NEW r \in Requests, LeaveLeague(r) PROVE Stays(t, l)
  <2>1. pc[r] = "leave" /\ Knows("leave", job[r])
    BY <1>5 DEF LeaveLeague, Undisturbed
  <2>2. job[r].who # t
    BY <1>1, <2>1 DEF Knows, MayLeave
  <2>3. team' = team \/ team' = [team EXCEPT ![job[r].who] =
                                   [league |-> NoLeague, status |-> "PENDING"]]
    BY <1>5 DEF LeaveLeague, UpdateTeam
  <2>4. QED
    BY <1>2, <2>2, <2>3 DEF TypeInv, TypeOK
<1>6. ASSUME NEW r \in Requests, DeleteTeam(r) PROVE Stays(t, l)
  <2>1. CASE team' = team \/ t # job[r].who
    <3>1. team'[t] = team[t]
      BY <1>6, <2>1 DEF DeleteTeam, TypeInv, TypeOK
    <3>2. QED
      BY <1>2, <3>1
  <2>2. CASE team' # team /\ t = job[r].who
    <3>1. \A x \in matches : t \notin x.pair
      BY <1>6, <2>2 DEF DeleteTeam
    <3>2. team'[t] = NoTeam("REMOVED")
      BY <1>6, <2>2 DEF DeleteTeam, TypeInv, TypeOK
    <3>3. QED
      BY <3>1, <3>2 DEF Stays, NoTeam
  <2>3. QED
    BY <2>1, <2>2
<1>7. ASSUME NEW r \in Requests, DeleteLeague(r) PROVE Stays(t, l)
  <2>1. CASE l = job[r].league /\ team' # team
    BY <1>7, <2>1 DEF DeleteLeague, Stays, TypeInv, TypeOK
  <2>2. CASE team' = team \/ l # job[r].league
    <3>1. team'[t] = team[t]
      BY <1>1, <1>7, <2>2 DEF DeleteLeague
    <3>2. QED
      BY <1>2, <3>1
  <2>3. QED
    BY <2>1, <2>2
<1>8. ASSUME NEW u \in Teams, NEW k \in Leagues \cup {NoLeague}, CreateTeam(u, k)
      PROVE  Stays(t, l)
  <2>1. u # t
    BY <1>1, <1>8 DEF CreateTeam, NoTeam
  <2>2. QED
    BY <1>2, <1>8, <2>1 DEF CreateTeam, TypeInv, TypeOK
<1>9. ASSUME NEW r \in Requests,
             \/ ArriveTeams(r) \/ ArriveLeagues(r) \/ Fail(r)
             \/ CountApproved(r) \/ CheckLeague(r) \/ ReadTeams(r) \/ ClearFixtures(r)
             \/ InsertFixtures(r) \/ CountDrafts(r) \/ ScheduleDrafts(r)
             \/ ReadApproved(r) \/ NextTeam(r) \/ CreateStanding(r) \/ GoOngoing(r)
      PROVE  UNCHANGED team
  BY <1>9, Arrival DEF TypeInv, Fail, CountApproved, CheckLeague, ReadTeams,
     ClearFixtures, InsertFixtures, CountDrafts, ScheduleDrafts, ReadApproved,
     NextTeam, CreateStanding, GoOngoing, tables
<1>10. ASSUME \/ \E k \in Leagues, s \in LeagueStatuses :
                   SetLeagueStatus(k, s) \/ CreateLeague(k, s)
              \/ \E r \in Requests, k \in Leagues, m \in HandMade : CreateMatch(r, k, m)
              \/ \E x \in matches, s \in MatchStatuses : UpdateMatch(x, s)
              \/ UNCHANGED vars
       PROVE  UNCHANGED team
  BY <1>10 DEF SetLeagueStatus, CreateLeague, CreateMatch, UpdateMatch, vars
<1>11. QED
  BY <1>2, <1>3, <1>4, <1>5, <1>6, <1>7, <1>8, <1>9, <1>10 DEF Next, Step, Terminated

\* removeFromLeague, joinLeague, remove: while its league is ONGOING an approved
\* team stays in it, whatever is asked for one after the other, unless it or the
\* league is deleted before the team has any match.
THEOREM ApprovedStayInSeason == Spec => ApprovedStay
<1>1. TypeInv /\ Undisturbed /\ [Next]_vars =>
        [\A t \in Teams, l \in Leagues :
           serial /\ t \in Approved(l) /\ status[l] = "ONGOING" =>
             \/ team'[t].league = l
             \/ /\ "REMOVED" \in {team'[t].status, status'[l]}
                /\ \A x \in matches : x.league = l => t \notin x.pair]_vars
  BY StaysStep DEF Stays
<1>2. QED
  BY <1>1, InitType, TypeStep, ReferencesInit, ReferencesStep, UndisturbedInit,
     UndisturbedStep, PTL DEF Spec, ApprovedStay

-----------------------------------------------------------------------------
(* The draw. *)

\* There is no match of l; or exactly the pairs of its approved teams have been
\* drawn, for every leg; and none of those is a draft but by hand.
Undrawn(l)  == \A x \in matches : x.league # l
Complete(l) ==
  /\ \A x \in matches : x.league = l /\ x.leg # ByHand => x.pair \in Pairs(Approved(l))
  /\ \A p \in Pairs(Approved(l)), g \in Legs :
       \E x \in matches : x.league = l /\ x.pair = p /\ x.leg = g
Dated(l) ==
  /\ Complete(l)
  /\ \A x \in matches :
       x.league = l /\ x.leg # ByHand /\ x.state = "DRAFT" => x.touched

\* A match of the team was made by hand.
Guest(l, t) == \E x \in matches : x.league = l /\ x.leg = ByHand /\ t \in x.pair

\* What the rows of a league look like, by its status.
ReadyLeague(l) ==
  /\ status[l] \notin {"PRE_SEASON", "ONGOING"} =>
       Undrawn(l) /\ \A t \in Teams : standing[l][t] = 0
  /\ status[l] \in {"PRE_SEASON", "ONGOING"} =>
       /\ Undrawn(l) \/ Complete(l)
       /\ \A t \in Teams : \/ standing[l][t] = 0
                           \/ standing[l][t] = 1 /\ (t \in Approved(l) \/ Guest(l, t))
  /\ status[l] = "PRE_SEASON" =>
       \A x \in matches : x.league = l => x.leg # ByHand /\ x.state \in Unplayed
  /\ status[l] = "ONGOING" =>
       Dated(l) /\ \A t \in Approved(l) : standing[l][t] = 1

\* How far generateFixtures and startSeason have come, by their label.
ReadyHandler(label, j) ==
  /\ label \in {"clear", "insert"} => j.approved = Approved(j.league)
  /\ label = "insert" => Undrawn(j.league)
  /\ label = "schedule" => Complete(j.league)
  /\ label \in {"readApproved", "nextTeam", "createStanding", "goOngoing"} =>
       Dated(j.league)
  /\ label \in {"nextTeam", "createStanding"} => j.approved \subseteq Approved(j.league)
  /\ label = "nextTeam" =>
       \A t \in Approved(j.league) \ j.approved : standing[j.league][t] = 1
  /\ label = "createStanding" =>
       /\ j.who \in Approved(j.league) \ j.approved
       /\ standing[j.league][j.who] = 0
       /\ \A t \in Approved(j.league) \ j.approved :
            t # j.who => standing[j.league][t] = 1
  /\ label = "goOngoing" =>
       \A t \in Approved(j.league) : standing[j.league][t] = 1

Ready ==
  serial => /\ \A l \in Leagues : ReadyLeague(l)
            /\ \A r \in Requests : ReadyHandler(pc[r], job[r])

\* What generateFixtures clears is all that was drawn, but for what was changed
\* by hand.
Untouched(x) == x.leg # ByHand /\ ~x.touched
ClearedBefore ==
  /\ \A x \in matches : Untouched(x) => x.state \in Unplayed
  /\ serial => \A r \in Requests : pc[r] = "insert" =>
       \A x \in matches : x.league = job[r].league => ~Untouched(x)

\* The rosters are settled during REGISTRATION, statuses are set by hand only as
\* far as PRE_SEASON, and no season has begun before the first request.
Discipline ==
  /\ RosterFrozen /\ ForwardOnly
  /\ \A s \in Starts, l \in Leagues : s.status[l] # "ONGOING"

-----------------------------------------------------------------------------
(* What most steps leave alone. *)

\* No row of the league, of its matches and of its table is written.
SameRows(l) ==
  /\ status'[l] = status[l] /\ standing'[l] = standing[l]
  /\ \A x : x.league = l => (x \in matches' <=> x \in matches)

LEMMA SameRowsLeague ==
  ASSUME NEW l, SameRows(l), ReadyLeague(l),
         status[l] \in {"PRE_SEASON", "ONGOING"} => Approved(l)' = Approved(l)
  PROVE  ReadyLeague(l)'
<1>1. Undrawn(l)' <=> Undrawn(l)
  BY DEF SameRows, Undrawn
<1>2. Approved(l)' = Approved(l) => (Complete(l)' <=> Complete(l))
                                    /\ (Dated(l)' <=> Dated(l))
  BY DEF SameRows, Complete, Dated, Pairs
<1>3. /\ (\A x \in matches' : x.league = l => x.leg # ByHand /\ x.state \in Unplayed) <=>
           (\A x \in matches : x.league = l => x.leg # ByHand /\ x.state \in Unplayed)
      /\ \A t : Guest(l, t)' <=> Guest(l, t)
  BY DEF SameRows, Guest
<1>4. QED
  BY <1>1, <1>2, <1>3 DEF SameRows, ReadyLeague

LEMMA SameRowsHandler ==
  ASSUME NEW label, NEW j, SameRows(j.league), ReadyHandler(label, j),
         Approved(j.league)' = Approved(j.league)
  PROVE  ReadyHandler(label, j)'
<1>1. Undrawn(j.league)' <=> Undrawn(j.league)
  BY DEF SameRows, Undrawn
<1>2. (Complete(j.league)' <=> Complete(j.league)) /\ (Dated(j.league)' <=> Dated(j.league))
  BY DEF SameRows, Complete, Dated, Pairs
<1>3. QED
  BY <1>1, <1>2 DEF SameRows, ReadyHandler

\* A team of a league that is not open for changes stays as it is.
LEMMA FrozenRoster ==
  ASSUME RosterFrozen, ForwardOnly, TypeInv, Undisturbed, serial, [Next]_vars,
         NEW l \in Leagues, status[l] \in {"PRE_SEASON", "ONGOING"}
  PROVE  Approved(l)' = Approved(l)
<1> SUFFICES \A u \in Teams : \/ team'[u] = team[u]
                              \/ /\ team[u].league # l \/ team[u].status # "APPROVED"
                                 /\ team'[u].league # l \/ team'[u].status # "APPROVED"
  BY DEF Approved
<1> DEFINE Kept == \A u \in Teams :
             \/ team'[u] = team[u]
             \/ /\ team[u].league # l \/ team[u].status # "APPROVED"
                /\ team'[u].league # l \/ team'[u].status # "APPROVED"
<1>1. CASE UNCHANGED team
  BY <1>1
<1>2. ASSUME NEW r \in Requests, NEW row, UpdateTeam(r, row),
             pc[r] \in {"setStatus", "enter", "leave"},
             row.league = team[job[r].who].league \/ row.status = "PENDING"
      PROVE  Kept
  <2>1. job[r].who \in Teams /\ Open(team[job[r].who].league)
    BY <1>2 DEF TypeInv, LocalsPresent, UsesTeam, Undisturbed, Knows
  <2>2. team[job[r].who].league # l
    BY <2>1, SeasonAssumption DEF Open
  <2>3. team' = team \/ team' = [team EXCEPT ![job[r].who] = row]
    BY <1>2 DEF UpdateTeam
  <2>4. QED
    BY <1>2, <2>2, <2>3 DEF TypeInv, TypeOK
<1>3. ASSUME NEW r \in Requests, SetTeamStatus(r) PROVE Kept
  <2>1. job[r].who \in Teams
    BY <1>3 DEF SetTeamStatus, TypeInv, LocalsPresent, UsesTeam
  <2>2. [team[job[r].who] EXCEPT !.status = job[r].wanted].league = team[job[r].who].league
    BY <2>1 DEF TypeInv, TypeOK, Team, NoTeam
  <2>3. QED
    BY <1>2, <1>3, <2>2 DEF SetTeamStatus
<1>4. ASSUME NEW r \in Requests, EnterLeague(r) PROVE Kept
  BY <1>2, <1>4 DEF EnterLeague
<1>5. ASSUME NEW r \in Requests, LeaveLeague(r) PROVE Kept
  BY <1>2, <1>5 DEF LeaveLeague
<1>6. ASSUME NEW r \in Requests, DeleteTeam(r) PROVE Kept
  <2>1. job[r].who \in Teams /\ Open(team[job[r].who].league)
    BY <1>6 DEF DeleteTeam, TypeInv, LocalsPresent, UsesTeam, Undisturbed, Knows
  <2>2. team[job[r].who].league # l
    BY <2>1, SeasonAssumption DEF Open
  <2>3. team' = team \/ team' = [team EXCEPT ![job[r].who] = NoTeam("REMOVED")]
    BY <1>6 DEF DeleteTeam
  <2>4. NoTeam("REMOVED").league # l
    BY SeasonAssumption DEF NoTeam
  <2>5. QED
    BY <2>2, <2>3, <2>4 DEF TypeInv, TypeOK
<1>7. ASSUME NEW r \in Requests, DeleteLeague(r) PROVE Kept
  <2>1. job[r].league # l
    BY <1>7 DEF DeleteLeague, Undisturbed, Knows
  <2>2. CASE team' = [t \in Teams |-> IF team[t].league = job[r].league
                        THEN [team[t] EXCEPT !.league = NoLeague] ELSE team[t]]
    <3>1. \A t \in Teams :
            \/ team'[t] = team[t]
            \/ team[t].league = job[r].league /\ team'[t].league = NoLeague
      BY <2>2 DEF TypeInv, TypeOK, Team, NoTeam
    <3>2. QED
      BY <2>1, <3>1, SeasonAssumption
  <2>3. QED
    BY <1>1, <1>7, <2>2 DEF DeleteLeague
<1>8. ASSUME NEW t \in Teams, NEW k \in Leagues \cup {NoLeague}, CreateTeam(t, k)
      PROVE  Kept
  BY <1>8 DEF CreateTeam, NoTeam, TypeInv, TypeOK
<1>9. ASSUME NEW r \in Requests,
             \/ ArriveTeams(r) \/ ArriveLeagues(r) \/ Fail(r)
             \/ CountApproved(r) \/ CheckLeague(r) \/ ReadTeams(r) \/ ClearFixtures(r)
             \/ InsertFixtures(r) \/ CountDrafts(r) \/ ScheduleDrafts(r)
             \/ ReadApproved(r) \/ NextTeam(r) \/ CreateStanding(r) \/ GoOngoing(r)
      PROVE  UNCHANGED team
  BY <1>9, Arrival DEF TypeInv, Fail, CountApproved, CheckLeague, ReadTeams,
     ClearFixtures, InsertFixtures, CountDrafts, ScheduleDrafts, ReadApproved,
     NextTeam, CreateStanding, GoOngoing, tables
<1>10. ASSUME \/ \E k \in Leagues, s \in LeagueStatuses :
                   SetLeagueStatus(k, s) \/ CreateLeague(k, s)
              \/ \E r \in Requests, k \in Leagues, m \in HandMade : CreateMatch(r, k, m)
              \/ \E x \in matches, s \in MatchStatuses : UpdateMatch(x, s)
              \/ UNCHANGED vars
       PROVE  UNCHANGED team
  BY <1>10 DEF SetLeagueStatus, CreateLeague, CreateMatch, UpdateMatch, vars
<1>11. QED
  BY <1>1, <1>3, <1>4, <1>5, <1>6, <1>7, <1>8, <1>9, <1>10 DEF Next, Step, Terminated

-----------------------------------------------------------------------------
(* The draw is kept in order by every step. *)

\* The moving handler is alone: it is enough that it has come as far as it should.
LEMMA ReadyMove ==
  ASSUME TypeInv, Undisturbed, serial, NEW r \in Requests, Active(r) \/ MayBegin(r),
         \E label, j : GoWith(r, label, j),
         ReadyHandler(pc[r], job[r])', \A l \in Leagues : ReadyLeague(l)'
  PROVE  Ready'
<1>1. ASSUME NEW q \in Requests, q # r
      PROVE  pc'[q] = pc[q] /\ pc[q] \in Ended \cup {"idle"}
  BY <1>1 DEF Undisturbed, MayBegin, Active, GoWith, TypeInv, TypeOK
<1>2. \A q \in Requests : q # r => ReadyHandler(pc[q], job[q])'
  BY <1>1 DEF ReadyHandler, Ended
<1>3. QED
  BY <1>2 DEF Ready

\* A league whose rows nobody writes stays ready.
LEMMA OtherLeagues ==
  ASSUME Discipline, TypeInv, Undisturbed, serial, [Next]_vars, Ready,
         NEW l \in Leagues, SameRows(l)
  PROVE  ReadyLeague(l)'
BY FrozenRoster, SameRowsLeague DEF Discipline, Ready

\* Steps that write no league, match or line of a table.
LEMMA QuietReady ==
  ASSUME Discipline, TypeInv, Undisturbed, serial, [Next]_vars, Ready,
         UNCHANGED <<status, matches, standing>>
  PROVE  \A l \in Leagues : ReadyLeague(l)' /\ SameRows(l)
<1>1. \A l \in Leagues : SameRows(l)
  BY DEF SameRows
<1>2. QED
  BY <1>1, OtherLeagues

\* A team that may be deleted, and of which there is no match, has no line in a
\* league that is ready.
LEMMA DeleteTeamReady ==
  ASSUME Discipline, TypeInv, Undisturbed, serial, Ready,
         NEW r \in Requests, DeleteTeam(r)
  PROVE  UNCHANGED <<status, matches, standing>>
<1> SUFFICES ASSUME \A x \in matches : job[r].who \notin x.pair
             PROVE  [l \in Leagues |-> [standing[l] EXCEPT ![job[r].who] = 0]] = standing
  BY DEF DeleteTeam
<1>1. job[r].who \in Teams /\ Open(team[job[r].who].league)
  BY DEF DeleteTeam, TypeInv, LocalsPresent, UsesTeam, Undisturbed, Knows
<1>2. ASSUME NEW l \in Leagues PROVE standing[l][job[r].who] = 0
  <2>1. CASE status[l] \in {"PRE_SEASON", "ONGOING"}
    <3>1. team[job[r].who].league # l
      BY <1>1, <2>1, SeasonAssumption DEF Open, Discipline
    <3>2. job[r].who \notin Approved(l) /\ ~Guest(l, job[r].who)
      BY <1>1, <3>1 DEF Approved, Guest
    <3>3. QED
      BY <1>1, <2>1, <3>2 DEF Ready, ReadyLeague
  <2>2. CASE status[l] \notin {"PRE_SEASON", "ONGOING"}
    BY <1>1, <2>2 DEF Ready, ReadyLeague
  <2>3. QED
    BY <2>1, <2>2
<1>3. \A l \in Leagues : [standing[l] EXCEPT ![job[r].who] = 0] = standing[l]
  BY <1>2 DEF TypeInv, TypeOK
<1>4. QED
  BY <1>3 DEF TypeInv, TypeOK

LEMMA DeleteLeagueReady ==
  ASSUME Discipline, TypeInv, Undisturbed, serial, [Next]_vars, Ready,
         NEW r \in Requests, DeleteLeague(r), NEW k, k = job[r].league
  PROVE  \A l \in Leagues : ReadyLeague(l)'
<1>1. CASE UNCHANGED <<status, matches, standing>>
  BY <1>1, QuietReady
<1>2. CASE ~UNCHANGED <<status, matches, standing>>
  <2>1. /\ k \in Leagues /\ Undrawn(k) /\ matches' = matches
        /\ status' = [status EXCEPT ![k] = "REMOVED"]
        /\ standing' = [standing EXCEPT ![k] = [t \in Teams |-> 0]]
    BY <1>2 DEF DeleteLeague, Undrawn, TypeInv, LocalsPresent, UsesLeague
  <2>2. ASSUME NEW l \in Leagues, l # k PROVE ReadyLeague(l)'
    <3>1. SameRows(l)
      BY <2>1, <2>2 DEF SameRows, TypeInv, TypeOK
    <3>2. QED
      BY <3>1, OtherLeagues
  <2>3. ReadyLeague(k)'
    <3>1. status'[k] = "REMOVED" /\ \A t \in Teams : standing'[k][t] = 0
      BY <2>1 DEF TypeInv, TypeOK
    <3>2. Undrawn(k)'
      BY <2>1 DEF Undrawn
    <3>3. QED
      BY <3>1, <3>2 DEF ReadyLeague
  <2>4. QED
    BY <2>2, <2>3
<1>3. QED
  BY <1>1, <1>2

\* A league enters PRE_SEASON, or comes to be, with nothing drawn.
LEMMA SetStatusReady ==
  ASSUME Discipline, TypeInv, Undisturbed, serial, [Next]_vars, Ready,
         NEW k \in Leagues, NEW s \in LeagueStatuses,
         SetLeagueStatus(k, s) \/ CreateLeague(k, s)
  PROVE  \A l \in Leagues : ReadyLeague(l)'
<1>1. /\ status[k] \in {"REGISTRATION", "ABSENT"} /\ s \in {"PRE_SEASON", "REGISTRATION"}
      /\ status' = [status EXCEPT ![k] = s]
      /\ matches' = matches /\ standing' = standing
  BY DEF SetLeagueStatus, CreateLeague, Discipline
<1>2. ASSUME NEW l \in Leagues, l # k PROVE ReadyLeague(l)'
  <2>1. SameRows(l)
    BY <1>1, <1>2 DEF SameRows, TypeInv, TypeOK
  <2>2. QED
    BY <2>1, OtherLeagues
<1>3. ReadyLeague(k)'
  <2>1. Undrawn(k)' /\ \A t \in Teams : standing'[k][t] = 0
    BY <1>1 DEF Ready, ReadyLeague, Undrawn
  <2>2. status'[k] = s
    BY <1>1 DEF TypeInv, TypeOK
  <2>3. \A x \in matches' : x.league = k => x.leg # ByHand /\ x.state \in Unplayed
    BY <2>1 DEF Undrawn
  <2>4. QED
    BY <1>1, <2>1, <2>2, <2>3 DEF ReadyLeague
<1>4. QED
  BY <1>2, <1>3

\* generateFixtures clears what is there, for nothing has been played yet ...
LEMMA ClearReady ==
  ASSUME Discipline, TypeInv, Undisturbed, serial, [Next]_vars, Ready,
         NEW r \in Requests, ClearFixtures(r), NEW k, k = job[r].league
  PROVE  Ready'
<1>1. /\ pc[r] = "clear" /\ k \in Leagues /\ status[k] = "PRE_SEASON"
      /\ ReadyLeague(k) /\ ReadyHandler("clear", job[r])
  BY DEF ClearFixtures, TypeInv, LocalsPresent, UsesLeague, Undisturbed, Knows, Ready
<1>2. UNCHANGED <<status, standing, team>>
      /\ matches' = {x \in matches : x.league # k \/ x.state \notin Unplayed}
  BY DEF ClearFixtures
<1>3. Undrawn(k)' /\ \A t : ~Guest(k, t)
  <2>1. \A x \in matches : x.league = k => x.leg # ByHand /\ x.state \in Unplayed
    BY <1>1 DEF ReadyLeague
  <2>2. QED
    BY <1>2, <2>1 DEF Undrawn, Guest
<1>4. ASSUME NEW l \in Leagues, l # k PROVE ReadyLeague(l)'
  <2>1. SameRows(l)
    BY <1>2, <1>4 DEF SameRows
  <2>2. QED
    BY <2>1, OtherLeagues
<1>5. Approved(k)' = Approved(k)
  BY <1>2 DEF Approved
<1>6. ReadyLeague(k)'
  BY <1>1, <1>2, <1>3, <1>5 DEF ReadyLeague, Undrawn
<1>7. /\ pc'[r] = "insert" /\ job'[r] = job[r] /\ Active(r)
      /\ \E label, j : GoWith(r, label, j)
  BY DEF ClearFixtures, Goto, GoWith, TypeInv, TypeOK, Ended, Active
<1>8. ReadyHandler(pc[r], job[r])'
  BY <1>1, <1>3, <1>5, <1>7 DEF ReadyHandler
<1>9. QED
  BY <1>4, <1>6, <1>7, <1>8, ReadyMove

\* ... and draws every pair of the approved teams, or nothing.
LEMMA InsertReady ==
  ASSUME Discipline, TypeInv, Undisturbed, serial, [Next]_vars, Ready,
         NEW r \in Requests, InsertFixtures(r), NEW k, k = job[r].league
  PROVE  Ready'
<1>1. /\ pc[r] = "insert" /\ k \in Leagues /\ status[k] = "PRE_SEASON"
      /\ ReadyLeague(k) /\ Undrawn(k) /\ job[r].approved = Approved(k)
  BY DEF InsertFixtures, TypeInv, LocalsPresent, UsesLeague, Undisturbed, Knows, Ready,
     ReadyHandler
<1>2. UNCHANGED <<status, standing, team>>
  BY DEF InsertFixtures
<1>3. /\ pc'[r] \in Ended /\ Active(r) /\ \E label, j : GoWith(r, label, j)
  BY DEF InsertFixtures, Goto, GoWith, TypeInv, TypeOK, Ended, Active
<1>4. ReadyHandler(pc[r], job[r])'
  BY <1>3 DEF ReadyHandler, Ended
<1>5. CASE UNCHANGED matches
  BY <1>2, <1>3, <1>4, <1>5, QuietReady, ReadyMove
<1>6. CASE ~UNCHANGED matches
  <2> DEFINE new == [league : {k}, pair : Pairs(Approved(k)), leg : Legs,
                     state : {"DRAFT"}, by : {r}, touched : {FALSE}]
  <2>1. matches' = matches \cup new
    BY <1>1, <1>6 DEF InsertFixtures
  <2>2. \A x \in new : /\ x.league = k /\ x.pair \in Pairs(Approved(k))
                       /\ x.leg # ByHand /\ x.state \in Unplayed
    BY SeasonAssumption DEF Unplayed
  <2>3. \A p \in Pairs(Approved(k)), g \in Legs :
          \E x \in new : x.league = k /\ x.pair = p /\ x.leg = g
    <3> SUFFICES ASSUME NEW p \in Pairs(Approved(k)), NEW g \in Legs
                 PROVE  \E x \in new : x.league = k /\ x.pair = p /\ x.leg = g
      OBVIOUS
    <3> DEFINE x == [league |-> k, pair |-> p, leg |-> g, state |-> "DRAFT", by |-> r,
                     touched |-> FALSE]
    <3>1. x \in new /\ x.league = k /\ x.pair = p /\ x.leg = g
      OBVIOUS
    <3>2. QED
      BY <3>1
  <2> HIDE DEF new
  <2>4. Approved(k)' = Approved(k)
    BY <1>2 DEF Approved
  <2>5. Pairs(Approved(k))' = Pairs(Approved(k))
    BY <2>4 DEF Pairs
  <2>6. \A x \in matches' : x.league = k => x \in new
    BY <1>1, <2>1 DEF Undrawn
  <2>7. Complete(k)'
    BY <2>1, <2>2, <2>3, <2>5, <2>6 DEF Complete
  <2>8. ReadyLeague(k)'
    <3>1. \A t : ~Guest(k, t)
      BY <1>1 DEF Undrawn, Guest
    <3>2. QED
      BY <1>1, <1>2, <2>2, <2>4, <2>6, <2>7, <3>1 DEF ReadyLeague
  <2>9. ASSUME NEW l \in Leagues, l # k PROVE ReadyLeague(l)'
    <3>1. SameRows(l)
      BY <1>2, <2>1, <2>2, <2>9 DEF SameRows
    <3>2. QED
      BY <3>1, OtherLeagues
  <2>10. QED
    BY <1>3, <1>4, <2>8, <2>9, ReadyMove
<1>7. QED
  BY <1>5, <1>6

\* startSeason gives every match of the league a date.
LEMMA ScheduleReady ==
  ASSUME Discipline, TypeInv, Undisturbed, serial, [Next]_vars, Ready,
         NEW r \in Requests, ScheduleDrafts(r), NEW k, k = job[r].league
  PROVE  Ready'
<1>1. /\ pc[r] = "schedule" /\ k \in Leagues /\ status[k] = "PRE_SEASON"
      /\ ReadyLeague(k) /\ Complete(k)
  BY DEF ScheduleDrafts, TypeInv, LocalsPresent, UsesLeague, Undisturbed, Knows, Ready,
     ReadyHandler
<1>2. UNCHANGED <<status, standing, team>>
  BY DEF ScheduleDrafts
<1>3. /\ \A x : x \in matches' <=> \E y \in matches : x = Rescheduled(k, y)
      /\ \A y \in matches : SameFixture(Rescheduled(k, y), y)
  BY Scheduled
<1>4. \A y \in matches : /\ y.league # k => Rescheduled(k, y) = y
                         /\ y.league = k => Rescheduled(k, y).state # "DRAFT"
                         /\ y.state \in Unplayed =>
                              Rescheduled(k, y).state \in Unplayed
  <2>1. \A y \in Fixture : [y EXCEPT !.state = "SCHEDULED"].state = "SCHEDULED"
    BY ScheduledState
  <2>2. QED
    BY <2>1 DEF Rescheduled, Unplayed, TypeInv, TypeOK
<1>5. Approved(k)' = Approved(k) /\ Pairs(Approved(k))' = Pairs(Approved(k))
  BY <1>2 DEF Approved, Pairs
<1>6. Complete(k)'
  <2>1. \A x \in matches' : x.league = k /\ x.leg # ByHand => x.pair \in Pairs(Approved(k))
    BY <1>1, <1>3 DEF Complete, SameFixture
  <2>2. ASSUME NEW p \in Pairs(Approved(k)), NEW g \in Legs
        PROVE  \E x \in matches' : x.league = k /\ x.pair = p /\ x.leg = g
    <3>1. PICK y \in matches : y.league = k /\ y.pair = p /\ y.leg = g
      BY <1>1, <2>2 DEF Complete
    <3>2. Rescheduled(k, y) \in matches'
      BY <1>3, <3>1
    <3>3. QED
      BY <1>3, <3>1, <3>2 DEF SameFixture
  <2>3. QED
    BY <1>5, <2>1, <2>2 DEF Complete
<1>7. Dated(k)'
  BY <1>3, <1>4, <1>6 DEF Dated, SameFixture
<1>8. ReadyLeague(k)'
  <2>1. \A x \in matches' : x.league = k => x.leg # ByHand /\ x.state \in Unplayed
    BY <1>1, <1>3, <1>4 DEF ReadyLeague, SameFixture
  <2>2. \A t : ~Guest(k, t)
    BY <1>1 DEF ReadyLeague, Guest
  <2>3. QED
    BY <1>1, <1>2, <1>5, <1>6, <2>1, <2>2 DEF ReadyLeague
<1>9. ASSUME NEW l \in Leagues, l # k PROVE ReadyLeague(l)'
  <2>1. \A x : x.league = l => (x \in matches' <=> x \in matches)
    BY <1>3, <1>4, <1>9 DEF SameFixture
  <2>2. SameRows(l)
    BY <1>2, <2>1 DEF SameRows
  <2>3. QED
    BY <2>2, OtherLeagues
<1>10. /\ pc'[r] = "readApproved" /\ job'[r] = job[r] /\ Active(r)
       /\ \E label, j : GoWith(r, label, j)
  BY DEF ScheduleDrafts, Goto, GoWith, TypeInv, TypeOK, Ended, Active
<1>11. ReadyHandler(pc[r], job[r])'
  BY <1>7, <1>10 DEF ReadyHandler
<1>12. QED
  BY <1>8, <1>9, <1>10, <1>11, ReadyMove

\* It creates the line of an approved team that has none.
LEMMA CreateStandingReady ==
  ASSUME Discipline, TypeInv, Undisturbed, serial, [Next]_vars, Ready,
         NEW r \in Requests, CreateStanding(r),
         NEW k, k = job[r].league, NEW t, t = job[r].who
  PROVE  Ready'
<1>1. /\ pc[r] = "createStanding" /\ k \in Leagues /\ t \in Teams
      /\ status[k] = "PRE_SEASON" /\ ReadyLeague(k)
      /\ ReadyHandler("createStanding", job[r])
  BY DEF CreateStanding, TypeInv, LocalsPresent, UsesLeague, UsesTeam, Undisturbed,
     Knows, Ready
<1>2. UNCHANGED <<status, matches, team>>
  BY DEF CreateStanding
<1>3. Active(r) /\ \E label, j : GoWith(r, label, j)
  BY DEF CreateStanding, Goto, Active, Ended
<1>4. CASE Goto(r, "rejected") /\ UNCHANGED standing
  <2>1. pc'[r] = "rejected"
    BY <1>4 DEF Goto, GoWith, TypeInv, TypeOK
  <2>2. ReadyHandler(pc[r], job[r])'
    BY <2>1 DEF ReadyHandler
  <2>3. QED
    BY <1>2, <1>3, <1>4, <2>2, QuietReady, ReadyMove
<1>5. CASE /\ standing' = [standing EXCEPT ![k][t] = @ + 1]
           /\ Goto(r, "nextTeam")
  <2>1. standing[k][t] = 0 /\ t \in Approved(k)
    BY <1>1 DEF ReadyHandler
  <2>2. /\ standing'[k][t] = 1
        /\ \A u \in Teams : u # t => standing'[k][u] = standing[k][u]
        /\ \A l \in Leagues : l # k => standing'[l] = standing[l]
    BY <1>1, <1>5, <2>1 DEF TypeInv, TypeOK
  <2>3. Approved(k)' = Approved(k) /\ Pairs(Approved(k))' = Pairs(Approved(k))
    BY <1>2 DEF Approved, Pairs
  <2>4. /\ Complete(k)' <=> Complete(k)
        /\ Dated(k)' <=> Dated(k)
        /\ Undrawn(k)' <=> Undrawn(k)
        /\ \A u : Guest(k, u)' <=> Guest(k, u)
    BY <1>2, <2>3 DEF Complete, Dated, Undrawn, Guest
  <2>5. ReadyLeague(k)'
    BY <1>1, <1>2, <2>1, <2>2, <2>3, <2>4 DEF ReadyLeague
  <2>6. ASSUME NEW l \in Leagues, l # k PROVE ReadyLeague(l)'
    BY <1>2, <2>2, <2>6, OtherLeagues DEF SameRows
  <2>7. pc'[r] = "nextTeam" /\ job'[r] = job[r]
    BY <1>5 DEF Goto, GoWith, TypeInv, TypeOK, Ended
  <2>8. Approved(k) \subseteq Teams
    BY DEF Approved
  <2>9. ReadyHandler(pc[r], job[r])'
    BY <1>1, <2>2, <2>3, <2>4, <2>7, <2>8 DEF ReadyHandler
  <2>10. QED
    BY <1>3, <2>5, <2>6, <2>9, ReadyMove
<1>6. QED
  BY <1>4, <1>5 DEF CreateStanding

\* When the league goes ONGOING all of it is done.
LEMMA GoOngoingReady ==
  ASSUME Discipline, TypeInv, Undisturbed, serial, [Next]_vars, Ready,
         NEW r \in Requests, GoOngoing(r), NEW k, k = job[r].league
  PROVE  Ready'
<1>1. /\ pc[r] = "goOngoing" /\ k \in Leagues /\ status[k] = "PRE_SEASON"
      /\ ReadyLeague(k) /\ ReadyHandler("goOngoing", job[r])
  BY DEF GoOngoing, TypeInv, LocalsPresent, UsesLeague, Undisturbed, Knows, Ready
<1>2. UNCHANGED <<standing, matches, team>>
  BY DEF GoOngoing
<1>3. Active(r) /\ pc'[r] \in Ended /\ \E label, j : GoWith(r, label, j)
  BY DEF GoOngoing, Goto, GoWith, TypeInv, TypeOK, Active, Ended
<1>4. ReadyHandler(pc[r], job[r])'
  BY <1>3 DEF ReadyHandler, Ended
<1>5. status' = [status EXCEPT ![k] = "ONGOING"]
  BY <1>1 DEF GoOngoing, LeagueExists, Missing
<1>6. ReadyLeague(k)'
  <2>1. Approved(k)' = Approved(k) /\ Pairs(Approved(k))' = Pairs(Approved(k))
    BY <1>2 DEF Approved, Pairs
  <2>2. /\ Complete(k)' <=> Complete(k)
        /\ Dated(k)' <=> Dated(k)
        /\ \A t : Guest(k, t)' <=> Guest(k, t)
    BY <1>2, <2>1 DEF Complete, Dated, Guest
  <2>3. Dated(k) /\ \A t \in Approved(k) : standing[k][t] = 1
    BY <1>1 DEF ReadyHandler
  <2>4. status'[k] = "ONGOING"
    BY <1>1, <1>5 DEF TypeInv, TypeOK
  <2>5. Complete(k)
    BY <2>3 DEF Dated
  <2>6. QED
    BY <1>1, <1>2, <2>1, <2>2, <2>3, <2>4, <2>5 DEF ReadyLeague
<1>7. ASSUME NEW l \in Leagues, l # k PROVE ReadyLeague(l)'
  BY <1>2, <1>5, <1>7, OtherLeagues DEF SameRows, TypeInv, TypeOK
<1>8. QED
  BY <1>3, <1>4, <1>6, <1>7, ReadyMove

\* The steps that only read: what they go on with is what is there.
LEMMA ReadReady ==
  ASSUME Discipline, TypeInv, Undisturbed, serial, [Next]_vars, Ready,
         NEW r \in Requests, NEW k, k = job[r].league,
         ReadTeams(r) \/ CountDrafts(r) \/ ReadApproved(r) \/ NextTeam(r)
  PROVE  Ready'
<1>1. UNCHANGED <<status, matches, standing, team>> /\ Active(r)
  BY DEF ReadTeams, CountDrafts, ReadApproved, NextTeam, Active, Ended, tables
<1>2. \A l \in Leagues : ReadyLeague(l)'
  BY <1>1, QuietReady
<1>3. /\ k \in Leagues /\ job[r] \in Job
      /\ ReadyLeague(k) /\ ReadyHandler(pc[r], job[r]) /\ status[k] = "PRE_SEASON"
  BY DEF ReadTeams, CountDrafts, ReadApproved, NextTeam, TypeInv, TypeOK, LocalsPresent,
     UsesLeague, Undisturbed, Knows, Ready
<1>4. \A label, j : GoWith(r, label, j) =>
        pc'[r] = label /\ (label \notin Ended => job'[r] = j)
  BY DEF GoWith, TypeInv, TypeOK
<1>5. Approved(k)' = Approved(k) /\ Pairs(Approved(k))' = Pairs(Approved(k))
  BY <1>1 DEF Approved, Pairs
<1>6. (Complete(k)' <=> Complete(k)) /\ (Dated(k)' <=> Dated(k))
  BY <1>1, <1>5 DEF Complete, Dated
<1>7. ASSUME Goto(r, "rejected") PROVE ReadyHandler(pc[r], job[r])'
  BY <1>4, <1>7 DEF Goto, ReadyHandler
<1>8. ReadyHandler(pc[r], job[r])' /\ \E label, j : GoWith(r, label, j)
  <2>1. CASE ReadTeams(r) \/ ReadApproved(r)
    <3> DEFINE j == [job[r] EXCEPT !.approved = Approved(k)]
    <3>1. j.league = k /\ j.approved = Approved(k)
      BY <1>3 DEF Job
    <3>2. \/ GoWith(r, "rejected", j) \/ GoWith(r, "clear", j)
          \/ pc[r] = "readApproved" /\ GoWith(r, "nextTeam", j)
      BY <2>1 DEF ReadTeams, ReadApproved
    <3> HIDE DEF j
    <3>3. PICK jj : /\ jj.league = k /\ jj.approved = Approved(k)
                    /\ \/ GoWith(r, "rejected", jj) \/ GoWith(r, "clear", jj)
                       \/ pc[r] = "readApproved" /\ GoWith(r, "nextTeam", jj)
      BY <3>1, <3>2
    <3>4. CASE GoWith(r, "rejected", jj)
      BY <1>4, <3>4 DEF ReadyHandler
    <3>5. CASE GoWith(r, "clear", jj)
      BY <1>4, <1>5, <3>3, <3>5 DEF ReadyHandler, Ended
    <3>6. CASE pc[r] = "readApproved" /\ GoWith(r, "nextTeam", jj)
      <4>1. Dated(k)
        BY <1>3, <3>6 DEF ReadyHandler
      <4>2. pc'[r] = "nextTeam" /\ job'[r] = jj
        BY <1>4, <3>6 DEF Ended
      <4>3. QED
        BY <1>5, <1>6, <3>3, <3>6, <4>1, <4>2 DEF ReadyHandler
    <3>7. QED
      BY <3>3, <3>4, <3>5, <3>6
  <2>2. CASE CountDrafts(r)
    <3>1. CASE In(k, "DRAFT") = {}
      BY <1>7, <2>2, <3>1 DEF CountDrafts, Goto
    <3>2. CASE In(k, "DRAFT") # {}
      <4>1. Complete(k)
        BY <1>3, <3>2 DEF In, ReadyLeague, Undrawn
      <4>2. Goto(r, "schedule")
        BY <2>2, <3>2 DEF CountDrafts
      <4>3. pc'[r] = "schedule" /\ job'[r] = job[r]
        BY <1>4, <4>2 DEF Goto, Ended
      <4>4. QED
        BY <1>6, <4>1, <4>2, <4>3 DEF ReadyHandler, Goto
    <3>3. QED
      BY <3>1, <3>2
  <2>3. CASE NextTeam(r) /\ job[r].approved = {}
    <3>1. Dated(k) /\ \A t \in Approved(k) : standing[k][t] = 1
      BY <1>3, <2>3 DEF NextTeam, ReadyHandler
    <3>2. Goto(r, "goOngoing")
      BY <2>3 DEF NextTeam
    <3>3. pc'[r] = "goOngoing" /\ job'[r] = job[r]
      BY <1>4, <3>2 DEF Goto, Ended
    <3>4. QED
      BY <1>1, <1>5, <1>6, <3>1, <3>2, <3>3 DEF ReadyHandler, Goto
  <2>4. CASE NextTeam(r) /\ job[r].approved # {}
    <3> DEFINE next == CHOOSE x \in job[r].approved : TRUE
               j == [job[r] EXCEPT !.who = next, !.approved = @ \ {next}]
    <3>1. next \in job[r].approved
      BY <2>4
    <3>2. GoWith(r, IF HasStanding(k, next) THEN "nextTeam" ELSE "createStanding", j)
      BY <2>4 DEF NextTeam
    <3> HIDE DEF next
    <3>3. j.league = k /\ j.who = next /\ j.approved = job[r].approved \ {next}
      BY <1>3 DEF Job
    <3> HIDE DEF j
    <3>4. PICK jj, t : /\ t \in job[r].approved
                       /\ jj.league = k /\ jj.who = t /\ jj.approved = job[r].approved \ {t}
                       /\ GoWith(r, IF HasStanding(k, t) THEN "nextTeam"
                                      ELSE "createStanding", jj)
      BY <3>1, <3>2, <3>3
    <3>5. /\ Dated(k) /\ job[r].approved \subseteq Approved(k)
          /\ \A u \in Approved(k) \ job[r].approved : standing[k][u] = 1
      BY <1>3, <2>4 DEF NextTeam, ReadyHandler
    <3>6. t \in Teams /\ t \in Approved(k) /\ standing[k][t] \in {0, 1}
      BY <1>3, <3>4, <3>5 DEF ReadyLeague, Approved
    <3>7. CASE standing[k][t] = 1
      <4>1. GoWith(r, "nextTeam", jj)
        BY <3>4, <3>7 DEF HasStanding
      <4>2. pc'[r] = "nextTeam" /\ job'[r] = jj
        BY <1>4, <4>1 DEF Ended
      <4>3. QED
        BY <1>1, <1>5, <1>6, <3>4, <3>5, <3>7, <4>1, <4>2 DEF ReadyHandler
    <3>8. CASE standing[k][t] = 0
      <4>1. GoWith(r, "createStanding", jj)
        BY <3>4, <3>8 DEF HasStanding
      <4>2. pc'[r] = "createStanding" /\ job'[r] = jj
        BY <1>4, <4>1 DEF Ended
      <4>3. QED
        BY <1>1, <1>5, <1>6, <3>4, <3>5, <3>6, <3>8, <4>1, <4>2 DEF ReadyHandler
    <3>9. QED
      BY <3>6, <3>7, <3>8
  <2>5. QED
    BY <2>1, <2>2, <2>3, <2>4
<1>9. QED
  BY <1>1, <1>2, <1>8, ReadyMove

\* A row of the Match table written by hand leaves the leagues that are not
\* ONGOING alone, and with them the handlers that draw and start.
LEMMA HandReady ==
  ASSUME Discipline, TypeInv, Undisturbed, serial, [Next]_vars, Ready,
         NEW k \in Leagues, status[k] = "ONGOING", ReadyLeague(k)', UNCHANGED <<status, team>>,
         \A l \in Leagues : l # k => SameRows(l),
         \A r \in Requests : pc'[r] \in Ended \/ (pc'[r] = pc[r] /\ job'[r] = job[r])
  PROVE  Ready'
<1>1. ASSUME NEW l \in Leagues, l # k PROVE ReadyLeague(l)'
  BY <1>1, OtherLeagues
<1>2. ASSUME NEW r \in Requests PROVE ReadyHandler(pc[r], job[r])'
  <2> DEFINE Drawing == {"clear", "insert", "schedule", "readApproved", "nextTeam",
                         "createStanding", "goOngoing"}
  <2>1. CASE pc[r] \in Drawing /\ pc'[r] = pc[r] /\ job'[r] = job[r]
    <3>1. job[r].league \in Leagues /\ status[job[r].league] = "PRE_SEASON"
      BY <2>1 DEF TypeInv, LocalsPresent, UsesLeague, Undisturbed, Knows
    <3>2. SameRows(job[r].league)
      BY <3>1
    <3>4. Approved(job[r].league)' = Approved(job[r].league)
      BY <2>1 DEF Approved
    <3>3. QED
      BY <2>1, <3>2, <3>4, SameRowsHandler DEF Ready
  <2>2. CASE pc[r] \notin Drawing /\ pc'[r] = pc[r] /\ job'[r] = job[r]
    BY <2>2 DEF ReadyHandler
  <2>3. CASE pc'[r] \in Ended
    BY <2>3 DEF ReadyHandler, Ended
  <2>4. QED
    BY <2>1, <2>2, <2>3
<1>3. QED
  BY <1>1, <1>2 DEF Ready

\* A match made by hand is not one of those drawn.
LEMMA CreateReady ==
  ASSUME Discipline, TypeInv, Undisturbed, serial, [Next]_vars, Ready,
         NEW r \in Requests, NEW k \in Leagues, NEW m \in HandMade, CreateMatch(r, k, m)
  PROVE  Ready'
<1> DEFINE new == [league |-> k, pair |-> m.pair, leg |-> ByHand, state |-> m.state,
                   by |-> r, touched |-> FALSE]
<1>1. /\ status[k] = "ONGOING" /\ ReadyLeague(k) /\ Complete(k) /\ Dated(k)
      /\ UNCHANGED <<status, team, standing>>
      /\ matches' = matches \cup {new}
  BY DEF CreateMatch, Discipline, Ready, ReadyLeague, Dated
<1>2. new.league = k /\ new.leg = ByHand
  OBVIOUS
<1> HIDE DEF new
<1>3. Approved(k)' = Approved(k) /\ Pairs(Approved(k))' = Pairs(Approved(k))
  BY <1>1 DEF Approved, Pairs
<1>4. Complete(k)' /\ Dated(k)'
  <2>1. Complete(k)'
    BY <1>1, <1>2, <1>3, SeasonAssumption DEF Complete
  <2>2. QED
    BY <1>1, <1>2, <2>1 DEF Dated
<1>5. \A t : Guest(k, t) => Guest(k, t)'
  BY <1>1 DEF Guest
<1>6. ReadyLeague(k)'
  BY <1>1, <1>3, <1>4, <1>5 DEF ReadyLeague
<1>7. \A l \in Leagues : l # k => SameRows(l)
  BY <1>1, <1>2 DEF SameRows
<1>8. \A q \in Requests : pc'[q] \in Ended \/ (pc'[q] = pc[q] /\ job'[q] = job[q])
  BY DEF CreateMatch, Goto, GoWith, Ended, TypeInv, TypeOK
<1>9. QED
  BY <1>1, <1>6, <1>7, <1>8, HandReady

\* A result creates a line at most for a team that is in the season by hand: the
\* approved teams have theirs.
LEMMA UpdateReady ==
  ASSUME Discipline, TypeInv, Undisturbed, serial, [Next]_vars, Ready,
         NEW x \in matches, NEW s \in MatchStatuses, UpdateMatch(x, s),
         NEW k, k = x.league
  PROVE  Ready'
<1>1. /\ k \in Leagues /\ status[k] = "ONGOING" /\ ReadyLeague(k) /\ Complete(k)
      /\ Dated(k) /\ UNCHANGED <<status, team, pc, job>>
  <2>1. k \in Leagues
    BY RowParts DEF TypeInv, TypeOK
  <2>2. QED
    BY <2>1 DEF UpdateMatch, Discipline, Ready, ReadyLeague, Dated
<1>2. /\ \A y : y \in matches' <=> \E z \in matches : y = Updated(x, s, z)
      /\ \A z \in matches :
           /\ SameFixture(Updated(x, s, z), z)
           /\ ~Updated(x, s, z).touched =>
                ~z.touched /\ Updated(x, s, z).state = z.state
  BY Patched
<1>3. Approved(k)' = Approved(k) /\ Pairs(Approved(k))' = Pairs(Approved(k))
  BY <1>1 DEF Approved, Pairs
<1>4. \A t : Guest(k, t)' <=> Guest(k, t)
  BY <1>2 DEF Guest, SameFixture
<1>5. \A t \in x.pair : t \in Approved(k) \/ Guest(k, t)
  BY <1>1 DEF Complete, Pairs, Guest
<1>6. /\ \A l \in Leagues : l # k => standing'[l] = standing[l]
      /\ \A t \in Teams : \/ standing'[k][t] = standing[k][t]
                          \/ /\ standing[k][t] = 0 /\ standing'[k][t] = 1
                             /\ t \in x.pair
  <2>1. CASE UNCHANGED standing
    BY <2>1
  <2>2. CASE standing' = WithLines(k, x.pair)
    <3>1. \A t \in Teams : standing[k][t] \in Nat
      BY <1>1 DEF TypeInv, TypeOK
    <3>2. QED
      BY <1>1, <2>2, <3>1 DEF WithLines, HasStanding, TypeInv, TypeOK
  <2>3. QED
    BY <2>1, <2>2 DEF UpdateMatch
<1>7. Complete(k)'
  <2>1. \A y \in matches' : y.league = k /\ y.leg # ByHand => y.pair \in Pairs(Approved(k))
    BY <1>1, <1>2 DEF Complete, SameFixture
  <2>2. ASSUME NEW p \in Pairs(Approved(k)), NEW g \in Legs
        PROVE  \E y \in matches' : y.league = k /\ y.pair = p /\ y.leg = g
    <3>1. PICK z \in matches : z.league = k /\ z.pair = p /\ z.leg = g
      BY <1>1, <2>2 DEF Complete
    <3>2. Updated(x, s, z) \in matches'
      BY <1>2, <3>1
    <3>3. QED
      BY <1>2, <3>1, <3>2 DEF SameFixture
  <2>3. QED
    BY <1>3, <2>1, <2>2 DEF Complete
<1>8. Dated(k)'
  <2>1. ASSUME NEW y \in matches', y.league = k, y.leg # ByHand, y.state = "DRAFT"
        PROVE  y.touched
    <3>1. PICK z \in matches : y = Updated(x, s, z)
      BY <1>2, <2>1
    <3>2. z.league = k /\ z.leg # ByHand
      BY <1>2, <2>1, <3>1 DEF SameFixture
    <3>3. QED
      BY <1>1, <1>2, <2>1, <3>1, <3>2 DEF Dated
  <2>2. QED
    BY <1>7, <2>1 DEF Dated
<1>9. ReadyLeague(k)'
  <2>1. \A t \in Approved(k) : t \in Teams /\ standing[k][t] = 1
    BY <1>1 DEF ReadyLeague, Approved
  <2>2. \A t \in Approved(k) : standing'[k][t] = 1
    BY <1>6, <2>1
  <2>3. \A t \in Teams : \/ standing'[k][t] = 0
                         \/ standing'[k][t] = 1 /\ (t \in Approved(k) \/ Guest(k, t))
    BY <1>1, <1>5, <1>6 DEF ReadyLeague
  <2>4. QED
    BY <1>1, <1>3, <1>4, <1>7, <1>8, <2>2, <2>3 DEF ReadyLeague
<1>10. ASSUME NEW l \in Leagues, l # k PROVE SameRows(l)
  <2>1. \A z \in matches : z.league = l => Updated(x, s, z) = z
    BY <1>10 DEF Updated
  <2>2. \A y : y.league = l => (y \in matches' <=> y \in matches)
    BY <1>2, <2>1 DEF SameFixture
  <2>3. QED
    BY <1>1, <1>6, <1>10, <2>2 DEF SameRows
<1>11. QED
  BY <1>1, <1>9, <1>10, HandReady

LEMMA ReadyStep ==
  ASSUME Discipline, TypeInv, Undisturbed, Ready, [Next]_vars
  PROVE  Ready'
<1> SUFFICES ASSUME serial PROVE Ready'
  <2>1. serial' = serial
    BY SerialKept
  <2>2. QED
    BY <2>1 DEF Ready
<1>1. ASSUME NEW r \in Requests, NEW label, label \in Ended \cup {"idle", "count",
               "setStatus", "readLeague", "enter", "leave", "deleteTeam", "deleteLeague",
               "readTeams", "countDrafts"},
             pc'[r] = label
      PROVE  ReadyHandler(pc[r], job[r])'
  BY <1>1 DEF ReadyHandler, Ended
<1>2. \A r \in Requests : \A label, j : GoWith(r, label, j) => pc'[r] = label
  BY DEF GoWith, TypeInv, TypeOK
<1>3. ASSUME NEW r \in Requests, ArriveTeams(r) \/ ArriveLeagues(r) PROVE Ready'
  <2>1. PICK label \in {"rejected", "count", "setStatus", "readLeague", "leave",
                        "deleteTeam", "deleteLeague", "readTeams", "countDrafts"} :
          \E j : GoWith(r, label, j)
    BY <1>3, Arrival DEF TypeInv
  <2>2. MayBegin(r) /\ UNCHANGED tables
    BY <1>3, Arrival DEF TypeInv
  <2>3. ReadyHandler(pc[r], job[r])'
    BY <1>1, <1>2, <2>1 DEF Ended
  <2>4. QED
    BY <2>1, <2>2, <2>3, QuietReady, ReadyMove DEF tables
<1>4. ASSUME NEW r \in Requests,
             \/ CountApproved(r) \/ CheckLeague(r) \/ Fail(r)
             \/ SetTeamStatus(r) \/ EnterLeague(r) \/ LeaveLeague(r)
      PROVE  Ready'
  <2>1. UNCHANGED <<status, matches, standing>> /\ Active(r)
    BY <1>4 DEF CountApproved, CheckLeague, Fail, SetTeamStatus, EnterLeague,
       LeaveLeague, UpdateTeam, Active, Ended, tables
  <2>2. \E label \in Ended \cup {"setStatus", "enter"} : \E j : GoWith(r, label, j)
    BY <1>4 DEF CountApproved, CheckLeague, Fail, SetTeamStatus, EnterLeague,
       LeaveLeague, UpdateTeam, Goto, Ended
  <2>3. ReadyHandler(pc[r], job[r])'
    BY <1>1, <1>2, <2>2
  <2>4. QED
    BY <2>1, <2>2, <2>3, QuietReady, ReadyMove
<1>5. ASSUME NEW r \in Requests, DeleteTeam(r) \/ DeleteLeague(r) PROVE Ready'
  <2>1. \A l \in Leagues : ReadyLeague(l)'
    BY <1>5, DeleteTeamReady, DeleteLeagueReady, QuietReady
  <2>2. Active(r) /\ \E label \in Ended : \E j : GoWith(r, label, j)
    BY <1>5 DEF DeleteTeam, DeleteLeague, Goto, Active, Ended
  <2>3. ReadyHandler(pc[r], job[r])'
    BY <1>1, <1>2, <2>2
  <2>4. QED
    BY <2>1, <2>2, <2>3, ReadyMove
<1>6. ASSUME NEW r \in Requests, Step(r) PROVE Ready'
  BY <1>4, <1>5, <1>6, ReadReady, ClearReady, InsertReady, ScheduleReady,
     CreateStandingReady, GoOngoingReady DEF Step
<1>7. ASSUME NEW l \in Leagues, NEW s \in LeagueStatuses,
             SetLeagueStatus(l, s) \/ CreateLeague(l, s)
      PROVE  Ready'
  <2>1. \A k \in Leagues : ReadyLeague(k)'
    BY <1>7, SetStatusReady
  <2>2. ASSUME NEW r \in Requests PROVE ReadyHandler(pc[r], job[r])'
    <3>1. CASE ~Active(r)
      BY <1>7, <3>1 DEF SetLeagueStatus, CreateLeague, Active, ReadyHandler, Ended
    <3>2. CASE Active(r)
      <4>1. CreateLeague(l, s)
        BY <1>7, <3>2 DEF SetLeagueStatus
      <4>2. CASE pc[r] \in {"clear", "insert", "schedule", "readApproved", "nextTeam",
                            "createStanding", "goOngoing"}
        <5>1. job[r].league \in Leagues /\ status[job[r].league] = "PRE_SEASON"
          BY <4>2 DEF TypeInv, LocalsPresent, UsesLeague, Undisturbed, Knows
        <5>2. SameRows(job[r].league) /\ Approved(job[r].league)' = Approved(job[r].league)
          BY <4>1, <5>1 DEF CreateLeague, SameRows, Approved, TypeInv, TypeOK
        <5>3. QED
          BY <4>1, <5>2, SameRowsHandler DEF Ready, CreateLeague
      <4>3. CASE pc[r] \notin {"clear", "insert", "schedule", "readApproved", "nextTeam",
                               "createStanding", "goOngoing"}
        BY <4>1, <4>3 DEF CreateLeague, ReadyHandler
      <4>4. QED
        BY <4>2, <4>3
    <3>3. QED
      BY <3>1, <3>2
  <2>3. QED
    BY <2>1, <2>2 DEF Ready
<1>8. CASE UNCHANGED <<status, matches, standing, pc, job>>
  <2>1. \A l \in Leagues : ReadyLeague(l)' /\ SameRows(l)
    BY <1>8, QuietReady
  <2>2. ASSUME NEW r \in Requests PROVE ReadyHandler(pc[r], job[r])'
    <3>1. CASE pc[r] \in {"clear", "insert", "schedule", "readApproved", "nextTeam",
                          "createStanding", "goOngoing"}
      <4>1. job[r].league \in Leagues /\ status[job[r].league] = "PRE_SEASON"
        BY <3>1 DEF TypeInv, LocalsPresent, UsesLeague, Undisturbed, Knows
      <4>2. Approved(job[r].league)' = Approved(job[r].league)
        <5>1. ASSUME NEW l \in Leagues, l = job[r].league
              PROVE  Approved(l)' = Approved(l)
          BY <4>1, <5>1, FrozenRoster DEF Discipline
        <5>2. QED
          BY <1>8, <4>1, <5>1 DEF Approved
      <4>3. QED
        BY <1>8, <2>1, <4>1, <4>2, SameRowsHandler DEF Ready
    <3>2. CASE pc[r] \notin {"clear", "insert", "schedule", "readApproved", "nextTeam",
                             "createStanding", "goOngoing"}
      BY <1>8, <3>2 DEF ReadyHandler
    <3>3. QED
      BY <3>1, <3>2
  <2>3. QED
    BY <2>1, <2>2 DEF Ready
<1>9. ASSUME \/ \E r \in Requests, l \in Leagues, m \in HandMade : CreateMatch(r, l, m)
             \/ \E x \in matches, s \in MatchStatuses : UpdateMatch(x, s)
      PROVE  Ready'
  BY <1>9, CreateReady, UpdateReady
<1>10. ASSUME \/ \E t \in Teams, l \in Leagues \cup {NoLeague} : CreateTeam(t, l)
              \/ UNCHANGED vars
       PROVE  UNCHANGED <<status, matches, standing, pc, job>>
  BY <1>10 DEF CreateTeam, vars
<1>11. QED
  BY <1>3, <1>4, <1>6, <1>7, <1>8, <1>9, <1>10 DEF Next, Terminated

\* generateFixtures and startSeason: in a league that is ONGOING a match was
\* drawn for every pair of its approved teams and leg and for no other, none of
\* them is a draft but by hand, and each of those teams has one line; whichever
\* of the two failed on the way and was repeated.
THEOREM SeasonIsReady ==
  ASSUME Discipline
  PROVE  Spec => []SeasonReady
<1>1. Init => Ready
  <2> SUFFICES ASSUME Init PROVE Ready
    OBVIOUS
  <2>1. \A l \in Leagues : Undrawn(l) /\ status[l] # "ONGOING"
    BY DEF Init, Undrawn, Discipline
  <2>2. \A l \in Leagues : ReadyLeague(l)
    BY <2>1 DEF Init, ReadyLeague, Undrawn
  <2>3. \A r \in Requests : ReadyHandler(pc[r], job[r])
    BY DEF Init, ReadyHandler
  <2>4. QED
    BY <2>2, <2>3 DEF Ready
<1>2. TypeInv /\ Ready => SeasonReady
  <2> SUFFICES ASSUME TypeInv, Ready, serial, NEW l \in Leagues, status[l] = "ONGOING"
               PROVE  LET mine  == {x \in matches : x.league = l}
                          drawn == {x \in mine : x.leg # ByHand}
                      IN  /\ {<<x.pair, x.leg>> : x \in drawn} =
                               {p \in SUBSET Approved(l) : Cardinality(p) = 2} \X Legs
                          /\ \A x \in drawn : x.state = "DRAFT" => x.touched
                          /\ \A t \in Teams :
                               \/ standing[l][t] = IF t \in Approved(l) THEN 1 ELSE 0
                               \/ standing[l][t] = 1 /\ \E x \in mine \ drawn : t \in x.pair
    BY DEF SeasonReady
  <2> DEFINE mine  == {x \in matches : x.league = l}
             drawn == {x \in mine : x.leg # ByHand}
  <2>1. Dated(l) /\ ReadyLeague(l) /\ Complete(l)
    BY DEF Ready, ReadyLeague, Dated
  <2>2. Pairs(Approved(l)) = {p \in SUBSET Approved(l) : Cardinality(p) = 2}
    BY DEF Pairs
  <2>3. \A x \in drawn : x.leg \in Legs
    <3>1. \A x \in Fixture : x.leg # ByHand => x.leg \in Legs
      BY DEF Fixture, Drawn, Arranged, MatchOf
    <3>2. QED
      BY <3>1 DEF TypeInv, TypeOK
  <2>4. {<<x.pair, x.leg>> : x \in drawn} \subseteq Pairs(Approved(l)) \X Legs
    BY <2>1, <2>3 DEF Complete
  <2>5. Pairs(Approved(l)) \X Legs \subseteq {<<x.pair, x.leg>> : x \in drawn}
    BY <2>1, SeasonAssumption DEF Complete
  <2>6. \A x \in drawn : x.state = "DRAFT" => x.touched
    BY <2>1 DEF Dated
  <2>7. \A t \in Teams :
          \/ standing[l][t] = IF t \in Approved(l) THEN 1 ELSE 0
          \/ standing[l][t] = 1 /\ \E x \in mine \ drawn : t \in x.pair
    BY <2>1 DEF ReadyLeague, Guest
  <2>8. QED
    BY <2>2, <2>4, <2>5, <2>6, <2>7
<1>3. QED
  BY <1>1, <1>2, ReadyStep, InitType, TypeStep, ReferencesInit, ReferencesStep,
     UndisturbedInit, UndisturbedStep, PTL DEF Spec

-----------------------------------------------------------------------------
(* Nothing is drawn twice. *)

LEMMA OnceStep ==
  ASSUME TypeInv, Undisturbed, ClearedBefore, FixturesOnce, [Next]_vars
  PROVE  ClearedBefore' /\ FixturesOnce'
<1> DEFINE Goal == ClearedBefore' /\ FixturesOnce'
<1>0. serial' = serial
  BY SerialKept
<1>1. \A r \in Requests : \A label, j : GoWith(r, label, j) =>
        /\ pc'[r] = label /\ (label \notin Ended => job'[r] = j)
        /\ \A q \in Requests : q # r => pc'[q] = pc[q] /\ job'[q] = job[q]
  BY DEF GoWith, TypeInv, TypeOK
\* Steps that add no untouched row, and after which nobody is to insert anything
\* that was not before.
<1>2. ASSUME \A x \in matches' : Untouched(x) =>
               \E y \in matches : /\ Untouched(y) /\ SameFixture(x, y)
                                  /\ y.state \in Unplayed => x.state \in Unplayed,
             \A x, y \in matches' : Untouched(x) /\ Untouched(y) /\ SameFixture(x, y) =>
               x = y \/ \E v, w \in matches :
                          /\ v # w /\ Untouched(v) /\ Untouched(w)
                          /\ SameFixture(v, w),
             \A r \in Requests : pc'[r] = "insert" => pc[r] = "insert" /\ job'[r] = job[r]
      PROVE  Goal
  <2>1. ClearedBefore'
    <3>1. ASSUME NEW x \in matches', Untouched(x) PROVE x.state \in Unplayed
      BY <1>2, <3>1 DEF ClearedBefore
    <3>2. ASSUME serial, NEW r \in Requests, pc'[r] = "insert", NEW x \in matches',
                 Untouched(x), x.league = job'[r].league
          PROVE  FALSE
      <4>1. PICK y \in matches : Untouched(y) /\ SameFixture(x, y)
        BY <1>2, <3>2
      <4>2. y.league = job[r].league /\ pc[r] = "insert"
        BY <1>2, <3>2, <4>1 DEF SameFixture
      <4>3. QED
        BY <3>2, <4>1, <4>2 DEF ClearedBefore
    <3>3. QED
      BY <1>0, <3>1, <3>2 DEF ClearedBefore, Untouched
  <2>2. FixturesOnce'
    BY <1>0, <1>2 DEF FixturesOnce, Untouched, SameFixture
  <2>3. QED
    BY <2>1, <2>2
<1>3. ASSUME UNCHANGED matches,
             \A r \in Requests : pc'[r] = "insert" => pc[r] = "insert" /\ job'[r] = job[r]
      PROVE  Goal
  BY <1>0, <1>3 DEF ClearedBefore, FixturesOnce, Untouched
<1>4. ASSUME NEW r \in Requests, ArriveTeams(r) \/ ArriveLeagues(r) PROVE Goal
  <2>1. \E label \in {"rejected", "count", "setStatus", "readLeague", "leave",
                      "deleteTeam", "deleteLeague", "readTeams", "countDrafts"} : \E j :
          GoWith(r, label, j)
    BY <1>4, Arrival DEF TypeInv
  <2>2. UNCHANGED tables
    BY <1>4, Arrival DEF TypeInv
  <2>3. QED
    BY <1>1, <1>3, <2>1, <2>2 DEF tables
<1>5. ASSUME NEW r \in Requests,
             \/ CountApproved(r) \/ CheckLeague(r) \/ ReadTeams(r) \/ CountDrafts(r)
             \/ ReadApproved(r) \/ NextTeam(r) \/ Fail(r) \/ SetTeamStatus(r)
             \/ EnterLeague(r) \/ LeaveLeague(r) \/ DeleteTeam(r) \/ DeleteLeague(r)
             \/ CreateStanding(r) \/ GoOngoing(r)
      PROVE  Goal
  <2>1. UNCHANGED matches
    BY <1>5 DEF CountApproved, CheckLeague, ReadTeams, CountDrafts, ReadApproved,
       NextTeam, Fail, SetTeamStatus, EnterLeague, LeaveLeague, UpdateTeam, DeleteTeam,
       DeleteLeague, CreateStanding, GoOngoing, tables
  <2>2. \E label \in Labels \ {"insert"} : \E j : GoWith(r, label, j)
    BY <1>5 DEF CountApproved, CheckLeague, ReadTeams, CountDrafts, ReadApproved,
       NextTeam, Fail, SetTeamStatus, EnterLeague, LeaveLeague, UpdateTeam, DeleteTeam,
       DeleteLeague, CreateStanding, GoOngoing, Goto, Labels, Ended
  <2>3. QED
    BY <1>1, <1>3, <2>1, <2>2
<1>6. ASSUME NEW r \in Requests, NEW k, k = job[r].league, ClearFixtures(r) PROVE Goal
  <2>1. matches' = {x \in matches : x.league # k \/ x.state \notin Unplayed}
    BY <1>6 DEF ClearFixtures
  <2>2. \A x \in matches' : x \in matches /\ (x.league = k => ~Untouched(x))
    BY <2>1 DEF ClearedBefore
  <2>3. GoWith(r, "insert", job[r]) /\ Active(r)
    BY <1>6 DEF ClearFixtures, Goto, Active, Ended
  <2>4. serial => \A q \in Requests : q # r => pc[q] # "insert"
    BY <2>3 DEF Undisturbed, Active, Ended
  <2>5. serial => \A q \in Requests : pc'[q] = "insert" => job'[q].league = k
    BY <1>1, <1>6, <2>3, <2>4 DEF Ended
  <2>6. ClearedBefore'
    BY <1>0, <2>2, <2>5 DEF ClearedBefore, Untouched
  <2>7. FixturesOnce'
    BY <1>0, <2>2 DEF FixturesOnce
  <2>8. QED
    BY <2>6, <2>7
<1>7. ASSUME NEW r \in Requests, NEW k, k = job[r].league, InsertFixtures(r) PROVE Goal
  <2>1. /\ Active(r)
        /\ serial => \A x \in matches : x.league = k => ~Untouched(x)
    BY <1>7 DEF InsertFixtures, ClearedBefore, Active, Ended
  <2> DEFINE new == [league : {k}, pair : Pairs(job[r].approved), leg : Legs,
                     state : {"DRAFT"}, by : {r}, touched : {FALSE}]
  <2>2. matches' = matches \/ matches' = matches \cup new
    BY <1>7 DEF InsertFixtures
  <2>3. \A x \in new : x.league = k /\ x.state \in Unplayed
    BY DEF Unplayed
  <2>4. ASSUME NEW x \in new, NEW y \in new, x.pair = y.pair, x.leg = y.leg
        PROVE  x = y
    <3>1. ASSUME NEW z \in new
          PROVE  z = [league |-> k, pair |-> z.pair, leg |-> z.leg,
                      state |-> "DRAFT", by |-> r, touched |-> FALSE]
      OBVIOUS
    <3>2. QED
      BY <2>4, <3>1
  <2> HIDE DEF new
  <2>5. \E label \in Ended : \E j : GoWith(r, label, j)
    BY <1>7 DEF InsertFixtures, Goto, Ended
  <2>6. serial => \A q \in Requests : pc'[q] # "insert"
    BY <1>1, <2>1, <2>5 DEF Undisturbed, Active, Ended
  <2>7. FixturesOnce'
    <3> SUFFICES ASSUME serial, NEW x \in matches', NEW y \in matches',
                        Untouched(x), Untouched(y), SameFixture(x, y)
                 PROVE  x = y
      BY <1>0 DEF FixturesOnce, Untouched, SameFixture
    <3>1. CASE x \in matches /\ y \in matches
      BY <3>1 DEF FixturesOnce, Untouched, SameFixture
    <3>2. CASE x \in new \/ y \in new
      <4>1. x.league = k /\ y.league = k
        BY <2>3, <3>2 DEF SameFixture
      <4>2. x \in new /\ y \in new
        BY <2>1, <2>2, <3>2, <4>1
      <4>3. QED
        BY <2>4, <4>2 DEF SameFixture
    <3>3. QED
      BY <2>2, <3>1, <3>2
  <2>8. ClearedBefore'
    BY <1>0, <2>2, <2>3, <2>6 DEF ClearedBefore, Untouched
  <2>9. QED
    BY <2>7, <2>8
<1>8. ASSUME NEW r \in Requests, NEW k, k = job[r].league, ScheduleDrafts(r) PROVE Goal
  <2>1. /\ \A x : x \in matches' <=> \E y \in matches : x = Rescheduled(k, y)
        /\ \A y \in matches : /\ SameFixture(Rescheduled(k, y), y)
                              /\ Rescheduled(k, y).touched = y.touched
    BY <1>8, Scheduled
  <2>2. \A y \in matches : y.state \in Unplayed => Rescheduled(k, y).state \in Unplayed
    <3>1. \A y \in Fixture : [y EXCEPT !.state = "SCHEDULED"].state = "SCHEDULED"
      BY ScheduledState
    <3>2. QED
      BY <3>1 DEF Rescheduled, Unplayed, TypeInv, TypeOK
  <2>3. GoWith(r, "readApproved", job[r])
    BY <1>8 DEF ScheduleDrafts, Goto
  <2>4. \A q \in Requests : pc'[q] = "insert" => pc[q] = "insert" /\ job'[q] = job[q]
    BY <1>1, <2>3
  <2>5. \A x \in matches' : Untouched(x) =>
          \E y \in matches : /\ Untouched(y) /\ SameFixture(x, y)
                             /\ y.state \in Unplayed => x.state \in Unplayed
    BY <2>1, <2>2 DEF Untouched, SameFixture
  <2>6. \A x, y \in matches' : Untouched(x) /\ Untouched(y) /\ SameFixture(x, y) =>
          x = y \/ \E v, w \in matches : /\ v # w /\ Untouched(v) /\ Untouched(w)
                                         /\ SameFixture(v, w)
    BY <2>1 DEF Untouched, SameFixture
  <2>7. QED
    BY <1>2, <2>4, <2>5, <2>6
<1>9. ASSUME NEW x \in matches, NEW s \in MatchStatuses, UpdateMatch(x, s) PROVE Goal
  <2>1. /\ \A y : y \in matches' <=> \E z \in matches : y = Updated(x, s, z)
        /\ \A z \in matches :
             /\ SameFixture(Updated(x, s, z), z)
             /\ ~Updated(x, s, z).touched =>
                  ~z.touched /\ Updated(x, s, z).state = z.state
    BY <1>9, Patched
  <2>2. UNCHANGED <<pc, job>>
    BY <1>9 DEF UpdateMatch
  <2>3. \A y \in matches' : Untouched(y) =>
          \E z \in matches : /\ Untouched(z) /\ SameFixture(y, z)
                             /\ z.state \in Unplayed => y.state \in Unplayed
    BY <2>1 DEF Untouched, SameFixture
  <2>4. \A u, y \in matches' : Untouched(u) /\ Untouched(y) /\ SameFixture(u, y) =>
          u = y \/ \E v, w \in matches : /\ v # w /\ Untouched(v) /\ Untouched(w)
                                         /\ SameFixture(v, w)
    BY <2>1 DEF Untouched, SameFixture
  <2>5. QED
    BY <1>2, <2>2, <2>3, <2>4
<1>10. ASSUME NEW r \in Requests, NEW l \in Leagues, NEW m \in HandMade,
              CreateMatch(r, l, m)
       PROVE  Goal
  <2>1. \A x \in matches' : Untouched(x) => x \in matches
    BY <1>10 DEF CreateMatch, Untouched
  <2>2. GoWith(r, "done", job[r])
    BY <1>10 DEF CreateMatch, Goto
  <2>3. \A q \in Requests : pc'[q] = "insert" => pc[q] = "insert" /\ job'[q] = job[q]
    BY <1>1, <2>2
  <2>4. QED
    BY <1>0, <2>1, <2>3 DEF ClearedBefore, FixturesOnce, Untouched
<1>11. ASSUME \/ \E l \in Leagues, s \in LeagueStatuses :
                   SetLeagueStatus(l, s) \/ CreateLeague(l, s)
              \/ \E t \in Teams, l \in Leagues \cup {NoLeague} : CreateTeam(t, l)
              \/ UNCHANGED vars
       PROVE  UNCHANGED <<matches, pc, job>>
  BY <1>11 DEF SetLeagueStatus, CreateLeague, CreateTeam, vars
<1>12. UNCHANGED <<matches, pc, job>> => Goal
  BY <1>3
<1>13. QED
  BY <1>4, <1>5, <1>6, <1>7, <1>8, <1>9, <1>10, <1>11, <1>12 DEF Next, Step, Terminated

\* generateFixtures may be repeated, after it or startSeason failed half way and
\* after the league was sent back to PRE_SEASON, whatever the roster and the
\* league's status went through in between: as long as requests follow each
\* other, a pair of teams has two drawn matches for the same leg only if the
\* status of one of them was changed by hand.
THEOREM NothingDrawnTwice == Spec => []FixturesOnce
<1>1. Init => ClearedBefore /\ FixturesOnce
  BY DEF Init, ClearedBefore, FixturesOnce
<1>2. QED
  BY <1>1, OnceStep, InitType, TypeStep, ReferencesInit, ReferencesStep,
     UndisturbedInit, UndisturbedStep, PTL DEF Spec
=============================================================================
