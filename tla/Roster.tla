------------------------------- MODULE Roster -------------------------------
(***************************************************************************)
(* Who plays for which team under which number: the Player and JoinRequest *)
(* tables and the handlers that write them                                 *)
(* (modules/players/players.service.ts,                                    *)
(* modules/join-requests/join-requests.service.ts).                        *)
(*                                                                         *)
(* One action is the code between two awaits.  The approval of a join      *)
(* request is the only transaction of the program.  PostgreSQL runs it as  *)
(* READ COMMITTED: each statement sees what others have committed by then, *)
(* others see its writes when it commits, and the rows it has written are  *)
(* locked until it ends: a statement that needs one of them waits, and     *)
(* takes place as if it had been issued when the lock is gone.  A handler  *)
(* that dies leaves nothing behind, because each of these commits only     *)
(* once: the others go on as if its request had not been made.             *)
(***************************************************************************)
EXTENDS Integers, FiniteSets

CONSTANTS
  Users, Teams,
  Numbers,        \* jersey numbers
  Requests,       \* handler invocations; each identifier is used once
  NoTeam,         \* Player.teamId = null
  Limit,          \* maxPlayers of each team's league
  InitialPlayers, \* the player a user may have at the start
  OldIds,         \* join requests made earlier
  InitialJoins,   \* what the JoinRequest table may hold at the start
  Regimes,        \* what `serial` may be
  NumbersGiven    \* managers pass a number with every approval

Unlimited == -1    \* a team that is in no league
NoNumber  == 0     \* Player.number = null, or no number in the body
Nobody    == "nobody"
Before    == "before"  \* created before the requests of this model

Player   == [team : Teams \cup {NoTeam}, number : Numbers \cup {NoNumber},
             by : Requests \cup {Before}]
NoPlayer == [team |-> NoTeam, number |-> NoNumber, by |-> Nobody]
Statuses == {"PENDING", "APPROVED", "REJECTED"}
JoinRequest == [id : Requests \cup OldIds, user : Users, team : Teams, status : Statuses]

ASSUME RosterAssumption ==
  /\ NoTeam \notin Teams
  /\ Numbers \subseteq Nat \ {NoNumber}
  /\ Limit \in [Teams -> Nat \cup {Unlimited}]
  /\ InitialPlayers \subseteq Player \cup {NoPlayer}
  /\ InitialJoins \subseteq SUBSET JoinRequest
  \* rows made earlier carry earlier keys, each key once
  /\ \A rows \in InitialJoins : \A x, y \in rows :
       x.id \in OldIds /\ (x.id = y.id => x = y)
  /\ Requests \cap OldIds = {} /\ {Nobody, Before} \cap (Requests \cup OldIds) = {}
  /\ IsFiniteSet(Users)
  /\ Regimes \subseteq BOOLEAN
  /\ NumbersGiven \in BOOLEAN

VARIABLES
  player,   \* the Player table by userId, which is unique
  joins,    \* the JoinRequest table; a row is named by the request that made it
  serial,   \* the callers' discipline: requests about one user or one team
            \* do not overlap.  Nothing in the code enforces it.
  pc,       \* where each handler is
  job       \* what it works on, the player row it has read, and the requests
            \* its transaction has deleted

tables == <<player, joins>>
vars   == <<player, joins, serial, pc, job>>

Ended  == {"done", "rejected"}
Labels == Ended \cup {"idle", "checkNumber", "write", "readTeam", "delete",
                      "findPending", "insert", "reject", "countSquad",
                      "findPlayer", "commit"}
Operations == {"create", "update", "remove", "ask", "approve", "reject"}
Job == [op : Operations, user : Users, team : Teams \cup {NoTeam},
        number : Numbers \cup {NoNumber}, seen : Player \cup {NoPlayer},
        join : Requests \cup OldIds \cup {Nobody}, gone : SUBSET (Requests \cup OldIds)]
NoJob == [op |-> "none", user |-> Nobody, team |-> NoTeam, number |-> NoNumber,
          seen |-> NoPlayer, join |-> Nobody, gone |-> {}]

Active(r) == pc[r] \notin Ended \cup {"idle"}
Squad(t) == {u \in Users : player[u].team = t}

Distinct(p) == \A u, v \in Users :
  /\ u # v
  /\ p[u].team = p[v].team /\ p[u].team # NoTeam
  /\ p[u].number = p[v].number
  => p[u].number = NoNumber

Init ==
  /\ player \in [Users -> InitialPlayers]
  /\ Distinct(player)
  /\ \A t \in Teams : Limit[t] # Unlimited => Cardinality(Squad(t)) <= Limit[t]
  /\ joins \in InitialJoins
  /\ serial \in Regimes
  /\ pc = [r \in Requests |-> "idle"]
  /\ job = [r \in Requests |-> NoJob]

Goto(r, label) == pc' = [pc EXCEPT ![r] = label]

\* A request (op, user, team, number, row j of JoinRequest) arrives and runs to
\* its first await.
Begin(r, op, u, t, n, j, label) ==
  /\ pc[r] = "idle"
  /\ serial => \A q \in Requests : Active(q) =>
       job[q].user # u /\ job[q].team # t
  /\ job' = [job EXCEPT ![r] = [op |-> op, user |-> u, team |-> t, number |-> n,
                                seen |-> player[u], join |-> j, gone |-> {}]]
  /\ Goto(r, label)
  /\ UNCHANGED <<tables, serial>>

\* Handlers that only read.
Proceed(r, label) ==
  /\ Goto(r, label)
  /\ UNCHANGED <<tables, serial, job>>

-----------------------------------------------------------------------------
(* Players. *)

\* Mutant of Full: one player too many.
FullWithOneMore(t) == Limit[t] # Unlimited /\ Cardinality(Squad(t)) > Limit[t]

\* The squad is counted against maxPlayers if the team is in a league.
Full(t) == Limit[t] # Unlimited /\ Cardinality(Squad(t)) >= Limit[t]

\* What comes before the write when a number is given.
Checked(n) == IF n = NoNumber THEN "write" ELSE "checkNumber"

\* create: a player always belongs to the caller, whoever it is.
BeginCreate(r, u, t, n) ==
  Begin(r, "create", u, t, n, Nobody,
        IF t = NoTeam THEN "write" ELSE IF Full(t) THEN "rejected" ELSE Checked(n))

\* Mutant of Taken: the player's own row is found, and nobody else's.
TakenByOwn(r) ==
  LET j == job[r] IN player[j.user].team = j.team /\ player[j.user].number = j.number

\* validateJerseyNumber; only update excludes the player itself.
Taken(r) ==
  LET j == job[r] IN
  \E u \in Users :
    /\ player[u].team = j.team /\ player[u].number = j.number
    /\ j.op = "update" => u # j.user

CheckNumber(r) ==
  /\ pc[r] = "checkNumber"
  /\ Proceed(r, IF Taken(r) THEN "rejected" ELSE "write")

\* player.create: a user who has a player already violates the unique key.
InsertPlayer(r) ==
  LET j == job[r] IN
  /\ pc[r] = "write" /\ j.op = "create"
  /\ IF player[j.user] # NoPlayer
       THEN Goto(r, "rejected") /\ UNCHANGED player
       ELSE /\ player' = [player EXCEPT ![j.user] =
                            [team |-> j.team, number |-> j.number, by |-> r]]
            /\ Goto(r, "done")
  /\ UNCHANGED <<joins, serial, job>>

\* update: checkOwnership or findOne.  The team in the body is thrown away.
BeginUpdate(r, u, n) ==
  /\ player[u] # NoPlayer
  /\ Begin(r, "update", u, player[u].team, n, Nobody,
           IF n = NoNumber THEN "write" ELSE "readTeam")

\* The row read when the handler began is still the user's player.
StillThere(r) == player[job[r].user].by = job[r].seen.by

\* findOne again: the number is checked in the team the player has now.
ReadTeam(r) ==
  LET t == player[job[r].user].team IN
  /\ pc[r] = "readTeam"
  /\ job' = [job EXCEPT ![r].team = t]
  /\ Goto(r, IF ~StillThere(r) THEN "rejected"
             ELSE IF t = NoTeam THEN "write" ELSE "checkNumber")
  /\ UNCHANGED <<tables, serial>>

\* player.update: without a number in the body the column stays as it is, unless
\* the body says `number: null`.
WriteNumber(r) ==
  LET j == job[r] IN
  /\ pc[r] = "write" /\ j.op = "update"
  /\ \/ /\ StillThere(r)
        /\ \/ player' = [player EXCEPT ![j.user].number = j.number]
           \/ j.number = NoNumber /\ UNCHANGED player
        /\ Goto(r, "done")
     \/ ~StillThere(r) /\ Goto(r, "rejected") /\ UNCHANGED player
  /\ UNCHANGED <<joins, serial, job>>

BeginRemove(r, u) ==
  /\ player[u] # NoPlayer
  /\ Begin(r, "remove", u, player[u].team, NoNumber, Nobody, "delete")

DeletePlayer(r) ==
  /\ pc[r] = "delete"
  /\ IF StillThere(r)
       THEN player' = [player EXCEPT ![job[r].user] = NoPlayer] /\ Goto(r, "done")
       ELSE Goto(r, "rejected") /\ UNCHANGED player
  /\ UNCHANGED <<joins, serial, job>>

-----------------------------------------------------------------------------
(* Join requests. *)

Of(u, t, status) == {x \in joins : x.user = u /\ x.team = t /\ x.status = status}

\* One of these rows has been deleted by a transaction other than r's that has
\* not ended: a statement that writes it or collides with it has to wait.
Locked(r, rows) ==
  \E q \in Requests \ {r} :
    pc[q] = "commit" /\ \E x \in rows : x.id \in job[q].gone

\* create: only here is a signed player kept from joining another team.
BeginAsk(r, u, t) ==
  Begin(r, "ask", u, t, NoNumber, Nobody,
        IF player[u].team # NoTeam THEN "rejected" ELSE "findPending")

FindPending(r) ==
  /\ pc[r] = "findPending"
  /\ Proceed(r, IF Of(job[r].user, job[r].team, "PENDING") # {}
                 THEN "rejected" ELSE "insert")

\* joinRequest.create, with the unique key on user, team and status.
InsertRequest(r) ==
  LET j == job[r] IN
  /\ pc[r] = "insert"
  /\ ~Locked(r, Of(j.user, j.team, "PENDING"))
  /\ IF Of(j.user, j.team, "PENDING") # {}
       THEN Goto(r, "rejected") /\ UNCHANGED joins
       ELSE /\ joins' = joins \cup {[id |-> r, user |-> j.user, team |-> j.team,
                                     status |-> "PENDING"]}
            /\ Goto(r, "done")
  /\ UNCHANGED <<player, serial, job>>

\* Mutant of MayDecide: a request that was decided is decided again.
MayDecideAgain(x) == TRUE

\* "This request has already been processed."
MayDecide(x) == x.status = "PENDING"

\* updateStatus: the request is read before the transaction begins.
BeginDecision(r, x, op, n) ==
  /\ op = "reject" => n = NoNumber
  /\ op = "approve" /\ NumbersGiven => n # NoNumber
  /\ Begin(r, op, x.user, x.team, n, x.id,
           IF ~MayDecide(x) THEN "rejected"
           ELSE IF op = "reject" THEN "reject"
           ELSE IF Limit[x.team] = Unlimited THEN "findPlayer" ELSE "countSquad")

\* The row of the request that is being decided.
Asked(r) == {x \in joins : x.id = job[r].join}

\* joinRequest.update: the row may be gone, and there may be a REJECTED one for
\* the same user and team, which the unique key allows once.
RejectRequest(r) ==
  LET other == Of(job[r].user, job[r].team, "REJECTED") \ Asked(r)
  IN  /\ pc[r] = "reject"
      /\ ~Locked(r, Asked(r) \cup other)
      /\ IF Asked(r) = {} \/ other # {}
           THEN Goto(r, "rejected") /\ UNCHANGED joins
           ELSE /\ joins' = (joins \ Asked(r))
                     \cup {[x EXCEPT !.status = "REJECTED"] : x \in Asked(r)}
                /\ Goto(r, "done")
      /\ UNCHANGED <<player, serial, job>>

CountSquad(r) ==
  /\ pc[r] = "countSquad"
  /\ Proceed(r, IF Full(job[r].team) THEN "rejected" ELSE "findPlayer")

FindPlayer(r) ==
  /\ pc[r] = "findPlayer"
  /\ job' = [job EXCEPT ![r].seen = player[job[r].user]]
  /\ Goto(r, Checked(job[r].number))
  /\ UNCHANGED <<tables, serial>>

\* Mutant of Others: those that wait for a decision.
OthersWaiting(r) == Of(job[r].user, job[r].team, "PENDING") \ Asked(r)

\* The other requests of this user to this team.
Others(r) ==
  {x \in joins : x.user = job[r].user /\ x.team = job[r].team} \ Asked(r)

\* joinRequest.deleteMany, of those that are there by now.
ClearOthers(r) ==
  /\ pc[r] = "write" /\ job[r].op = "approve"
  /\ ~Locked(r, Others(r))
  /\ job' = [job EXCEPT ![r].gone = {x.id : x \in Others(r)}]
  /\ Goto(r, "commit")
  /\ UNCHANGED <<tables, serial>>

\* An APPROVED row of the same user and team that deleteMany did not find.
Clash(r) == {x \in Of(job[r].user, job[r].team, "APPROVED") :
               x.id \notin job[r].gone \cup {job[r].join}}

\* Both rows can be written: the player is there as it was read (if none was
\* read, nobody has created one since), the request has not been deleted, and
\* the unique key admits the APPROVED one.
Commits(r) == StillThere(r) /\ Asked(r) # {} /\ Clash(r) = {}

\* Mutant of Signed: the player is taken to exist.
SignedExisting(r) == [job[r].seen EXCEPT !.team = job[r].team]

\* The player as approved: moved to the team, or created.  Without a number in
\* the body it keeps its own, which nobody has checked in this team.
Signed(r) ==
  LET j == job[r] IN
  [team   |-> j.team,
   number |-> IF j.number # NoNumber THEN j.number ELSE j.seen.number,
   by     |-> IF j.seen = NoPlayer THEN r ELSE j.seen.by]

\* player.update or player.create, joinRequest.update, and COMMIT, or all is
\* rolled back.  They are one action: the row a statement writes is locked from
\* then on, so it is the same at the commit, and nobody sees it earlier.
CommitApproval(r) ==
  LET j == job[r]
  IN  /\ pc[r] = "commit"
      /\ ~Locked(r, Asked(r) \cup Clash(r))
      /\ IF Commits(r)
           THEN /\ player' = [player EXCEPT ![j.user] = Signed(r)]
                /\ joins' = {x \in joins : x.id \notin j.gone \cup {j.join}}
                     \cup {[id |-> j.join, user |-> j.user, team |-> j.team,
                            status |-> "APPROVED"]}
                /\ Goto(r, "done")
           ELSE Goto(r, "rejected") /\ UNCHANGED tables
      /\ UNCHANGED <<serial, job>>

\* The transaction ends before it commits: two of them wait for each other and
\* one is chosen, or it takes longer than Prisma allows.
Abort(r) ==
  /\ job[r].op = "approve"
  /\ pc[r] \in {"countSquad", "findPlayer", "checkNumber", "write", "commit"}
  /\ Proceed(r, "rejected")

-----------------------------------------------------------------------------
Terminated ==
  /\ \A r \in Requests : pc[r] \in Ended
  /\ UNCHANGED vars

\* The endpoints of players.controller.ts that write.
ArrivePlayers(r) ==
  \E u \in Users, n \in Numbers \cup {NoNumber} :
    \/ \E t \in Teams \cup {NoTeam} : BeginCreate(r, u, t, n)
    \/ BeginUpdate(r, u, n)
    \/ BeginRemove(r, u)

\* The endpoints of join-requests.controller.ts that write.
ArriveJoins(r) ==
  \/ \E u \in Users, t \in Teams : BeginAsk(r, u, t)
  \/ \E x \in joins, op \in {"approve", "reject"}, n \in Numbers \cup {NoNumber} :
       BeginDecision(r, x, op, n)

Step(r) ==
  \/ CheckNumber(r)
  \/ InsertPlayer(r)
  \/ ReadTeam(r)
  \/ WriteNumber(r)
  \/ DeletePlayer(r)
  \/ FindPending(r)
  \/ InsertRequest(r)
  \/ RejectRequest(r)
  \/ CountSquad(r)
  \/ FindPlayer(r)
  \/ ClearOthers(r)
  \/ CommitApproval(r)
  \/ Abort(r)

Next ==
  \/ \E r \in Requests : ArrivePlayers(r) \/ ArriveJoins(r) \/ Step(r)
  \/ Terminated

Spec == Init /\ [][Next]_vars

-----------------------------------------------------------------------------
(* Properties. *)

TypeOK ==
  /\ player \in [Users -> Player \cup {NoPlayer}]
  /\ joins \subseteq JoinRequest
  /\ serial \in BOOLEAN
  /\ pc \in [Requests -> Labels]
  /\ job \in [Requests -> Job \cup {NoJob}]

\* "Team has reached the league maximum": creating players, moving them and
\* approving requests, a squad never exceeds maxPlayers as long as requests
\* about one team do not overlap.
SquadWithinLimit ==
  serial => \A t \in Teams : Limit[t] # Unlimited =>
              Cardinality(Squad(t)) <= Limit[t]

\* "Jersey number is already taken in this team": no two players of a team
\* have the same number, whether the number was given at creation, in an update
\* or with an approval that moved the player from another team.  Needs, besides
\* serial requests, a number in every approval (NumbersGiven).
UniqueNumbers == serial => Distinct(player)

\* "This request has already been processed": a decision is never reversed.
DecidedOnce ==
  [][serial => \A x \in joins, y \in joins' :
       x.id = y.id /\ x.status # "PENDING" => y.status = x.status]_vars

\* Approval is all or nothing, whatever overlaps with it: in the step in which a
\* request becomes APPROVED its user gets a player in that team, and if it was
\* PENDING until then the user's other requests to the team are gone.  (Only a
\* request that somebody rejects while it is being approved leaves room for a
\* new one beside it.)
ApprovalSigns ==
  [][\A y \in joins' : y.status = "APPROVED" /\ y \notin joins =>
       /\ player'[y.user].team = y.team /\ player'[y.user].by # Nobody
       /\ [y EXCEPT !.status = "PENDING"] \in joins =>
            \A x \in joins' : x.user = y.user /\ x.team = y.team => x = y]_vars

\* "Reject a join request" (join-requests.controller.ts): a pending request the
\* manager rejects is rejected.
RejectionWorks ==
  [][\A r \in Requests : pc[r] = "reject" => pc'[r] \in {"reject", "done"}]_vars
=============================================================================
