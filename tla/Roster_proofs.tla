---------------------------- MODULE Roster_proofs ----------------------------
(***************************************************************************)
(* Theorems about players and join requests, for any users, teams, limits, *)
(* numbers and requests.                                                   *)
(***************************************************************************)
EXTENDS Roster, FiniteSetTheorems, TLAPS

\* What the locals of a handler are, by its label.
Fits(label, j) ==
  label \notin Ended \cup {"idle"} =>
    /\ j \in Job
    /\ label = "readTeam" => j.op = "update"
    /\ label \in {"checkNumber", "write"} => j.op \in {"create", "update", "approve"}
    /\ label = "delete" => j.op = "remove"
    /\ label \in {"findPending", "insert"} => j.op = "ask"
    /\ label = "reject" => j.op = "reject"
    /\ label \in {"countSquad", "findPlayer", "commit"} => j.op = "approve"
    /\ j.op \in {"update", "remove"} => j.seen # NoPlayer
    /\ j.op \in {"ask", "approve", "reject"} => j.team \in Teams
    /\ j.op \in {"approve", "reject"} <=> j.join \in Requests \cup OldIds

TypeInv == TypeOK /\ \A r \in Requests : Fits(pc[r], job[r])

\* A row of the Player table is not the absence of one.
LEMMA Somebody == \A p \in Player : p.by # Nobody /\ p # NoPlayer
BY RosterAssumption DEF Player, NoPlayer, Nobody, Before

\* The keys of the JoinRequest table, whatever overlaps: an id names one row
\* only, is that of an earlier row or of a request that is done, and a handler
\* that was given an id works for the user and the team of that row.
KeysKept ==
  /\ \A x, y \in joins : x.id = y.id => x = y
  /\ \A x \in joins : x.id \in Requests => pc[x.id] = "done"
  /\ \A r \in Requests : Active(r) =>
       /\ \A x \in joins : x.id = job[r].join =>
            x.user = job[r].user /\ x.team = job[r].team
       /\ job[r].join \in Requests => pc[job[r].join] = "done"

\* Nobody has this number in this team but the user himself.
Free(j) == \A u \in Users : u # j.user /\ player[u].team = j.team =>
                              player[u].number # j.number

\* What a handler knows at its label, of what it has read.  It stays true as long
\* as no other handler works for its user or its team.
Knows(label, j) ==
  /\ j.op = "update" => j.team = player[j.user].team
  /\ j.op = "approve" /\ NumbersGiven => j.number # NoNumber
  /\ /\ j.op \in {"create", "approve"}
     /\ label \in {"checkNumber", "findPlayer", "write", "commit"}
     => j.team = NoTeam \/ ~Full(j.team)
  /\ label \in {"write", "commit"} => j.team = NoTeam \/ j.number = NoNumber \/ Free(j)
  /\ j.op \in {"approve", "reject"} =>
       \A x \in joins : x.id = j.join => x.status = "PENDING"

\* The discipline: no two active requests are about one user or one team, and
\* what a handler knows is true.
Separate ==
  serial => /\ \A q, r \in Requests : Active(q) /\ Active(r) /\ q # r =>
                 job[q].user # job[r].user /\ job[q].team # job[r].team
            /\ \A r \in Requests : Active(r) => Knows(pc[r], job[r])

\* What the first step of a handler establishes, whatever the others do.
LEMMA Arrival ==
  ASSUME TypeInv, KeysKept, NEW r \in Requests, ArrivePlayers(r) \/ ArriveJoins(r)
  PROVE  /\ pc[r] = "idle" /\ UNCHANGED <<tables, serial>>
         /\ \E label \in Labels \ {"idle", "commit"} : \E j \in Job :
              /\ Goto(r, label) /\ job' = [job EXCEPT ![r] = j]
              /\ Fits(label, j)
              /\ \A x \in joins : x.id = j.join => x.user = j.user /\ x.team = j.team
              /\ j.join \in Requests => pc[j.join] = "done"
              /\ label \notin Ended => Knows(label, j)
              /\ serial => \A q \in Requests : Active(q) =>
                             job[q].user # j.user /\ job[q].team # j.team
<1> DEFINE Goal == /\ pc[r] = "idle" /\ UNCHANGED <<tables, serial>>
                   /\ \E label \in Labels \ {"idle", "commit"} : \E j \in Job :
                        /\ Goto(r, label) /\ job' = [job EXCEPT ![r] = j]
                        /\ Fits(label, j)
                        /\ \A x \in joins : x.id = j.join =>
                             x.user = j.user /\ x.team = j.team
                        /\ j.join \in Requests => pc[j.join] = "done"
                        /\ label \notin Ended => Knows(label, j)
                        /\ serial => \A q \in Requests : Active(q) =>
                             job[q].user # j.user /\ job[q].team # j.team
<1>1. ASSUME NEW op \in Operations, NEW u \in Users, NEW t \in Teams \cup {NoTeam},
             NEW n \in Numbers \cup {NoNumber},
             NEW k \in Requests \cup OldIds \cup {Nobody}, NEW label \in Labels \ {"idle", "commit"},
             NEW j, j = [op |-> op, user |-> u, team |-> t, number |-> n,
                         seen |-> player[u], join |-> k, gone |-> {}],
             Begin(r, op, u, t, n, k, label), Fits(label, j),
             \A x \in joins : x.id = k => x.user = u /\ x.team = t,
             k \in Requests => pc[k] = "done",
             label \notin Ended => Knows(label, j)
      PROVE  Goal
  <2>1. j \in Job /\ j.user = u /\ j.team = t /\ j.join = k
    BY <1>1 DEF Job, TypeInv, TypeOK
  <2>2. /\ pc[r] = "idle" /\ UNCHANGED <<tables, serial>>
        /\ Goto(r, label) /\ job' = [job EXCEPT ![r] = j]
        /\ serial => \A q \in Requests : Active(q) => job[q].user # u /\ job[q].team # t
    BY <1>1 DEF Begin
  <2>3. QED
    BY <1>1, <2>1, <2>2
<1>2. \A u \in Users : player[u].team \in Teams \cup {NoTeam}
  BY DEF TypeInv, TypeOK, Player, NoPlayer
<1>3. (\A x \in joins : x.id # Nobody) /\ Nobody \notin Requests \cup OldIds
  BY RosterAssumption DEF TypeInv, TypeOK, JoinRequest
<1>4. NoNumber \in Numbers \cup {NoNumber} /\ Nobody \in Requests \cup OldIds \cup {Nobody}
  OBVIOUS
<1>5. ASSUME NEW u \in Users, NEW n \in Numbers \cup {NoNumber},
             NEW t \in Teams \cup {NoTeam}, BeginCreate(r, u, t, n)
      PROVE  Goal
  <2> DEFINE label == IF t = NoTeam THEN "write" ELSE IF Full(t) THEN "rejected"
                        ELSE Checked(n)
             j == [op |-> "create", user |-> u, team |-> t, number |-> n,
                   seen |-> player[u], join |-> Nobody, gone |-> {}]
  <2>1. Begin(r, "create", u, t, n, Nobody, label)
    BY <1>5 DEF BeginCreate
  <2>2. /\ label \in {"write", "rejected", "checkNumber"}
        /\ label \in {"write", "checkNumber"} => t = NoTeam \/ ~Full(t)
        /\ label = "write" => t = NoTeam \/ n = NoNumber
    BY DEF Checked
  <2> HIDE DEF label
  <2>3. j \in Job
    BY DEF Job, Operations, TypeInv, TypeOK
  <2>4. Fits(label, j)
    BY <1>3, <2>2, <2>3 DEF Fits
  <2>5. Knows(label, j)
    BY <2>2 DEF Knows
  <2>6. label \in Labels \ {"idle", "commit"} /\ "create" \in Operations
    BY <2>2 DEF Labels, Ended, Operations
  <2>7. QED
    BY <1>1, <1>3, <1>4, <2>1, <2>4, <2>5, <2>6
<1>6. ASSUME NEW u \in Users, NEW n \in Numbers \cup {NoNumber}, BeginUpdate(r, u, n)
      PROVE  Goal
  <2> DEFINE label == IF n = NoNumber THEN "write" ELSE "readTeam"
             j == [op |-> "update", user |-> u, team |-> player[u].team, number |-> n,
                   seen |-> player[u], join |-> Nobody, gone |-> {}]
  <2>1. Begin(r, "update", u, player[u].team, n, Nobody, label) /\ player[u] # NoPlayer
    BY <1>6 DEF BeginUpdate
  <2>2. label \in {"write", "readTeam"} /\ (label = "write" => n = NoNumber)
    OBVIOUS
  <2> HIDE DEF label
  <2>3. j \in Job
    BY <1>2 DEF Job, Operations, TypeInv, TypeOK
  <2>4. Fits(label, j)
    BY <1>3, <2>1, <2>2, <2>3 DEF Fits
  <2>5. Knows(label, j)
    BY <2>2 DEF Knows
  <2>6. label \in Labels \ {"idle", "commit"} /\ "update" \in Operations
    BY <2>2 DEF Labels, Ended, Operations
  <2>7. QED
    BY <1>1, <1>2, <1>3, <1>4, <2>1, <2>4, <2>5, <2>6
<1>7. ASSUME NEW u \in Users, BeginRemove(r, u) PROVE Goal
  <2> DEFINE j == [op |-> "remove", user |-> u, team |-> player[u].team,
                   number |-> NoNumber, seen |-> player[u], join |-> Nobody, gone |-> {}]
  <2>1. Begin(r, "remove", u, player[u].team, NoNumber, Nobody, "delete")
        /\ player[u] # NoPlayer
    BY <1>7 DEF BeginRemove
  <2>2. j \in Job
    BY <1>2 DEF Job, Operations, TypeInv, TypeOK
  <2>3. Fits("delete", j) /\ Knows("delete", j)
    BY <1>3, <2>1, <2>2 DEF Fits, Knows
  <2>4. "delete" \in Labels \ {"idle", "commit"} /\ "remove" \in Operations
    BY DEF Labels, Operations
  <2>5. QED
    BY <1>1, <1>2, <1>3, <1>4, <2>1, <2>3, <2>4
<1>8. ASSUME NEW u \in Users, NEW t \in Teams, BeginAsk(r, u, t) PROVE Goal
  <2> DEFINE j == [op |-> "ask", user |-> u, team |-> t,
                   number |-> NoNumber, seen |-> player[u], join |-> Nobody, gone |-> {}]
  <2>1. PICK label \in {"rejected", "findPending"} :
          Begin(r, "ask", u, t, NoNumber, Nobody, label)
    BY <1>8 DEF BeginAsk
  <2>2. j \in Job
    BY DEF Job, Operations, TypeInv, TypeOK
  <2>3. Fits(label, j) /\ Knows(label, j)
    BY <1>3, <2>2 DEF Fits, Knows
  <2>4. label \in Labels \ {"idle", "commit"} /\ "ask" \in Operations
    BY DEF Labels, Ended, Operations
  <2>5. QED
    BY <1>1, <1>3, <1>4, <2>1, <2>3, <2>4
<1>9. ASSUME NEW x \in joins, NEW op \in {"approve", "reject"},
             NEW n \in Numbers \cup {NoNumber}, BeginDecision(r, x, op, n)
      PROVE  Goal
  <2> DEFINE label == IF ~MayDecide(x) THEN "rejected"
                      ELSE IF op = "reject" THEN "reject"
                      ELSE IF Limit[x.team] = Unlimited THEN "findPlayer" ELSE "countSquad"
             j == [op |-> op, user |-> x.user, team |-> x.team,
                   number |-> n, seen |-> player[x.user], join |-> x.id, gone |-> {}]
  <2>1. /\ Begin(r, op, x.user, x.team, n, x.id, label)
        /\ op = "approve" /\ NumbersGiven => n # NoNumber
    BY <1>9 DEF BeginDecision
  <2>2. /\ label \in {"rejected", "reject", "findPlayer", "countSquad"}
        /\ label = "reject" => op = "reject"
        /\ label \in {"findPlayer", "countSquad"} => op = "approve"
        /\ label # "rejected" => x.status = "PENDING"
        /\ label = "findPlayer" => ~Full(x.team)
    BY DEF MayDecide, Full
  <2> HIDE DEF label
  <2>3. x.user \in Users /\ x.team \in Teams /\ x.id \in Requests \cup OldIds
    BY DEF TypeInv, TypeOK, JoinRequest
  <2>4. j \in Job
    BY <2>3 DEF Job, Operations, TypeInv, TypeOK
  <2>5. Fits(label, j)
    BY <2>2, <2>3, <2>4 DEF Fits, Ended
  <2>6. /\ \A y \in joins : y.id = x.id => y = x
        /\ x.id \in Requests => pc[x.id] = "done"
    BY DEF KeysKept
  <2>7. label \notin Ended => Knows(label, j)
    BY <2>1, <2>2, <2>6 DEF Knows, Ended
  <2>8. label \in Labels \ {"idle", "commit"} /\ op \in Operations
    BY <2>2 DEF Labels, Ended, Operations
  <2>9. QED
    BY <1>1, <2>1, <2>3, <2>5, <2>6, <2>7, <2>8
<1>10. QED
  BY <1>5, <1>6, <1>7, <1>8, <1>9 DEF ArrivePlayers, ArriveJoins

-----------------------------------------------------------------------------
(* Type correctness. *)

\* A player that is still there is a row of the table.
LEMMA StillSomebody ==
  ASSUME TypeInv, NEW r \in Requests, Active(r), StillThere(r), job[r].seen # NoPlayer
  PROVE  player[job[r].user] \in Player
<1>1. job[r] \in Job
  BY DEF TypeInv, Fits, Active
<1>2. job[r].user \in Users /\ job[r].seen \in Player
  BY <1>1 DEF Job
<1>3. player[job[r].user] \in Player \cup {NoPlayer}
  BY <1>2 DEF TypeInv, TypeOK
<1>4. player[job[r].user].by # Nobody
  BY <1>2, Somebody DEF StillThere
<1>5. QED
  BY <1>3, <1>4 DEF NoPlayer

\* What a later step of a handler does: it goes on with the same work, and at
\* most one row of the Player table, its own user's, is written.
LEMMA Shape ==
  ASSUME TypeInv, NEW r \in Requests, Step(r)
  PROVE  /\ Active(r) /\ serial' = serial /\ job[r] \in Job
         /\ \E label \in Labels \ {"idle"} : \E j \in Job :
              /\ Goto(r, label) /\ job' = [job EXCEPT ![r] = j] /\ Fits(label, j)
              /\ j.user = job[r].user /\ j.join = job[r].join /\ j.op = job[r].op
              /\ j.op # "update" => j.team = job[r].team
         /\ \E p \in Player \cup {NoPlayer} : player' = [player EXCEPT ![job[r].user] = p]
         /\ joins' \subseteq JoinRequest
<1> DEFINE k == job[r]
           Onward == \E label \in Labels \ {"idle"} : \E j \in Job :
                       /\ Goto(r, label) /\ job' = [job EXCEPT ![r] = j]
                       /\ Fits(label, j)
                       /\ j.user = k.user /\ j.join = k.join /\ j.op = k.op
                       /\ j.op # "update" => j.team = k.team
           Write == \E p \in Player \cup {NoPlayer} :
                      player' = [player EXCEPT ![k.user] = p]
<1>1. Active(r)
  BY DEF Step, CheckNumber, InsertPlayer, ReadTeam, WriteNumber, DeletePlayer,
         FindPending, InsertRequest, RejectRequest, CountSquad, FindPlayer,
         ClearOthers, CommitApproval,
         Abort, Proceed, Active, Ended
<1>2. k \in Job /\ Fits(pc[r], k)
  BY <1>1 DEF TypeInv, Fits, Active
<1>3. /\ player \in [Users -> Player \cup {NoPlayer}] /\ k.user \in Users
      /\ k.seen \in Player \cup {NoPlayer} /\ joins \subseteq JoinRequest
      /\ k.team \in Teams \cup {NoTeam} /\ k.number \in Numbers \cup {NoNumber}
  BY <1>2 DEF TypeInv, TypeOK, Job
<1>4. UNCHANGED player => Write
  BY <1>3
<1>5. job = [job EXCEPT ![r] = k]
  BY DEF TypeInv, TypeOK
<1>6. ASSUME NEW label \in Labels \ {"idle"}, Goto(r, label), UNCHANGED job, Fits(label, k)
      PROVE  Onward
  BY <1>2, <1>5, <1>6
<1>7. ASSUME NEW label \in Ended, Goto(r, label), UNCHANGED job
      PROVE  Onward
  <2>1. Fits(label, k) /\ label \in Labels \ {"idle"}
    BY <1>7 DEF Fits, Labels, Ended
  <2>2. QED
    BY <1>6, <1>7, <2>1
<1>8. CASE CheckNumber(r)
  <2>1. PICK label \in {"rejected", "write"} : Proceed(r, label)
    BY <1>8 DEF CheckNumber
  <2>2. Fits(label, k) /\ label \in Labels \ {"idle"}
    BY <1>2, <1>8 DEF CheckNumber, Fits, Labels, Ended
  <2>3. UNCHANGED <<tables, serial, job>> /\ Goto(r, label)
    BY <2>1 DEF Proceed
  <2>4. QED
    BY <1>1, <1>2, <1>3, <1>4, <1>6, <2>2, <2>3 DEF tables
<1>9. CASE InsertPlayer(r)
  <2>1. UNCHANGED <<joins, serial, job>>
    BY <1>9 DEF InsertPlayer
  <2>2. Onward
    BY <1>7, <1>9 DEF InsertPlayer, Ended
  <2>3. [team |-> k.team, number |-> k.number, by |-> r] \in Player
    BY <1>3 DEF Player
  <2>4. Write
    BY <1>4, <1>9, <2>3 DEF InsertPlayer
  <2>5. QED
    BY <1>1, <1>2, <1>3, <2>1, <2>2, <2>4
<1>10. CASE ReadTeam(r)
  <2> DEFINE t == player[k.user].team
             j == [k EXCEPT !.team = t]
  <2>1. t \in Teams \cup {NoTeam}
    BY <1>3 DEF Player, NoPlayer
  <2>2. j \in Job /\ j.user = k.user /\ j.join = k.join /\ j.op = k.op /\ j.seen = k.seen
    BY <1>2, <2>1 DEF Job
  <2>3. k.op = "update"
    BY <1>2, <1>10 DEF Fits, ReadTeam, Ended
  <2>4. PICK label \in {"rejected", "write", "checkNumber"} :
          Goto(r, label) /\ job' = [job EXCEPT ![r].team = t] /\ UNCHANGED <<tables, serial>>
    BY <1>10 DEF ReadTeam
  <2>5. job' = [job EXCEPT ![r] = j]
    BY <2>4 DEF TypeInv, TypeOK
  <2> HIDE DEF j
  <2>6. Fits(label, j) /\ label \in Labels \ {"idle"}
    BY <1>2, <1>10, <2>2, <2>3 DEF ReadTeam, Fits, Labels, Ended
  <2>7. QED
    BY <1>1, <1>2, <1>3, <1>4, <2>2, <2>3, <2>4, <2>5, <2>6 DEF tables
<1>11. CASE WriteNumber(r)
  <2>1. UNCHANGED <<joins, serial, job>>
    BY <1>11 DEF WriteNumber
  <2>2. Onward
    BY <1>7, <1>11 DEF WriteNumber, Ended
  <2>3. k.seen # NoPlayer
    BY <1>2, <1>11 DEF WriteNumber, Fits, Ended
  <2>4. CASE StillThere(r)
    <3>1. player[k.user] \in Player
      BY <1>1, <2>3, <2>4, StillSomebody
    <3>2. [player[k.user] EXCEPT !.number = k.number] \in Player
      BY <1>3, <3>1 DEF Player
    <3>3. \/ player' = [player EXCEPT ![k.user] = [player[k.user] EXCEPT !.number = k.number]]
          \/ UNCHANGED player
      BY <1>3, <1>11, <2>4 DEF WriteNumber
    <3>4. QED
      BY <1>1, <1>2, <1>3, <1>4, <2>1, <2>2, <3>2, <3>3
  <2>5. CASE ~StillThere(r)
    BY <1>1, <1>2, <1>3, <1>4, <1>11, <2>1, <2>2, <2>5 DEF WriteNumber
  <2>6. QED
    BY <2>4, <2>5
<1>12. CASE DeletePlayer(r)
  <2>1. UNCHANGED <<joins, serial, job>> /\ Write
    BY <1>4, <1>12 DEF DeletePlayer
  <2>2. Onward
    BY <1>7, <1>12 DEF DeletePlayer, Ended
  <2>3. QED
    BY <1>1, <1>2, <1>3, <2>1, <2>2
<1>13. CASE FindPending(r)
  <2>1. PICK label \in {"rejected", "insert"} : Proceed(r, label)
    BY <1>13 DEF FindPending
  <2>2. Fits(label, k) /\ label \in Labels \ {"idle"}
    BY <1>2, <1>13 DEF FindPending, Fits, Labels, Ended
  <2>3. UNCHANGED <<tables, serial, job>> /\ Goto(r, label)
    BY <2>1 DEF Proceed
  <2>4. QED
    BY <1>1, <1>2, <1>3, <1>4, <1>6, <2>2, <2>3 DEF tables
<1>14. CASE InsertRequest(r)
  <2>1. UNCHANGED <<player, serial, job>>
    BY <1>14 DEF InsertRequest
  <2>2. Onward
    BY <1>7, <1>14 DEF InsertRequest, Ended
  <2>3. k.team \in Teams
    BY <1>2, <1>14 DEF InsertRequest, Fits, Ended
  <2>4. [id |-> r, user |-> k.user, team |-> k.team, status |-> "PENDING"] \in JoinRequest
    BY <1>3, <2>3 DEF JoinRequest, Statuses
  <2>5. joins' \subseteq JoinRequest
    BY <1>3, <1>14, <2>4 DEF InsertRequest
  <2>6. QED
    BY <1>1, <1>2, <1>4, <2>1, <2>2, <2>5
<1>15. CASE RejectRequest(r)
  <2>1. UNCHANGED <<player, serial, job>>
    BY <1>15 DEF RejectRequest
  <2>2. Onward
    BY <1>7, <1>15 DEF RejectRequest, Ended
  <2>3. \A x \in joins : [x EXCEPT !.status = "REJECTED"] \in JoinRequest
    BY <1>3 DEF JoinRequest, Statuses
  <2>4. joins' \subseteq JoinRequest
    BY <1>3, <1>15, <2>3 DEF RejectRequest, Asked
  <2>5. QED
    BY <1>1, <1>2, <1>4, <2>1, <2>2, <2>4
<1>16. CASE CountSquad(r)
  <2>1. PICK label \in {"rejected", "findPlayer"} : Proceed(r, label)
    BY <1>16 DEF CountSquad
  <2>2. Fits(label, k) /\ label \in Labels \ {"idle"}
    BY <1>2, <1>16 DEF CountSquad, Fits, Labels, Ended
  <2>3. UNCHANGED <<tables, serial, job>> /\ Goto(r, label)
    BY <2>1 DEF Proceed
  <2>4. QED
    BY <1>1, <1>2, <1>3, <1>4, <1>6, <2>2, <2>3 DEF tables
<1>17. CASE FindPlayer(r)
  <2> DEFINE j == [k EXCEPT !.seen = player[k.user]]
  <2>1. player[k.user] \in Player \cup {NoPlayer}
    BY <1>3
  <2>2. /\ j \in Job /\ j.user = k.user /\ j.join = k.join /\ j.op = k.op
        /\ j.team = k.team
    BY <1>2, <2>1 DEF Job
  <2>3. k.op = "approve"
    BY <1>2, <1>17 DEF Fits, FindPlayer, Ended
  <2>4. PICK label \in {"write", "checkNumber"} :
          /\ Goto(r, label) /\ job' = [job EXCEPT ![r].seen = player[k.user]]
          /\ UNCHANGED <<tables, serial>>
    BY <1>17 DEF FindPlayer, Checked
  <2>5. job' = [job EXCEPT ![r] = j]
    BY <2>4 DEF TypeInv, TypeOK
  <2> HIDE DEF j
  <2>6. Fits(label, j) /\ label \in Labels \ {"idle"}
    BY <1>2, <1>17, <2>2, <2>3 DEF FindPlayer, Fits, Labels, Ended
  <2>7. QED
    BY <1>1, <1>2, <1>3, <1>4, <2>2, <2>3, <2>4, <2>5, <2>6 DEF tables
<1>18. CASE CommitApproval(r)
  <2>1. UNCHANGED <<serial, job>>
    BY <1>18 DEF CommitApproval
  <2>2. Onward
    BY <1>7, <1>18, <2>1 DEF CommitApproval, Ended
  <2>3. k.team \in Teams /\ k.join \in Requests \cup OldIds
    BY <1>2, <1>18 DEF CommitApproval, Fits, Ended
  <2>4. CASE Commits(r)
    <3>1. k.seen.number \in Numbers \cup {NoNumber}
      BY <1>3 DEF Player, NoPlayer
    <3>2. k.seen # NoPlayer => k.seen.by \in Requests \cup {Before}
      BY <1>3 DEF Player
    <3>3. Signed(r) \in Player
      BY <1>3, <2>3, <3>1, <3>2 DEF Signed, Player
    <3>4. player' = [player EXCEPT ![k.user] = Signed(r)]
      BY <1>18, <2>4 DEF CommitApproval, Commits
    <3>5. [id |-> k.join, user |-> k.user, team |-> k.team, status |-> "APPROVED"]
            \in JoinRequest
      BY <1>3, <2>3 DEF JoinRequest, Statuses
    <3>6. joins' \subseteq JoinRequest
      BY <1>3, <1>18, <2>4, <3>5 DEF CommitApproval
    <3>7. QED
      BY <1>1, <1>2, <2>1, <2>2, <3>3, <3>4, <3>6
  <2>5. CASE ~Commits(r)
    BY <1>1, <1>2, <1>3, <1>4, <1>18, <2>1, <2>2, <2>5 DEF CommitApproval, tables
  <2>6. QED
    BY <2>4, <2>5
<1>19. CASE ClearOthers(r)
  <2> DEFINE ids == {x.id : x \in Others(r)}
             j == [k EXCEPT !.gone = ids]
  <2>1. ids \subseteq Requests \cup OldIds
    BY <1>3 DEF Others, JoinRequest
  <2>2. /\ Goto(r, "commit") /\ UNCHANGED <<tables, serial>> /\ k.op = "approve"
        /\ job' = [job EXCEPT ![r].gone = ids] /\ pc[r] = "write"
    BY <1>19 DEF ClearOthers
  <2> HIDE DEF ids
  <2>3. /\ j \in Job /\ j.user = k.user /\ j.join = k.join /\ j.op = k.op
        /\ j.team = k.team /\ j.seen = k.seen
    BY <1>2, <2>1 DEF Job
  <2>4. job' = [job EXCEPT ![r] = j]
    BY <2>2 DEF TypeInv, TypeOK
  <2> HIDE DEF j
  <2>5. Fits("commit", j) /\ "commit" \in Labels \ {"idle"}
    BY <1>2, <2>2, <2>3 DEF Fits, Labels, Ended
  <2>6. QED
    BY <1>1, <1>2, <1>3, <1>4, <2>2, <2>3, <2>4, <2>5 DEF tables
<1>20. CASE Abort(r)
  <2>1. UNCHANGED <<tables, serial, job>> /\ Goto(r, "rejected")
    BY <1>20 DEF Abort, Proceed
  <2>2. Onward
    BY <1>7, <2>1 DEF Ended
  <2>3. QED
    BY <1>1, <1>2, <1>3, <1>4, <2>1, <2>2 DEF tables
<1>21. QED
  BY <1>8, <1>9, <1>10, <1>11, <1>12, <1>13, <1>14, <1>15, <1>16, <1>17, <1>18, <1>19,
     <1>20 DEF Step

LEMMA Start == Init => TypeInv /\ KeysKept /\ Separate
<1> SUFFICES ASSUME Init PROVE TypeInv /\ KeysKept /\ Separate
  OBVIOUS
<1>1. player \in [Users -> Player \cup {NoPlayer}]
  BY RosterAssumption DEF Init
<1>2. joins \subseteq JoinRequest /\ serial \in BOOLEAN
  BY RosterAssumption DEF Init
<1>3. \A r \in Requests : pc[r] = "idle" /\ job[r] = NoJob
  BY DEF Init
<1>4. pc \in [Requests -> Labels] /\ job \in [Requests -> Job \cup {NoJob}]
  BY DEF Init, Labels
<1>5. TypeInv
  BY <1>1, <1>2, <1>3, <1>4 DEF TypeInv, TypeOK, Fits
<1>6. \A x, y \in joins : x.id \in OldIds /\ (x.id = y.id => x = y)
  BY RosterAssumption DEF Init
<1>7. KeysKept
  BY <1>3, <1>6, RosterAssumption DEF KeysKept, Active
<1>8. Separate
  BY <1>3 DEF Separate, Active
<1>9. QED
  BY <1>5, <1>7, <1>8

LEMMA StepType == TypeInv /\ KeysKept /\ [Next]_vars => TypeInv'
<1> SUFFICES ASSUME TypeInv, KeysKept, [Next]_vars PROVE TypeInv'
  OBVIOUS
<1>1. ASSUME NEW r \in Requests, NEW label \in Labels, NEW j \in Job,
             Goto(r, label), job' = [job EXCEPT ![r] = j], Fits(label, j),
             player' \in [Users -> Player \cup {NoPlayer}], joins' \subseteq JoinRequest,
             serial' = serial
      PROVE  TypeInv'
  <2>1. TypeOK'
    BY <1>1 DEF TypeInv, TypeOK, Goto
  <2>2. \A q \in Requests : Fits(pc'[q], job'[q])
    BY <1>1 DEF TypeInv, TypeOK, Goto
  <2>3. QED
    BY <2>1, <2>2 DEF TypeInv, Fits
<1>2. ASSUME NEW r \in Requests, ArrivePlayers(r) \/ ArriveJoins(r) PROVE TypeInv'
  <2>1. /\ UNCHANGED <<tables, serial>>
        /\ \E label \in Labels : \E j \in Job :
             Goto(r, label) /\ job' = [job EXCEPT ![r] = j] /\ Fits(label, j)
    BY <1>2, Arrival
  <2>2. QED
    BY <1>1, <2>1 DEF TypeInv, TypeOK, tables
<1>3. ASSUME NEW r \in Requests, Step(r) PROVE TypeInv'
  <2>1. /\ serial' = serial /\ joins' \subseteq JoinRequest
        /\ \E label \in Labels : \E j \in Job :
             Goto(r, label) /\ job' = [job EXCEPT ![r] = j] /\ Fits(label, j)
    BY <1>3, Shape
  <2>2. player' \in [Users -> Player \cup {NoPlayer}]
    BY <1>3, Shape DEF TypeInv, TypeOK
  <2>3. QED
    BY <1>1, <2>1, <2>2
<1>4. CASE UNCHANGED vars
  BY <1>4 DEF vars, TypeInv, TypeOK
<1>5. QED
  BY <1>2, <1>3, <1>4 DEF Next, Terminated

\* Which rows a step adds to the JoinRequest table: its own request's, or a
\* row that was there before, changed.
LEMMA NewRows ==
  ASSUME TypeInv, KeysKept, NEW r \in Requests, Step(r)
  PROVE  /\ \A y \in joins' \ joins : \/ \E x \in joins : /\ x.id = y.id
                                                          /\ x.user = y.user
                                                          /\ x.team = y.team
                                                          /\ x \notin joins'
                                      \/ y.id = r /\ pc'[r] = "done"
         /\ \A y, z \in joins' \ joins : y.id = z.id => y = z
<1> DEFINE k == job[r]
<1>1. \A x \in joins : x.id = k.join => x.user = k.user /\ x.team = k.team
  BY Shape DEF KeysKept
<1>2. CASE InsertRequest(r)
  BY <1>2 DEF InsertRequest, Goto, TypeInv, TypeOK
<1>3. CASE RejectRequest(r)
  <2> DEFINE row == {x \in joins : x.id = k.join}
  <2>1. \A x \in joins : [x EXCEPT !.status = "REJECTED"].id = x.id
    BY DEF TypeInv, TypeOK, JoinRequest
  <2>2. ASSUME NEW y \in joins' \ joins
        PROVE  \E x \in row : /\ y = [x EXCEPT !.status = "REJECTED"]
                              /\ x.id = y.id /\ x.user = y.user /\ x.team = y.team
    BY <1>3, <2>2 DEF RejectRequest, Asked, TypeInv, TypeOK, JoinRequest
  <2>3. ASSUME NEW y \in joins' \ joins, NEW x \in row, y = [x EXCEPT !.status = "REJECTED"]
        PROVE  x \notin joins'
    <3>1. SUFFICES ASSUME x \in joins' PROVE FALSE
      OBVIOUS
    <3>2. PICK z \in row : x = [z EXCEPT !.status = "REJECTED"]
      BY <1>3, <2>3, <3>1 DEF RejectRequest, Asked
    <3>3. z = x
      BY <2>1, <3>2 DEF KeysKept
    <3>4. QED
      BY <2>3, <3>2, <3>3
  <2>4. \A y, z \in joins' \ joins : y.id = z.id => y = z
    BY <2>2 DEF KeysKept
  <2>5. QED
    BY <2>2, <2>3, <2>4
<1>4. CASE CommitApproval(r)
  <2> DEFINE y == [id |-> k.join, user |-> k.user, team |-> k.team, status |-> "APPROVED"]
             rest == {x \in joins : x.id \notin k.gone \cup {k.join}}
  <2>1. CASE UNCHANGED joins
    BY <2>1
  <2>2. CASE joins' = rest \cup {y} /\ Commits(r)
    <3>1. PICK x \in joins : x.id = k.join
      BY <2>2 DEF Commits, Asked
    <3>2. rest \subseteq joins /\ \A z \in rest : z.id # k.join
      OBVIOUS
    <3>3. y.id = k.join /\ y.user = k.user /\ y.team = k.team
      OBVIOUS
    <3> HIDE DEF y, rest
    <3>4. QED
      BY <1>1, <2>2, <3>1, <3>2, <3>3
  <2>3. QED
    BY <1>4, <2>1, <2>2 DEF CommitApproval, tables
<1>5. CASE UNCHANGED joins
  BY <1>5
<1>6. QED
  BY <1>2, <1>3, <1>4, <1>5 DEF Step, CheckNumber, InsertPlayer, ReadTeam, WriteNumber,
     DeletePlayer, FindPending, CountSquad, FindPlayer, ClearOthers, Abort, Proceed, tables

LEMMA StepKeys == TypeInv /\ KeysKept /\ [Next]_vars => KeysKept'
<1> SUFFICES ASSUME TypeInv, KeysKept, [Next]_vars PROVE KeysKept'
  OBVIOUS
<1> USE DEF Active
<1>1. ASSUME NEW r \in Requests, NEW label \in Labels \ {"idle"}, NEW j \in Job,
             pc[r] \notin Ended, Goto(r, label), job' = [job EXCEPT ![r] = j],
             \A x \in joins : x.id = j.join => x.user = j.user /\ x.team = j.team,
             j.join \in Requests => pc[j.join] = "done",
             \A y \in joins' \ joins : \/ \E x \in joins : /\ x.id = y.id
                                                           /\ x.user = y.user
                                                           /\ x.team = y.team
                                                           /\ x \notin joins'
                                       \/ y.id = r /\ label = "done",
             \A y, z \in joins' \ joins : y.id = z.id => y = z
      PROVE  KeysKept'
  <2>1. /\ \A q \in Requests : q # r => pc'[q] = pc[q] /\ job'[q] = job[q]
        /\ pc'[r] = label /\ job'[r] = j
    BY <1>1 DEF Goto, TypeInv, TypeOK
  <2>2. \A x \in joins : x.id # r
    BY <1>1 DEF KeysKept, Ended
  <2>3. \A x, y \in joins' : x.id = y.id => x = y
    BY <1>1, <2>2 DEF KeysKept
  <2>4. \A y \in joins' : y.id = r \/ \E x \in joins : x.id = y.id
                                            /\ x.user = y.user /\ x.team = y.team
    BY <1>1
  <2>5. \A q \in Requests : pc[q] = "done" => pc'[q] = "done"
    BY <1>1, <2>1 DEF Ended
  <2>6. \A y \in joins' : y.id \in Requests => pc'[y.id] = "done"
    BY <1>1, <2>1, <2>2, <2>4, <2>5 DEF KeysKept
  <2>7. ASSUME NEW q \in Requests, pc'[q] \notin Ended \cup {"idle"}
        PROVE  /\ \A x \in joins' : x.id = job'[q].join =>
                    x.user = job'[q].user /\ x.team = job'[q].team
               /\ job'[q].join \in Requests => pc'[job'[q].join] = "done"
    <3>1. /\ \A x \in joins : x.id = job'[q].join =>
                    x.user = job'[q].user /\ x.team = job'[q].team
          /\ job'[q].join \in Requests => pc[job'[q].join] = "done"
      BY <1>1, <2>1, <2>7 DEF KeysKept
    <3>2. job'[q].join # r
      BY <1>1, <3>1 DEF Ended
    <3>3. QED
      BY <2>4, <2>5, <3>1, <3>2
  <2>8. QED
    BY <2>3, <2>6, <2>7 DEF KeysKept
<1>2. ASSUME NEW r \in Requests, ArrivePlayers(r) \/ ArriveJoins(r) PROVE KeysKept'
  <2>1. PICK label \in Labels \ {"idle"}, j \in Job :
          /\ Goto(r, label) /\ job' = [job EXCEPT ![r] = j]
          /\ \A x \in joins : x.id = j.join => x.user = j.user /\ x.team = j.team
          /\ j.join \in Requests => pc[j.join] = "done"
    BY <1>2, Arrival
  <2>2. pc[r] = "idle" /\ joins' = joins
    BY <1>2, Arrival DEF tables
  <2>3. QED
    BY <1>1, <2>1, <2>2 DEF Ended
<1>3. ASSUME NEW r \in Requests, Step(r) PROVE KeysKept'
  <2> DEFINE k == job[r]
  <2>1. PICK label \in Labels \ {"idle"} : \E j \in Job :
              /\ Goto(r, label) /\ job' = [job EXCEPT ![r] = j]
              /\ j.user = k.user /\ j.join = k.join /\ j.op = k.op
              /\ j.op # "update" => j.team = k.team
    BY <1>3, Shape
  <2>2. PICK j \in Job :
              /\ Goto(r, label) /\ job' = [job EXCEPT ![r] = j]
              /\ j.user = k.user /\ j.join = k.join /\ j.op = k.op
              /\ j.op # "update" => j.team = k.team
    BY <2>1
  <2>3. pc[r] \notin Ended \cup {"idle"}
    BY <1>3, Shape
  <2>4. /\ \A x \in joins : x.id = k.join => x.user = k.user /\ x.team = k.team
        /\ k.join \in Requests => pc[k.join] = "done"
    BY <2>3 DEF KeysKept
  <2>5. k.op = "update" => \A x \in joins : x.id # k.join
    BY <2>3 DEF Fits, TypeInv, TypeOK, JoinRequest
  <2>6. pc'[r] = label
    BY <2>2 DEF Goto, TypeInv, TypeOK
  <2>7. /\ \A y \in joins' \ joins : \/ \E x \in joins : /\ x.id = y.id
                                                         /\ x.user = y.user
                                                         /\ x.team = y.team
                                                         /\ x \notin joins'
                                     \/ y.id = r /\ label = "done"
        /\ \A y, z \in joins' \ joins : y.id = z.id => y = z
    BY <1>3, <2>6, NewRows
  <2>8. QED
    BY <1>1, <2>2, <2>3, <2>4, <2>5, <2>7
<1>4. CASE UNCHANGED vars
  BY <1>4 DEF vars, KeysKept
<1>5. QED
  BY <1>2, <1>3, <1>4 DEF Next, Terminated

\* The tables and the locals of the handlers always hold what they should.
THEOREM RosterTypeCorrect == Spec => []TypeOK
<1>1. TypeInv /\ KeysKept /\ [Next]_vars => (TypeInv /\ KeysKept)'
  BY StepType, StepKeys
<1>2. TypeInv => TypeOK
  BY DEF TypeInv
<1>3. QED
  BY Start, <1>1, <1>2, PTL DEF Spec

-----------------------------------------------------------------------------
(* Approvals, whatever overlaps. *)

\* The request that r decides still waits.
Waits(r) == \E x \in joins : x.id = job[r].join /\ x.status = "PENDING"

\* A transaction that has deleted the other requests of the user to the team has
\* them all, as long as the request it approves waits: the unique key admits no
\* second one that waits.
NoneMissed ==
  \A r \in Requests : pc[r] = "commit" /\ Waits(r) =>
    \A x \in joins : x.user = job[r].user /\ x.team = job[r].team =>
      x.id \in job[r].gone \cup {job[r].join}

\* Only a decision changes a row, and only create adds one, beside none that waits.
LEMMA RowsStay ==
  ASSUME TypeInv, KeysKept, NEW r \in Requests, Step(r), NEW y \in joins'
  PROVE  \/ /\ \E x \in joins : x.id = y.id /\ x.user = y.user /\ x.team = y.team
            /\ y \in joins \/ y.status # "PENDING"
         \/ /\ InsertRequest(r) /\ y.id = r
            /\ \A x \in joins : x.user = y.user /\ x.team = y.team => x.status # "PENDING"
<1> DEFINE k == job[r]
<1>1. CASE y \in joins
  BY <1>1
<1>2. CASE y \notin joins /\ InsertRequest(r)
  BY <1>2 DEF InsertRequest, Of
<1>3. CASE y \notin joins /\ RejectRequest(r)
  <2>1. PICK x \in joins : y = [x EXCEPT !.status = "REJECTED"]
    BY <1>3 DEF RejectRequest, Asked
  <2>2. QED
    BY <2>1 DEF TypeInv, TypeOK, JoinRequest
<1>4. CASE y \notin joins /\ CommitApproval(r)
  <2>1. y = [id |-> k.join, user |-> k.user, team |-> k.team, status |-> "APPROVED"]
        /\ Commits(r)
    BY <1>4 DEF CommitApproval, tables
  <2>2. PICK x \in joins : x.id = k.join
    BY <2>1 DEF Commits, Asked
  <2>3. x.user = k.user /\ x.team = k.team
    BY <2>2, Shape DEF KeysKept
  <2>4. QED
    BY <2>1, <2>2, <2>3
<1>5. QED
  BY <1>1, <1>2, <1>3, <1>4 DEF Step, CheckNumber, InsertPlayer, ReadTeam, WriteNumber,
     DeletePlayer, FindPending, CountSquad, FindPlayer, ClearOthers, Abort, Proceed, tables

LEMMA StepMissed == TypeInv /\ KeysKept /\ NoneMissed /\ [Next]_vars => NoneMissed'
<1> SUFFICES ASSUME TypeInv, KeysKept, NoneMissed, [Next]_vars,
                    NEW q \in Requests, pc'[q] = "commit", Waits(q)',
                    NEW y \in joins', y.user = job'[q].user, y.team = job'[q].team
             PROVE  y.id \in job'[q].gone \cup {job'[q].join}
  BY DEF NoneMissed
<1>1. ASSUME UNCHANGED joins, pc[q] = "commit", job'[q] = job[q]
      PROVE  y.id \in job'[q].gone \cup {job'[q].join}
  BY <1>1 DEF NoneMissed, Waits
<1>2. ASSUME NEW r \in Requests, ArrivePlayers(r) \/ ArriveJoins(r)
      PROVE  y.id \in job'[q].gone \cup {job'[q].join}
  <2>1. PICK label \in Labels \ {"idle", "commit"} : \E j \in Job :
          Goto(r, label) /\ job' = [job EXCEPT ![r] = j]
    BY <1>2, Arrival
  <2>2. UNCHANGED joins
    BY <1>2, Arrival DEF tables
  <2>3. q # r
    BY <2>1 DEF Goto, TypeInv, TypeOK
  <2>4. pc'[q] = pc[q] /\ job'[q] = job[q]
    BY <2>1, <2>3 DEF Goto, TypeInv, TypeOK
  <2>5. QED
    BY <1>1, <2>2, <2>4
<1>3. ASSUME NEW r \in Requests, Step(r)
      PROVE  y.id \in job'[q].gone \cup {job'[q].join}
  <2>1. PICK label \in Labels \ {"idle"} : \E j \in Job :
          Goto(r, label) /\ job' = [job EXCEPT ![r] = j]
    BY <1>3, Shape
  <2>2. CASE q = r
    <3>1. ClearOthers(r)
      BY <1>3, <2>2 DEF Step, CheckNumber, InsertPlayer, ReadTeam, WriteNumber, Goto,
         DeletePlayer, FindPending, InsertRequest, RejectRequest, CountSquad, FindPlayer,
         Checked, CommitApproval, Abort, Proceed, TypeInv, TypeOK
    <3>2. job' = [job EXCEPT ![r].gone = {x.id : x \in Others(r)}] /\ UNCHANGED joins
      BY <3>1 DEF ClearOthers, tables
    <3>3. /\ job'[r].gone = {x.id : x \in Others(r)} /\ job'[r].join = job[r].join
          /\ job'[r].user = job[r].user /\ job'[r].team = job[r].team
      <4>1. job[r] \in Job
        BY <1>3, Shape
      <4> DEFINE ids == {x.id : x \in Others(r)}
      <4> HIDE DEF ids
      <4>2. job' = [job EXCEPT ![r].gone = ids]
        BY <3>2 DEF ids
      <4>3. /\ job'[r].gone = ids /\ job'[r].join = job[r].join
            /\ job'[r].user = job[r].user /\ job'[r].team = job[r].team
        BY <4>1, <4>2 DEF TypeInv, TypeOK, Job
      <4>4. QED
        BY <4>3 DEF ids
    <3>4. QED
      BY <2>2, <3>2, <3>3 DEF Others, Asked
  <2>3. CASE q # r
    <3>1. pc[q] = "commit" /\ job'[q] = job[q] /\ Active(q)
      BY <2>1, <2>3 DEF Goto, TypeInv, TypeOK, Active, Ended
    <3>2. PICK w \in joins' : w.id = job[q].join /\ w.status = "PENDING"
      BY <3>1 DEF Waits
    <3>3. job[q].join # r
      BY <1>3, <3>1, Shape DEF KeysKept, Active, Ended
    <3>4. w \in joins
      BY <1>3, <3>2, <3>3, RowsStay
    <3>5. w.user = job[q].user /\ w.team = job[q].team /\ Waits(q)
      BY <3>1, <3>2, <3>4 DEF KeysKept, Waits
    <3>6. PICK x \in joins : x.id = y.id /\ x.user = y.user /\ x.team = y.team
      BY <1>3, <3>1, <3>2, <3>4, <3>5, RowsStay
    <3>7. QED
      BY <3>1, <3>5, <3>6 DEF NoneMissed
  <2>4. QED
    BY <2>2, <2>3
<1>4. CASE UNCHANGED vars
  BY <1>1, <1>4 DEF vars, tables
<1>5. QED
  BY <1>2, <1>3, <1>4 DEF Next, Terminated

\* Approval is all or nothing: the step that makes a request APPROVED signs its
\* user and, unless the request was decided otherwise meanwhile, removes the
\* user's other requests to the team, whatever was asked since it began.
THEOREM ApprovalIsWhole == Spec => ApprovalSigns
<1>1. TypeInv /\ KeysKept /\ NoneMissed /\ [Next]_vars =>
        [\A y \in joins' : y.status = "APPROVED" /\ y \notin joins =>
           /\ player'[y.user].team = y.team /\ player'[y.user].by # Nobody
           /\ [y EXCEPT !.status = "PENDING"] \in joins =>
                \A x \in joins' : x.user = y.user /\ x.team = y.team => x = y]_vars
  <2> SUFFICES ASSUME TypeInv, KeysKept, NoneMissed, Next,
                      NEW y \in joins' \ joins, y.status = "APPROVED"
               PROVE  /\ player'[y.user].team = y.team /\ player'[y.user].by # Nobody
                      /\ [y EXCEPT !.status = "PENDING"] \in joins =>
                           \A x \in joins' : x.user = y.user /\ x.team = y.team => x = y
    OBVIOUS
  <2>1. PICK r \in Requests : Step(r)
    BY Arrival DEF Next, Terminated, vars, tables
  <2> DEFINE k == job[r]
             new == [id |-> k.join, user |-> k.user, team |-> k.team,
                     status |-> "APPROVED"]
             rest == {x \in joins : x.id \notin k.gone \cup {k.join}}
  <2>2. CommitApproval(r)
    <3>1. \A x \in joins : [x EXCEPT !.status = "REJECTED"].status = "REJECTED"
      BY DEF TypeInv, TypeOK, JoinRequest
    <3>2. ASSUME RejectRequest(r) PROVE FALSE
      <4>1. joins' = joins
             \/ joins' = (joins \ Asked(r))
                           \cup {[x EXCEPT !.status = "REJECTED"] : x \in Asked(r)}
        BY <3>2 DEF RejectRequest
      <4>2. PICK x \in joins : y = [x EXCEPT !.status = "REJECTED"]
        BY <4>1 DEF Asked
      <4>3. QED
        BY <3>1, <4>2
    <3>3. QED
      BY <2>1, <3>2 DEF Step, CheckNumber, InsertPlayer, ReadTeam, WriteNumber,
         DeletePlayer, FindPending, InsertRequest, CountSquad, FindPlayer, ClearOthers,
         Abort, Proceed, tables
  <2>3. joins' = rest \cup {new} /\ Commits(r)
    BY <2>2 DEF CommitApproval, tables
  <2>4. player' = [player EXCEPT ![k.user] = Signed(r)] /\ pc[r] = "commit"
    BY <2>2, <2>3 DEF CommitApproval, tables
  <2>5. k \in Job
    BY <2>1, Shape
  <2>6. player'[k.user] = Signed(r) /\ Signed(r).team = k.team
    BY <2>4, <2>5 DEF TypeInv, TypeOK, Job, Signed
  <2>7. Signed(r).by # Nobody
    BY <2>5, Somebody, RosterAssumption DEF Signed, Job
  <2>8. y = new
    BY <2>3
  <2>9. new.user = k.user /\ new.team = k.team
    OBVIOUS
  <2>10. [y EXCEPT !.status = "PENDING"] \in joins => Waits(r)
    BY <2>8 DEF Waits
  <2>11. Waits(r) => \A x \in rest : ~(x.user = k.user /\ x.team = k.team)
    BY <2>4 DEF NoneMissed
  <2> HIDE DEF new, rest
  <2>12. QED
    BY <2>3, <2>6, <2>7, <2>8, <2>9, <2>10, <2>11
<1>2. TypeInv /\ KeysKept /\ NoneMissed /\ [Next]_vars => (TypeInv /\ KeysKept /\ NoneMissed)'
  BY StepType, StepKeys, StepMissed
<1>3. Init => NoneMissed
  BY DEF Init, NoneMissed
<1>4. QED
  BY Start, <1>1, <1>2, <1>3, PTL DEF Spec, ApprovalSigns

-----------------------------------------------------------------------------
(* What needs the discipline. *)

\* A squad grows only by a player who is given its team, and by one.
LEMMA SquadChanges ==
  ASSUME TypeInv, NEW u \in Users, NEW p \in Player \cup {NoPlayer},
         player' = [player EXCEPT ![u] = p], NEW t \in Teams
  PROVE  /\ Cardinality(Squad(t)) \in Nat /\ Cardinality(Squad(t)') \in Nat
         /\ player[u].team = t \/ p.team # t => Cardinality(Squad(t)') <= Cardinality(Squad(t))
         /\ Cardinality(Squad(t)') <= Cardinality(Squad(t)) + 1
<1>1. Squad(t) \subseteq Users /\ Squad(t)' \subseteq Users
  BY DEF Squad
<1>2. IsFiniteSet(Squad(t)) /\ IsFiniteSet(Squad(t)')
  BY <1>1, RosterAssumption, FS_Subset
<1>3. \A v \in Users : player'[v] = IF v = u THEN p ELSE player[v]
  BY DEF TypeInv, TypeOK
<1>4. Squad(t)' \subseteq Squad(t) \cup {u}
  BY <1>3 DEF Squad
<1>5. player[u].team = t \/ p.team # t => Squad(t)' \subseteq Squad(t)
  BY <1>3 DEF Squad
<1>6. /\ IsFiniteSet(Squad(t) \cup {u})
      /\ \/ Cardinality(Squad(t) \cup {u}) = Cardinality(Squad(t))
         \/ Cardinality(Squad(t) \cup {u}) = Cardinality(Squad(t)) + 1
  BY <1>2, FS_AddElement
<1>7. Cardinality(Squad(t)') <= Cardinality(Squad(t) \cup {u})
  BY <1>4, <1>6, FS_Subset
<1>8. player[u].team = t \/ p.team # t => Cardinality(Squad(t)') <= Cardinality(Squad(t))
  BY <1>2, <1>5, FS_Subset
<1>9. Cardinality(Squad(t)) \in Nat /\ Cardinality(Squad(t)') \in Nat
      /\ Cardinality(Squad(t) \cup {u}) \in Nat
  BY <1>2, <1>6, FS_CardinalityType
<1>10. QED
  BY <1>6, <1>7, <1>8, <1>9

LEMMA StaysOpen ==
  ASSUME TypeInv, NEW u \in Users, NEW p \in Player \cup {NoPlayer},
         player' = [player EXCEPT ![u] = p], NEW t \in Teams,
         p.team # t \/ player[u].team = t, ~Full(t)
  PROVE  ~Full(t)'
<1>1. Limit[t] = Unlimited \/ Limit[t] \in Nat
  BY RosterAssumption
<1>2. /\ Cardinality(Squad(t)) \in Nat /\ Cardinality(Squad(t)') \in Nat
      /\ Cardinality(Squad(t)') <= Cardinality(Squad(t))
  BY SquadChanges
<1>3. QED
  BY <1>1, <1>2 DEF Full, Unlimited

\* A step that writes the Player table under the discipline: the player leaves
\* his team, or is put in the handler's team, which has room for him or has him
\* already, under a number nobody else has there.
LEMMA Signing ==
  ASSUME TypeInv, Separate, serial, NEW r \in Requests, Step(r)
  PROVE  \/ player' = player
         \/ \E p \in Player \cup {NoPlayer} :
              LET j == job[r] IN
              /\ player' = [player EXCEPT ![j.user] = p]
              /\ \/ p.team = NoTeam
                 \/ /\ p.team = j.team /\ p.team \in Teams
                    /\ player[j.user].team = p.team \/ ~Full(p.team)
                    /\ NumbersGiven => p.number = NoNumber \/ (p.number = j.number /\ Free(j))
<1> DEFINE k == job[r]
           Wrote == \E p \in Player \cup {NoPlayer} :
              /\ player' = [player EXCEPT ![k.user] = p]
              /\ \/ p.team = NoTeam
                 \/ /\ p.team = k.team /\ p.team \in Teams
                    /\ player[k.user].team = p.team \/ ~Full(p.team)
                    /\ NumbersGiven => p.number = NoNumber \/ (p.number = k.number /\ Free(k))
<1>1. k \in Job /\ Active(r)
  BY Shape
<1>2. Knows(pc[r], k) /\ Fits(pc[r], k)
  BY <1>1 DEF Separate, TypeInv
<1>3. k.user \in Users /\ k.team \in Teams \cup {NoTeam} /\ k.number \in Numbers \cup {NoNumber}
      /\ k.seen \in Player \cup {NoPlayer}
  BY <1>1 DEF Job
<1>4. CASE InsertPlayer(r)
  <2> DEFINE p == [team |-> k.team, number |-> k.number, by |-> r]
  <2>1. p \in Player /\ p.team = k.team /\ p.number = k.number
    BY <1>3 DEF Player
  <2>2. player' = player \/ player' = [player EXCEPT ![k.user] = p]
    BY <1>4 DEF InsertPlayer
  <2>3. k.team = NoTeam \/ (~Full(k.team) /\ (k.number = NoNumber \/ Free(k)))
    BY <1>2, <1>4 DEF InsertPlayer, Knows
  <2> HIDE DEF p
  <2>4. QED
    BY <1>3, <2>1, <2>2, <2>3
<1>5. CASE WriteNumber(r)
  <2>1. CASE StillThere(r)
    <3> DEFINE p == [player[k.user] EXCEPT !.number = k.number]
    <3>1. k.op = "update" /\ pc[r] = "write"
      BY <1>5 DEF WriteNumber
    <3>2. k.seen # NoPlayer
      BY <1>2, <3>1 DEF Fits, Ended
    <3>3. player[k.user] \in Player
      BY <1>1, <2>1, <3>2, StillSomebody
    <3>4. p \in Player /\ p.team = player[k.user].team /\ p.number = k.number
      BY <1>3, <3>3 DEF Player
    <3>5. player' = player \/ player' = [player EXCEPT ![k.user] = p]
      BY <1>3, <1>5, <2>1 DEF WriteNumber, TypeInv, TypeOK
    <3>6. k.team = player[k.user].team /\ (k.team = NoTeam \/ k.number = NoNumber \/ Free(k))
      BY <1>2, <3>1 DEF Knows
    <3> HIDE DEF p
    <3>7. QED
      BY <1>3, <3>4, <3>5, <3>6
  <2>2. CASE ~StillThere(r)
    BY <1>5, <2>2 DEF WriteNumber
  <2>3. QED
    BY <2>1, <2>2
<1>6. CASE DeletePlayer(r)
  <2>1. player' = player \/ player' = [player EXCEPT ![k.user] = NoPlayer]
    BY <1>6 DEF DeletePlayer
  <2>2. QED
    BY <2>1 DEF NoPlayer
<1>7. CASE CommitApproval(r)
  <2>1. CASE Commits(r)
    <3> DEFINE p == Signed(r)
    <3>1. k.op = "approve" /\ pc[r] = "commit" /\ player' = [player EXCEPT ![k.user] = p]
      BY <1>2, <1>7, <2>1 DEF CommitApproval, Fits, Ended
    <3>2. k.team \in Teams
      BY <1>2, <3>1 DEF Fits, Ended
    <3>3. k.seen.number \in Numbers \cup {NoNumber}
          /\ (k.seen # NoPlayer => k.seen.by \in Requests \cup {Before})
      BY <1>3 DEF Player, NoPlayer
    <3>4. p \in Player /\ p.team = k.team
      BY <1>3, <3>2, <3>3 DEF Signed, Player
    <3>5. NumbersGiven => k.number # NoNumber /\ p.number = k.number
      BY <1>2, <3>1 DEF Knows, Signed
    <3>6. ~Full(k.team) /\ (k.number = NoNumber \/ Free(k))
      BY <1>2, <3>1, <3>2, RosterAssumption DEF Knows
    <3> HIDE DEF p
    <3>7. QED
      BY <3>1, <3>2, <3>4, <3>5, <3>6
  <2>2. CASE ~Commits(r)
    BY <1>7, <2>2 DEF CommitApproval, tables
  <2>3. QED
    BY <2>1, <2>2
<1>8. QED
  BY <1>4, <1>5, <1>6, <1>7 DEF Step, CheckNumber, ReadTeam, FindPending, InsertRequest,
     RejectRequest, CountSquad, FindPlayer, ClearOthers, Abort, Proceed, tables

\* What a handler knows survives the steps of the others.
LEMMA KnowsStays ==
  ASSUME TypeInv, KeysKept, Separate, serial, NEW r \in Requests, Step(r),
         NEW q \in Requests, q # r, Active(q),
         NEW j \in Job, j = job[q], NEW label, Knows(label, j)
  PROVE  Knows(label, j)'
<1> DEFINE k == job[r]
<1>1. Active(r) /\ k \in Job
  BY Shape
<1>2. k.user # j.user /\ k.team # j.team
  BY <1>1 DEF Separate
<1>3. k.user \in Users /\ j.user \in Users /\ j.team \in Teams \cup {NoTeam}
  BY <1>1 DEF Job
<1>4. ASSUME NEW x \in joins', x.id = j.join PROVE x \in joins
  <2>1. j.join # r
    BY <1>1 DEF KeysKept, Active, Ended
  <2>2. ASSUME NEW y \in joins, x \notin joins, y.id = x.id, y.user = x.user, y \notin joins'
        PROVE  FALSE
    <3>1. y.user = j.user /\ y.team = j.team
      BY <1>4, <2>2 DEF KeysKept
    <3>2. y.id # k.join
      BY <1>1, <1>2, <3>1 DEF KeysKept
    <3>3. CASE CommitApproval(r)
      BY <1>4, <2>2, <3>2, <3>3 DEF CommitApproval, tables
    <3>4. CASE ~CommitApproval(r)
      BY <2>2, <3>2, <3>4 DEF Step, CheckNumber, InsertPlayer, ReadTeam, WriteNumber,
        DeletePlayer, FindPending, InsertRequest, RejectRequest, Asked, CountSquad,
        FindPlayer, ClearOthers, Abort, Proceed, tables
    <3>5. QED
      BY <3>3, <3>4
  <2>3. QED
    BY <1>4, <2>1, <2>2, NewRows
<1>5. CASE player' = player
  BY <1>4, <1>5 DEF Knows, Full, Squad, Free
<1>6. ASSUME NEW p \in Player \cup {NoPlayer}, player' = [player EXCEPT ![k.user] = p],
             p.team \in {NoTeam, k.team}
      PROVE  Knows(label, j)'
  <2>1. \A u \in Users : player'[u] = IF u = k.user THEN p ELSE player[u]
    BY <1>6 DEF TypeInv, TypeOK
  <2>2. j.team # NoTeam => p.team # j.team
    BY <1>2, <1>6
  <2>3. player'[j.user] = player[j.user]
    BY <1>2, <1>3, <2>1
  <2>4. j.team # NoTeam /\ ~Full(j.team) => ~Full(j.team)'
    BY <1>3, <1>6, <2>2, StaysOpen
  <2>5. j.team # NoTeam /\ Free(j) => Free(j)'
    BY <2>1, <2>2 DEF Free
  <2>6. QED
    BY <1>4, <2>3, <2>4, <2>5 DEF Knows
<1>7. QED
  BY <1>5, <1>6, Signing

\* A handler that goes on knows what its new label stands for.
LEMMA KnowsMore ==
  ASSUME TypeInv, Separate, serial, NEW r \in Requests, Step(r),
         NEW label \in Labels \ Ended, NEW j \in Job,
         Goto(r, label), job' = [job EXCEPT ![r] = j]
  PROVE  Knows(label, j)' /\ j.team = job[r].team
<1> DEFINE k == job[r]
<1>1. k \in Job /\ Active(r)
  BY Shape
<1>2. Knows(pc[r], k) /\ Fits(pc[r], k)
  BY <1>1 DEF Separate, TypeInv
<1>3. pc'[r] = label /\ job'[r] = j
  BY DEF Goto, TypeInv, TypeOK
<1>4. ASSUME UNCHANGED tables, Knows(label, j) PROVE Knows(label, j)'
  BY <1>4 DEF tables, Knows, Full, Squad, Free
<1>5. CASE CheckNumber(r)
  <2>1. label = "write" /\ ~Taken(r) /\ j = k /\ UNCHANGED tables /\ pc[r] = "checkNumber"
    BY <1>3, <1>5 DEF CheckNumber, Proceed, Goto, TypeInv, TypeOK, Ended
  <2>2. Free(k)
    BY <2>1 DEF Taken, Free
  <2>3. Knows(label, j)
    BY <1>2, <2>1, <2>2 DEF Knows
  <2>4. QED
    BY <1>4, <2>1, <2>3
<1>6. CASE ReadTeam(r)
  <2>1. /\ job' = [job EXCEPT ![r].team = player[k.user].team] /\ UNCHANGED tables
        /\ label \in {"write", "checkNumber"}
        /\ label = "write" => player[k.user].team = NoTeam
    BY <1>3, <1>6 DEF ReadTeam, Goto, TypeInv, TypeOK, Ended
  <2>2. k.op = "update"
    BY <1>2, <1>6 DEF Fits, ReadTeam, Ended
  <2>3. k.team = player[k.user].team
    BY <1>2, <2>2 DEF Knows
  <2>4. job' = [job EXCEPT ![r] = k]
    <3>1. [k EXCEPT !.team = k.team] = k
      BY <1>1 DEF Job
    <3>2. job' = [job EXCEPT ![r] = [k EXCEPT !.team = player[k.user].team]]
      BY <2>1
    <3>. HIDE DEF k
    <3>. QED BY <2>3, <3>1, <3>2
  <2>5. j = k
    BY <1>3, <2>4 DEF TypeInv, TypeOK
  <2>6. Knows(label, j)
    BY <2>1, <2>2, <2>3, <2>5 DEF Knows
  <2>7. QED
    BY <1>4, <2>1, <2>5, <2>6
<1>7. CASE FindPending(r)
  <2>1. label = "insert" /\ j = k /\ UNCHANGED tables /\ k.op = "ask"
    BY <1>2, <1>3, <1>7 DEF FindPending, Fits, Proceed, Goto, TypeInv, TypeOK, Ended
  <2>2. Knows(label, j)
    BY <2>1 DEF Knows
  <2>3. QED
    BY <1>4, <2>1, <2>2
<1>8. CASE CountSquad(r)
  <2>1. /\ label = "findPlayer" /\ j = k /\ UNCHANGED tables /\ k.op = "approve"
        /\ ~Full(k.team)
    BY <1>2, <1>3, <1>8 DEF CountSquad, Fits, Proceed, Goto, TypeInv, TypeOK, Ended
  <2>2. Knows(label, j)
    BY <1>2, <2>1 DEF Knows
  <2>3. QED
    BY <1>4, <2>1, <2>2
<1>9. CASE FindPlayer(r)
  <2>1. /\ label = Checked(k.number) /\ UNCHANGED tables /\ k.op = "approve"
        /\ job' = [job EXCEPT ![r].seen = player[k.user]] /\ pc[r] = "findPlayer"
    BY <1>2, <1>3, <1>9 DEF FindPlayer, Fits, Goto, TypeInv, TypeOK, Ended
  <2>2. /\ j.op = k.op /\ j.user = k.user /\ j.team = k.team /\ j.number = k.number
        /\ j.join = k.join
    BY <1>1, <1>3, <2>1 DEF TypeInv, TypeOK, Job
  <2>3. Knows(label, j)
    BY <1>2, <2>1, <2>2 DEF Knows, Checked
  <2>4. QED
    BY <1>4, <2>1, <2>2, <2>3
<1>10. CASE \/ InsertPlayer(r) \/ WriteNumber(r) \/ DeletePlayer(r)
            \/ InsertRequest(r) \/ RejectRequest(r) \/ CommitApproval(r) \/ Abort(r)
  <2>1. pc'[r] \in Ended
    BY <1>10 DEF InsertPlayer, WriteNumber, DeletePlayer, InsertRequest, RejectRequest,
       CommitApproval, Abort, Proceed, Goto, TypeInv, TypeOK, Ended
  <2>2. QED
    BY <1>3, <2>1
<1>11. CASE ClearOthers(r)
  <2> DEFINE ids == {x.id : x \in Others(r)}
  <2>1. /\ label = "commit" /\ UNCHANGED tables /\ pc[r] = "write"
        /\ job' = [job EXCEPT ![r].gone = ids]
    BY <1>3, <1>11 DEF ClearOthers, Goto, TypeInv, TypeOK
  <2> HIDE DEF ids
  <2>2. /\ j.op = k.op /\ j.user = k.user /\ j.team = k.team /\ j.number = k.number
        /\ j.join = k.join
    BY <1>1, <1>3, <2>1 DEF TypeInv, TypeOK, Job
  <2>3. Knows(label, j)
    BY <1>2, <2>1, <2>2 DEF Knows, Free
  <2>4. QED
    BY <1>4, <2>1, <2>2, <2>3
<1>12. QED
  BY <1>5, <1>6, <1>7, <1>8, <1>9, <1>10, <1>11 DEF Step

LEMMA StepSeparate == TypeInv /\ KeysKept /\ Separate /\ [Next]_vars => Separate'
<1> SUFFICES ASSUME TypeInv, KeysKept, Separate, [Next]_vars PROVE Separate'
  OBVIOUS
<1>1. ASSUME NEW r \in Requests, NEW label \in Labels \ {"idle"}, NEW j \in Job,
             Goto(r, label), job' = [job EXCEPT ![r] = j], serial, serial' = serial,
             label \notin Ended =>
               /\ Knows(label, j)'
               /\ \A q \in Requests : Active(q) /\ q # r =>
                    job[q].user # j.user /\ job[q].team # j.team,
             \A q \in Requests : Active(q) /\ q # r =>
               \A k \in Job : \A l : k = job[q] /\ l = pc[q] => Knows(l, k)'
      PROVE  Separate'
  <2>1. /\ \A q \in Requests : q # r => pc'[q] = pc[q] /\ job'[q] = job[q]
        /\ pc'[r] = label /\ job'[r] = j
    BY <1>1 DEF Goto, TypeInv, TypeOK
  <2>2. \A q \in Requests : Active(q) => job[q] \in Job
    BY DEF TypeInv, Fits, Active
  <2>3. \A q \in Requests : Active(q)' => (q # r /\ Active(q)) \/ (q = r /\ label \notin Ended)
    BY <2>1 DEF Active
  <2>4. \A q, s \in Requests : Active(q)' /\ Active(s)' /\ q # s =>
          job'[q].user # job'[s].user /\ job'[q].team # job'[s].team
    BY <1>1, <2>1, <2>3 DEF Separate
  <2>5. \A q \in Requests : Active(q)' => Knows(pc[q], job[q])'
    <3>1. SUFFICES ASSUME NEW q \in Requests, Active(q)' PROVE Knows(pc[q], job[q])'
      OBVIOUS
    <3>2. CASE q # r
      <4>1. job[q] \in Job /\ Active(q)
        BY <2>2, <2>3, <3>1, <3>2
      <4>2. PICK k \in Job : k = job[q]
        BY <4>1
      <4>3. PICK l : l = pc[q]
        OBVIOUS
      <4>4. Knows(l, k)' /\ k = job'[q] /\ l = pc'[q]
        BY <1>1, <2>1, <3>2, <4>1, <4>2, <4>3
      <4>5. QED
        BY <4>4 DEF Knows
    <3>3. CASE q = r
      <4>1. Knows(label, j)' /\ pc'[q] = label /\ job'[q] = j
        BY <1>1, <2>1, <2>3, <3>1, <3>3
      <4>2. QED
        BY <4>1 DEF Knows
    <3>4. QED
      BY <3>2, <3>3
  <2>6. QED
    BY <2>4, <2>5 DEF Separate
<1>2. CASE ~serial
  <2>1. serial' = serial
    BY Arrival, Shape DEF Next, Terminated, vars
  <2>2. QED
    BY <1>2, <2>1 DEF Separate
<1>3. ASSUME serial, NEW r \in Requests, ArrivePlayers(r) \/ ArriveJoins(r)
      PROVE  Separate'
  <2>1. PICK label \in Labels \ {"idle", "commit"} : \E j \in Job :
          /\ Goto(r, label) /\ job' = [job EXCEPT ![r] = j]
          /\ Fits(label, j)
          /\ \A x \in joins : x.id = j.join => x.user = j.user /\ x.team = j.team
          /\ j.join \in Requests => pc[j.join] = "done"
          /\ label \notin Ended => Knows(label, j)
          /\ serial => \A q \in Requests : Active(q) =>
                         job[q].user # j.user /\ job[q].team # j.team
    BY <1>3, Arrival
  <2>2. PICK j \in Job :
          /\ Goto(r, label) /\ job' = [job EXCEPT ![r] = j]
          /\ label \notin Ended => Knows(label, j)
          /\ serial => \A q \in Requests : Active(q) =>
                         job[q].user # j.user /\ job[q].team # j.team
    BY <2>1
  <2>3. UNCHANGED <<tables, serial>>
    BY <1>3, Arrival
  <2>4. \A l, k : Knows(l, k) => Knows(l, k)'
    BY <2>3 DEF tables, Knows, Full, Squad, Free
  <2>5. \A q \in Requests : Active(q) => Knows(pc[q], job[q])
    BY <1>3 DEF Separate
  <2>6. QED
    BY <1>1, <1>3, <2>2, <2>3, <2>4, <2>5
<1>4. ASSUME serial, NEW r \in Requests, Step(r) PROVE Separate'
  <2>1. PICK label \in Labels \ {"idle"} : \E j \in Job :
          Goto(r, label) /\ job' = [job EXCEPT ![r] = j] /\ j.user = job[r].user
    BY <1>4, Shape
  <2>2. PICK j \in Job :
          Goto(r, label) /\ job' = [job EXCEPT ![r] = j] /\ j.user = job[r].user
    BY <2>1
  <2>3. label \notin Ended => Knows(label, j)' /\ j.team = job[r].team
    BY <1>4, <2>2, KnowsMore
  <2>4. serial' = serial /\ Active(r)
    BY <1>4, Shape
  <2>5. \A q \in Requests : Active(q) /\ q # r =>
          job[q].user # job[r].user /\ job[q].team # job[r].team
    BY <1>4, <2>4 DEF Separate
  <2>6. ASSUME NEW q \in Requests, Active(q), q # r, NEW k \in Job, NEW l,
               k = job[q], l = pc[q]
        PROVE  Knows(l, k)'
    <3>1. Knows(l, k)
      BY <1>4, <2>6 DEF Separate
    <3>2. QED
      BY <1>4, <2>6, <3>1, KnowsStays
  <2>7. QED
    BY <1>1, <1>4, <2>2, <2>3, <2>4, <2>5, <2>6
<1>5. CASE UNCHANGED vars
  BY <1>5 DEF vars, Separate, Active, Knows, Full, Squad, Free
<1>6. QED
  BY <1>2, <1>3, <1>4, <1>5 DEF Next, Terminated

LEMMA StepAll ==
  TypeInv /\ KeysKept /\ Separate /\ [Next]_vars => (TypeInv /\ KeysKept /\ Separate)'
BY StepType, StepKeys, StepSeparate

\* "Team has reached the league maximum": with requests about one team one after
\* the other, no squad outgrows maxPlayers, by whatever way its players come.
THEOREM SquadsFit == Spec => []SquadWithinLimit
<1>1. Init => SquadWithinLimit
  BY DEF Init, SquadWithinLimit
<1>2. TypeInv /\ KeysKept /\ Separate /\ SquadWithinLimit /\ [Next]_vars => SquadWithinLimit'
  <2> SUFFICES ASSUME TypeInv, KeysKept, Separate, SquadWithinLimit, [Next]_vars,
                      serial', NEW t \in Teams, Limit[t] # Unlimited
               PROVE  Cardinality(Squad(t)') <= Limit[t]
    BY DEF SquadWithinLimit, Squad
  <2>1. serial' = serial
    BY Arrival, Shape DEF Next, Terminated, vars
  <2>2. Cardinality(Squad(t)) <= Limit[t] /\ Limit[t] \in Nat
    BY <2>1, RosterAssumption DEF SquadWithinLimit
  <2>3. CASE player' = player
    BY <2>2, <2>3 DEF Squad
  <2>4. CASE player' # player
    <3>1. PICK r \in Requests : Step(r)
      BY <2>4, Arrival DEF Next, Terminated, vars, tables
    <3>2. job[r].user \in Users
      BY <3>1, Shape DEF Job
    <3>3. PICK p \in Player \cup {NoPlayer} :
            /\ player' = [player EXCEPT ![job[r].user] = p]
            /\ p.team = NoTeam \/ player[job[r].user].team = p.team \/ ~Full(p.team)
      BY <2>1, <2>4, <3>1, Signing
    <3>4. /\ Cardinality(Squad(t)) \in Nat /\ Cardinality(Squad(t)') \in Nat
          /\ player[job[r].user].team = t \/ p.team # t =>
               Cardinality(Squad(t)') <= Cardinality(Squad(t))
          /\ Cardinality(Squad(t)') <= Cardinality(Squad(t)) + 1
      BY <3>2, <3>3, SquadChanges
    <3>5. CASE player[job[r].user].team = t \/ p.team # t
      BY <2>2, <3>4, <3>5
    <3>6. CASE player[job[r].user].team # t /\ p.team = t
      <4>1. ~Full(t)
        BY <3>3, <3>6, RosterAssumption
      <4>2. QED
        BY <2>2, <3>4, <4>1 DEF Full
    <3>7. QED
      BY <3>5, <3>6
  <2>5. QED
    BY <2>3, <2>4
<1>3. QED
  BY Start, StepAll, <1>1, <1>2, PTL DEF Spec

\* "Jersey number is already taken in this team": with a number in every approval
\* and requests one after the other, two players of a team never have the same.
THEOREM NumbersUnique == ASSUME NumbersGiven PROVE Spec => []UniqueNumbers
<1>1. Init => UniqueNumbers
  BY DEF Init, UniqueNumbers
<1>2. TypeInv /\ KeysKept /\ Separate /\ UniqueNumbers /\ [Next]_vars => UniqueNumbers'
  <2> SUFFICES ASSUME TypeInv, KeysKept, Separate, UniqueNumbers, [Next]_vars, serial'
               PROVE  Distinct(player)'
    BY DEF UniqueNumbers
  <2>1. serial' = serial
    BY Arrival, Shape DEF Next, Terminated, vars
  <2>2. Distinct(player)
    BY <2>1 DEF UniqueNumbers
  <2>3. CASE player' = player
    BY <2>2, <2>3 DEF Distinct
  <2>4. CASE player' # player
    <3>1. PICK r \in Requests : Step(r)
      BY <2>4, Arrival DEF Next, Terminated, vars, tables
    <3> DEFINE k == job[r]
    <3>2. k.user \in Users
      BY <3>1, Shape DEF Job
    <3>3. PICK p \in Player \cup {NoPlayer} :
            /\ player' = [player EXCEPT ![k.user] = p]
            /\ \/ p.team = NoTeam
               \/ /\ p.team = k.team
                  /\ p.number = NoNumber \/ (p.number = k.number /\ Free(k))
      BY <2>1, <2>4, <3>1, NumbersGiven, Signing
    <3>4. \A u \in Users : player'[u] = IF u = k.user THEN p ELSE player[u]
      BY <3>3 DEF TypeInv, TypeOK
    <3>5. \A v \in Users : v # k.user /\ p.team # NoTeam /\ player[v].team = p.team =>
            player[v].number # p.number \/ p.number = NoNumber
      BY <3>3 DEF Free
    <3>6. QED
      BY <2>2, <3>4, <3>5 DEF Distinct
  <2>5. QED
    BY <2>3, <2>4
<1>3. QED
  BY Start, StepAll, <1>1, <1>2, PTL DEF Spec

\* "This request has already been processed": a request that was approved or
\* rejected keeps that status as long as it is in the table.
THEOREM DecisionsStand == Spec => DecidedOnce
<1>1. TypeInv /\ KeysKept /\ Separate /\ [Next]_vars =>
        [serial => \A x \in joins, y \in joins' :
           x.id = y.id /\ x.status # "PENDING" => y.status = x.status]_vars
  <2> SUFFICES ASSUME TypeInv, KeysKept, Separate, Next, serial,
                      NEW x \in joins, NEW y \in joins', x.id = y.id, x.status # "PENDING"
               PROVE  y.status = x.status
    OBVIOUS
  <2>1. CASE y \in joins
    BY <2>1 DEF KeysKept
  <2>2. CASE y \notin joins
    <3>1. PICK r \in Requests : Step(r)
      BY <2>2, Arrival DEF Next, Terminated, vars, tables
    <3> DEFINE k == job[r]
    <3>2. Active(r) /\ Fits(pc[r], k) /\ Knows(pc[r], k)
      BY <3>1, Shape DEF TypeInv, Separate
    <3>3. y.id # r
      BY <3>2 DEF KeysKept, Active, Ended
    <3>4. CASE InsertRequest(r)
      BY <2>2, <3>3, <3>4 DEF InsertRequest
    <3>5. CASE RejectRequest(r)
      <4>1. k.op = "reject"
        BY <3>2, <3>5 DEF RejectRequest, Fits, Ended
      <4>2. PICK z \in joins : z.id = k.join /\ y = [z EXCEPT !.status = "REJECTED"]
        BY <2>2, <3>5 DEF RejectRequest, Asked
      <4>3. z.id = y.id
        BY <4>2 DEF TypeInv, TypeOK, JoinRequest
      <4>4. x.id = k.join
        BY <4>2, <4>3
      <4>5. QED
        BY <3>2, <4>1, <4>4 DEF Knows
    <3>6. CASE CommitApproval(r)
      <4>1. k.op = "approve" /\ y.id = k.join
        BY <2>2, <3>2, <3>6 DEF CommitApproval, Fits, Ended, tables
      <4>2. QED
        BY <3>2, <4>1 DEF Knows
    <3>7. QED
      BY <2>2, <3>1, <3>4, <3>5, <3>6 DEF Step, CheckNumber, InsertPlayer, ReadTeam,
         WriteNumber, DeletePlayer, FindPending, CountSquad, FindPlayer, ClearOthers,
         Abort, Proceed, tables
  <2>3. QED
    BY <2>1, <2>2
<1>2. QED
  BY Start, StepAll, <1>1, PTL DEF Spec, DecidedOnce
=============================================================================
