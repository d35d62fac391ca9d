------------------------------ MODULE MCSeason ------------------------------
(* Instances of Season. *)
EXTENDS Season, TLC

CONSTANTS l1, l2, t1, t2, t3

InL1(s) == [league |-> l1, status |-> s]
MCMaxTeams == [l \in Leagues |-> 2]
Double == {1, 2}
Single == {1}

\* Nothing is made by hand; a match of a team that is not approved is.
NothingByHand == {}
OneByHand == [pair : {{t1, t3}}, state : {"SCHEDULED"}]

Starting(leagues, teams, regimes) ==
  [status : {leagues}, team : [Teams -> teams], serial : regimes]

\* Registration, of some teams approved already.
OneAfterAnother ==
  Starting(l1 :> "REGISTRATION", {InL1("APPROVED"), InL1("PENDING")}, {TRUE})

\* A second league is still to come, and requests follow each other; or one
\* league is all there is, and requests overlap.
EitherWay ==
  Starting(l1 :> "REGISTRATION" @@ l2 :> "ABSENT",
           {InL1("APPROVED"), NoTeam("ABSENT")}, {TRUE})
    \cup Starting(l1 :> "REGISTRATION" @@ l2 :> "REMOVED",
                 {InL1("APPROVED"), NoTeam("ABSENT")}, {FALSE})

SymmetricRequests == Permutations(Requests)
=============================================================================
