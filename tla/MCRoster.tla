------------------------------ MODULE MCRoster ------------------------------
(* Instances of Roster. *)
EXTENDS Roster, TLC

CONSTANTS A, B, q1, q2

MCLimit == A :> 1 @@ B :> Unlimited
NoLimits == [t \in Teams |-> Unlimited]
Row(t, n) == [team |-> t, number |-> n, by |-> Before]

\* No player yet, a player without a team, and a signed one.
MCPlayers == {NoPlayer, Row(NoTeam, 7), Row(B, 7)}
NoPlayers == {NoPlayer}

\* Nobody has asked yet, or someone asks A again after a rejection.
Ask(q, u, status) == [id |-> q, user |-> u, team |-> A, status |-> status]
MCJoins == {{}} \cup {{Ask(q1, u, "REJECTED"), Ask(q2, u, "PENDING")} : u \in Users}
NoJoins == {{}}

Both == {TRUE, FALSE}
OnlySerial == {TRUE}

Symmetric == Permutations(Requests) \cup Permutations(Users)
=============================================================================
