SPECIFICATION Spec
CONSTANTS
  A = A
  B = B
  q1 = q1
  q2 = q2
  OldIds = {q1, q2}
  NoTeam = NoTeam
  Teams = {A, B}
  Users = {u1, u2}
  Numbers = {7}
  Requests = {r1, r2, r3}
  Limit <- MCLimit
  InitialPlayers <- MCPlayers
  InitialJoins <- MCJoins
  Regimes <- Both
  NumbersGiven = TRUE
INVARIANTS
  TypeOK
  SquadWithinLimit
  UniqueNumbers
PROPERTIES
  ApprovalSigns
  DecidedOnce
SYMMETRY Symmetric
