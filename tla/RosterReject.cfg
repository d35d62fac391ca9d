SPECIFICATION Spec
CONSTANTS
  A = A
  B = B
  q1 = q1
  q2 = q2
  OldIds = {q1, q2}
  NoTeam = NoTeam
  Teams = {A}
  Users = {u1}
  Numbers = {7}
  Requests = {r1, r2, r3, r4}
  Limit <- NoLimits
  InitialPlayers <- NoPlayers
  InitialJoins <- NoJoins
  Regimes <- OnlySerial
  NumbersGiven = TRUE
PROPERTY
  RejectionWorks
