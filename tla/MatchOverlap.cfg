SPECIFICATION Spec
CONSTANTS
  A = A
  B = B
  C = C
  m1 = m1
  m2 = m2
  NoPlayer = NoPlayer
  Teams <- MCTeams
  Matches <- MCMatches
  Players = {p1}
  Requests = {r1, r2, r3}
  Home <- MCHome
  Away <- MCAway
  UpdateDtos <- SomeUpdates
  EventDtos <- OneGoal
  NewRows <- NoRows
  InitialRows <- PlayedRows
  LedgerRows <- MCLedgerRows
  SerialPerMatch = FALSE
  Failures = TRUE
  LateGoals = TRUE
  TableInitialised = TRUE
INVARIANTS
  OneStandingPerTeam
  TableBalanced
  RowArithmetic
  PlayerTally
SYMMETRY SymmetricRequests
