SPECIFICATION Spec
CONSTANTS
  A = A
  B = B
  C = C
  m1 = m1
  m2 = m2
  NoPlayer = NoPlayer
  Teams <- MCTeams
  Matches <- MCMatches
  Players = {p1}
  Requests = {r1, r2}
  Home <- MCHome
  Away <- MCAway
  UpdateDtos <- MCUpdateDtos
  EventDtos <- GoalDtos
  NewRows <- NoRows
  InitialRows <- OpenRows
  LedgerRows <- MCLedgerRows
  SerialPerMatch = TRUE
  Failures = FALSE
  LateGoals = FALSE
  TableInitialised = TRUE
PROPERTIES
  ImplementsLedger
