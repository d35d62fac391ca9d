SPECIFICATION Spec
CONSTANTS
  l1 = l1
  l2 = l2
  t1 = t1
  t2 = t2
  t3 = t3
  NoLeague = NoLeague
  NoOne = NoOne
  Leagues = {l1}
  Teams = {t1, t2, t3}
  Requests = {r1, r2, r3, r4, r5}
  MaxTeams <- MCMaxTeams
  Legs <- Double
  HandMade <- OneByHand
  Starts <- OneAfterAnother
  Failures = TRUE
  UncheckedStatus = FALSE
  RosterFrozen = TRUE
  ForwardOnly = TRUE
INVARIANTS
  TypeOK
  CapacityRespected
  SeasonReady
SYMMETRY SymmetricRequests
