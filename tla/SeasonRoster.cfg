SPECIFICATION Spec
CONSTANTS
  l1 = l1
  l2 = l2
  t1 = t1
  t2 = t2
  t3 = t3
  NoLeague = NoLeague
  NoOne = NoOne
  Leagues = {l1, l2}
  Teams = {t1, t2}
  Requests = {r1, r2, r3}
  MaxTeams <- MCMaxTeams
  Legs <- Single
  HandMade <- NothingByHand
  Starts <- EitherWay
  Failures = TRUE
  UncheckedStatus = TRUE
  RosterFrozen = FALSE
  ForwardOnly = FALSE
INVARIANTS
  FixturesOnce
PROPERTIES
  PlayedKept
  ApprovedStay
SYMMETRY SymmetricRequests
