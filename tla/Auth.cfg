SPECIFICATION Spec
CONSTANTS
  e1 = e1
  e2 = e2
  i1 = i1
  p1 = p1
  p2 = p2
  g1 = g1
  o1 = o1
  o2 = o2
  r1 = r1
  r2 = r2
  r3 = r3
  Emails = {e1, e2}
  Passwords = {p1, p2}
  GoogleIds = {g1}
  IPs = {i1}
  Requests = {r1, r2, r3}
  OldTokens = {o1, o2}
  AskedRoles = {"player", "coach"}
  InitialAccounts <- SmallTables
  OwnerOf <- SmallOwners
  Max <- SmallMax
  Menus <- SmallMenus
  Regimes <- Both
  MaxEvents = 2
INVARIANTS TypeOK FailuresCounted LockEarned TwoFactorUsable GoogleLinked
PROPERTIES TokenSpentOnce ResetCurrent
SYMMETRY Renamed
