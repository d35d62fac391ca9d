SPECIFICATION Spec
CONSTANTS
  Requests = {r1, r2, r3}
  Streams = {s1, s2}
  MaxCrashes = 1
  Regimes <- Both
INVARIANTS
  TypeOK
  LeaksOnlyEarly
PROPERTIES
  NeverBack
  CatchesUp
