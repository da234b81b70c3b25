SPECIFICATION Spec
CONSTANTS
  p1 = p1
  p2 = p2
  c1 = c1
  c2 = c2
  Procs = {p1, p2}
  Codes = {c1, c2}
  Stops <- MCStops
  Prices = {80, 86}
  MaxDay = 2
  MaxRuns = 3
  Null = Null
SYMMETRY Symmetry
INVARIANTS
  NothingUnreported
  OncePerLevelAndDay
CHECK_DEADLOCK FALSE
