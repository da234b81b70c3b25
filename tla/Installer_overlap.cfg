SPECIFICATION Spec
CONSTANTS
  p1 = p1
  p2 = p2
  r1 = r1
  r2 = r2
  Procs = {p1, p2}
  Releases = {r1, r2}
  NumSkills = 1
  NumTargets = 2
  Old = Old
  Null = Null
SYMMETRY Symmetry
INVARIANTS
  AllOrNothing
  TornAtOnePlace
  LinksResolve
PROPERTIES
  NothingLost
CHECK_DEADLOCK FALSE
