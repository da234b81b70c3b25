SPECIFICATION Spec
CONSTANTS
  p1 = p1
  p2 = p2
  Procs = {p1, p2}
  Null = Null
  MaxLots = 2
  MaxConditions = 3
  MaxTheses = 2
  MaxNew = 2
SYMMETRY Symmetry
INVARIANTS
  ContractIsCurrent
  NoVacuum
PROPERTIES
  OnlyCurrentActs
