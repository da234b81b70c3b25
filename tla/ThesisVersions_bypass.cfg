SPECIFICATION Spec
CONSTANTS
  p1 = p1
  p2 = p2
  Procs = {p1}
  Null = Null
  MaxLots = 1
  MaxConditions = 2
  MaxTheses = 1
  MaxNew = 1
INVARIANTS
  NoUnversionedUnderThesis
