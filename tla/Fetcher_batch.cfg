SPECIFICATION FairSpec
CONSTANTS
  p1 = p1
  p2 = p2
  c1 = c1
  c2 = c2
  Procs = {p1}
  Batch = {c1, c2}
  Tries = 2
  Fresh = 0
  MaxTime = 2
  Null = Null
INVARIANTS
  RowsAreOfOneCode
PROPERTIES
  SummaryIsTrue
  EveryRunEnds
CHECK_DEADLOCK FALSE
