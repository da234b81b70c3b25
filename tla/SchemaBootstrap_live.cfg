SPECIFICATION FairSpec
CONSTANTS
  p1 = p1
  p2 = p2
  v = v
  Procs = {p1, p2, v}
  Veterans = {v}
  Null = Null
  LockFiles = {"tmp", "private"}
  LockOf <- VeteranApart
  NumColumns = 3
  HoldingsColumns <- MCHoldingsColumns
  LegacyRows = {r1, r2}
  Flagged = {r1}
  NewRows = {n1}
  MaxCrashes = 2
INVARIANTS
  NoBootstrapFails
  RecordedIsApplied
  MigratedWhenReady
  BackfilledOnce
PROPERTIES
  EventuallyReady
  NoRowLost
