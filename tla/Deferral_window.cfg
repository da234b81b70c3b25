SPECIFICATION FairSpec
CONSTANTS
  u1 = u1
  u2 = u2
  c1 = c1
  c2 = c2
  Users = {u1}
  Cron = {c1, c2}
  Notify <- MCNotify
  Stops = {1, 2}
  Prices = {1, 2}
  Window = 2
  MaxTime = 3
  Null = Null
INVARIANTS
  NoEarlyAction
  MonitorNeverAhead
  NoSilentRun
PROPERTIES
  DeadlineKept
  LockIsFreed
