SPECIFICATION Spec
CONSTANTS
  u1 = u1
  u2 = u2
  c1 = c1
  c2 = c2
  Users = {u1, u2}
  Cron = {c1}
  Notify <- MCNotify
  Stops = {1, 2}
  Prices = {1, 2, 3}
  Window = 1
  MaxTime = 2
  Null = Null
PROPERTIES
  StartKept
