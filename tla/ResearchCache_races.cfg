SPECIFICATION Spec
CONSTANTS
  p1 = p1
  p2 = p2
  s1 = s1
  s2 = s2
  Procs = {p1, p2}
  Null = Null
  Scores = {s1, s2}
  Flags = {"red"}
  DayLength = 2
  Ttl = 1
  AnalysisAge = 1
  QuoteAge = 1
  Retention = 1
  ReviewAfter = 1
  MaxTime = 2
  MaxPeriod = 2
  MaxQuotes = 3
  MaxCommands = 4
SYMMETRY Symmetry
PROPERTIES
  EvidenceSurvivesRefresh
  LatestNeverRegresses
  OnlyRacesTear
  FlagsNotLost
  FreshSurvivesCleanup
CHECK_DEADLOCK FALSE
