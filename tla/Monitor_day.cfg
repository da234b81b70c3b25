SPECIFICATION Spec
CONSTANTS
  None = None
  c1 = c1
  c2 = c2
  Codes = {c1, c2}
  Candidate <- MCCandidate
  RuleReviewAfter = 0
  Ttl = 1
  ReportDay = 2
  MaxDay = 2
  MaxOdd = 1
  EvidenceWithin <- MCEvidenceWithin
  StatementsWithin <- MCStatementsWithin
  Reviews <- MCReviews
  MaxOddInputs = 2
  InputsWithin <- MCInputsWithin
  PositionLimit = 2
SYMMETRY Symmetry
INVARIANTS PayloadAccepted ScoreIsEarned OnlyNamelessRefused ConclusionIsEarned
PROPERTY NoBreachClears
