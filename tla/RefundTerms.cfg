SPECIFICATION Spec
CONSTANTS
  e1 = e1
  e2 = e2
  Editors = {e1, e2}
  Thresholds = {0, 2}
  Rates = {0, 40}
  Submitted <- MCSubmitted
  Farthest = 2
  MovesDeparture = TRUE
SYMMETRY Symmetry
INVARIANTS
  TermsWereInForce
PROPERTIES
  RateOnlyFalls
