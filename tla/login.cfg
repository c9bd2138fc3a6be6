SPECIFICATION LoginSpec
CONSTANTS
  Addresses = {a1, a2, a3}
  RateMax = 2
  Window = 3
  Threshold = 1
  Second = 2
  MaxAge = 3
  MaxTime = 5
  MaxRuns = 2
SYMMETRY MCSymmetry
INVARIANTS
  SessionServes
PROPERTIES
  ImplementsLimit
  TableBounded
