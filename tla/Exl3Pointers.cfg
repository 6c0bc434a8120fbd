SPECIFICATION Spec
CONSTANTS
  NumExperts = 2
  Ks = {3, 4, 5}
  Uneven = {0, 1}
  MaxBudget = 1
INVARIANTS PointersLive
