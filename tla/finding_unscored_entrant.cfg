SPECIFICATION SeededSpec
CONSTANTS
  Users = {"ann", "bob", "cho"}
  Markets = {"m1"}
  Predictions = {"p1", "p2", "p3"}
  Requests = {r1, r2}
  Confidences = {70}
  MinEntrants = 2
  None = None
  Scenarios <- LateEntry
SYMMETRY RequestSymmetry
INVARIANTS
  ResolvedScoresAllEntrants
