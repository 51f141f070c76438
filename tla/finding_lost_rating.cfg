SPECIFICATION SeededSpec
CONSTANTS
  Users = {"ann", "bob"}
  Markets = {"m1", "m2"}
  Predictions = {"p1", "p2", "p3", "p4"}
  Requests = {}
  Confidences = {55, 70, 85}
  MinEntrants = 2
  None = None
  Scenarios <- Twice
INVARIANTS
  RatingReflectsResults
