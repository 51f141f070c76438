SPECIFICATION SeededSpec
CONSTANTS
  Users = {"ann", "bob", "cho", "dee"}
  Markets = {"m1", "m2"}
  Predictions = {"p1", "p2", "p3", "p4"}
  Requests = {r1, r2}
  Confidences = {55, 70, 85}
  MinEntrants = 2
  None = None
  Scenarios <- Everything
SYMMETRY RequestSymmetry
INVARIANTS
  EntriesMatchPredictions
  LockedHasQuorum
  RankedByConviction
  ResultsCountedOnce
  ResolvedListIsRanked
