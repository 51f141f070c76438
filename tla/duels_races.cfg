SPECIFICATION SeededSpec
CONSTANTS
  Users = {"ann", "bob", "cho"}
  Markets = {"m1", "m2"}
  Predictions = {"p1", "p2", "p3", "p4"}
  Requests = {r1, r2}
  None = None
  Scenarios <- Races
SYMMETRY RequestSymmetry
INVARIANTS
  OnlyTheWinnerOfTheRaceLocks
  ResultsCountedOnce
  WinnerWasRight
  ExpiredIsUnchallenged
  RecordIsExplained
PROPERTIES
  NoDuelIsListedAgain
  EveryStepIsOfBout
