SPECIFICATION Spec
CONSTANTS
  Users = {u1, u2}
  Ratings = {1000, 1200}
  BatchSize = 1
  MaxResults = 2
  MaxInFlight = 2
  MaxFailures = 0
  None = None
SYMMETRY Symmetry
INVARIANT SyncFollowsRating
