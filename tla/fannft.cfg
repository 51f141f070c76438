SPECIFICATION FairSpec
CONSTANTS
  Users = {u1, u2}
  Ratings = {999, 1000, 1200}
  BatchSize = 1
  MaxResults = 3
  MaxInFlight = 2
  MaxFailures = 3
  None = None
INVARIANTS
  TypeOK
  OneTokenPerWallet
  ProfileShowsChain
  MirrorsRating
PROPERTIES
  EveryFlagClears
