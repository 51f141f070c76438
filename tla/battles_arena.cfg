SPECIFICATION HubSpec
CONSTANTS
  Users = {u1, u2}
  Markets = {m1}
  Predictions = {p1, p2}
  Requests = {r1}
  Confidences = {60}
  MinEntrants = 1
  None = None
INVARIANTS
  TypeOK
PROPERTIES
  ImplementsFairArena
  EveryCardMovesOn
