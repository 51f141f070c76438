SPECIFICATION ViewedSpec
CONSTANTS
  Users = {u1, u2}
  Markets = {m1}
  Predictions = {p1, p2}
  Requests = {r1}
  None = None
INVARIANTS
  TypeOK
  DuelIsOpposed
PROPERTIES
  EveryCallIsSeenToEnd
