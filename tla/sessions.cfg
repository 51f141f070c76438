SPECIFICATION FairSpec
CONSTANTS
  Tabs = {t1}
  SignIns = {s1, s2}
  Requests = {r1, r2}
  Accounts = {a1, a2}
  Nonces = {n1, n2}
  None = None
CHECK_DEADLOCK FALSE
INVARIANTS
  TypeOK
  NonceLogsInOnce
PROPERTIES
  EverySignInEnds
