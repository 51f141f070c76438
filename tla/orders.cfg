SPECIFICATION Spec
CONSTANTS
  Ids = {o1, o2}
  One = 100
  Tick = 2
  Lot = 2
  MinQuantity = 4
  Cross = 25
  Headroom = 60
  OrderLife = 300
  Margin = 5
  Expiry = 360
  Asked = {3, 5}
  Times = {0, 300, 355, 359, 361}
  Elsewhere <- Others
  Balances = {0}
  None = None
  Books <- FewBooks
SYMMETRY Symmetry
CHECK_DEADLOCK FALSE
INVARIANTS
  TypeOK
  PriceIsBounded
  OrderOutlivesNothing
PROPERTIES
  CreditIsBacked
