SPECIFICATION Spec
CONSTANTS
  Flows = {f1, f2}
  Predictions = {p1, p2}
  Accounts = {a1, a2}
  Detours = 2
  None = None
SYMMETRY Symmetry
CHECK_DEADLOCK FALSE
INVARIANTS
  TypeOK
  ConfirmedOrderIsOwn
  OrderNeedsAllowance
  StepHasFlow
