SPECIFICATION Spec
CONSTANTS
  c1 = c1
  c2 = c2
  c3 = c3
  Clients = {c1, c2, c3}
  Quotas = {0, 50}
  Step = 20
  Figures = {30}
  Admin = TRUE
  MaxHandled = 4
SYMMETRY Symmetry
INVARIANTS
  UsageBounded
  ChargedAtMostOnce
CHECK_DEADLOCK FALSE
