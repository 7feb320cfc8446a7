CONSTANTS
  Contracts = {"c1"}
  Tenants = {"t1"}
  TenantOf <- TwoTenants
  Writers = {"p1", "p2"}
  Nobody = "nobody"
  Starts = {"SIGNED"}
  Followed = {"ACTIVATE", "TERMINATE", "WITHDRAW_TERMINATION"}
  Births = {}
  MaxOpened = 3
  MaxMoves = 1
SPECIFICATION LogSpec
INVARIANTS
  PublishedOnlyIfChanged
  NoTransitionEscapes
CHECK_DEADLOCK FALSE
