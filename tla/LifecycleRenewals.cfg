CONSTANTS
  n1 = n1
  n2 = n2
  a1 = a1
  MaxDay = 4
  Notice = 1
  Period = 1
  CatchUp = 2
  Successors = {n1, n2}
  Amendments = {}
  NoContract = NoContract
SPECIFICATION Spec
SYMMETRY Symmetry
INVARIANTS
  PeriodsCoverTerm
PROPERTIES
  AcceptedRenewalCounts
CHECK_DEADLOCK FALSE
