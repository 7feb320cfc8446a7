CONSTANTS
  n1 = n1
  n2 = n2
  a1 = a1
  MaxDay = 2
  Notice = 1
  Period = 1
  CatchUp = 1
  Successors = {n1}
  Amendments = {}
  NoContract = NoContract
SPECIFICATION Spec
PROPERTIES
  RenewedNotProlonged
CHECK_DEADLOCK FALSE
