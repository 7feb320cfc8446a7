CONSTANTS
  n1 = n1
  n2 = n2
  a1 = a1
  MaxDay = 2
  Notice = 1
  Period = 1
  CatchUp = 1
  Successors = {}
  Amendments = {a1}
  NoContract = NoContract
SPECIFICATION Spec
PROPERTIES
  AmendmentKeepsTerm
CHECK_DEADLOCK FALSE
