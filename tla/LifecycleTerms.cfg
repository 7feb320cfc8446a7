CONSTANTS
  n1 = n1
  n2 = n2
  a1 = a1
  MaxDay = 3
  Notice = 1
  Period = 1
  CatchUp = 1
  Successors = {}
  Amendments = {a1}
  NoContract = NoContract
SPECIFICATION FairSpec
PROPERTIES
  TerminationFreezesTerm
  SettledInTime
CHECK_DEADLOCK FALSE
