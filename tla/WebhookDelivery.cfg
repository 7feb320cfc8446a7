CONSTANTS
  d1 = d1
  d2 = d2
  p1 = p1
  p2 = p2
  a1 = a1
  Deliveries = {d1}
  Passes = {p1, p2}
  Desks = {a1}
  MaxAttempts = 3
  Threshold = 2
  MaxRedeliver = 2
  MaxCrashes = 1
SPECIFICATION LiveSpec
INVARIANTS
  ActiveBelowThreshold
PROPERTIES
  DeliveredStays
  Settles
CHECK_DEADLOCK FALSE
