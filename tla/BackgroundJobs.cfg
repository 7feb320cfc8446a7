CONSTANTS
  w1 = w1
  w2 = w2
  Workers = {w1, w2}
  MaxJobs = 2
  JobAttempts = 2
  OcrAttempts = 2
  MaxFaults <- FaultBound
  MaxChanges <- ChangeBound
SPECIFICATION FairSpec
PROPERTIES
  ProofNotForgotten
  OcrSettles
  AlertSettles
CHECK_DEADLOCK FALSE
