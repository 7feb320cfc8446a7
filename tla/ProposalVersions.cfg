CONSTANTS
  u1 = u1
  u2 = u2
  p1 = p1
  c1 = c1
  c2 = c2
  client = client
  lsi = lsi
  MaxVersions = 2
  MaxSnapshots = 1
  MaxRequests = 2
  Users = {u1, u2}
  Recipients = {p1}
  Calls = {c1}
  Parties = {client, lsi}
  Faults = {"refusal"}
  JobQueue = TRUE
  MaxRuns = 2
  Overlap = FALSE
  SignedIsContract = FALSE
SPECIFICATION Spec
SYMMETRY Symmetry
INVARIANTS
  DecisionOnCurrent
  LinksToCurrent
  SentAiWasRead
  OneSubmissionPerSnapshot
CHECK_DEADLOCK FALSE
