CONSTANTS
  u1 = u1
  u2 = u2
  p1 = p1
  c1 = c1
  c2 = c2
  client = client
  lsi = lsi
  MaxVersions = 1
  MaxSnapshots = 1
  MaxRequests = 1
  Users = {u1}
  Recipients = {p1}
  Calls = {c1}
  Parties = {client, lsi}
  Faults = {}
  JobQueue = TRUE
  MaxRuns = 2
  Overlap = FALSE
  SignedIsContract = TRUE
SPECIFICATION FairSpec
PROPERTIES
  SignedIsConverted
CHECK_DEADLOCK FALSE
