CONSTANTS
  u1 = u1
  u2 = u2
  r1 = r1
  r2 = r2
  Users = {u1, u2}
  Requests = {r1, r2}
  NoUser = NoUser
  MaxVersions = 2
  MaxApprovals = 2
SPECIFICATION Spec
INVARIANTS
  ApprovedVersionReviewed
CHECK_DEADLOCK FALSE
