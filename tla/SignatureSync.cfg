CONSTANTS
  s1 = s1
  s2 = s2
  w1 = w1
  w2 = w2
  MaxRequests = 1
  MaxVersions = 1
  Signers = {s1, s2}
  NoSigner = NoSigner
  Workers = {w1}
  Sources = {"webhook", "reconcile"}
  Kinds = {"FORM_VIEWED", "FORM_COMPLETED", "FORM_DECLINED", "SUBMISSION_COMPLETED", "SUBMISSION_EXPIRED"}
  Faults = {"timeout"}
  Overlap = FALSE
SPECIFICATION FairSpec
PROPERTIES
  SignedStaysSigned
  SyncCatchesUp
CHECK_DEADLOCK FALSE
