CONSTANTS
  s1 = s1
  s2 = s2
  w1 = w1
  w2 = w2
  MaxRequests = 2
  MaxVersions = 2
  Signers = {s1, s2}
  NoSigner = NoSigner
  Workers = {w1}
  Sources = {"webhook"}
  Kinds = {"FORM_COMPLETED", "FORM_DECLINED", "SUBMISSION_COMPLETED", "SUBMISSION_EXPIRED"}
  Faults = {"crash", "rerender", "refusal"}
  Overlap = FALSE
SPECIFICATION Spec
SYMMETRY Symmetry
INVARIANTS
  OneLiveSubmission
  SignedByAll
  Converged
  CompletedIsSigned
PROPERTIES
  RequestsRefined
CHECK_DEADLOCK FALSE
