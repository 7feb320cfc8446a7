CONSTANTS
  u1 = u1
  u2 = u2
  r1 = r1
  r2 = r2
  Users = {u1, u2}
  Requests = {r1}
  NoUser = NoUser
  MaxVersions = 3
  MaxApprovals = 3
  Editors = {"e1"}
  Keys = {"c1", "c2"}
  Bodies = {"plain", "open"}
  Open = {"open"}
  NoBody = "-"
  MaxDrafts = 3
  Items = {"i1", "i2"}
  Corps = "corps"
  Texts = {"plain", "special"}
  Titles = {"t1"}
  Special = {"special"}
  MaxEditions = 2
  MaxIssued = 1
  Kinds = {"k1", "k2"}
  System = {"k1"}
  KindPrefixes = {"P", "Q"}
  NoPrefix = "-"
  Desk = {"d1", "d2"}
  MaxNumber = 2
  Months = {"E00", "E12"}
  Amounts = {"p", "q"}
  EmptyCell = "-"
  LastDay = 3
  MaxEntries = 3
  Contracts = {"c1", "c2", "lone"}
  Tenants = {"t1", "t2"}
  TenantOf <- TwoTenants
  Writers = {"p1", "p2"}
  Nobody = "nobody"
  Starts = {"PENDING_SIGNATURE"}
  Followed = {"SIGNER_SIGNED", "ACTIVATE"}
  Births = {"IMPORT"}
  MaxOpened = 3
  MaxMoves = 2
  Prompts <- SomePrompts
  Fold <- Lower
  KnownNames <- Names
  KnownIds = {"111222333"}
  Callers = {"a1", "a2"}
  Configured = {"perplexity"}
  Limits = {1}
  MaxCost = 1
  MaxMonth = 2
  MaxSpent = 4
SPECIFICATION DocumentsSpec
INVARIANTS
  ApprovedVersionReviewed
  PresentedIsApproved
  IssuedAsPublished
  CodesDesignate
  EnteredPriceHolds
  ChainVerifies
  JournalReplays
  NothingKnownLeaves
  AnswerRestored
  OverspendingBounded
PROPERTIES
  SubmittedIsReviewed
CHECK_DEADLOCK FALSE
