CONSTANTS
  u1 = u1
  u2 = u2
  Users = {u1, u2}
  Offers <- MCOffers
  Followed <- MCFollowed
  Catalog <- MCCatalog
  Measured <- MCMeasured
  Sheets <- MCSheets
  Periods <- MCPeriods
  Concessions <- MCConcessions
  AllSettings <- MCSettings
  Starts = {1, 3}
  Horizon = 4
  Anniversary = 2
  MaxSchedules = 2
  MaxOverrides = 1
SPECIFICATION Spec
SYMMETRY Symmetry
INVARIANTS
  QuoteAgrees
  SnapshotReplays
  SignedPriceIsBilled
  AppliedIsBacked
PROPERTIES
  EngagingKeepsThePast
CHECK_DEADLOCK FALSE
