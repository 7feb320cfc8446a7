CONSTANTS
  Months = {"E00", "E12"}
  Amounts = {"p", "q"}
  EmptyCell = "-"
  LastDay = 2
  MaxEntries = 3
SPECIFICATION GridSpec
INVARIANTS
  ExportReplays
  EveryPriceHolds
CHECK_DEADLOCK FALSE
