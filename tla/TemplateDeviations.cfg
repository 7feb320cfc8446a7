CONSTANTS
  Items = {"i1"}
  Corps = "corps"
  Texts = {"plain", "special"}
  Titles = {"t1", "t2"}
  Special = {"special"}
  MaxEditions = 2
  MaxIssued = 1
SPECIFICATION TemplatesSpec
INVARIANTS
  UntouchedShowsNoDeviation
  PreviewIsIssued
  PublishedIsUsable
CHECK_DEADLOCK FALSE
