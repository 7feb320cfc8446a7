CONSTANTS
  Editors = {"e1", "e2"}
  Keys = {"c1", "c2"}
  Bodies = {"plain"}
  Open = {}
  NoBody = "-"
  MaxDrafts = 3
SPECIFICATION ContentSpec
PROPERTIES SubmittedIsReviewed
CHECK_DEADLOCK FALSE
