CONSTANTS
  Prompts <- SomePrompts
  Fold <- Lower
  KnownNames <- Names
  KnownIds = {"111222333"}
SPECIFICATION AiSpec
INVARIANTS
  GuardIsSilent
  AnswerRestoredAsTyped
CHECK_DEADLOCK FALSE
