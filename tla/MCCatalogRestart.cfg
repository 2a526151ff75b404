SPECIFICATION FairSpec
CONSTANTS
  Skills = {k1, k2}
  Inactive = {}
  MaxTotal = 3
  Extractions <- Plain
  Mappings <- AmbiguousOrNot
  MaxTransitions = 11
  MayFail = TRUE
  MaxRefused = 0
  MaxRestarts = 1
CHECK_DEADLOCK FALSE
INVARIANTS
  CompletedIsStored
  QuestionIsOpen
PROPERTIES
  StoredOnce
  Settles
