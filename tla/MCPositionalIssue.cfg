SPECIFICATION Spec
CONSTANTS
  Skills = {k1, k2}
  Inactive = {}
  MaxTotal = 5
  Extractions <- ThreeStated
  Mappings <- AmbiguousOrNot
  MaxTransitions = 30
  MayFail = FALSE
  MaxRefused = 0
  MaxRestarts = 0
CHECK_DEADLOCK FALSE
INVARIANTS
  ExhaustedWasTried
