SPECIFICATION Spec
CONSTANTS
  Skills = {k1, k2, k3}
  Inactive = {k3}
  MaxTotal = 3
  Extractions <- Varied
  Mappings <- AllMappings
  MaxTransitions = 20
  MayFail = TRUE
  MaxRefused = 1
  MaxRestarts = 0
CHECK_DEADLOCK FALSE
INVARIANTS
  ArtifactsFresh
  StoredIsSound
  RecoveryBounded
  LimitNeedsRefusals
