SPECIFICATION MCSpec
CONSTANTS
  Requests = {q1}
  TwoSpellings = FALSE
  None = None
  Sources <- MCSources
  MaxSaveAttempts = 2
  MaxOthers = 2
INVARIANTS
  DerivedColumns
  TeamsFeasible
  NobodyStranded
PROPERTIES
  ArtifactsKept
