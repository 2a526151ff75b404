SPECIFICATION Spec
CONSTANTS
  Skills = {k1, k2}
  Tasks = {t1, t2}
  MaxEdits = 2
  Patient = TRUE
  Outages = TRUE
SYMMETRY Symmetry
CHECK_DEADLOCK FALSE
INVARIANTS
  OneResolution
  OneWorker
PROPERTIES
  OverridesKept
