SPECIFICATION Spec
CONSTANTS
  Skills = {k1}
  Tasks = {t1, t2}
  MaxEdits = 1
  Patient = TRUE
  Outages = TRUE
CHECK_DEADLOCK FALSE
INVARIANT Recoverable
