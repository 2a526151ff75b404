SPECIFICATION MCSpec
CONSTANTS
  Edits = {q1, q2}
  Items = {1, 2}
  MaxRows = 3
  Applications = {q1, q2}
  e1 = e1
  e2 = e2
  Emails = {e1, e2}
  Cohort <- MCCohort
  MaxImports = 2
CHECK_DEADLOCK FALSE
INVARIANTS
  ResumesReadable
  NothingLeftBehind
PROPERTIES
  RemovedStaysRemoved
