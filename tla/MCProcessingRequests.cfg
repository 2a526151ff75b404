SPECIFICATION RSpec
CONSTANTS
  Skills = {k1}
  Tasks = {t1, t2}
  MaxEdits = 1
  Patient = FALSE
  Outages = FALSE
  Requests = {q1, q2}
CHECK_DEADLOCK FALSE
INVARIANTS
  NeverOrphaned
PROPERTIES
  Settles
