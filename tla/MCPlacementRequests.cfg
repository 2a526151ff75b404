SPECIFICATION RSpec
CONSTANTS
  Applicants = {i1, i2}
  Roles = {r1}
  Runs = {n1}
  NoRole = NoRole
  MaxCapacity = 1
  MayShrink = TRUE
  NoRun = NoRun
  NoApplicant = NoApplicant
  Requests = {q1, q2}
SYMMETRY Symmetry
CHECK_DEADLOCK FALSE
INVARIANTS
  HistoryKeepsRoles
