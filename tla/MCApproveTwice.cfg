SPECIFICATION RSpec
CONSTANTS
  Applicants = {i1}
  Roles = {r1}
  Runs = {n1, n2}
  NoRole = NoRole
  MaxCapacity = 1
  MayShrink = FALSE
  Requests = {q1, q2}
  NoRun = NoRun
  NoApplicant = NoApplicant
SYMMETRY Symmetry
CHECK_DEADLOCK FALSE
INVARIANT OnePlacement
