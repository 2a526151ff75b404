SPECIFICATION Spec
CONSTANTS
  Applicants = {i1, i2}
  Roles = {r1, r2}
  Runs = {n1, n2}
  NoRole = NoRole
  MaxCapacity = 1
  MayShrink = FALSE
SYMMETRY Symmetry
CONSTRAINT Settled
CHECK_DEADLOCK FALSE
INVARIANTS
  OnePlacement
PROPERTIES
  ImplementsLedger
