SPECIFICATION Spec
CONSTANTS
  Applicants = {i1, i2, i3}
  Roles = {r1}
  Runs = {n1}
  NoRole = NoRole
  MaxCapacity = 2
  MayShrink = TRUE
CHECK_DEADLOCK FALSE
PROPERTIES
  NeverOverfills
  RunsFinish
