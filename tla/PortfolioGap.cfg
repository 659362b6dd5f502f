CONSTANTS
  a = a
  b = b
  m1 = m1
  m2 = m2
  r1 = r1
  Codes = {a, b}
  Manifests = {m1, m2}
  Posts = {1, 2, 3, 4, 5}
  Scenarios <- GapScenarios
  Readers = {}
  CompleteAge = 0
  ValidAge = 1
  Tolerance = 0
  MaxClock = 1
  MaxFaults = 0
SPECIFICATION Spec
CHECK_DEADLOCK FALSE
PROPERTIES
  GapBlocksDelta
