CONSTANTS
  i1 = i1
  i2 = i2
  i3 = i3
  q1 = q1
  q2 = q2
  Instruments = {i1, i2, i3}
  Canonical = {i1, i2, i3}
  MaxRows = 2
  Runs = {q1, q2}
  Wires <- Answers
  BridgeScenes <- FailureScenes
  MaxClock = 1
  MaxOutages = 1
SPECIFICATION BridgeSpec
CHECK_DEADLOCK FALSE
INVARIANTS
  FailureReported
