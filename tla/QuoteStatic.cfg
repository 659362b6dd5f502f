CONSTANTS
  a = a
  b = b
  m1 = m1
  m2 = m2
  r1 = r1
  i1 = a
  i2 = b
  i3 = i3
  q1 = q1
  q2 = q2
  c1 = c1
  Codes = {a, b}
  Manifests = {m1, m2}
  Posts = {1, 2, 3, 4, 5}
  Scenarios <- AllPlanes
  Readers = {r1}
  CompleteAge = 2
  ValidAge = 3
  Tolerance = 0
  MaxClock = 2
  MaxFaults = 0
  Instruments = {a, b, i3}
  Canonical = {a, b, i3}
  MaxRows = 2
  Runs = {q1, q2}
  Wires <- Answers
  BridgeScenes <- AllBridges
  MaxOutages = 1
  Keys = {1, 2, 3}
  Ttls = {{}, {1}}
  PageSize = 1
  KvScenes <- AllTables
  Callers = {c1}
  MaxMisses = 0
  WorkerScenes <- CallerScenes
SPECIFICATION WorkerSpec
CHECK_DEADLOCK FALSE
INVARIANT
  UnknownIsRefused
