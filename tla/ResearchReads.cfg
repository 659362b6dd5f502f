CONSTANTS
  ann = ann
  bob = bob
  x = x
  y = y
  Owners = {ann, bob}
  TTL = 1
  Bodies = {x, y}
  VersionIds = {1, 2, 3}
  Messages <- Sent
  Snapshot <- Renumbered
  Limits = {1, 2}
  Scenarios <- ReadScenarios
  MaxTime = 2
  MaxEvents = 4
  MaxFaults = 1
SPECIFICATION Spec
CHECK_DEADLOCK FALSE
INVARIANTS
  TypeOK
  CursorBehindReceipts
  ContextTruthful
  BestVersionServed
  VerifiedStays
PROPERTIES
  LogSpec
  ReadableIsServed
  AccumulatorMovesForward
