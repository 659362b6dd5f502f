CONSTANTS
  k = k
  p1 = p1
  p2 = p2
  c = c
  d1 = d1
  d2 = d2
  d3 = d3
  Keys = {k}
  Payloads = {p1, p2}
  Contents = {c}
  Messages <- AllMessages
  Deliveries = {d1, d2, d3}
  Scenarios <- ReplayScenarios
  JournalBytes <- UnitJournal
  ObjectBytes <- UnitBody
  MaxStored = 9
  MaxWrites = 1
  MaxMonth = 2
  MaxFaults = 0
SPECIFICATION Spec
CHECK_DEADLOCK FALSE
INVARIANTS
  MonthlyWritesBounded
