CONSTANTS
  k = k
  p1 = p1
  p2 = p2
  c = c
  d1 = d1
  d2 = d2
  d3 = d3
  Keys = {k}
  Payloads = {p1, p2}
  Contents = {c}
  Messages <- AllMessages
  Deliveries = {d1, d2, d3}
  Scenarios <- RetryScenarios
  JournalBytes <- UnitJournal
  ObjectBytes <- UnitBody
  MaxStored = 6
  MaxWrites = 4
  MaxMonth = 2
  MaxFaults = 2
SPECIFICATION Spec
CHECK_DEADLOCK FALSE
INVARIANTS
  TypeOK
  StoredIsRecoverable
  CompleteEvidenceStays
  ReservationCovers
  AppliedOnce
  AnswersBacked
