CONSTANTS
  job = job
  ann = ann
  bob = bob
  eve = eve
  k1 = k1
  k2 = k2
  p1 = p1
  p2 = p2
  r1 = r1
  r2 = r2
  r3 = r3
  r4 = r4
  Jobs = {job}
  PublicJobs = {job}
  Principals = {ann, bob, eve}
  FormalOwners = {ann, bob}
  Keys = {k1, k2}
  Payloads = {p1, p2}
  WellFormed <- OnlyP1
  Requests = {r1, r2, r3, r4}
  Scenarios <- RaceScenarios
  TTL = 1
  MaxClock = 2
  MaxFaults = 0
SPECIFICATION Spec
CHECK_DEADLOCK FALSE
INVARIANTS
  TypeOK
  RetryAgrees
  NothingAfterCompleted
  OneFormalResult
  NoLeaseAfterCompletion
  ClaimAudited
