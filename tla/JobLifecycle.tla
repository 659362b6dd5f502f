---------------------------- MODULE JobLifecycle ----------------------------
(***************************************************************************)
(* What the research work queue promises about a job, whatever the         *)
(* requests do: the life cycle described at the head of                    *)
(* src/src/research-workflow.ts.  A job is queued, held by one owner under *)
(* a lease, parked until a recheck time, or completed; every operation is  *)
(* atomic and knows the true time.                                         *)
(***************************************************************************)
EXTENDS Naturals

CONSTANTS Jobs, Owners, TTL

VARIABLES
  time,
  holder,  \* holder[j]: at most one [owner, until], the current lease
  parked,  \* parked[j]: at most one recheck time
  result   \* result[j]: at most one owner, whose result completed the job

vars == <<time, holder, parked, result>>

Init ==
  /\ time = 0
  /\ holder = [j \in Jobs |-> {}]
  /\ parked = [j \in Jobs |-> {}]
  /\ result = [j \in Jobs |-> {}]

Advance == time' = time + 1 /\ UNCHANGED <<holder, parked, result>>

Unfinished(j) == result[j] = {}

HeldBy(j, o) == \E h \in holder[j] : h.owner = o

\* A lease is granted on an unfinished job that nobody holds any more and that
\* is not parked; it ends at most TTL from now.
Grant(j, o) ==
  /\ Unfinished(j)
  /\ \A h \in holder[j] : h.until <= time
  /\ \A t \in parked[j] : t <= time
  /\ \E until \in 0..(time + TTL) :
       holder' = [holder EXCEPT ![j] = {[owner |-> o, until |-> until]}]
  /\ UNCHANGED <<time, parked, result>>

\* Only the holder's result completes the job, and completing releases it.
Finish(j, o) ==
  /\ Unfinished(j)
  /\ HeldBy(j, o)
  /\ result' = [result EXCEPT ![j] = {o}]
  /\ holder' = [holder EXCEPT ![j] = {}]
  /\ UNCHANGED <<time, parked>>

\* Only the holder may give the job back, once in its life.
Park(j, o) ==
  /\ Unfinished(j)
  /\ HeldBy(j, o)
  /\ parked[j] = {}
  /\ \E t \in parked'[j] : parked' = [parked EXCEPT ![j] = {t}]
  /\ holder' = [holder EXCEPT ![j] = {}]
  /\ UNCHANGED <<time, result>>

Next ==
  \/ Advance
  \/ \E j \in Jobs, o \in Owners : Grant(j, o) \/ Finish(j, o) \/ Park(j, o)

Spec == Init /\ [][Next]_vars
=============================================================================
