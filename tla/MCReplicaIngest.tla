--------------------------- MODULE MCReplicaIngest ---------------------------
(* Small instances of ReplicaIngest for TLC.                               *)
EXTENDS ReplicaIngest, TLC

CONSTANTS k, p1, p2, c, d1, d2, d3

Evidence(schema) ==
  [type |-> "evidence", key |-> k, schema |-> schema, payload |-> p1, content |-> {}, links |-> {}]

HealthOf(payload) ==
  [type |-> "source_health", key |-> k, schema |-> "v3", payload |-> payload,
   content |-> {}, links |-> {}]

Object ==
  [type |-> "object", key |-> k, schema |-> "v2", payload |-> p1, content |-> {c}, links |-> {}]

Document ==
  [type |-> "document_version", key |-> k, schema |-> "v2", payload |-> p1,
   content |-> {}, links |-> {c}]

AllMessages == {Evidence("v2"), Evidence("v4"), HealthOf(p1), HealthOf(p2), Object, Document}

Carried(m1, m2, m3) ==
  [d \in Deliveries |-> CASE d = d1 -> m1 [] d = d2 -> m2 [] d = d3 -> m3]

\* A late older generation of a complete record, and an object sent twice next
\* to the document that links to it.
RetryScenarios ==
  {Carried(Evidence("v2"), Evidence("v2"), Evidence("v4")),
   Carried(Object, Object, Document)}

\* A message sent twice around a newer one of the same record.
ReplayScenarios == {Carried(HealthOf(p1), HealthOf(p1), HealthOf(p2))}

UnitJournal == [m \in Messages |-> 1]
UnitBody == [x \in SUBSET Contents |-> 2 * Cardinality(x)]
=============================================================================
