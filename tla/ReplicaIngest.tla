--------------------------- MODULE ReplicaIngest ---------------------------
(***************************************************************************)
(* The research replica of src/src/research-replica.ts: deliveries of      *)
(* outbound messages, interleaved at every await.  A delivery reserves R2  *)
(* quota, puts its journal and its object into R2, and only then writes    *)
(* the D1 tables in one batch.                                             *)
(*                                                                         *)
(* A message id is a hash of the record, so a message is its record, and a *)
(* row of research_records is the message it was written from.  Deliveries *)
(* of one message are retries, or its journal sent again for recovery.     *)
(*                                                                         *)
(* Spec has no fairness: a delivery may stop for ever at any await.        *)
(***************************************************************************)
EXTENDS Naturals, Sequences, FiniteSetsExt

CONSTANTS
  Keys,          \* record keys
  Payloads,      \* payloads, up to canonical JSON
  Contents,      \* object bodies, up to their sha256
  Messages,      \* the records the producer sends
  Deliveries,    \* deliveries, each used once
  Scenarios,     \* which message each delivery carries
  JournalBytes,  \* size of each message's journal
  ObjectBytes,   \* size of each body, by the contents a message carries: one or none
  MaxStored,     \* RESEARCH_REPLICA_MAX_STORED_BYTES
  MaxWrites,     \* RESEARCH_REPLICA_MAX_MONTHLY_R2_WRITES
  MaxMonth,      \* bound on the calendar
  MaxFaults      \* bound on D1 and R2 failures

RecordTypes == {"source", "document_version", "evidence", "coverage", "accumulator", "job",
                "object", "source_health", "market_signal"}

Message == [type : RecordTypes, key : Keys, schema : {"v2", "v3", "v4", "signal"}, payload : Payloads,
            content : SUBSET Contents, links : SUBSET Contents]

ASSUME ConstantsAssumption ==
  /\ Messages \subseteq Message
  /\ \A m \in Messages : IF m.type = "object" THEN \E c \in Contents : m.content = {c}
                                              ELSE m.content = {}
  /\ Scenarios \subseteq [Deliveries -> Messages]
  /\ IsFiniteSet(Deliveries)
  /\ JournalBytes \in [Messages -> Nat]
  /\ ObjectBytes \in [SUBSET Contents -> Nat]
  /\ MaxStored \in Nat /\ MaxWrites \in Nat
  /\ MaxMonth \in Nat \ {0}
  /\ MaxFaults \in Nat

VARIABLES
  month,     \* the calendar month
  messages,  \* research_ingest_messages, PRIMARY KEY message_id, in row order
  records,   \* research_records, PRIMARY KEY (type, key)
  objects,   \* research_objects: the bodies that are READY
  links,     \* research_record_objects of document versions
  journals,  \* R2: journal blobs
  bodies,    \* R2: object blobs
  usage,     \* research_replica_usage
  health,    \* research_replica_health
  message,   \* what each delivery carries
  del,       \* each delivery's program counter, locals and answer
  faults,    \* failures so far
  puts       \* history: R2 puts made by the deliveries of each month

logical == <<messages, records, objects, links>>
blobs == <<journals, bodies>>
vars == <<month, logical, blobs, usage, health, message, del, faults, puts>>

-----------------------------------------------------------------------------
Months == 1..MaxMonth

Steps == {"idle", "replay", "rollover", "reserve", "journal", "object", "batch", "health",
          "failing", "done"}

Answers == {"NONE", "APPLIED", "REPLAY", "RATE_LIMITED", "STORE_UNAVAILABLE"}

\* A delivery's locals: the month it captured and whether its batch inserted.
Delivery == [pc : Steps, now : 0..MaxMonth, inserted : BOOLEAN, answer : Answers]

Usage == [period : 0..MaxMonth, stored : Nat, writes : Nat]

Health == [accepted : Nat, attempt : 0..MaxMonth, success : 0..MaxMonth,
           last : SUBSET Messages, error : BOOLEAN]

Ingested(m) == \E i \in DOMAIN messages : messages[i] = m

SameRecord(m, n) == m.type = n.type /\ m.key = n.key

\* Every table, blob and local has its type, and the primary keys hold.
TypeOK ==
  /\ month \in Months
  /\ messages \in Seq(Messages)
  /\ \A i, k \in DOMAIN messages : messages[i] = messages[k] => i = k
  /\ records \subseteq Messages
  /\ \A m, n \in records : SameRecord(m, n) => m = n
  /\ objects \subseteq Contents
  /\ links \subseteq Keys \X Contents
  /\ journals \subseteq Messages /\ bodies \subseteq Contents
  /\ usage \in Usage
  /\ health \in Health
  /\ message \in [Deliveries -> Messages]
  /\ del \in [Deliveries -> Delivery]
  /\ faults \in 0..MaxFaults
  /\ puts \in [Months -> Nat]

At(d, pc) == del[d].pc = pc

Go(d, pc) == del' = [del EXCEPT ![d].pc = pc]

Answer(d, a) == del' = [del EXCEPT ![d].pc = "done", ![d].answer = a]

Init ==
  /\ month = 1
  /\ messages = <<>> /\ records = {} /\ objects = {} /\ links = {}
  /\ journals = {} /\ bodies = {}
  /\ usage = [period |-> 0, stored |-> 0, writes |-> 0]
  /\ health = [accepted |-> 0, attempt |-> 0, success |-> 0, last |-> {}, error |-> FALSE]
  /\ message \in Scenarios
  /\ del = [d \in Deliveries |-> [pc |-> "idle", now |-> 0, inserted |-> FALSE, answer |-> "NONE"]]
  /\ faults = 0
  /\ puts = [m \in Months |-> 0]

NextMonth ==
  /\ month < MaxMonth
  /\ month' = month + 1
  /\ UNCHANGED <<logical, blobs, usage, health, message, del, faults, puts>>

\* The record is verified and the clock captured.
Start(d) ==
  /\ At(d, "idle")
  /\ del' = [del EXCEPT ![d].pc = "replay", ![d].now = month]
  /\ UNCHANGED <<month, logical, blobs, usage, health, message, faults, puts>>

\* A statement or put took effect: the delivery goes on, or the answer is lost and
\* the catch block runs.
Returns(d, next) ==
  \/ next /\ UNCHANGED faults
  \/ faults < MaxFaults /\ faults' = faults + 1 /\ Go(d, "failing")

-----------------------------------------------------------------------------
(* ingestResearchReplicaRecord                                             *)

\* Variant: the journal is taken for the message table.
ReadReplayByJournal(d) ==
  /\ At(d, "replay")
  /\ IF message[d] \in journals THEN Answer(d, "REPLAY") ELSE Go(d, "rollover")
  /\ UNCHANGED <<month, logical, blobs, usage, health, message, faults, puts>>

ReadReplay(d) ==
  /\ At(d, "replay")
  /\ IF Ingested(message[d]) THEN Answer(d, "REPLAY") ELSE Go(d, "rollover")
  /\ UNCHANGED <<month, logical, blobs, usage, health, message, faults, puts>>

\* The usage row follows the month this delivery captured.
Rollover(d) ==
  /\ At(d, "rollover")
  /\ usage' = IF usage.period = del[d].now THEN usage
              ELSE [usage EXCEPT !.period = del[d].now, !.writes = 0]
  /\ Returns(d, Go(d, "reserve"))
  /\ UNCHANGED <<month, logical, blobs, health, message, puts>>

Content(d) == message[d].content

\* Variant: journals are not accounted for.
BytesOfBody(d) == ObjectBytes[Content(d)]

BytesOf(d) == JournalBytes[message[d]] + ObjectBytes[Content(d)]

WritesOf(d) == IF Content(d) = {} THEN 1 ELSE 2

Fits(d) ==
  /\ usage.stored + BytesOf(d) <= MaxStored
  /\ usage.writes + WritesOf(d) <= MaxWrites

Reserve(d) ==
  /\ At(d, "reserve") /\ Fits(d)
  /\ usage' = [usage EXCEPT !.stored = @ + BytesOf(d), !.writes = @ + WritesOf(d)]
  /\ Returns(d, Go(d, "journal"))
  /\ UNCHANGED <<month, logical, blobs, health, message, puts>>

ReserveRefused(d) ==
  /\ At(d, "reserve") /\ ~Fits(d)
  /\ Answer(d, "RATE_LIMITED")
  /\ UNCHANGED <<month, logical, blobs, usage, health, message, faults, puts>>

CountPut(d) == puts' = [puts EXCEPT ![del[d].now] = @ + 1]

\* Variant: the object is left to the batch.
PutJournalOnly(d) ==
  /\ At(d, "journal")
  /\ journals' = journals \cup {message[d]}
  /\ CountPut(d)
  /\ Returns(d, Go(d, "batch"))
  /\ UNCHANGED <<month, logical, bodies, usage, health, message>>

PutJournal(d) ==
  /\ At(d, "journal")
  /\ journals' = journals \cup {message[d]}
  /\ CountPut(d)
  /\ Returns(d, Go(d, IF Content(d) = {} THEN "batch" ELSE "object"))
  /\ UNCHANGED <<month, logical, bodies, usage, health, message>>

PutObject(d) ==
  /\ At(d, "object")
  /\ bodies' = bodies \cup Content(d)
  /\ CountPut(d)
  /\ Returns(d, Go(d, "batch"))
  /\ UNCHANGED <<month, logical, journals, usage, health, message>>

\* A complete evidence record is kept against an older envelope generation.
Kept(old, new) == old.type = "evidence" /\ old.schema = "v4" /\ new.schema # "v4"

\* Variants: the last envelope wins; the row is inserted without its conflict clause.
UpsertLatest(rows, m) == {old \in rows : ~SameRecord(old, m)} \cup {m}
UpsertInsert(rows, m) == rows \cup {m}

Upsert(rows, m) ==
  IF \E old \in rows : SameRecord(old, m) /\ Kept(old, m)
    THEN rows
    ELSE {old \in rows : ~SameRecord(old, m)} \cup {m}

LinksOf(m) == IF m.type = "document_version" THEN {m.key} \X m.links ELSE {}

\* The message is inserted once; its record, object and links are upserted each time.
Batch(d) ==
  /\ At(d, "batch")
  /\ LET m == message[d] new == ~Ingested(m) IN
     /\ messages' = IF new THEN Append(messages, m) ELSE messages
     /\ records' = Upsert(records, m)
     /\ objects' = objects \cup m.content
     /\ links' = links \cup LinksOf(m)
     /\ Returns(d, del' = [del EXCEPT ![d].pc = "health", ![d].inserted = new])
  /\ UNCHANGED <<month, blobs, usage, health, message, puts>>

Outcome(d) == IF del[d].inserted THEN "APPLIED" ELSE "REPLAY"

\* Variant: every batch counts.
UpdateHealthAlways(d) ==
  /\ At(d, "health")
  /\ health' = [accepted |-> health.accepted + 1,
                attempt |-> del[d].now, success |-> del[d].now,
                last |-> {message[d]}, error |-> FALSE]
  /\ Returns(d, Answer(d, Outcome(d)))
  /\ UNCHANGED <<month, logical, blobs, usage, message, puts>>

UpdateHealth(d) ==
  /\ At(d, "health")
  /\ health' = [accepted |-> health.accepted + (IF del[d].inserted THEN 1 ELSE 0),
                attempt |-> del[d].now, success |-> del[d].now,
                last |-> {message[d]}, error |-> FALSE]
  /\ Returns(d, Answer(d, Outcome(d)))
  /\ UNCHANGED <<month, logical, blobs, usage, message, puts>>

\* The statement or put throws and changed nothing.
Throw(d) ==
  /\ del[d].pc \in {"replay", "rollover", "reserve", "journal", "object", "batch", "health"}
  /\ faults < MaxFaults
  /\ faults' = faults + 1
  /\ Go(d, "failing")
  /\ UNCHANGED <<month, logical, blobs, usage, health, message, puts>>

\* The catch block notes the failure, or fails to.
Fail(d) ==
  /\ At(d, "failing")
  /\ \/ /\ health' = [health EXCEPT !.attempt = del[d].now, !.error = TRUE]
        /\ UNCHANGED faults
     \/ /\ faults < MaxFaults /\ faults' = faults + 1
        /\ UNCHANGED health
  /\ Answer(d, "STORE_UNAVAILABLE")
  /\ UNCHANGED <<month, logical, blobs, usage, message, puts>>

Ingest(d) ==
  \/ Start(d) \/ ReadReplay(d) \/ Rollover(d) \/ Reserve(d) \/ ReserveRefused(d)
  \/ PutJournal(d) \/ PutObject(d) \/ Batch(d) \/ UpdateHealth(d)
  \/ Throw(d) \/ Fail(d)

Next == NextMonth \/ \E d \in Deliveries : Ingest(d)

Spec == Init /\ [][Next]_vars

-----------------------------------------------------------------------------
(* Properties.                                                             *)

\* Whatever D1 says is there can be recovered from R2: each ingested message has its
\* journal and each READY object its bytes, whichever delivery wrote them and
\* wherever the others stopped.
StoredIsRecoverable ==
  /\ \A i \in DOMAIN messages : messages[i] \in journals
  /\ objects \subseteq bodies

\* Once a v4 envelope of an evidence record was ingested, the record is v4, however
\* late or often its older generations are delivered.
CompleteEvidenceStays ==
  \A i \in DOMAIN messages :
    LET m == messages[i] IN
    m.type = "evidence" /\ m.schema = "v4"
      => \E row \in records : SameRecord(row, m) /\ row.schema = "v4"

\* The bytes of a set of blobs, each blob's numbered from one.
Bytes(kept, size) == UNION {{x} \X (1..size[x]) : x \in kept}

StoredBytes ==
  Cardinality(Bytes(journals, JournalBytes)) + Cardinality(Bytes({{c} : c \in bodies}, ObjectBytes))

\* The bytes in R2 never exceed what was reserved, nor the reservation its limit: the
\* guardrail holds through retries, faults and abandoned deliveries.
ReservationCovers == StoredBytes <= usage.stored /\ usage.stored <= MaxStored

\* No message is counted or reported as applied twice.
AppliedOnce ==
  /\ health.accepted <= Len(messages)
  /\ \A d, e \in Deliveries :
       (message[d] = message[e] /\ del[d].answer = "APPLIED" /\ del[e].answer = "APPLIED") => d = e

\* A producer told APPLIED or REPLAY may drop the message: it is in the tables, with
\* a record under its key and, for an object, its bytes.
AnswersBacked ==
  \A d \in Deliveries :
    del[d].answer \in {"APPLIED", "REPLAY"} =>
      /\ Ingested(message[d])
      /\ \E row \in records : SameRecord(row, message[d])
      /\ Content(d) \subseteq objects \cap bodies

\* Re-applying a message that is already ingested changes no table.
ReplayChangesNothing ==
  [][\A d \in Deliveries :
       At(d, "batch") /\ Ingested(message[d]) /\ del'[d] # del[d] => UNCHANGED logical]_vars

\* The deliveries of one month make at most MaxWrites puts.
MonthlyWritesBounded == \A m \in Months : puts[m] <= MaxWrites
=============================================================================
