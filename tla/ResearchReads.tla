--------------------------- MODULE ResearchReads ---------------------------
(***************************************************************************)
(* The read side of the research boundary, against what it reads while     *)
(* that changes: the receipt feed (listResearchJobReceipts of              *)
(* src/src/research-workflow.ts) and its consumer, and the readers of      *)
(* src/src/research-remote-adapter.ts: a job's state and proposals, a      *)
(* document's body, evidence, the current accumulator.  Every D1 statement *)
(* and R2 call is a step.                                                  *)
(*                                                                         *)
(* The jobs are those of JobLifecycle, which ResearchWorkflow implements;  *)
(* replica records arrive in any order, each after the checks and puts of  *)
(* ReplicaIngest.  Bodies are stood for by their sha256.  A value that may *)
(* be absent is a set of at most one.                                      *)
(***************************************************************************)
EXTENDS Naturals, Sequences, FiniteSetsExt

CONSTANTS
  Owners,      \* principals that work on the job
  TTL,         \* lease duration, in clock ticks
  Bodies,      \* document bodies, up to their sha256
  VersionIds,  \* record keys of document versions, in lexicographic order: numbers
  Messages,    \* outbound records the producer may send
  Snapshot,    \* ids of the events before migration 0007, in the order it gave them
  Limits,      \* page sizes a consumer asks for
  Scenarios,   \* which clients there are, where the consumer stands, what arrives
  MaxTime,     \* bound on the clock
  MaxEvents,   \* bound on the number of events
  MaxFaults    \* bound on failures, lost answers and restarts

Clients == {"consumer", "job", "document", "evidence"}

\* An opaque receipt cursor: its epoch and the position it names there; rcpt1 and
\* rcpt2 are earlier epochs, time is a bare timestamp.
Cursor == [epoch : {"none", "time", "rcpt1", "rcpt2", "rcpt3"}, at : Nat]

\* A document version: its number, whether it is a WITHDRAWAL, its own body, whether that
\* is of a readable media type, and its attachment, a fetched text extraction.
Version == [number : Nat, withdrawn : BOOLEAN, own : SUBSET Bodies, readable : BOOLEAN,
            text : SUBSET Bodies]

\* Evidence; a v4 envelope refers to a version's own body, or to its attachment's.
EvidenceRow == [v4 : BOOLEAN, key : VersionIds, attached : BOOLEAN, body : Bodies]

\* An accumulator snapshot, sent in either generation, states when it was calculated.
Message ==
  [type : {"object"}, body : Bodies] \cup
  [type : {"document_version"}, key : VersionIds, version : Version] \cup
  [type : {"evidence"}, row : EvidenceRow] \cup
  [type : {"accumulator"}, v4 : BOOLEAN, key : Nat, created : Nat]

Job == 1

ASSUME ConstantsAssumption ==
  /\ TTL \in Nat /\ MaxTime \in Nat /\ MaxEvents \in Nat /\ MaxFaults \in Nat
  /\ Limits \subseteq Nat \ {0}
  /\ VersionIds \subseteq Nat
  /\ Snapshot \in Seq(Nat) /\ Len(Snapshot) <= MaxEvents
  /\ \A i \in DOMAIN Snapshot : Snapshot[i] \in 1..Len(Snapshot)
  /\ \A i, k \in DOMAIN Snapshot : Snapshot[i] = Snapshot[k] => i = k
  /\ Messages \subseteq Message
  /\ Scenarios \subseteq [clients : SUBSET Clients, cursor : Cursor, held : SUBSET Nat,
                          inbox : SUBSET Messages]

\* No principal has the name of an answer.
ASSUME OwnersAssumption == Owners \cap {"NONE", "FAILED", "COMPLETED", "QUEUED"} = {}

\* A consumer holds receipts of events there are; one that has a cursor of this epoch
\* already followed it as it does here.
ASSUME CursorAssumption ==
  \A s \in Scenarios :
    /\ s.held \subseteq 1..Len(Snapshot)
    /\ s.cursor.epoch = "rcpt3" =>
         s.cursor.at <= Len(Snapshot) /\ \A i \in 1..s.cursor.at : Snapshot[i] \in s.held

VARIABLES
  time, holder, parked, result,  \* the job, as JobLifecycle has it
  order,      \* research_receipt_event_order: event ids by receipt_sequence
  events,     \* research_job_events: the ids inserted so far
  completed,  \* the events of type COMPLETED
  inbox,      \* records still to arrive
  bodies,     \* R2: object blobs
  versions,   \* research_records of type document_version, a function on their keys
  evidence,   \* the research_records row of one piece of evidence
  snapshots,  \* accumulator rows of one subject: when each was calculated, by its key
  clients,    \* the clients of this scenario
  consumer,   \* the receipt consumer and the request it has out
  reader,     \* the request for the job's context
  document,   \* the client that searches, then gets the document
  proof,      \* the request for the evidence
  faults      \* failures so far

queue == <<time, holder, parked, result>>
feed == <<order, events, completed>>
replica == <<inbox, bodies, versions, evidence, snapshots>>
asking == <<consumer, reader, document, proof>>
vars == <<queue, feed, replica, clients, asking, faults>>

Queue == INSTANCE JobLifecycle WITH Jobs <- {Job}

-----------------------------------------------------------------------------
\* The state a job is really in: COMPLETED, the owner of its unexpired lease, or QUEUED.
Truth ==
  IF result[Job] # {} THEN {"COMPLETED"}
  ELSE IF \E h \in holder[Job] : h.until > time THEN {h.owner : h \in holder[Job]}
  ELSE {"QUEUED"}

ConsumerState == [pc : {"idle", "integrity", "page", "answer", "advance"}, cursor : Cursor,
                  held : SUBSET Nat, limit : Nat, page : Seq(Nat), next : Cursor]

\* seen is history: the true states since the request began, the first of them in began.
ReaderState == [pc : {"idle", "terminal", "lease", "state", "proposals", "done"},
                lease : SUBSET [owner : Owners, until : Nat],
                answer : {"NONE", "FAILED", "COMPLETED", "QUEUED"} \cup Owners,
                proposals : SUBSET Owners, told : BOOLEAN,
                began : SUBSET ({"COMPLETED", "QUEUED"} \cup Owners),
                seen : SUBSET ({"COMPLETED", "QUEUED"} \cup Owners)]

Candidate == [key : VersionIds, number : Nat, body : Bodies]

\* there is history: the bodies in R2 when the request began.
DocumentState == [pc : {"idle", "rows", "objects", "done"}, listed : SUBSET VersionIds,
                  left : SUBSET Candidate, servable : SUBSET Candidate, there : SUBSET Bodies,
                  served : SUBSET Candidate,
                  answer : {"NONE", "SERVED", "NOT_FOUND", "UNSUPPORTED_OPERATION",
                            "STORE_UNAVAILABLE", "CORRUPTED"}]

\* failed and verified are history: a call or the bytes failed in this request; this or
\* an earlier one was answered VERIFIED.
ProofState == [pc : {"idle", "evidence", "version", "object", "done"},
               row : SUBSET EvidenceRow, failed : BOOLEAN, verified : BOOLEAN,
               answer : {"NONE", "VERIFIED", "LEGACY", "NOT_FOUND", "INTEGRITY_FAILED",
                         "STORE_UNAVAILABLE", "CORRUPTED"}]

\* Every row and local has its type; each event has one receipt sequence.
TypeOK ==
  /\ time \in 0..MaxTime
  /\ holder \in [{Job} -> SUBSET [owner : Owners, until : Nat]]
  /\ parked \in [{Job} -> SUBSET Nat] /\ result \in [{Job} -> SUBSET Owners]
  /\ order \in Seq(Nat) /\ events \subseteq Nat /\ completed \subseteq events
  /\ \A i, k \in DOMAIN order : order[i] = order[k] => i = k
  /\ inbox \subseteq Messages /\ bodies \subseteq Bodies
  /\ DOMAIN versions \subseteq VersionIds /\ \A k \in DOMAIN versions : versions[k] \in Version
  /\ evidence \subseteq EvidenceRow
  /\ DOMAIN snapshots \subseteq Nat /\ \A k \in DOMAIN snapshots : snapshots[k] \in Nat
  /\ clients \subseteq Clients
  /\ consumer \in ConsumerState /\ reader \in ReaderState
  /\ document \in DocumentState /\ proof \in ProofState
  /\ faults \in 0..MaxFaults

NoCursor == [epoch |-> "none", at |-> 0]

Init ==
  /\ Queue!Init
  /\ order = Snapshot /\ events = 1..Len(Snapshot) /\ completed = {}
  /\ bodies = {} /\ versions = <<>> /\ evidence = {} /\ snapshots = <<>>
  /\ \E s \in Scenarios :
       /\ clients = s.clients /\ inbox = s.inbox
       /\ consumer = [pc |-> "idle", cursor |-> s.cursor, held |-> s.held, limit |-> 0,
                      page |-> <<>>, next |-> NoCursor]
  /\ reader = [pc |-> "idle", lease |-> {}, answer |-> "NONE", proposals |-> {},
               told |-> FALSE, began |-> {}, seen |-> {}]
  /\ document = [pc |-> "idle", listed |-> {}, left |-> {}, servable |-> {}, there |-> {},
                 served |-> {}, answer |-> "NONE"]
  /\ proof = [pc |-> "idle", row |-> {}, failed |-> FALSE, verified |-> FALSE, answer |-> "NONE"]
  /\ faults = 0

Fault == faults < MaxFaults /\ faults' = faults + 1

-----------------------------------------------------------------------------
(* The queue: every operation appends its event, and the trigger of        *)
(* migration 0007 numbers it in the same transaction.                      *)

Witness ==
  reader' = IF reader.pc \in {"idle", "done"} THEN reader
            ELSE [reader EXCEPT !.seen = @ \cup Truth']

\* Variant: events are read by the time they state, which may lie before others'.
LogByStatedTime(terminal) ==
  LET id == Len(order) + 1 IN
  /\ id <= MaxEvents
  /\ events' = events \cup {id}
  /\ order' = <<id>> \o order
  /\ completed' = IF terminal THEN completed \cup {id} ELSE completed

\* Variant: the trigger numbers an event whose insert is then ignored.
LogIgnored(terminal) ==
  LET id == Len(order) + 1 IN
  /\ id <= MaxEvents
  /\ order' = Append(order, id)
  /\ completed' = IF terminal THEN completed \cup {id} ELSE completed
  /\ UNCHANGED events

Log(terminal) ==
  LET id == Len(order) + 1 IN
  /\ id <= MaxEvents
  /\ events' = events \cup {id}
  /\ order' = Append(order, id)
  /\ completed' = IF terminal THEN completed \cup {id} ELSE completed

Operate ==
  /\ clients \cap {"consumer", "job"} # {}
  /\ \E o \in Owners :
       \/ Queue!Grant(Job, o) /\ Log(FALSE)
       \/ Queue!Finish(Job, o) /\ Log(TRUE)
       \/ \* A deferral until t, or a synthetic result, gives the lease up.
          /\ Queue!Unfinished(Job) /\ Queue!HeldBy(Job, o)
          /\ \/ \E t \in time..MaxTime : parked[Job] = {} /\ parked' = [parked EXCEPT ![Job] = {t}]
             \/ UNCHANGED parked
          /\ holder' = [holder EXCEPT ![Job] = {}]
          /\ UNCHANGED <<time, result>>
          /\ Log(FALSE)
  /\ Witness
  /\ UNCHANGED <<replica, clients, consumer, document, proof, faults>>

Tick ==
  /\ "job" \in clients /\ time < MaxTime
  /\ Queue!Advance
  /\ Witness
  /\ UNCHANGED <<feed, replica, clients, consumer, document, proof, faults>>

-----------------------------------------------------------------------------
(* listResearchJobReceipts and the consumer that follows its cursors.      *)

Consume(c) == consumer' = c /\ UNCHANGED <<queue, feed, replica, clients, reader, document, proof>>

\* decodeReceiptCursor: whatever is not of this epoch replays it from zero.
Position(c) == IF c.epoch = "rcpt3" THEN c.at ELSE 0

Poll ==
  /\ "consumer" \in clients /\ consumer.pc = "idle"
  /\ \E n \in Limits : Consume([consumer EXCEPT !.pc = "integrity", !.limit = n])
  /\ UNCHANGED faults

\* Every event has its number and every number its event, or the feed is unavailable.
CheckMapping ==
  /\ consumer.pc = "integrity"
  /\ Consume([consumer EXCEPT !.pc =
       IF events = {order[i] : i \in DOMAIN order} THEN "page" ELSE "idle"])
  /\ UNCHANGED faults

\* Variant: the cursor is the last number given out, not the last one in the page.
NextSinceNewest(c, page) ==
  IF page = <<>> THEN c ELSE [epoch |-> "rcpt3", at |-> Len(order)]

NextSince(c, page) ==
  IF page = <<>> THEN c ELSE [epoch |-> "rcpt3", at |-> Position(c) + Len(page)]

ReadPage ==
  /\ consumer.pc = "page"
  /\ LET c == consumer.cursor
         from == Position(c)
         page == SubSeq(order, from + 1, Min({from + consumer.limit, Len(order)}))
     IN Consume([consumer EXCEPT !.pc = "answer", !.page = page, !.next = NextSince(c, page)])
  /\ UNCHANGED faults

\* The consumer stores the receipts, dropping those whose id it has, then the cursor.
StoreReceipts ==
  /\ consumer.pc = "answer"
  /\ Consume([consumer EXCEPT !.pc = "advance", !.held = @ \cup {consumer.page[i] : i \in DOMAIN consumer.page},
                              !.page = <<>>])
  /\ UNCHANGED faults

StoreCursor ==
  /\ consumer.pc = "advance"
  /\ Consume([consumer EXCEPT !.pc = "idle", !.cursor = consumer.next, !.next = NoCursor, !.limit = 0])
  /\ UNCHANGED faults

\* A statement fails, the answer is lost, or the consumer restarts; it asks again.
Interrupted ==
  /\ consumer.pc # "idle" /\ Fault
  /\ Consume([consumer EXCEPT !.pc = "idle", !.page = <<>>, !.next = NoCursor, !.limit = 0])

ConsumerStep ==
  Poll \/ CheckMapping \/ ReadPage \/ StoreReceipts \/ StoreCursor

-----------------------------------------------------------------------------
(* getResearchJobContext: jobServerState in two statements, then proposals. *)

Read(r) == reader' = r /\ UNCHANGED <<queue, feed, replica, clients, consumer, document, proof>>

\* told: the caller has seen a receipt that the job is completed.
AskContext ==
  /\ "job" \in clients /\ reader.pc = "idle"
  /\ Read([reader EXCEPT !.pc = "terminal", !.told = consumer.held \cap completed # {},
                         !.began = Truth, !.seen = Truth])
  /\ UNCHANGED faults

ReadTerminal ==
  /\ reader.pc = "terminal"
  /\ Read(IF result[Job] # {} THEN [reader EXCEPT !.pc = "proposals", !.answer = "COMPLETED"]
                              ELSE [reader EXCEPT !.pc = "lease"])
  /\ UNCHANGED faults

ReadLease ==
  /\ reader.pc = "lease"
  /\ Read([reader EXCEPT !.pc = "state", !.lease = holder[Job]])
  /\ UNCHANGED faults

\* Variant: a lease counts whether or not it has run out.
LeaseAny(leases, now) == {h.owner : h \in leases}

\* The clock is read after the lease.
LeaseLive(leases, now) == {h.owner : h \in {l \in leases : l.until > now}}

DeriveState ==
  /\ reader.pc = "state"
  /\ \E a \in IF LeaseLive(reader.lease, time) = {} THEN {"QUEUED"} ELSE LeaseLive(reader.lease, time) :
       Read([reader EXCEPT !.pc = "proposals", !.answer = a])
  /\ UNCHANGED faults

ReadProposals ==
  /\ reader.pc = "proposals"
  /\ Read([reader EXCEPT !.pc = "done", !.proposals = result[Job]])
  /\ UNCHANGED faults

FailContext ==
  /\ reader.pc \in {"terminal", "lease", "proposals"} /\ Fault
  /\ Read([reader EXCEPT !.pc = "done", !.answer = "FAILED"])

ContextStep ==
  AskContext \/ ReadTerminal \/ ReadLease \/ DeriveState \/ ReadProposals \/ FailContext

-----------------------------------------------------------------------------
(* What ReplicaIngest leaves behind of a record, in whatever order they    *)
(* arrive: an object's bytes, or the row under its key, written anew.      *)

\* Variant: the last envelope wins.
LatestEvidence(old, new) == {new}

\* A v4 envelope is kept against an older generation.
KeptEvidence(old, new) == IF \E e \in old : e.v4 /\ ~new.v4 THEN old ELSE {new}

Arrive(m) ==
  /\ inbox' = inbox \ {m}
  /\ bodies' = IF m.type = "object" THEN bodies \cup {m.body} ELSE bodies
  /\ versions' = IF m.type = "document_version"
                   THEN [k \in DOMAIN versions \cup {m.key} |->
                           IF k = m.key THEN m.version ELSE versions[k]]
                   ELSE versions
  /\ evidence' = IF m.type = "evidence"
                   THEN KeptEvidence(evidence, m.row)
                   ELSE evidence
  /\ snapshots' = IF m.type = "accumulator"
                    THEN [k \in DOMAIN snapshots \cup {m.key} |->
                            IF k = m.key THEN m.created ELSE snapshots[k]]
                    ELSE snapshots
  /\ UNCHANGED <<queue, feed, clients, asking, faults>>

Deliver == \E m \in inbox : Arrive(m)

-----------------------------------------------------------------------------
(* searchDocuments and getDocument.                                        *)

Look(d) == document' = d /\ UNCHANGED <<queue, feed, replica, clients, consumer, reader, proof>>

\* servableBody: a version's own body before its extraction, a withdrawal's never.
ServableBody(v) ==
  IF v.withdrawn THEN {} ELSE IF v.readable /\ v.own # {} THEN v.own ELSE v.text

Servable ==
  UNION {{[key |-> k, number |-> versions[k].number, body |-> b] : b \in ServableBody(versions[k])} :
         k \in DOMAIN versions}

Search ==
  /\ "document" \in clients /\ document.pc = "idle"
  /\ Look([document EXCEPT !.pc = "rows", !.listed = @ \cup {c.key : c \in Servable}])
  /\ UNCHANGED faults

\* Variant: the version that comes first is the lowest.
PrecedesAscending(c, d) == c.number < d.number \/ (c.number = d.number /\ c.key < d.key)

\* version_number DESC, record_key ASC.
Precedes(c, d) == c.number > d.number \/ (c.number = d.number /\ c.key < d.key)

ReadVersions ==
  /\ document.pc = "rows"
  /\ Look(IF Servable # {}
            THEN [document EXCEPT !.pc = "objects", !.left = Servable, !.servable = Servable,
                                  !.there = bodies]
            ELSE [document EXCEPT !.pc = "done", !.answer =
                    IF versions = <<>> THEN "NOT_FOUND" ELSE "UNSUPPORTED_OPERATION"])
  /\ UNCHANGED faults

\* Variant: the first candidate is the only one tried.
ReadFirstObject ==
  /\ document.pc = "objects"
  /\ \E c \in document.left :
       /\ \A d \in document.left : d # c => Precedes(c, d)
       /\ Look(IF c.body \in bodies
                 THEN [document EXCEPT !.pc = "done", !.answer = "SERVED", !.served = {c}]
                 ELSE [document EXCEPT !.pc = "done", !.answer = "STORE_UNAVAILABLE"])
  /\ UNCHANGED faults

\* The first candidate left is served, or skipped when its object is missing.
ReadObject ==
  /\ document.pc = "objects"
  /\ \E c \in document.left :
       /\ \A d \in document.left : d # c => Precedes(c, d)
       /\ Look(IF c.body \in bodies
                 THEN [document EXCEPT !.pc = "done", !.answer = "SERVED", !.served = {c}]
               ELSE IF document.left = {c}
                 THEN [document EXCEPT !.pc = "done", !.answer = "STORE_UNAVAILABLE"]
               ELSE [document EXCEPT !.left = @ \ {c}])
  /\ UNCHANGED faults

\* A statement or R2 call throws, or the bytes do not hash to their name.
FailDocument ==
  /\ document.pc \in {"rows", "objects"} /\ Fault
  /\ \/ Look([document EXCEPT !.pc = "done", !.answer = "STORE_UNAVAILABLE"])
     \/ document.pc = "objects" /\ Look([document EXCEPT !.pc = "done", !.answer = "CORRUPTED"])

\* The client searches again until it has the document.
SearchAgain ==
  /\ document.pc = "done" /\ document.answer # "SERVED"
  /\ Look([document EXCEPT !.pc = "idle", !.left = {}, !.servable = {}, !.there = {}, !.answer = "NONE"])
  /\ UNCHANGED faults

DocumentStep == Search \/ ReadVersions \/ ReadObject \/ SearchAgain

-----------------------------------------------------------------------------
(* getEvidence: the row, the version it refers to, that version's bytes.   *)

Prove(p) == proof' = p /\ UNCHANGED <<queue, feed, replica, clients, consumer, reader, document>>

Verdict(a) ==
  [proof EXCEPT !.pc = "done", !.answer = a, !.verified = @ \/ a = "VERIFIED", !.row = {}]

AskEvidence ==
  /\ "evidence" \in clients /\ proof.pc \in {"idle", "done"}
  /\ Prove([proof EXCEPT !.pc = "evidence", !.answer = "NONE", !.failed = FALSE])
  /\ UNCHANGED faults

ReadEvidence ==
  /\ proof.pc = "evidence"
  /\ Prove(IF evidence = {} THEN Verdict("NOT_FOUND")
           ELSE IF \E e \in evidence : ~e.v4 THEN Verdict("LEGACY")
           ELSE [proof EXCEPT !.pc = "version", !.row = evidence])
  /\ UNCHANGED faults

\* The body a reference is to, in a row of the version it names.
ReferredBody(v, e) == IF e.attached THEN v.text ELSE v.own

\* The version is taken from the row it refers to, and its body must be the one named.
ReadVersion ==
  /\ proof.pc = "version"
  /\ \E e \in proof.row :
       Prove(IF e.key \notin DOMAIN versions THEN Verdict("NOT_FOUND")
             ELSE IF ReferredBody(versions[e.key], e) # {e.body} THEN Verdict("INTEGRITY_FAILED")
             ELSE [proof EXCEPT !.pc = "object"])
  /\ UNCHANGED faults

ReadBytes ==
  /\ proof.pc = "object"
  /\ \E e \in proof.row :
       Prove(Verdict(IF e.body \in bodies THEN "VERIFIED" ELSE "STORE_UNAVAILABLE"))
  /\ UNCHANGED faults

FailEvidence ==
  /\ proof.pc \in {"evidence", "version", "object"} /\ Fault
  /\ \E a \in {"STORE_UNAVAILABLE"} \cup (IF proof.pc = "object" THEN {"CORRUPTED"} ELSE {}) :
       Prove([Verdict(a) EXCEPT !.failed = TRUE])

EvidenceStep == AskEvidence \/ ReadEvidence \/ ReadVersion \/ ReadBytes

-----------------------------------------------------------------------------
\* Variant: the last record key is the current one.
CurrentByKey(rows) == {k \in DOMAIN rows : \A j \in DOMAIN rows : j <= k}

\* currentAccumulator: the key of the latest calculation, the last among equals.
CurrentAccumulator(rows) ==
  {k \in DOMAIN rows :
     \A j \in DOMAIN rows : rows[j] < rows[k] \/ (rows[j] = rows[k] /\ j <= k)}

Next ==
  \/ Operate \/ Tick \/ Deliver
  \/ ConsumerStep \/ Interrupted
  \/ ContextStep
  \/ DocumentStep \/ FailDocument
  \/ EvidenceStep \/ FailEvidence

\* The consumer keeps polling, requests run to their answer, what was sent arrives,
\* and a client told to retry does.
Spec ==
  /\ Init /\ [][Next]_vars
  /\ WF_vars(ConsumerStep) /\ WF_vars(Deliver) /\ WF_vars(DocumentStep)

-----------------------------------------------------------------------------
(* Properties.                                                             *)

\* How many events, from the front of the receipt order, the consumer holds.
Taken ==
  Max({n \in 0..Len(order) : \A i \in 1..n : order[i] \in consumer.held})

Receipts == INSTANCE ReceiptLog WITH Events <- 1..MaxEvents, log <- order, taken <- Taken

\* The consumer misses no event and gets them all in the end, wherever its cursor is
\* from, however pages and appends interleave, answers are lost and it restarts.
LogSpec == Receipts!Spec

\* Nothing before the stored cursor is missing, so the cursor may be trusted alone.
CursorBehindReceipts ==
  /\ \A i \in 1..Position(consumer.cursor) : order[i] \in consumer.held
  /\ consumer.pc = "advance" => \A i \in 1..Position(consumer.next) : order[i] \in consumer.held

\* A job's context is put together from three statements; what it says was so at some
\* instant of the request.  Only a job completed between the two reads of its state is
\* shown as QUEUED without having been; a completed one comes with its result, and is
\* never shown otherwise to a caller that has the receipt.
ContextTruthful ==
  reader.pc = "done" =>
    /\ reader.answer = "COMPLETED" => "COMPLETED" \in reader.seen /\ reader.proposals # {}
    /\ reader.answer \in Owners => reader.answer \in reader.seen
    /\ reader.answer = "QUEUED" =>
         "QUEUED" \in reader.seen \/ ("COMPLETED" \in reader.seen /\ "COMPLETED" \notin reader.began)
    /\ reader.told => reader.answer \in {"COMPLETED", "FAILED"}

\* The body served is that of the first servable version whose object was there: none
\* before it in the documented order was in R2 when the request began.
BestVersionServed ==
  \A c \in document.served : \A d \in document.servable :
    d.number > c.number \/ (d.number = c.number /\ d.key < c.key) => d.body \notin document.there

\* A document listed as readable is served in the end, although its row may arrive
\* before its bytes.
ReadableIsServed == document.listed # {} ~> document.answer = "SERVED"

References(sent) == {e \in {m.row : m \in {n \in sent : n.type = "evidence"}} : e.v4}

\* What the producer sends keeps the source of the evidence fixed: its v4 envelopes agree,
\* and every row of the version they name carries the body they refer to.  A version may
\* be sent again, extracted or withdrawn since.
FixedSource(sent) ==
  \A e \in References(sent) :
    /\ \A f \in References(sent) : f = e
    /\ \A m \in sent : m.type = "document_version" /\ m.key = e.key =>
                       ReferredBody(m.version, e) = {e.body}

\* What the producer sends of one snapshot states one calculation time.
ImmutableSnapshots(sent) ==
  \A m, n \in {k \in sent : k.type = "accumulator"} : m.key = n.key => m.created = n.created

\* Evidence once VERIFIED stays so: a later request is answered otherwise only where a call
\* or the stored bytes failed in that very request, however old envelopes and rows of the
\* version that arrive since, if its source is fixed.
VerifiedStays ==
  proof.pc = "done" /\ proof.verified /\ ~proof.failed => proof.answer = "VERIFIED"

\* The accumulator shown never goes back to an earlier calculation, in whatever order
\* snapshots arrive, first or again.
AccumulatorMovesForward ==
  [][\A old \in CurrentAccumulator(snapshots) : \A new \in CurrentAccumulator(snapshots') :
       \/ snapshots[old] < snapshots'[new]
       \/ snapshots[old] = snapshots'[new] /\ old <= new]_vars
=============================================================================
