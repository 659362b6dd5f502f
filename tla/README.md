# cn-hk-quotes-mcp: models, checks and proofs

The repository is a Cloudflare Worker that serves market quotes, a private
portfolio view and a research work queue to MCP clients. Its state lives in
D1 (SQLite), KV and R2 and is shared by every request the platform runs at the
same time, each of which may be cut off at any `await`. What the modules here
ask is what that sharing can do to the state.

## 1. Inventory

| Part | Code | State it keeps | Operations |
| --- | --- | --- | --- |
| Research work queue | `src/research-workflow.ts`, migrations 0003, 0005, 0006 | D1 tables of leases, terminal rows, deferrals, proposals, audit events | claim, submit a result proposal, defer |
| Receipt feed | `src/research-workflow.ts` 225-279, 1248-1341, migration 0007 | the event sequence of the queue | page through receipts with a cursor |
| Research replica | `src/research-replica.ts`, handler in `src/index.ts`, migrations 0001, 0002, 0004, 0009 | D1 messages, records, objects, usage, health; R2 journal and object blobs | ingest one outbound message, read health |
| Outbound contract | `src/research-outbound-v2.ts` | none | validate and key a record |
| Research read adapter | `src/research-remote-adapter.ts` | none (reads the replica and the queue) | get document, evidence, accumulator; list jobs |
| Portfolio plane | `src/live-universe.ts`, `src/portfolio-status.ts`, `src/portfolio-delta.ts`, `src/portfolio-validation.ts`, `src/live-overlay.ts` | KV documents: universe, status, complete baseline, latest delta | post universe, post status, record delta, present and overlay |
| Quotes | `src/dynamic-quotes.ts`, `src/quote-catalog.ts`, `src/quote-projections.ts` | the private catalogue, a KV document | fetch, normalise, classify, overlay, project |
| Quote bridge | `updateQuoteBridge` and `scheduled` in `src/index.ts` | an external issue | read, fetch, patch |
| OAuth store | `src/d1-oauth-kv.ts` | one D1 table with expiry | get, put, delete, list |
| OAuth entry and scopes | `src/oauth-entry.ts`, `src/research-scopes.ts`, `src/github-auth.ts` | grants held by a library | log in, check scopes |
| Automation and scripts | `automation/`, `scripts/` | files | offline tools, clients of the queue |

How they interact. An outbound producer pushes research records into the
replica; among them are public jobs. The read adapter lists those jobs with the
state it derives from the queue's tables; clients then claim a job, work on it
and submit or defer, and follow what happened by the receipt feed. The queue never
writes the replica and the replica never writes the queue: they share the database
and the adapter reads both. LIVE posts its universe and status to the portfolio
plane; the quotes endpoint lays them over quotes of the private catalogue; the
quote bridge publishes the catalogue's quotes, without them, in a public issue.
Both plane and catalogue are kept in a D1 table behind the KV interface when a
request reads them, and in Workers KV when the cron does: the cron handler is given
the raw environment (`src/oauth-entry.ts:518`).

What is hard. Every request is a process whose awaits are interleaving points.
D1 batches are transactions, but a handler runs several statements before its
batch and reads its outcome back after it, all with the wall clock it captured
when it arrived. A batch may commit and its answer be lost. Clients retry with
the same idempotency key while the first request is still running. KV has no
transactions across keys (the deployed binding is one D1 table behind the KV
interface, `src/d1-oauth-kv.ts`, so each single key is read and written whole). PROJECT.json lists each place as a hazard, with the
properties that watch it.

What makes each part correct:

- queue: one formal result per job and a terminal row that names it; no lease on
  a finished or a deferred job; a lease leaves only when it expires or on its
  owner's fenced write; an audit trail that matches the tables; no answer that
  the tables do not back, whatever is retried;
- receipt feed: a consumer that follows cursors, from any epoch, misses no event;
- replica: messages are idempotent, evidence is never downgraded, whatever the
  database says is stored is in R2, usage never under-counts;
- read adapter: what a request says of a job was so at some instant of it, the
  best version with bytes is served, verified evidence stays verified;
- portfolio plane: a delta is the difference of two confirmed universes with no
  unconfirmed round between them, none is lost, and a reader never mixes two
  publications;
- quotes: whatever a catalogue holds, its quotes make a valid snapshot; the overlay
  is exactly LIVE's holdings; a private snapshot is never published;
- quote bridge: time of success and quotes of the report belong together, and a
  failure is reported;
- D1 table: a listing gives every key that was there all along, unless one before
  it went meanwhile.

## 2. Plan

In order of importance; what is left is in the last row.

| | Modules | State |
| --- | --- | --- |
| 1 | `ResearchWorkflow` with `JobLifecycle` above it; proofs in `ResearchWorkflowProofs`, `ResearchWorkflowAnswers`, `ResearchWorkflowAudit` | done |
| 2 | `ReplicaIngest`; proofs in `ReplicaIngestProofs` | done |
| 3 | `PortfolioPlane`; proofs in `PortfolioPlaneProofs` | done |
| 4 | `ResearchReads`, the receipt feed with `ReceiptLog` above it and the read adapter; proofs in `ResearchReadsProofs` | done |
| 5 | `QuoteSnapshot`, the documents quotes travel in, as operators; lemmas about them in `QuoteBridgeProofs` | done |
| 6 | `QuoteBridge`, cron and manual runs; proofs in `QuoteBridgeProofs` | done |
| 7 | `D1KeyValue`, expiry and OFFSET paging; proofs in `QuoteServiceProofs` | done |
| 8 | `QuoteService`, portfolio plane, bridge, table and the endpoint that looks twice; proofs in `QuoteServiceProofs` | done |
| 9 | What each refuted property is as a theorem once the condition that refutes it is excluded, where that is not yet stated (a month that does not end during a delivery for `MonthlyWritesBounded`, a message delivered once at a time for `ReplayChangesNothing`) | left |

How they compose. `JobLifecycle` is instantiated by `ResearchWorkflow` under a
refinement mapping, and by `ResearchReads` as the queue its readers read, which
that refinement allows. `ReceiptLog` is what `ResearchReads` implements.
`QuoteService` EXTENDS `PortfolioPlane`, `QuoteBridge` (over `QuoteSnapshot`) and
`D1KeyValue`; all read the clock of `WorkerClock`, and each is shown to be
implemented by the composition, so that a theorem about a part is one about the
worker. The queue and the replica share no variable in the code (different tables,
no foreign key) and stay separate.

## 3. Models

Common conventions. A request is a process: a record with a program counter and
the locals its handler holds across awaits. One action is the code from one
`await` to the next; a D1 batch or statement is one step because D1 runs it as a
transaction. A request may stop for ever after any step, which is an evicted
worker or a client that hung up. Faults are bounded by MaxFaults and come in two
kinds: a call that throws without effect and a call whose effect is kept and
whose answer is lost. Definitions named "Variant" are plausible mistakes that the
mutants of PROJECT.json put in the place of the definition they vary; the
specifications do not use them.

### ResearchWorkflow and JobLifecycle

The tables are sets of rows (`leases`, `terminal`, `deferrals`, `proposals`) and
the audit events a sequence, the order their autoincrement gives them. Claim
actions follow claimResearchJob: terminal read, deferral read, the lease batch,
the reads after it that tell the caller what happened. The batch is three statements
that each select by conditions of their own, and so it is here: `Overdue` picks the row
whose expiry is recorded, the upsert inserts, takes over or writes nothing, and
`Granted` looks for the fresh token among the rows it left (`LeaseAudit`). Submit actions follow
submitResearchResultProposal with its replay check, its fence check, its formal
result check, the five-statement accept batch, its synthetic batch, the
confirmation and the race resolution. Defer actions follow deferResearchJob.
`now` is captured when the request arrives and used until it ends, as in the code.
A payload is a model value together with the verdict of its validator
(`WellFormed`, `structureFailed`), because no property tells two valid payloads
apart other than by identity.

JobLifecycle is what a job is promised: it is queued, held, parked or finished, a
lease is granted only when nobody holds the job any more, and only the holder
finishes or parks it. `ResearchWorkflow` maps its tables to it in `Lifecycle`.

### ReplicaIngest

A delivery is a process that runs ingestResearchReplicaRecord: replay check,
month rollover, reservation, journal put, object put, batch, health update, and
the catch block. A message is a record of its type, key, schema generation, payload, object body and links;
tables are sets of rows; R2 is two sets of blobs. The month is the delivery's own
captured one while the calendar moves on. BytesOf and WritesOf count units.

### PortfolioPlane

The four KV documents are `universe`, `status`, `baseline` and `delta`, each a set
of at most one value. LIVE's requests are `Posts`, which it makes in the order of
a program; `overlap` says how many unfinished posts it leaves behind when it makes
the next one (0: it waits for every answer; 1: it gave up on one, a client
timeout, which goes on running). PutUniverse is writeLiveUniverse; PutStatus is
writePortfolioStatus; ReadUniverse, ReadBaseline, ReadDelta, PutDelta and
PutBaseline are recordPortfolioDeltaAfterStatusWrite and
recordPortfolioUniverseObservation, one action for each KV call; KvFault and the
second disjunct of Stored are their failures. A failed read of the universe is not
an error, it is an unconfirmed observation, and the model keeps that. A reader
runs resolveLivePresentation and projectCallerSnapshot. Content hashes are the
sets of codes they are computed from, which assumes that SHA-256 does not collide.

### ResearchReads and ReceiptLog

One job, one document, one piece of evidence and one accumulator subject, which is
all that a request of the adapter relates. The job moves as `JobLifecycle` lets it;
records arrive as `ReplicaIngest` lets them, in any order, and each rewrites the row
under its key: document versions and accumulator snapshots are functions of their keys,
and only v4 evidence is kept against an older generation (`KeptEvidence`). `order` is the table
research_receipt_event_order, `Log` the trigger that assigns receipt_sequence, and
the events of one transaction stand as one. The consumer polls with its cursor and
its limit; the integrity count and the page are two reads (CheckMapping, ReadPage),
and it stores receipts and cursor in two steps and may be interrupted between them.
Cursors are a pair of epoch and position, and Position is decodeReceiptCursor.
AskContext, ReadTerminal, ReadLease, DeriveState and ReadProposals are
getResearchJobContext; Search, ReadVersions and ReadObject are searchDocuments and
getDocument, with the client that searches again while it is not served;
ReadEvidence, ReadVersion and ReadBytes are getEvidence, with `ReferredBody` for a
reference to the version's own body or to its attachment; CurrentAccumulator is the
query of the same name. `seen`, `began`, `there`, `servable`, `verified` and `failed` are
history. ReceiptLog promises that the consumer takes events from the front without
a gap, and every event in the end.

### QuoteSnapshot

Operators, one for each function of the quote modules. What throws is the empty set
and what is returned a set of one, so that a caller composes them by UNION. `Filtered` is
a loop that skips rows: the rows at the places that stay, in their order. A row
keeps the fields validation relates (groups, holding, mapping, quantity as zero,
positive or null) and stands for its prices by the instrument they are of.

### QuoteBridge

`issue` is the report in the body of the GitHub issue; a run takes what it read in
`previous`, fetches (FetchQuotes, which is the whole of the try and catch block), and
patches. Fallback is what the catch block does with the snapshot it read: the
worker projects it, which yields nothing from a snapshot that is projected already;
a manual run writes it back as it is. The catalogue of each store is made from a
rich snapshot, from outside: nothing in `src/src` calls writeQuoteCatalog.
`made` is history. Manual runs fetch from the public endpoint, which is one
operator here because it has no step between the catalogue and its answer that
another part could disturb.

### D1KeyValue

`table` gives each key with a row its expiry; expired rows stay and are not seen.
One lister pages by LIMIT and OFFSET, its cursor the offset, while others put and
delete and the clock moves. `Selected` is the SELECT with its one row too many.

### QuoteService

The composition, and the requests of `/api/portfolio-quotes`: a caller reads the
universe, the status, is refused unless they let the overlay apply, fetches quotes,
reads both again, and serves. The second look takes a clock of its own and may come
to another result. A status document that cannot be read counts as missing
(readPortfolioStatusSafe); a universe that cannot be read fails the request.

## 4. Runs

| Run | Asks | Result |
| --- | --- | --- |
| `workflow_submit` | two owners race, submit, retry and conflict; a formal and a synthetic caller share a job | one formal result, no lease on a finished job, every claim and every takeover audited; a retry agrees with the submit it repeats; after completion only refusals, and the receipts of synthetic submits |
| `workflow_defer` | a holder defers while it submits or is preempted, one D1 fault | implements the life cycle; lease and deferral exclude each other; submits audited; no answer outruns the tables |
| `workflow_release` | is a live lease only ended by its owner? | no: a synthetic submit deletes whatever lease the job has |
| `workflow_stored` | is an accepted proposal stored? | no: a failed synthetic batch is answered as accepted |
| `replica_retry` | retries, quota limits, months, two faults | what is stored is recoverable, paid for and counted once |
| `replica_replay` | does a replay change nothing? | no: a second delivery that passed the check writes over a newer record |
| `replica_month` | is a month's write count bounded? | no: two months in flight reset each other |
| `research_reads` | cursors of every epoch, interruptions, reads while rows and bytes arrive | the feed implements a log without gaps and everything is received in the end; reads say what was so; verified evidence stays verified and the current accumulator moves forward while rows are rewritten; a readable document is served in the end |
| `quote_service` | LIVE's rounds and overlaps, bridge runs that overlap and fail, a listing while keys change, callers that look twice | nothing is made up or mixed, no change is lost while posts are serial, the overlay is exact |
| `quote_static` | is an unknown state refused by the quotes endpoint? | no: the check and the answer are two looks, and what changes in between is answered with the static catalogue |
| `portfolio_gap` | does an accepted unconfirmed round block the next delta? | no, when the two status posts overlap |
| `bridge_failure` | is a failed run reported? | no: the projection of a public snapshot throws in the catch block |

The seven runs that end in a violation are the findings of PROJECT.json; each is a
statement of a comment, a test or a migration that the code does not keep.

Bounds, and why they are enough.

- Queue: one job (no statement of the queue relates two jobs), up to four
  requests from two owners, LeaseTTL = 1 with MaxClock = 2, so that a lease is held,
  expires exactly now, and has long expired; MaxFaults 0 or 1. The scenario sets
  of `MCResearchWorkflow` pick who retries, conflicts, is preempted or submits under
  which generation, and in one of them an owner claims twice while the other
  claims, so that takeovers of one's own expired lease and of another's meet, and in one
  it defers and claims again, which gives generation 1 a second time, so that a late
  submit of the first lease meets the second. Every interleaving of the requests is
  explored. `workflow_submit` is the largest run, with 1.8 million states.
- Replica: three deliveries, MaxStored 6 and MaxWrites 4 (both limits are
  reached by some deliveries and refused to others), a month that ends during the
  deliveries, two faults (none in the two runs that refute).
- Reads: two events from before migration 0007, numbered by it in the other order,
  and two after; consumers that are new, or followed each epoch and may have missed
  an event by it; pages of one and two; one fault, lost answer or restart. Each
  reader has a scenario of its own next to what it reads, since readers write
  nothing: a document with two versions of one number, a withdrawal and a revised
  row; one whose later version never gets its bytes; evidence with both envelopes
  in a version's own body, whose row is sent again extracted and again withdrawn; evidence
  in an attachment, whose version is sent again with its own body stated; four snapshots,
  one of them sent in both generations, one calculated before a lower key's, two at the
  same time. `MCResearchReads` asserts that these keep the premises `FixedSource` and
  `ImmutableSnapshots`.
- Portfolio: five posts, five programs (an unconfirmed round; a retry of the first
  status between the next universe and its status; the same retry after both; a
  retry of the second status; a rival publication of the same time and a refused
  document), each with posts that overlap and with serial posts and a reader, the
  last with both; two codes, two manifests, CompleteAge = 0 and ValidAge = 1 with
  MaxClock = 2, so that a confirmation is in the future, current, last-known-good
  and expired, Tolerance = 0, one fault. A reader only reads, so that leaving it
  out where posts overlap hides no behaviour of the posts.
- Bridge: two runs of the worker, or one and a manual one, over an issue without a
  report, with a rich report of an earlier version and with a public one; with a
  catalogue in Workers KV and without; answers of the provider for all, none, in
  part and for another instrument; one outage. Catalogues are made from every pair
  of a row of any classification and a held or a mapping row.
- Table: three keys, pages of one, a listing, up to four changes, keys that expire.
- Callers: one (it writes nothing), while LIVE confirms, lapses or publishes another
  universe, over catalogues that list some, all or more than LIVE holds; one read
  that fails.

`quote_service` gives each part scenarios of its own and joins callers with LIVE's
posts, where they meet; the parts share no variable but the clock, so interleaving
them further only multiplies the states. The proofs of refinement cover all
interleavings.

Deadlock. Requests are finitely many, so every run really ends;
CHECK_DEADLOCK is FALSE for that reason.

Fairness. Only `ResearchReads` assumes any, and states it in Spec: a consumer keeps
polling (WF of ConsumerStep), what was sent arrives (WF of Deliver: the producer
delivers again what was not acknowledged, which replay answers are for), and a
document request runs to its answer and its client asks again while it is not served
(WF of DocumentStep). These are assumptions about the clients, which are outside;
the worker only has to answer. Everything else is safety, true also of behaviours that stop anywhere: nothing in the worker restarts a
request that was cut off.

## 5. Proofs

TLAPS checks these for every value of the constants, from the named assumptions of
the modules and, where said below, one more. The assumptions are types of the
constants and what is true of every state the program starts in: events of before a
migration are finitely many and what a consumer holds is among them; a table has
finitely many keys; a stored snapshot is a list and a store holds one catalogue; LIVE
knows finitely many codes. TLC evaluates each on the runs. Every safety property that
a passing run checks is stated by a theorem.

### Queue

`TypeInv` joins `TypeOK` with `Placing`, which ties a request's step to its
operation, its attempt counter, its verdict and its effective origin; the type of
a row written by a later step depends on them. `SafetyInv` is the conjunction of at
most one lease per job, `NoLeaseAfterCompletion`, `LeaseRespectsDeferral` and
`OneFormalResult`; none is inductive alone, because the accept batch is fenced by
the lease and the claim batch by the terminal and deferral rows. Lemma `Effects`
reduces every action to one of four writes (a grant, a formal accept, a synthetic
accept, a deferral) or none, and each is shown to keep the invariant. This gives
`LeaseEndsWithJob`, `DeferralGatesLeases` and `ResultIsUnique`. `ImplementsLifecycle`
maps the same writes to steps of `JobLifecycle`, and `LiveLeasesAreFenced` reads off
them who may end a lease. Both need `Behind` (a request's clock is never ahead of the
wall clock) and `FormalOnly`, that every caller is a formal owner: with synthetic
submits they are false, as `workflow_release` shows.

`AnswersAreTruthful` carries `AnswerInv`: what a request will answer is backed by the
tables from the step that makes it true, because rows of proposals and deferrals are
never removed. `RetriesAgree` carries `RetryInv`, where a submit stands between its
reads and its answer (`Standing`): an accepted one has its row, and a refused one is
lost for good (`Lost`), because its generation is over or its key taken and no request
with the same submit was accepted. It assumes `NoEarlyRelease`: formal owners,
no deferral, no D1 failure. Each part is needed. A deferral or a synthetic release
frees the generation on which a refusal rested, so that a repeated submit is refused
and the first one, under the next lease of that number, accepted; and a batch whose
answer is lost is reported as refused without a row. TLC finds each of these when the
hypothesis is dropped.

`AuditInv` is what the events say of the rows. `CompletionIsLast` needs
`CompletedBacked`, that a COMPLETED event has its terminal row, since claims and formal
submits ask for that row and not for the event. `ClaimsAreAudited` needs that the three
statements of the claim batch agree, which their texts do not say: a job has one lease
row and the attempt's token is on none of them yet (`LeaseRows`, `FreshToken`), so that
the row the first statement finds overdue is the one the upsert takes over, and the row
the last one finds by its token is the one the upsert wrote (`ClaimLogs`). `SubmitsAreAudited` needs `FilingInv`:
a request that has not come to its batch has filed nothing, neither row nor event, so
that its batch files the first and only one.

### Replica

`RecoveryInv` adds to `StoredIsRecoverable` that a delivery past its puts
has its journal and its object in R2, which is what its batch relies on. Answers
need `RowsKept` (messages are never deleted) and `Told` (a delivery past its
batch knows what it inserted). `AppliedOnce` is a count: the applied total plus the
deliveries that inserted and have not yet updated health is at most the number of
messages; the proof counts finite sets, for any finite set of deliveries.
`ReplicaStaysInQuota` is `ReservationCovers` by `QuotaInv`: not what is stored alone but
what is stored together with what is owed, the blobs of deliveries that have reserved
and not yet put, stays within the reservation. A blob of n bytes stands as n pairs, so
that bytes are counted as the elements of a set and a blob that is stored already, or
owed by two deliveries, counts once (`BytesOfOneMore`).

### Portfolio plane

`PlaneInv` is `TypeOK`, what a post observed is what LIVE published
(`ObservationInv`), the baseline it read was sound when it read it
(`PreviousSound`), the stored baseline is sound and the stored delta genuine. A
baseline read long ago is still sound because soundness speaks of what LIVE
confirmed, which is never undone; so no invariant says it is still current, and
indeed it need not be (`portfolio_gap`). `ReaderInv` says the same of readers.

Where LIVE waits for every answer (`overlap = 0`) it is current: `SerialInv` says that
at most one post runs, that what it read is what is stored until it writes it (`Fits`),
that it comes to its baseline only with its event stored, and that the baseline knows of
every incomplete observation that was accepted (`Accepted`). The time the baseline knows
of never goes back (`ReductionReaches`). From this follow `SerialGapsBlock` and
`SerialLosesNothing`, whatever calls fail and whichever posts are cut off, for any
number of posts: the guard counts those that run, and `OneRuns` makes them a set of
one at most (`MovesAlone`).

### Reads

`FeedInv` adds to `CursorBehindReceipts` that the cursor a request will store
is covered by what the consumer holds and the page it has not stored yet, and that
cursors lie within an order that only grows; it assumes `CursorAssumption`, that a
consumer which starts with a cursor of this epoch followed it. `FeedImplementsLog` is
the safety half of `LogSpec`: an append of the trigger is an append of the log, a stored
page is a number of consecutive takes from its front, and everything else stutters.
`DocumentInv` says
that every candidate already passed over had no bytes when the request began.
`AccumulatorNeverGoesBack` assumes `SnapshotsImmutable`, that the producer gives a snapshot
id one calculation time ("Accumulator snapshots are immutable facts",
`src/research-remote-adapter.ts:227`). Every stored row is then one that was sent
(`SentInv`), so that rewriting it under its key changes no time (`SnapshotsStay`), and the
latest calculation among more rows is no earlier one. Nothing in the ingest enforces the
assumption, and without it TLC finds the property violated in three states (section 7).
`ContextIsTruthful` needs `JobInv` (a completed job has no lease, and its event comes
with its result) and `ReaderInv`, which says at each step of a request what its local
values tell about the states it has passed through: a lease it read that still runs
belongs to one of them, and if it has run out the job was queued or completed since
(`LeaseInv`). `OwnersAssumption` says that no principal has the name of an answer.
`VerifiedEvidenceStays` is `VerifiedStays` by `ProofInv`: from the step that found it, the
row is a v4 one, its version carries the body it names and the bytes are there, and none
of these is taken back, so that every later request is VERIFIED in which no call fails.
It assumes `SourcesFixed`: the v4 envelopes of one piece of evidence agree, and every row
sent of the version they name carries the body they refer to. The code relies on it as
the "immutable-source guarantee" of v4 (`src/research-remote-adapter.ts:346`), and both
parts are needed: with envelopes of two versions TLC finds evidence that was VERIFIED and
then NOT_FOUND until the second version arrives, and a row rewritten without the body is
answered INTEGRITY_FAILED (section 7). `TypesAndNumbers`
joins these invariants with `OrderInv`, that the trigger numbers no event twice.

### Quotes and the quote bridge

The documents are lists of rows, so the lemmas are about lists: `FullRows` are rows that
validation accepts, one of each instrument, and `OwnRows` carry each their own quote.
`SnapshotOfFullRows` says that such rows make a valid snapshot, counts included;
filtering (`FilteredOwnRows`), merging (`JoinedRows`), completion (`CompletedRows`) and
the overlay (`OverlaidRow`) keep them so. `Filtered` is written by the places of the rows
that stay, as the library's SelectSeq is recursive and beyond these provers.
`CatalogMakesSnapshot` is the heart of `CatalogsServe`: what classifiedRow makes of any
item of a catalogue that came from a valid snapshot is valid.

`BridgeNeverMixes` is `ReportPaired` by the invariant `BridgeInv`: not only the issue
but what each run read before its fetch, and the report it is about to write, pair
a success with the quotes of the run that made them (`Paired`, `SoundRun`), and
the history `made` only grows, so a pair read long ago is still one. It assumes
`BridgeAssumption`, that a report there at first was written by an earlier run.
`ShapeInv` carries types, `CatalogInv` and `WritesPublic`, that what a run of the worker
is about to write is quote-only, and gives `WorkerWritesQuotesOnly`, `BridgeTypes` and
`CatalogsServe`.

### Table

`ListingIsComplete` is `ListingComplete` by `ListingInv`. The place of a key is the number of
live keys before it, and a page gives the keys at the places from its offset. A key the
listing has yet to give is at or past the offset unless one before it was lost (`Ahead`),
a key that it gave is before it unless one before it, or it, came (`Behind`). Both hold after
any change of the table (`AheadStays`, `BehindStays`) and a page splits the live keys
accordingly (`PageSplits`).

### Worker

Lemma `StepOfOnePart` splits WorkerNext into a step of one part with the
others at rest, from which `WorkerRefinesPlane`, `WorkerRefinesBridge` and
`WorkerRefinesTable` follow, and with them every theorem about the parts.
`StaticNeedsChange` is the boundary of what `quote_static` refutes: an answer without
holdings needs a change, of the clock, LIVE's documents or their readability, since the
look that was checked. It is by `CallersInv`: from its check on, what a caller read at its
first look lets the overlay apply, so a second look that is equal to it could not have
come out otherwise. `OverlaysAreExact` and `WorkerTypes` are by
`ServiceInv`: a caller's quotes are `OwnRows`, at most one snapshot of them, and what it
answers holds exactly one of the universes it saw (`SoundAnswer`). It leans on
`Surroundings`, the types of the plane and the catalogues of the bridge, which come by
the refinements.

### Only model-checked

Liveness is out of the prover's reach: `ReadableIsServed`, and the liveness half of
`LogSpec` (every event is received in the end) under the fairness of `ResearchReads`. So
are ENABLED, induction over data and RECURSIVE operators; no module has a RECURSIVE
operator. The properties that a run refutes are not theorems; of three of them a theorem
says when they do hold, or all they can fail by (`LiveLeasesAreFenced`, `SerialGapsBlock`,
`StaticNeedsChange`).

## 6. Not modelled

- Queue: the reported `sub_reason` and body fields of proposals and events, the
  status text of a denied deferral (413-424), malformed keys and reasons (rejected
  before any state is read), deferrals of before migration 0006 without a hash.
- Replica: visibility and accumulator ordering columns (read by the adapter only),
  stateless validation, `updated_at`, object metadata no reader uses.
- Portfolio: the exchange of a code (a change of exchange alone makes a delta with
  nothing added or removed), stored documents that are corrupt other than a status
  that cannot be read (only the code's own writers write these keys), GitHub
  authentication.
- Reads: lists of jobs, packs and revisions (single SELECTs with a limit), visibility and
  its changes, malformed cursors (rejected before any read), the receipts' payloads. A
  version has one attachment, the fetched text extraction, which stands for the list.
  Bytes that do not hash to their name are a fault of one read and not of the store,
  which only an intervention in R2 could give (names are content hashes): for a blob that
  stays corrupt `VerifiedStays` says nothing and `ReadableIsServed` is false.
- Quotes: parsing of the provider's text, number and time formats, names, system
  quality; catalogues that no rich snapshot yields.
- Bridge: a manual run's list of sources (one source stands for them), the bearer
  token, the text around the JSON block of the issue.
- Table: creation of the table, formats of get, metadata. Reads of one key are
  taken as atomic registers by the other modules.
- Worker: routing, the MCP tools and their schemas, log lines, OAuth login and scopes,
  the purge of expired grants, the automation and e2e scripts: none keeps state that
  another part reads, or they belong to a library.

## 7. Also seen while modelling

The first two depart from what the repository says, but in a plain sequence of steps that
needs no model checker to be seen; no statement contradicts the others.

- The upsert of `src/research-workflow.ts:479` inserts claim_count 1 whenever the job has
  no lease row, and a deferral or a synthetic submit deletes the row: claim, defer, claim
  gives one owner generation 1 twice, and a late submit of its first lease passes the
  fence of the second. Lines 24-27 say that every preemption increments the count so that
  (owner, generation) tells leases apart, and line 97 calls the generation monotonic. It
  takes no interleaving to see; `workflow_submit` has the scenario and shows that there
  is still one formal result, no lease after it, and an audit event of every claim.
- The upsert of `src/research-replica.ts:246` writes
  accumulator_created_at of whatever arrives last under a snapshot id, in any order of times. A producer that
  sends one snapshot id with two calculation times, which the adapter excludes ("immutable
  facts", `src/research-remote-adapter.ts:227`) and the ingest does not check, can have the
  later one replaced by the earlier, and arrival then decides what is current, against
  `migrations/0009_research_accumulator_semantic_order.sql:1-2`. To see it, let one
  scenario of `MCResearchReads` send two calculations under one key: `PremisesKept`, then
  dropped, is the assumption that fails, and `AccumulatorMovesForward` the property.
- A manual run that fails writes back the report it read, unprojected and without a
  version check: it can replace a newer success by an older one, and the time of the
  last success is not monotone. `ReportPaired` shows that it is at least a true pair.
- validateQuoteCatalog accepts items that no snapshot can hold (a watch row that is
  mapping_only): with one such item, put by hand, every fetch fails for every
  instrument. `CatalogServes` shows that a catalogue made from a snapshot has none.
- It also accepts codes (`^\d{5,6}$`) that canonicalizeIdentity refuses when it comes to
  fetch, so `CatalogServes` speaks of catalogues whose codes it accepts.
- A synthetic submit is received, and its receipt recorded, after its job is complete:
  the accept batch of that path does not ask for the terminal row
  (`NothingAfterCompleted`).
- The upsert of `src/research-replica.ts:246` has no order for document versions: a row
  sent again without its extraction, or an older one that arrives late, replaces the row
  that evidence refers to, and the evidence is answered INTEGRITY_FAILED from then on. No
  statement of the repository promises an order; `FixedSource` is what keeps it out of
  `VerifiedStays`.
- The cron and HTTP requests read different stores for one binding name, so a
  catalogue has to be put in both. When the bridge throws, the cron handler does not
  reach the purge of expired grants (`src/oauth-entry.ts:518-524`).
- Rows of the D1 table that expired are hidden, never deleted, by the adapter.
- applyLiveUniverse keeps `summary.usable` of before the overlay, which may then be
  larger than the number of rows.
- A job completed between the two reads of jobServerState is shown as QUEUED, and a
  document is listed as readable before its bytes arrived; both heal at the next
  request (`ContextTruthful`, `ReadableIsServed`).
