-------------------------- MODULE ResearchWorkflow --------------------------
(***************************************************************************)
(* The research work queue of src/src/research-workflow.ts: requests that  *)
(* claim a job, submit a result proposal for it or defer it, interleaved   *)
(* at every await.  Each request is a process that reads the tables one    *)
(* statement at a time and writes them in D1 batches, which are            *)
(* transactions.  Its wall clock is read once, when it arrives, and is     *)
(* used unchanged until it answers.                                        *)
(*                                                                         *)
(* A table is a set of rows; a PRIMARY KEY or UNIQUE column shows as the   *)
(* branch in which the insert throws.  A request is used once, so its name *)
(* stands for the random ids it mints (proposal ids, claim tokens).        *)
(*                                                                         *)
(* Spec has no fairness: a request may stop for ever at any await, which   *)
(* is what an evicted worker, a client that hangs up or an uncaught D1     *)
(* error leaves behind.                                                    *)
(***************************************************************************)
EXTENDS Naturals, Sequences

CONSTANTS
  Jobs,          \* job ids
  PublicJobs,    \* those with a PUBLIC job record in the replica
  Principals,    \* authenticated callers
  FormalOwners,  \* those isFormalResearchOwner accepts
  Keys,          \* idempotency keys
  Payloads,      \* proposals, up to their sha256 (all unsafe or oversize ones share one)
  WellFormed,    \* <<payload, job>> pairs that pass validateProposalStructure
  Requests,      \* requests, each used once
  Scenarios,     \* what each request carries: the clients' possible programs
  TTL,           \* lease length in clock ticks
  MaxClock,      \* bound on the clock
  MaxFaults      \* bound on D1 failures a request catches and survives

Origins == {"CHATGPT", "SYNTHETIC", "REPLAY"}

Input == [op : {"claim", "submit", "defer"}, job : Jobs, caller : Principals,
          gen : Nat, key : Keys, payload : Payloads, origin : Origins, recheck : Nat]

ASSUME ConstantsAssumption ==
  /\ PublicJobs \subseteq Jobs
  /\ FormalOwners \subseteq Principals
  /\ WellFormed \subseteq Payloads \X Jobs
  /\ Scenarios \subseteq [Requests -> Input]
  /\ TTL \in Nat \ {0}
  /\ MaxClock \in Nat
  /\ MaxFaults \in Nat

VARIABLES
  clock,      \* wall-clock time
  leases,     \* research_job_leases, PRIMARY KEY job
  terminal,   \* research_job_terminal, PRIMARY KEY job
  deferrals,  \* research_job_deferrals, PRIMARY KEY job, UNIQUE key
  proposals,  \* research_proposals, UNIQUE key
  events,     \* research_job_events in ingress order
  input,      \* what each request carries
  req,        \* each request's program counter, locals and answer
  faults,     \* D1 failures so far
  granted     \* history: every lease row ever written

tables == <<leases, terminal, deferrals, proposals, events>>
vars == <<clock, leases, terminal, deferrals, proposals, events, input, req, faults, granted>>

-----------------------------------------------------------------------------
Rejections == {"VALIDATION_FAILED", "LEASE_INVALID", "SECOND_RESULT"}

Token == [req : Requests, try : 1..2]

Lease == [job : Jobs, owner : Principals, token : Token,
          claimed_at : Nat, expires : Nat, count : Nat]

Terminal == [job : Jobs, proposal : Requests]

Deferral == [job : Jobs, key : Keys, owner : Principals, gen : Nat, recheck : Nat]

Proposal == [id : Requests, job : Jobs, key : Keys, caller : Principals, origin : Origins,
             status : {"RECEIVED", "REJECTED"}, reason : Rejections \cup {"NONE"},
             payload : Payloads]

Event == [type : {"CLAIMED", "CLAIM_DENIED", "LEASE_EXPIRED", "SUBMIT_RECEIVED",
                  "SUBMIT_REJECTED", "SUBMIT_CONFLICT", "COMPLETED"},
          job : Jobs, actor : Principals, req : Requests]

ClaimSteps == {"c_terminal", "c_audit", "c_deferral", "c_batch", "c_own", "c_current"}

SubmitSteps == {"s_key", "s_lease", "s_formal", "s_reject", "s_accept", "s_synthetic",
                "s_confirm", "s_matches", "s_race", "s_fallback", "s_conflict"}

DeferSteps == {"d_key", "d_existing", "d_batch", "d_race", "d_rekey", "d_reexisting",
               "d_terminal"}

Steps == {"idle", "done"} \cup ClaimSteps \cup SubmitSteps \cup DeferSteps

Verdicts == Rejections \cup {"NONE", "ACCEPTED", "ACCEPTED_SYNTHETIC"}

Answers == Verdicts \cup {"NOT_FOUND", "TERMINAL", "CLAIMED", "ALREADY_CLAIMED",
                          "DEFERRED", "IDEMPOTENT_REPLAY", "CONFLICT", "STORE_UNAVAILABLE"}

\* A request's locals: the clock it captured, claim's loop counter, and the
\* outcome its write batch stands for.
Request == [pc : Steps, now : Nat, try : 0..2, verdict : Verdicts, answer : Answers]

\* Every row and local has its column's type.
TypeOK ==
  /\ clock \in Nat
  /\ leases \subseteq Lease
  /\ terminal \subseteq Terminal
  /\ deferrals \subseteq Deferral
  /\ proposals \subseteq Proposal
  /\ events \in Seq(Event)
  /\ input \in [Requests -> Input]
  /\ req \in [Requests -> Request]
  /\ faults \in 0..MaxFaults
  /\ granted \subseteq Lease

-----------------------------------------------------------------------------
(* SQL predicates.                                                         *)

Completed(j) == \E t \in terminal : t.job = j

DeferralsOf(j) == {d \in deferrals : d.job = j}

Deferred(j, now) == \E d \in DeferralsOf(j) : d.recheck > now

\* Variant: the fence forgets the owner.
FencedLeasesAnyOwner(r) ==
  {l \in leases : /\ l.job = input[r].job
                  /\ l.count = input[r].gen
                  /\ l.expires > req[r].now}

\* The rows `WHERE job_id=? AND lease_owner=? AND claim_count=? AND lease_expires_at > ?`.
FencedLeases(r) ==
  {l \in leases : /\ l.job = input[r].job
                  /\ l.owner = input[r].caller
                  /\ l.count = input[r].gen
                  /\ l.expires > req[r].now}

\* leasePredicate: the caller's fenced lease is live and the job is not terminal.
LeaseHeld(r) == FencedLeases(r) # {} /\ ~Completed(input[r].job)

WithKey(k) == {p \in proposals : p.key = k}

FormalResults(j) == {p \in proposals : p.job = j /\ p.origin = "CHATGPT" /\ p.status = "RECEIVED"}

\* Non-production principals can never file a formal result.
EffectiveOrigin(in) ==
  IF in.caller \notin FormalOwners /\ in.origin = "CHATGPT" THEN "SYNTHETIC" ELSE in.origin

StructureFailed(in) ==
  \/ in.caller \in FormalOwners /\ in.origin # "CHATGPT"
  \/ <<in.payload, in.job>> \notin WellFormed

EventOf(r, type) ==
  [type |-> type, job |-> input[r].job, actor |-> input[r].caller, req |-> r]

\* Variant: the row stores the origin the caller declared.
ProposalAsDeclared(r, status, reason) ==
  [id |-> r, job |-> input[r].job, key |-> input[r].key, caller |-> input[r].caller,
   origin |-> input[r].origin, status |-> status, reason |-> reason,
   payload |-> input[r].payload]

ProposalOf(r, status, reason) ==
  [id |-> r, job |-> input[r].job, key |-> input[r].key, caller |-> input[r].caller,
   origin |-> EffectiveOrigin(input[r]), status |-> status, reason |-> reason,
   payload |-> input[r].payload]

At(r, pc) == req[r].pc = pc

Go(r, pc) == req' = [req EXCEPT ![r].pc = pc]

\* Go on to a write batch that stands for the outcome v.
GoWith(r, pc, v) == req' = [req EXCEPT ![r].pc = pc, ![r].verdict = v]

Answer(r, a) == req' = [req EXCEPT ![r].pc = "done", ![r].answer = a]

ReadOnly == UNCHANGED <<clock, tables, input, faults, granted>>

-----------------------------------------------------------------------------
Init ==
  /\ clock = 0
  /\ leases = {} /\ terminal = {} /\ deferrals = {} /\ proposals = {}
  /\ events = <<>>
  /\ input \in Scenarios
  /\ req = [r \in Requests |-> [pc |-> "idle", now |-> 0, try |-> 0,
                                verdict |-> "NONE", answer |-> "NONE"]]
  /\ faults = 0
  /\ granted = {}

Tick ==
  /\ clock < MaxClock
  /\ clock' = clock + 1
  /\ UNCHANGED <<tables, input, req, faults, granted>>

\* A request arrives: its clock is captured and its arguments are validated.
Arrive(r, pc) == req' = [req EXCEPT ![r].pc = pc, ![r].now = clock]

Start(r) ==
  /\ At(r, "idle")
  /\ LET in == input[r] IN
     CASE in.op = "claim" /\ in.job \notin PublicJobs -> Answer(r, "NOT_FOUND")
       [] in.op = "claim" /\ in.job \in PublicJobs -> Arrive(r, "c_terminal")
       [] in.op # "claim" /\ in.gen = 0 -> Answer(r, "VALIDATION_FAILED")
       [] in.op = "submit" /\ in.gen # 0 -> Arrive(r, "s_key")
       [] in.op = "defer" /\ in.gen # 0 -> Arrive(r, "d_key")
  /\ ReadOnly

-----------------------------------------------------------------------------
(* claimResearchJob                                                        *)

\* Asked before the first attempt (try = 0) and after each failed one.
ClaimReadTerminal(r) ==
  /\ At(r, "c_terminal")
  /\ Go(r, IF Completed(input[r].job) THEN "c_audit" ELSE "c_deferral")
  /\ ReadOnly

ClaimAudit(r) ==
  /\ At(r, "c_audit")
  /\ events' = Append(events, EventOf(r, "CLAIM_DENIED"))
  /\ Answer(r, "TERMINAL")
  /\ UNCHANGED <<clock, leases, terminal, deferrals, proposals, input, faults, granted>>

ClaimReadDeferral(r) ==
  /\ At(r, "c_deferral")
  /\ IF Deferred(input[r].job, req[r].now)
       THEN Answer(r, "DEFERRED")
       ELSE Go(r, IF req[r].try = 0 THEN "c_batch" ELSE "c_current")
  /\ ReadOnly

NextToken(r) == [req |-> r, try |-> req[r].try + 1]

NewLease(r, count) ==
  [job |-> input[r].job, owner |-> input[r].caller, token |-> NextToken(r),
   claimed_at |-> req[r].now, expires |-> req[r].now + TTL, count |-> count]

\* Variants: the conditional write leaves one half of the gate to the pre-reads.
GrantableAfterCompletion(r) == ~Deferred(input[r].job, req[r].now)
GrantableWhileDeferred(r) == ~Completed(input[r].job)

\* The gate repeated inside the conditional write.
Grantable(r) == ~Completed(input[r].job) /\ ~Deferred(input[r].job, req[r].now)

LeasesOf(j) == {l \in leases : l.job = j}

Attempt(r) ==
  /\ At(r, "c_batch")
  /\ req' = [req EXCEPT ![r].pc = "c_own", ![r].try = @ + 1]

\* Variant: LEASE_EXPIRED asks for a lease that is over by more than the upsert does.
OverdueBefore(r) == {l \in LeasesOf(input[r].job) : Grantable(r) /\ l.expires < req[r].now}

\* The lease row whose expiry the batch's first statement records: it repeats the
\* condition of the upsert that follows it.
Overdue(r) == {l \in LeasesOf(input[r].job) : Grantable(r) /\ l.expires <= req[r].now}

Expirations(r) ==
  IF Overdue(r) = {}
    THEN {<<>>}
    ELSE {<<[EventOf(r, "LEASE_EXPIRED") EXCEPT !.actor = l.owner]>> : l \in Overdue(r)}

\* The row the last statement records as CLAIMED: found by its fresh token, among
\* the rows the upsert left.
Granted(r, rows) ==
  {l \in rows : l.job = input[r].job /\ l.owner = input[r].caller /\ l.token = NextToken(r)}

\* The batch's first and last statement, each selecting by its own condition.
LeaseAudit(r) ==
  \E expiry \in Expirations(r) :
    events' = events \o expiry
                     \o (IF Granted(r, leases') = {} THEN <<>> ELSE <<EventOf(r, "CLAIMED")>>)

\* The upsert inserts: no lease row.
ClaimFresh(r) ==
  /\ Attempt(r)
  /\ Grantable(r)
  /\ LeasesOf(input[r].job) = {}
  /\ leases' = leases \cup {NewLease(r, 1)}
  /\ granted' = granted \cup {NewLease(r, 1)}
  /\ LeaseAudit(r)
  /\ UNCHANGED <<clock, terminal, deferrals, proposals, input, faults>>

\* The upsert takes over an expired row.
ClaimPreempt(r) ==
  /\ Attempt(r)
  /\ Grantable(r)
  /\ \E old \in LeasesOf(input[r].job) :
       /\ old.expires <= req[r].now
       /\ leases' = (leases \ {old}) \cup {NewLease(r, old.count + 1)}
       /\ granted' = granted \cup {NewLease(r, old.count + 1)}
  /\ LeaseAudit(r)
  /\ UNCHANGED <<clock, terminal, deferrals, proposals, input, faults>>

\* The upsert writes nothing.
ClaimMiss(r) ==
  /\ Attempt(r)
  /\ \/ ~Grantable(r)
     \/ \E l \in LeasesOf(input[r].job) : l.expires > req[r].now
  /\ UNCHANGED <<leases, granted>>
  /\ LeaseAudit(r)
  /\ UNCHANGED <<clock, terminal, deferrals, proposals, input, faults>>

\* Whether the batch won is read back from the lease row by its fresh token.
ClaimReadOwn(r) ==
  /\ At(r, "c_own")
  /\ IF \E l \in LeasesOf(input[r].job) : l.token = [req |-> r, try |-> req[r].try]
       THEN Answer(r, "CLAIMED")
       ELSE Go(r, "c_terminal")
  /\ ReadOnly

ClaimReadCurrent(r) ==
  /\ At(r, "c_current")
  /\ LET live == {l \in LeasesOf(input[r].job) : l.expires > req[r].now} IN
     CASE live = {} /\ req[r].try = 1 -> Go(r, "c_batch")
       [] live = {} /\ req[r].try # 1 -> Answer(r, "STORE_UNAVAILABLE")
       [] live # {} -> Answer(r, IF \E l \in live : l.owner = input[r].caller
                                   THEN "CLAIMED" ELSE "ALREADY_CLAIMED")
  /\ ReadOnly

Claim(r) ==
  \/ ClaimReadTerminal(r) \/ ClaimAudit(r) \/ ClaimReadDeferral(r)
  \/ ClaimFresh(r) \/ ClaimPreempt(r) \/ ClaimMiss(r)
  \/ ClaimReadOwn(r) \/ ClaimReadCurrent(r)

-----------------------------------------------------------------------------
(* submitResearchResultProposal                                            *)

\* Variant: a replay answers with the stored status.
ReplayStatus(r, p) ==
  IF p.payload # input[r].payload THEN Go(r, "s_conflict") ELSE Answer(r, p.status)

\* outcomeForExistingProposal: a replay, the old rejection again, or a conflict.
ReplayVerdict(r, p) ==
  CASE p.payload # input[r].payload -> Go(r, "s_conflict")
    [] p.payload = input[r].payload /\ p.status = "RECEIVED" -> Answer(r, "IDEMPOTENT_REPLAY")
    [] p.payload = input[r].payload /\ p.status = "REJECTED" -> Answer(r, p.reason)

\* Idempotency first, then origin and structure.
SubmitReadKey(r) ==
  /\ At(r, "s_key")
  /\ \/ \E p \in WithKey(input[r].key) : ReplayVerdict(r, p)
     \/ /\ WithKey(input[r].key) = {}
        /\ IF StructureFailed(input[r])
             THEN GoWith(r, "s_reject", "VALIDATION_FAILED")
             ELSE Go(r, "s_lease")
  /\ ReadOnly

\* Existence, expiry, owner, generation.
SubmitReadLease(r) ==
  /\ At(r, "s_lease")
  /\ CASE FencedLeases(r) = {} -> GoWith(r, "s_reject", "LEASE_INVALID")
       [] FencedLeases(r) # {} /\ EffectiveOrigin(input[r]) = "CHATGPT" -> Go(r, "s_formal")
       [] FencedLeases(r) # {} /\ EffectiveOrigin(input[r]) # "CHATGPT" ->
            GoWith(r, "s_synthetic", "ACCEPTED_SYNTHETIC")
  /\ ReadOnly

SubmitReadFormal(r) ==
  /\ At(r, "s_formal")
  /\ IF FormalResults(input[r].job) # {}
       THEN GoWith(r, "s_reject", "SECOND_RESULT")
       ELSE GoWith(r, "s_accept", "ACCEPTED")
  /\ ReadOnly

\* A batch has committed: either its caller learns so, or D1 loses the answer
\* and the catch block runs.
Committed(r, next, catch) ==
  \/ next /\ UNCHANGED faults
  \/ faults < MaxFaults /\ faults' = faults + 1 /\ Go(r, catch)

\* The audited rejection: a REJECTED row and its event.
SubmitReject(r) ==
  /\ At(r, "s_reject")
  /\ WithKey(input[r].key) = {}
  /\ proposals' = proposals \cup {ProposalOf(r, "REJECTED", req[r].verdict)}
  /\ events' = Append(events, EventOf(r, "SUBMIT_REJECTED"))
  /\ Committed(r, Answer(r, req[r].verdict), "s_race")
  /\ UNCHANGED <<clock, leases, terminal, deferrals, input, granted>>

\* Five statements, each repeating the lease predicate.
SubmitAccept(r) ==
  /\ At(r, "s_accept")
  /\ LeaseHeld(r)
  /\ WithKey(input[r].key) = {} /\ FormalResults(input[r].job) = {}
  /\ proposals' = proposals \cup {ProposalOf(r, "RECEIVED", "NONE")}
  /\ terminal' = terminal \cup {[job |-> input[r].job, proposal |-> r]}
  /\ leases' = leases \ FencedLeases(r)
  /\ events' = events \o <<EventOf(r, "SUBMIT_RECEIVED"), EventOf(r, "COMPLETED")>>
  /\ Committed(r, Go(r, "s_confirm"), "s_race")
  /\ UNCHANGED <<clock, deferrals, input, granted>>

\* Variant: the two event inserts are not conditional on the terminal row.
SubmitFencedAudited(r) ==
  /\ At(r, "s_accept")
  /\ ~LeaseHeld(r)
  /\ leases' = leases \ FencedLeases(r)
  /\ events' = events \o <<EventOf(r, "SUBMIT_RECEIVED"), EventOf(r, "COMPLETED")>>
  /\ Committed(r, Go(r, "s_confirm"), "s_race")
  /\ UNCHANGED <<clock, terminal, deferrals, proposals, input, granted>>

\* The fence fails: no insert selects a row (a fenced lease of a terminal job is
\* still released), and the batch succeeds.
SubmitFenced(r) ==
  /\ At(r, "s_accept")
  /\ ~LeaseHeld(r)
  /\ leases' = leases \ FencedLeases(r)
  /\ Committed(r, Go(r, "s_confirm"), "s_race")
  /\ UNCHANGED <<clock, terminal, deferrals, proposals, events, input, granted>>

\* Synthetic accept: the lease of the job is released whoever holds it.
SubmitSynthetic(r) ==
  /\ At(r, "s_synthetic")
  /\ WithKey(input[r].key) = {}
  /\ proposals' = proposals \cup {ProposalOf(r, "RECEIVED", "NONE")}
  /\ leases' = leases \ LeasesOf(input[r].job)
  /\ events' = Append(events, EventOf(r, "SUBMIT_RECEIVED"))
  /\ Committed(r, Answer(r, "ACCEPTED_SYNTHETIC"), "s_race")
  /\ UNCHANGED <<clock, terminal, deferrals, input, granted>>

\* A UNIQUE column refuses the row: the batch throws and rolls back.
SubmitClash(r) ==
  /\ \/ req[r].pc \in {"s_reject", "s_synthetic"} /\ WithKey(input[r].key) # {}
     \/ /\ At(r, "s_accept") /\ LeaseHeld(r)
        /\ WithKey(input[r].key) \cup FormalResults(input[r].job) # {}
  /\ Go(r, "s_race")
  /\ ReadOnly

\* Variant: a fenced submit is diagnosed without asking whether it was a retry.
SubmitConfirmOnce(r) ==
  /\ At(r, "s_confirm")
  /\ Go(r, IF \E p \in WithKey(input[r].key) : p.id = r /\ p.status = "RECEIVED"
             THEN "s_matches" ELSE "s_fallback")
  /\ ReadOnly

\* The terminal row and the proposal, read back, are the outcome of the batch.
SubmitConfirm(r) ==
  /\ At(r, "s_confirm")
  /\ Go(r, IF \E p \in WithKey(input[r].key) : p.id = r /\ p.status = "RECEIVED"
             THEN "s_matches" ELSE "s_race")
  /\ ReadOnly

SubmitMatches(r) ==
  /\ At(r, "s_matches")
  /\ IF [job |-> input[r].job, proposal |-> r] \in terminal
       THEN Answer(r, "ACCEPTED")
       ELSE Go(r, "s_race")
  /\ ReadOnly

\* resolveProposalRace finds no row: a formal submit asks why, any other batch
\* is taken to have succeeded.
NoRace(r) ==
  IF req[r].verdict = "ACCEPTED" THEN Go(r, "s_fallback") ELSE Answer(r, req[r].verdict)

SubmitRace(r) ==
  /\ At(r, "s_race")
  /\ \/ \E p \in WithKey(input[r].key) : ReplayVerdict(r, p)
     \/ WithKey(input[r].key) = {} /\ NoRace(r)
  /\ ReadOnly

SubmitFallback(r) ==
  /\ At(r, "s_fallback")
  /\ Answer(r, IF Completed(input[r].job) THEN "SECOND_RESULT" ELSE "LEASE_INVALID")
  /\ ReadOnly

SubmitConflict(r) ==
  /\ At(r, "s_conflict")
  /\ events' = Append(events, EventOf(r, "SUBMIT_CONFLICT"))
  /\ Answer(r, "CONFLICT")
  /\ UNCHANGED <<clock, leases, terminal, deferrals, proposals, input, faults, granted>>

Submit(r) ==
  \/ SubmitReadKey(r) \/ SubmitReadLease(r) \/ SubmitReadFormal(r)
  \/ SubmitReject(r) \/ SubmitAccept(r) \/ SubmitFenced(r) \/ SubmitSynthetic(r)
  \/ SubmitClash(r) \/ SubmitConfirm(r) \/ SubmitMatches(r)
  \/ SubmitRace(r) \/ SubmitFallback(r) \/ SubmitConflict(r)

-----------------------------------------------------------------------------
(* deferResearchJob                                                        *)

\* replayOutcome: the stored hash covers job, owner, generation and recheck time.
SameDeferral(r, d) ==
  /\ d.job = input[r].job /\ d.owner = input[r].caller
  /\ d.gen = input[r].gen /\ d.recheck = input[r].recheck

\* The lookup by idempotency key: at entry, after the batch threw, and after
\* the batch inserted nothing.
DeferReadKey(r) ==
  /\ req[r].pc \in {"d_key", "d_race", "d_rekey"}
  /\ \/ \E d \in deferrals :
          /\ d.key = input[r].key
          /\ Answer(r, IF SameDeferral(r, d) THEN "IDEMPOTENT_REPLAY" ELSE "CONFLICT")
     \/ /\ \A d \in deferrals : d.key # input[r].key
        /\ CASE At(r, "d_key") /\ input[r].recheck <= req[r].now ->
                  Answer(r, "VALIDATION_FAILED")
             [] At(r, "d_key") /\ input[r].recheck > req[r].now -> Go(r, "d_existing")
             [] At(r, "d_race") -> Answer(r, "STORE_UNAVAILABLE")
             [] At(r, "d_rekey") -> Go(r, "d_reexisting")
  /\ ReadOnly

\* A job is deferred once.
DeferReadExisting(r) ==
  /\ req[r].pc \in {"d_existing", "d_reexisting"}
  /\ CASE DeferralsOf(input[r].job) # {} -> Answer(r, "CONFLICT")
       [] DeferralsOf(input[r].job) = {} ->
            Go(r, IF At(r, "d_existing") THEN "d_batch" ELSE "d_terminal")
  /\ ReadOnly

DeferRow(r) ==
  [job |-> input[r].job, key |-> input[r].key, owner |-> input[r].caller,
   gen |-> input[r].gen, recheck |-> input[r].recheck]

Clashing(r) == {d \in deferrals : d.job = input[r].job \/ d.key = input[r].key}

\* Variant: the deferral is stored and the lease kept.
DeferCommitHolding(r) ==
  /\ At(r, "d_batch")
  /\ LeaseHeld(r) /\ Clashing(r) = {}
  /\ deferrals' = deferrals \cup {DeferRow(r)}
  /\ Committed(r, Answer(r, "DEFERRED"), "d_race")
  /\ UNCHANGED <<clock, leases, terminal, proposals, events, input, granted>>

DeferCommit(r) ==
  /\ At(r, "d_batch")
  /\ LeaseHeld(r) /\ Clashing(r) = {}
  /\ deferrals' = deferrals \cup {DeferRow(r)}
  /\ leases' = leases \ FencedLeases(r)
  /\ Committed(r, Answer(r, "DEFERRED"), "d_race")
  /\ UNCHANGED <<clock, terminal, proposals, events, input, granted>>

\* Variant: a batch that did not throw is taken for a deferral.
DeferFencedAnswered(r) ==
  /\ At(r, "d_batch")
  /\ ~LeaseHeld(r)
  /\ leases' = leases \ FencedLeases(r)
  /\ Committed(r, Answer(r, "DEFERRED"), "d_race")
  /\ UNCHANGED <<clock, terminal, deferrals, proposals, events, input, granted>>

DeferFenced(r) ==
  /\ At(r, "d_batch")
  /\ ~LeaseHeld(r)
  /\ leases' = leases \ FencedLeases(r)
  /\ Committed(r, Go(r, "d_rekey"), "d_race")
  /\ UNCHANGED <<clock, terminal, deferrals, proposals, events, input, granted>>

DeferClash(r) ==
  /\ At(r, "d_batch")
  /\ LeaseHeld(r) /\ Clashing(r) # {}
  /\ Go(r, "d_race")
  /\ ReadOnly

\* The lease read that follows a missing terminal row only picks the sub-reason.
DeferReadTerminal(r) ==
  /\ At(r, "d_terminal")
  /\ Answer(r, IF Completed(input[r].job) THEN "SECOND_RESULT" ELSE "LEASE_INVALID")
  /\ ReadOnly

Defer(r) ==
  \/ DeferReadKey(r) \/ DeferReadExisting(r)
  \/ DeferCommit(r) \/ DeferFenced(r) \/ DeferClash(r)
  \/ DeferReadTerminal(r)

-----------------------------------------------------------------------------
(* D1 failures a catch block survives.                                     *)

\* The batch throws and nothing was written.
BatchFault(r) ==
  /\ req[r].pc \in {"s_reject", "s_accept", "s_synthetic", "d_batch"}
  /\ faults < MaxFaults
  /\ faults' = faults + 1
  /\ Go(r, IF At(r, "d_batch") THEN "d_race" ELSE "s_race")
  /\ UNCHANGED <<clock, tables, input, granted>>

\* The lookup in the catch block fails too, and counts as no row.
LookupFault(r) ==
  /\ req[r].pc \in {"s_race", "d_race"}
  /\ faults < MaxFaults
  /\ faults' = faults + 1
  /\ IF At(r, "s_race") THEN NoRace(r) ELSE Answer(r, "STORE_UNAVAILABLE")
  /\ UNCHANGED <<clock, tables, input, granted>>

RequestStep(r) == Claim(r) \/ Submit(r) \/ Defer(r) \/ BatchFault(r) \/ LookupFault(r)

Next ==
  \/ Tick
  \/ \E r \in Requests : Start(r) \/ RequestStep(r)

Spec == Init /\ [][Next]_vars

-----------------------------------------------------------------------------
(* Properties.                                                             *)

\* One formal result per job, and it is the one the terminal row names: the
\* formal accept batch writes both or neither, and never twice.
OneFormalResult ==
  \A j \in Jobs :
    /\ \A p, q \in FormalResults(j) : p = q
    /\ {t \in terminal : t.job = j} = {[job |-> j, proposal |-> p.id] : p \in FormalResults(j)}

\* A completed job keeps no lease, so a stale claim can never revive it: the
\* terminal predicate is inside every lease write.
NoLeaseAfterCompletion == \A l \in leases : ~Completed(l.job)

\* Leases and deferrals exclude each other in time: a lease on a job that was
\* deferred was claimed at or after the recheck time.
LeaseRespectsDeferral ==
  \A l \in leases, d \in deferrals : l.job = d.job => l.claimed_at >= d.recheck

EventsOf(r, types) == {i \in DOMAIN events : events[i].req = r /\ events[i].type \in types}

\* Every stored proposal has exactly one audit event of its kind, no event stands
\* without its row, and a job's COMPLETED event is there iff its terminal row is.
SubmitAudited ==
  \A r \in Requests :
    LET row(status) == {p \in proposals : p.id = r /\ p.status = status} IN
    /\ row("RECEIVED") # {} <=> EventsOf(r, {"SUBMIT_RECEIVED"}) # {}
    /\ row("REJECTED") # {} <=> EventsOf(r, {"SUBMIT_REJECTED"}) # {}
    /\ (\E t \in terminal : t.proposal = r) <=> EventsOf(r, {"COMPLETED"}) # {}
    /\ \A i, k \in EventsOf(r, {"SUBMIT_RECEIVED", "SUBMIT_REJECTED"}) : i = k

\* The log tells the leases: every lease ever written has its CLAIMED event and no
\* claim that failed has one; a lease that took another over has the LEASE_EXPIRED
\* event of its predecessor's owner, and an expiry is recorded only right before the
\* claim of the takeover that observed it.
ClaimAudited ==
  /\ \A l \in granted :
       \E i \in EventsOf(l.token.req, {"CLAIMED"}) : events[i].actor = l.owner
  /\ \A i \in DOMAIN events : events[i].type = "CLAIMED" =>
       \E l \in granted : l.token.req = events[i].req
  /\ \A l \in granted : l.count > 1 =>
       \E h \in granted, i \in EventsOf(l.token.req, {"LEASE_EXPIRED"}) :
         h.job = l.job /\ h.count + 1 = l.count /\ events[i].actor = h.owner
  /\ \A i \in DOMAIN events : events[i].type = "LEASE_EXPIRED" =>
       /\ i + 1 \in DOMAIN events
       /\ events[i + 1].type = "CLAIMED"
       /\ events[i + 1].job = events[i].job /\ events[i + 1].req = events[i].req

\* Once COMPLETED is in a job's history, only refusals follow, and the synthetic
\* submits, whose accept batch does not ask for the terminal row: no claim, no second
\* completion and no formal result.
NothingAfterCompleted ==
  \A i, k \in DOMAIN events :
    (i < k /\ events[i].type = "COMPLETED" /\ events[k].job = events[i].job) =>
      \/ events[k].type \in {"CLAIM_DENIED", "SUBMIT_REJECTED", "SUBMIT_CONFLICT"}
      \/ events[k].type = "SUBMIT_RECEIVED" /\ events[k].actor \notin FormalOwners

\* What the tables must hold for request r to be answered a.
Backed(r, a) ==
  LET in == input[r] IN
  CASE a = "ACCEPTED" -> [job |-> in.job, proposal |-> r] \in terminal
    [] a = "IDEMPOTENT_REPLAY" /\ in.op = "submit" ->
         \E p \in proposals : p.key = in.key /\ p.payload = in.payload /\ p.status = "RECEIVED"
    [] a \in {"DEFERRED", "IDEMPOTENT_REPLAY"} /\ in.op = "defer" -> DeferRow(r) \in deferrals
    [] a = "CLAIMED" ->
         \E l \in granted : l.job = in.job /\ l.owner = in.caller /\ l.expires > req[r].now
    [] OTHER -> TRUE

\* What a caller is told is what the tables hold: an acceptance is the job's
\* terminal result, a replay repeats a stored result, a deferral is stored, and a
\* claim names a lease of the caller that was live by the request's own clock.
AnswersTruthful == \A r \in Requests : Backed(r, req[r].answer)

\* A retry of an accepted submit replays it: as long as a lease ends only with its
\* job or its time and D1 does not fail, no interleaving of two requests that carry
\* the same submit tells one of them ACCEPTED and the other a refusal.
RetryAgrees ==
  \A r, q \in Requests :
    (input[r].op = "submit" /\ input[q] = input[r] /\ req[r].answer = "ACCEPTED" /\ q # r)
      => req[q].answer \in {"NONE", "IDEMPOTENT_REPLAY"}

\* A live lease is never lost to anyone else: it leaves the table before it
\* expires only by a write that quotes its owner and its generation.
LiveLeaseIsFenced ==
  [][\A l \in leases : l \notin leases' =>
       \/ l.expires <= clock
       \/ \E r \in Requests : /\ req'[r] # req[r]
                              /\ input[r].op # "claim"
                              /\ input[r].caller = l.owner /\ input[r].gen = l.count]_vars

\* Every acceptance is backed by the stored proposal it names.
AcceptedIsStored ==
  \A r \in Requests :
    req[r].answer \in {"ACCEPTED", "ACCEPTED_SYNTHETIC"} =>
      \E p \in proposals : p.id = r /\ p.status = "RECEIVED"

\* What the life cycle sees of the tables.
Holder == [j \in Jobs |-> {[owner |-> l.owner, until |-> l.expires] : l \in LeasesOf(j)}]
Parked == [j \in Jobs |-> {d.recheck : d \in DeferralsOf(j)}]
Result == [j \in Jobs |-> {p.caller : p \in FormalResults(j)}]

Lifecycle == INSTANCE JobLifecycle WITH
  Owners <- Principals, time <- clock, holder <- Holder, parked <- Parked, result <- Result

\* The queue implements the life cycle, when all its callers are formal owners:
\* every write of every interleaving is one step of it or none.
LifecycleSpec == Lifecycle!Spec
=============================================================================
