----------------------- MODULE ResearchWorkflowProofs -----------------------
(***************************************************************************)
(* Theorems about ResearchWorkflow, for every set of jobs, callers, keys,  *)
(* payloads and requests, every scenario, every lease length and every     *)
(* bound on the clock and on the faults.                                   *)
(***************************************************************************)
EXTENDS ResearchWorkflow, TLAPS

-----------------------------------------------------------------------------
(* Typing.  TypeOK is not inductive alone: the attempt counter stays in    *)
(* range because only the first two attempts reach the batch, and a        *)
(* REJECTED row has a reason because of how its batch was reached.         *)

\* What a request's program counter says of its other locals and of its input.
Placed(r, rec) ==
  /\ rec.pc \in ClaimSteps => input[r].op = "claim"
  /\ rec.pc \in SubmitSteps => input[r].op = "submit"
  /\ rec.pc \in DeferSteps => input[r].op = "defer"
  /\ rec.pc = "c_batch" => rec.try <= 1
  /\ rec.pc = "s_reject" => rec.verdict \in Rejections
  /\ rec.pc \in {"s_formal", "s_accept"} => EffectiveOrigin(input[r]) = "CHATGPT"
  /\ rec.pc = "s_synthetic" => EffectiveOrigin(input[r]) # "CHATGPT"
  /\ rec.pc \in {"s_lease", "s_formal", "s_accept", "s_synthetic"} => ~StructureFailed(input[r])

Placing == \A r \in Requests : Placed(r, req[r])

TypeInv == TypeOK /\ Placing

\* What a step owes the requests.
Moved == req' \in [Requests -> Request] /\ Placing'

\* A step of one request moves soundly if its new record is typed and placed.
LEMMA MoveType ==
  ASSUME TypeInv, NEW r \in Requests, NEW rec \in Request, Placed(r, rec),
         req' = [req EXCEPT ![r] = rec], input' = input
  PROVE  Moved
BY DEF TypeInv, TypeOK, Placing, Placed, Moved

\* The common moves, as instances of that: to answer, to go on, to go on with a
\* verdict.
LEMMA AnswerMove ==
  ASSUME TypeInv, NEW r \in Requests, NEW a \in Answers, Answer(r, a), input' = input
  PROVE  Moved
<1> DEFINE rec == [req[r] EXCEPT !.pc = "done", !.answer = a]
<1>1. req[r] \in Request /\ req \in [Requests -> Request]
  BY DEF TypeInv, TypeOK
<1>2. "done" \in Steps
  BY DEF Steps
<1>3. rec \in Request
  BY <1>1, <1>2 DEF Request
<1>4. rec.pc = "done"
  BY <1>1 DEF Request
<1>5. Placed(r, rec)
  BY <1>4 DEF Placed, ClaimSteps, SubmitSteps, DeferSteps
<1>6. req' = [req EXCEPT ![r] = rec]
  BY <1>1 DEF Answer
<1> QED
  BY <1>3, <1>5, <1>6, MoveType

LEMMA GoMove ==
  ASSUME TypeInv, NEW r \in Requests, NEW pc \in Steps, Go(r, pc), input' = input,
         Placed(r, [req[r] EXCEPT !.pc = pc])
  PROVE  Moved
<1> DEFINE rec == [req[r] EXCEPT !.pc = pc]
<1>1. rec \in Request
  BY DEF TypeInv, TypeOK, Request
<1>2. req' = [req EXCEPT ![r] = rec]
  BY DEF Go, TypeInv, TypeOK
<1> QED
  BY <1>1, <1>2, MoveType

LEMMA GoWithMove ==
  ASSUME TypeInv, NEW r \in Requests, NEW pc \in Steps, NEW v \in Verdicts,
         GoWith(r, pc, v), input' = input,
         Placed(r, [req[r] EXCEPT !.pc = pc, !.verdict = v])
  PROVE  Moved
<1> DEFINE rec == [req[r] EXCEPT !.pc = pc, !.verdict = v]
<1>1. rec \in Request
  BY DEF TypeInv, TypeOK, Request
<1>2. req' = [req EXCEPT ![r] = rec]
  BY DEF GoWith, TypeInv, TypeOK
<1> QED
  BY <1>1, <1>2, MoveType

LEMMA EventType ==
  ASSUME TypeOK, NEW r \in Requests,
         NEW t \in {"CLAIMED", "CLAIM_DENIED", "LEASE_EXPIRED", "SUBMIT_RECEIVED",
                    "SUBMIT_REJECTED", "SUBMIT_CONFLICT", "COMPLETED"}
  PROVE  EventOf(r, t) \in Event
BY DEF TypeOK, EventOf, Event, Input

LEMMA InitType == Init => TypeInv
BY ConstantsAssumption
   DEF Init, TypeInv, TypeOK, ConstantsAssumption, Request, Steps, Verdicts, Answers,
       Placing, Placed, ClaimSteps, SubmitSteps, DeferSteps

LEMMA StartType ==
  ASSUME TypeInv, NEW r \in Requests, Start(r)
  PROVE  TypeInv'
<1>1. /\ input' = input /\ input[r].op \in {"claim", "submit", "defer"}
      /\ req[r] \in Request /\ req \in [Requests -> Request] /\ clock \in Nat
  BY DEF TypeInv, TypeOK, Input, Start, ReadOnly
<1>2. ASSUME NEW pc \in Steps, Arrive(r, pc),
             Placed(r, [req[r] EXCEPT !.pc = pc, !.now = clock])
      PROVE  Moved
  <2>1. [req[r] EXCEPT !.pc = pc, !.now = clock] \in Request
    BY <1>1 DEF Request
  <2>2. req' = [req EXCEPT ![r] = [req[r] EXCEPT !.pc = pc, !.now = clock]]
    BY <1>1, <1>2 DEF Arrive
  <2> QED
    BY <1>1, <1>2, <2>1, <2>2, MoveType
<1>3. Moved
  <2>1. CASE Answer(r, "NOT_FOUND") \/ Answer(r, "VALIDATION_FAILED")
    BY <1>1, <2>1, AnswerMove DEF Answers, Verdicts, Rejections
  <2>2. CASE input[r].op = "claim" /\ Arrive(r, "c_terminal")
    BY <1>1, <1>2, <2>2 DEF Placed, Request, Steps, ClaimSteps, SubmitSteps, DeferSteps
  <2>3. CASE input[r].op = "submit" /\ Arrive(r, "s_key")
    BY <1>1, <1>2, <2>3 DEF Placed, Request, Steps, ClaimSteps, SubmitSteps, DeferSteps
  <2>4. CASE input[r].op = "defer" /\ Arrive(r, "d_key")
    BY <1>1, <1>2, <2>4 DEF Placed, Request, Steps, ClaimSteps, SubmitSteps, DeferSteps
  <2> QED
    BY <1>1, <2>1, <2>2, <2>3, <2>4 DEF Start
<1> QED
  BY <1>3 DEF Moved, TypeInv, TypeOK, Start, ReadOnly, tables

\* A request that goes on inside its own operation, to a step with no side
\* condition, stays placed.
LEMMA StayMove ==
  ASSUME TypeInv, NEW r \in Requests, NEW pc \in Steps, Go(r, pc), input' = input,
         pc \notin {"c_batch", "s_lease", "s_reject", "s_formal", "s_accept", "s_synthetic"},
         \/ req[r].pc \in ClaimSteps /\ pc \in ClaimSteps
         \/ req[r].pc \in SubmitSteps /\ pc \in SubmitSteps
         \/ req[r].pc \in DeferSteps /\ pc \in DeferSteps
  PROVE  Moved
<1>1. Placed(r, req[r]) /\ req[r] \in Request
  BY DEF TypeInv, TypeOK, Placing
<1>2. Placed(r, [req[r] EXCEPT !.pc = pc])
  BY <1>1 DEF Placed, Request, ClaimSteps, SubmitSteps, DeferSteps
<1> QED
  BY <1>2, GoMove

LEMMA AttemptMove ==
  ASSUME TypeInv, NEW r \in Requests, Attempt(r), input' = input
  PROVE  Moved /\ \A n \in Nat : NewLease(r, n) \in Lease
<1> DEFINE rec == [req[r] EXCEPT !.pc = "c_own", !.try = @ + 1]
<1>1. /\ Placed(r, req[r]) /\ req[r] \in Request /\ req \in [Requests -> Request]
      /\ input[r] \in Input
  BY DEF TypeInv, TypeOK, Placing
<1>2. TTL \in Nat
  BY ConstantsAssumption DEF ConstantsAssumption
<1>3. req[r].try \in 0..1 /\ input[r].op = "claim"
  BY <1>1 DEF Attempt, At, Placed, Request, ClaimSteps
<1>4. rec \in Request
  <2>1. "c_own" \in Steps /\ req[r].try + 1 \in 0..2
    BY <1>3 DEF Steps, ClaimSteps
  <2> QED
    BY <1>1, <2>1 DEF Request
<1>5. Placed(r, rec)
  BY <1>1, <1>3 DEF Placed, Request, ClaimSteps, SubmitSteps, DeferSteps
<1>6. req' = [req EXCEPT ![r] = rec]
  BY <1>1 DEF Attempt
<1>7. ASSUME NEW n \in Nat
      PROVE  NewLease(r, n) \in Lease
  <2>1. NextToken(r) \in Token
    BY <1>3 DEF NextToken, Token
  <2> QED
    BY <1>1, <1>2, <2>1 DEF NewLease, Lease, Request, Input
<1> QED
  BY <1>4, <1>5, <1>6, <1>7, MoveType

LEMMA ClaimMove ==
  ASSUME TypeInv, NEW r \in Requests, Claim(r)
  PROVE  Moved
<1>1. Placed(r, req[r]) /\ req[r] \in Request
  BY DEF TypeInv, TypeOK, Placing
<1>2. CASE ClaimReadTerminal(r)
  BY <1>2, StayMove DEF ClaimReadTerminal, At, ReadOnly, Steps, ClaimSteps
<1>3. CASE ClaimAudit(r)
  BY <1>3, AnswerMove DEF ClaimAudit, Answers
<1>4. CASE ClaimReadDeferral(r)
  <2>1. CASE Answer(r, "DEFERRED")
    BY <1>4, <2>1, AnswerMove DEF ClaimReadDeferral, ReadOnly, Answers
  <2>2. CASE Go(r, "c_current")
    BY <1>4, <2>2, StayMove DEF ClaimReadDeferral, At, ReadOnly, Steps, ClaimSteps
  <2>3. CASE req[r].try = 0 /\ Go(r, "c_batch")
    <3>1. Placed(r, [req[r] EXCEPT !.pc = "c_batch"])
      BY <1>1, <1>4, <2>3
         DEF ClaimReadDeferral, At, Placed, Request, ClaimSteps, SubmitSteps, DeferSteps
    <3> QED
      BY <1>4, <2>3, <3>1, GoMove DEF ClaimReadDeferral, ReadOnly, Steps, ClaimSteps
  <2> QED
    BY <1>4, <2>1, <2>2, <2>3 DEF ClaimReadDeferral
<1>5. CASE ClaimFresh(r) \/ ClaimPreempt(r) \/ ClaimMiss(r)
  BY <1>5, AttemptMove DEF ClaimFresh, ClaimPreempt, ClaimMiss, ReadOnly
<1>6. CASE ClaimReadOwn(r)
  <2>1. CASE Answer(r, "CLAIMED")
    BY <1>6, <2>1, AnswerMove DEF ClaimReadOwn, ReadOnly, Answers
  <2>2. CASE Go(r, "c_terminal")
    BY <1>6, <2>2, StayMove DEF ClaimReadOwn, At, ReadOnly, Steps, ClaimSteps
  <2> QED
    BY <1>6, <2>1, <2>2 DEF ClaimReadOwn
<1>7. CASE ClaimReadCurrent(r)
  <2>1. CASE \E a \in {"STORE_UNAVAILABLE", "CLAIMED", "ALREADY_CLAIMED"} : Answer(r, a)
    BY <1>7, <2>1, AnswerMove DEF ClaimReadCurrent, ReadOnly, Answers
  <2>2. CASE req[r].try = 1 /\ Go(r, "c_batch")
    <3>1. Placed(r, [req[r] EXCEPT !.pc = "c_batch"])
      BY <1>1, <1>7, <2>2
         DEF ClaimReadCurrent, At, Placed, Request, ClaimSteps, SubmitSteps, DeferSteps
    <3> QED
      BY <1>7, <2>2, <3>1, GoMove DEF ClaimReadCurrent, ReadOnly, Steps, ClaimSteps
  <2> QED
    BY <1>7, <2>1, <2>2 DEF ClaimReadCurrent
<1> QED
  BY <1>2, <1>3, <1>4, <1>5, <1>6, <1>7 DEF Claim

\* Whichever rows the claim batch's audit statements select, events stay events.
LEMMA LeaseAuditType ==
  ASSUME TypeInv, NEW r \in Requests, LeaseAudit(r)
  PROVE  events' \in Seq(Event)
<1>1. EventOf(r, "CLAIMED") \in Event /\ EventOf(r, "LEASE_EXPIRED") \in Event
  BY EventType DEF TypeInv
<1>2. \A l \in Overdue(r) : [EventOf(r, "LEASE_EXPIRED") EXCEPT !.actor = l.owner] \in Event
  <2>1. \A l \in Overdue(r) : l.owner \in Principals
    BY DEF Overdue, LeasesOf, TypeInv, TypeOK, Lease
  <2> QED
    BY <1>1, <2>1 DEF Event
<1>3. ASSUME NEW expiry \in Expirations(r)
      PROVE  expiry \in Seq(Event)
  <2>1. CASE Overdue(r) = {}
    <3>1. expiry = <<>>
      BY <1>3, <2>1 DEF Expirations
    <3> QED
      BY <3>1
  <2>2. CASE Overdue(r) # {}
    <3>1. PICK l \in Overdue(r) :
            expiry = <<[EventOf(r, "LEASE_EXPIRED") EXCEPT !.actor = l.owner]>>
      BY <1>3, <2>2 DEF Expirations
    <3> QED
      BY <1>2, <3>1
  <2> QED
    BY <2>1, <2>2
<1>4. (IF Granted(r, leases') = {} THEN <<>> ELSE <<EventOf(r, "CLAIMED")>>) \in Seq(Event)
  BY <1>1
<1>5. events \in Seq(Event)
  BY DEF TypeInv, TypeOK
<1> QED
  BY <1>3, <1>4, <1>5 DEF LeaseAudit

\* Every claim step keeps the types.
LEMMA ClaimType ==
  ASSUME TypeInv, NEW r \in Requests, Claim(r)
  PROVE  TypeInv'
<1>1. Moved
  BY ClaimMove
<1>2. CASE ClaimReadTerminal(r) \/ ClaimReadDeferral(r)
           \/ ClaimReadOwn(r) \/ ClaimReadCurrent(r)
  BY <1>1, <1>2
     DEF Moved, TypeInv, TypeOK, ReadOnly, tables, ClaimReadTerminal, ClaimReadDeferral,
         ClaimReadOwn, ClaimReadCurrent
<1>3. CASE ClaimAudit(r)
  <2>1. EventOf(r, "CLAIM_DENIED") \in Event
    BY EventType DEF TypeInv
  <2> QED
    BY <1>1, <1>3, <2>1 DEF Moved, TypeInv, TypeOK, ClaimAudit
<1>4. CASE ClaimFresh(r)
  <2>1. NewLease(r, 1) \in Lease
    BY <1>4, AttemptMove DEF ClaimFresh
  <2>2. events' \in Seq(Event)
    BY <1>4, LeaseAuditType DEF ClaimFresh
  <2> QED
    BY <1>1, <1>4, <2>1, <2>2 DEF Moved, TypeInv, TypeOK, ClaimFresh
<1>5. CASE ClaimPreempt(r)
  <2>1. PICK old \in LeasesOf(input[r].job) :
          /\ leases' = (leases \ {old}) \cup {NewLease(r, old.count + 1)}
          /\ granted' = granted \cup {NewLease(r, old.count + 1)}
    BY <1>5 DEF ClaimPreempt
  <2>2. old \in Lease
    BY DEF LeasesOf, TypeInv, TypeOK
  <2>3. NewLease(r, old.count + 1) \in Lease
    BY <1>5, <2>2, AttemptMove DEF ClaimPreempt, Lease
  <2>4. events' \in Seq(Event)
    BY <1>5, LeaseAuditType DEF ClaimPreempt
  <2> QED
    BY <1>1, <1>5, <2>1, <2>3, <2>4 DEF Moved, TypeInv, TypeOK, ClaimPreempt
<1>6. CASE ClaimMiss(r)
  <2>1. events' \in Seq(Event)
    BY <1>6, LeaseAuditType DEF ClaimMiss
  <2> QED
    BY <1>1, <1>6, <2>1 DEF Moved, TypeInv, TypeOK, ClaimMiss
<1> QED
  BY <1>2, <1>3, <1>4, <1>5, <1>6 DEF Claim

\* The three places that answer from an existing proposal row.
LEMMA ReplayMove ==
  ASSUME TypeInv, NEW r \in Requests, req[r].pc \in SubmitSteps, input' = input,
         NEW p \in proposals, ReplayVerdict(r, p)
  PROVE  Moved
<1>1. p \in Proposal
  BY DEF TypeInv, TypeOK
<1>2. CASE Go(r, "s_conflict")
  BY <1>2, StayMove DEF Steps, SubmitSteps
<1>3. CASE Answer(r, "IDEMPOTENT_REPLAY")
  BY <1>3, AnswerMove DEF Answers
<1>4. CASE Answer(r, p.reason)
  <2>1. p.reason \in Answers
    BY <1>1 DEF Proposal, Answers, Verdicts
  <2> QED
    BY <1>4, <2>1, AnswerMove
<1> QED
  BY <1>1, <1>2, <1>3, <1>4 DEF ReplayVerdict, Proposal

\* No such row: the formal submit goes on, the others answer what they stood for.
LEMMA NoRaceMove ==
  ASSUME TypeInv, NEW r \in Requests, req[r].pc \in SubmitSteps, input' = input, NoRace(r)
  PROVE  Moved
<1>1. req[r].verdict \in Answers
  BY DEF TypeInv, TypeOK, Request, Answers
<1>2. CASE Go(r, "s_fallback")
  BY <1>2, StayMove DEF Steps, SubmitSteps
<1>3. CASE Answer(r, req[r].verdict)
  BY <1>1, <1>3, AnswerMove
<1> QED
  BY <1>2, <1>3 DEF NoRace

\* A request that settles what its write batch stands for is placed before it.
LEMMA VerdictMove ==
  ASSUME TypeInv, NEW r \in Requests, req[r].pc \in SubmitSteps, input' = input,
         \/ \E v \in Rejections : GoWith(r, "s_reject", v)
         \/ /\ EffectiveOrigin(input[r]) = "CHATGPT" /\ ~StructureFailed(input[r])
            /\ GoWith(r, "s_accept", "ACCEPTED")
         \/ /\ EffectiveOrigin(input[r]) # "CHATGPT" /\ ~StructureFailed(input[r])
            /\ GoWith(r, "s_synthetic", "ACCEPTED_SYNTHETIC")
  PROVE  Moved
<1>1. Placed(r, req[r]) /\ req[r] \in Request
  BY DEF TypeInv, TypeOK, Placing
<1>2. CASE \E v \in Rejections : GoWith(r, "s_reject", v)
  <2>1. PICK v \in Rejections : GoWith(r, "s_reject", v)
    BY <1>2
  <2>2. Placed(r, [req[r] EXCEPT !.pc = "s_reject", !.verdict = v])
    BY <1>1 DEF Placed, Request, ClaimSteps, SubmitSteps, DeferSteps
  <2>3. "s_reject" \in Steps /\ v \in Verdicts
    BY DEF Steps, SubmitSteps, Verdicts
  <2> QED
    BY <2>1, <2>2, <2>3, GoWithMove
<1>3. CASE /\ EffectiveOrigin(input[r]) = "CHATGPT" /\ ~StructureFailed(input[r])
           /\ GoWith(r, "s_accept", "ACCEPTED")
  <2>1. Placed(r, [req[r] EXCEPT !.pc = "s_accept", !.verdict = "ACCEPTED"])
    BY <1>1, <1>3 DEF Placed, Request, ClaimSteps, SubmitSteps, DeferSteps
  <2> QED
    BY <1>3, <2>1, GoWithMove DEF Steps, SubmitSteps, Verdicts
<1>4. CASE /\ EffectiveOrigin(input[r]) # "CHATGPT" /\ ~StructureFailed(input[r])
           /\ GoWith(r, "s_synthetic", "ACCEPTED_SYNTHETIC")
  <2>1. Placed(r, [req[r] EXCEPT !.pc = "s_synthetic", !.verdict = "ACCEPTED_SYNTHETIC"])
    BY <1>1, <1>4 DEF Placed, Request, ClaimSteps, SubmitSteps, DeferSteps
  <2> QED
    BY <1>4, <2>1, GoWithMove DEF Steps, SubmitSteps, Verdicts
<1> QED
  BY <1>2, <1>3, <1>4

LEMMA SubmitMove ==
  ASSUME TypeInv, NEW r \in Requests, Submit(r)
  PROVE  Moved
<1>1. Placed(r, req[r]) /\ req[r] \in Request
  BY DEF TypeInv, TypeOK, Placing
<1>2. CASE SubmitReadKey(r)
  <2>1. req[r].pc \in SubmitSteps /\ input' = input
    BY <1>2 DEF SubmitReadKey, At, ReadOnly, SubmitSteps
  <2>2. CASE \E p \in WithKey(input[r].key) : ReplayVerdict(r, p)
    BY <2>1, <2>2, ReplayMove DEF WithKey
  <2>3. CASE GoWith(r, "s_reject", "VALIDATION_FAILED")
    BY <2>1, <2>3, VerdictMove DEF Rejections
  <2>4. CASE ~StructureFailed(input[r]) /\ Go(r, "s_lease")
    <3>1. Placed(r, [req[r] EXCEPT !.pc = "s_lease"])
      BY <1>1, <2>1, <2>4 DEF Placed, Request, ClaimSteps, SubmitSteps, DeferSteps
    <3> QED
      BY <2>1, <2>4, <3>1, GoMove DEF Steps, SubmitSteps
  <2> QED
    BY <1>2, <2>2, <2>3, <2>4 DEF SubmitReadKey
<1>3. CASE SubmitReadLease(r)
  <2>1. req[r].pc \in SubmitSteps /\ input' = input /\ ~StructureFailed(input[r])
    BY <1>1, <1>3 DEF Placed, SubmitReadLease, At, ReadOnly, SubmitSteps
  <2>2. CASE GoWith(r, "s_reject", "LEASE_INVALID")
    BY <2>1, <2>2, VerdictMove DEF Rejections
  <2>3. CASE EffectiveOrigin(input[r]) = "CHATGPT" /\ Go(r, "s_formal")
    <3>1. Placed(r, [req[r] EXCEPT !.pc = "s_formal"])
      BY <1>1, <2>1, <2>3 DEF Placed, Request, ClaimSteps, SubmitSteps, DeferSteps
    <3> QED
      BY <2>1, <2>3, <3>1, GoMove DEF Steps, SubmitSteps
  <2>4. CASE /\ EffectiveOrigin(input[r]) # "CHATGPT" /\ ~StructureFailed(input[r])
             /\ GoWith(r, "s_synthetic", "ACCEPTED_SYNTHETIC")
    BY <2>1, <2>4, VerdictMove
  <2> QED
    BY <1>3, <2>1, <2>2, <2>3, <2>4 DEF SubmitReadLease
<1>4. CASE SubmitReadFormal(r)
  <2>1. /\ req[r].pc \in SubmitSteps /\ input' = input
        /\ EffectiveOrigin(input[r]) = "CHATGPT" /\ ~StructureFailed(input[r])
    BY <1>1, <1>4 DEF SubmitReadFormal, At, ReadOnly, SubmitSteps, Placed
  <2> QED
    BY <1>4, <2>1, VerdictMove DEF SubmitReadFormal, Rejections
<1>5. ASSUME NEW a \in Answers, input' = input, req[r].pc \in SubmitSteps,
             Committed(r, Answer(r, a), "s_race")
      PROVE  Moved
  BY <1>5, AnswerMove, StayMove DEF Committed, Steps, SubmitSteps
<1>6. CASE SubmitReject(r)
  BY <1>1, <1>5, <1>6 DEF SubmitReject, At, SubmitSteps, Request, Answers
<1>7. CASE SubmitAccept(r) \/ SubmitFenced(r)
  BY <1>7, StayMove DEF SubmitAccept, SubmitFenced, Committed, At, Steps, SubmitSteps
<1>8. CASE SubmitSynthetic(r)
  BY <1>5, <1>8 DEF SubmitSynthetic, At, SubmitSteps, Answers, Verdicts
<1>9. CASE SubmitClash(r)
  BY <1>9, StayMove DEF SubmitClash, ReadOnly, At, Steps, SubmitSteps
<1>10. CASE SubmitConfirm(r)
  BY <1>10, StayMove DEF SubmitConfirm, ReadOnly, At, Steps, SubmitSteps
<1>11. CASE SubmitMatches(r)
  <2>1. CASE Answer(r, "ACCEPTED")
    BY <1>11, <2>1, AnswerMove DEF SubmitMatches, ReadOnly, Answers, Verdicts
  <2>2. CASE Go(r, "s_race")
    BY <1>11, <2>2, StayMove DEF SubmitMatches, ReadOnly, At, Steps, SubmitSteps
  <2> QED
    BY <1>11, <2>1, <2>2 DEF SubmitMatches
<1>12. CASE SubmitRace(r)
  BY <1>12, ReplayMove, NoRaceMove DEF SubmitRace, WithKey, ReadOnly, At, SubmitSteps
<1>13. CASE SubmitFallback(r)
  BY <1>13, AnswerMove DEF SubmitFallback, ReadOnly, Answers, Verdicts, Rejections
<1>14. CASE SubmitConflict(r)
  BY <1>14, AnswerMove DEF SubmitConflict, Answers
<1> QED
  BY <1>2, <1>3, <1>4, <1>6, <1>7, <1>8, <1>9, <1>10, <1>11, <1>12, <1>13, <1>14 DEF Submit

\* Every submit step keeps the types.
LEMMA SubmitType ==
  ASSUME TypeInv, NEW r \in Requests, Submit(r)
  PROVE  TypeInv'
<1>1. Moved
  BY SubmitMove
<1>2. input[r] \in Input /\ Placed(r, req[r]) /\ MaxFaults \in Nat /\ faults \in 0..MaxFaults
  BY ConstantsAssumption DEF TypeInv, TypeOK, Placing, ConstantsAssumption
<1>3. EffectiveOrigin(input[r]) \in Origins
  BY <1>2 DEF EffectiveOrigin, Input, Origins
<1>4. ASSUME NEW status \in {"RECEIVED", "REJECTED"}, NEW reason \in Rejections \cup {"NONE"}
      PROVE  ProposalOf(r, status, reason) \in Proposal
  BY <1>2, <1>3 DEF ProposalOf, Proposal, Input
<1>5. ASSUME NEW next, NEW catch, Committed(r, next, catch)
      PROVE  faults' \in 0..MaxFaults
  BY <1>2, <1>5 DEF Committed
<1>6. CASE SubmitReadKey(r) \/ SubmitReadLease(r) \/ SubmitReadFormal(r) \/ SubmitClash(r)
           \/ SubmitConfirm(r) \/ SubmitMatches(r) \/ SubmitRace(r) \/ SubmitFallback(r)
  BY <1>1, <1>6
     DEF Moved, TypeInv, TypeOK, ReadOnly, tables, SubmitReadKey, SubmitReadLease,
         SubmitReadFormal, SubmitClash, SubmitConfirm, SubmitMatches, SubmitRace,
         SubmitFallback
<1>7. CASE SubmitReject(r)
  <2>1. req[r].verdict \in Rejections
    BY <1>2, <1>7 DEF SubmitReject, At, Placed
  <2>2. EventOf(r, "SUBMIT_REJECTED") \in Event
    BY EventType DEF TypeInv
  <2>3. ProposalOf(r, "REJECTED", req[r].verdict) \in Proposal
    BY <1>4, <2>1
  <2>4. faults' \in 0..MaxFaults
    BY <1>5, <1>7 DEF SubmitReject
  <2> QED
    BY <1>1, <1>7, <2>2, <2>3, <2>4 DEF Moved, TypeInv, TypeOK, SubmitReject
<1>8. CASE SubmitAccept(r)
  <2>1. EventOf(r, "SUBMIT_RECEIVED") \in Event /\ EventOf(r, "COMPLETED") \in Event
    BY EventType DEF TypeInv
  <2>2. ProposalOf(r, "RECEIVED", "NONE") \in Proposal
    BY <1>4
  <2>3. [job |-> input[r].job, proposal |-> r] \in Terminal
    BY <1>2 DEF Terminal, Input
  <2>4. faults' \in 0..MaxFaults
    BY <1>5, <1>8 DEF SubmitAccept
  <2>5. events' \in Seq(Event)
    BY <1>8, <2>1 DEF SubmitAccept, TypeInv, TypeOK
  <2> QED
    BY <1>1, <1>8, <2>2, <2>3, <2>4, <2>5 DEF Moved, TypeInv, TypeOK, SubmitAccept
<1>9. CASE SubmitFenced(r)
  <2>1. faults' \in 0..MaxFaults
    BY <1>5, <1>9 DEF SubmitFenced
  <2> QED
    BY <1>1, <1>9, <2>1 DEF Moved, TypeInv, TypeOK, SubmitFenced
<1>10. CASE SubmitSynthetic(r)
  <2>1. EventOf(r, "SUBMIT_RECEIVED") \in Event
    BY EventType DEF TypeInv
  <2>2. ProposalOf(r, "RECEIVED", "NONE") \in Proposal
    BY <1>4
  <2>3. faults' \in 0..MaxFaults
    BY <1>5, <1>10 DEF SubmitSynthetic
  <2> QED
    BY <1>1, <1>10, <2>1, <2>2, <2>3 DEF Moved, TypeInv, TypeOK, SubmitSynthetic
<1>11. CASE SubmitConflict(r)
  <2>1. EventOf(r, "SUBMIT_CONFLICT") \in Event
    BY EventType DEF TypeInv
  <2> QED
    BY <1>1, <1>11, <2>1 DEF Moved, TypeInv, TypeOK, SubmitConflict
<1> QED
  BY <1>6, <1>7, <1>8, <1>9, <1>10, <1>11 DEF Submit

\* Every defer step keeps the types.
LEMMA DeferType ==
  ASSUME TypeInv, NEW r \in Requests, Defer(r)
  PROVE  TypeInv'
<1>1. /\ input[r] \in Input /\ req[r] \in Request
      /\ MaxFaults \in Nat /\ faults \in 0..MaxFaults
  BY ConstantsAssumption DEF TypeInv, TypeOK, ConstantsAssumption
<1>2. CASE DeferReadKey(r)
  <2>1. req[r].pc \in DeferSteps /\ input' = input
    BY <1>2 DEF DeferReadKey, ReadOnly, DeferSteps
  <2>2. Moved
    <3>1. CASE \E a \in {"IDEMPOTENT_REPLAY", "CONFLICT", "VALIDATION_FAILED",
                         "STORE_UNAVAILABLE"} : Answer(r, a)
      BY <2>1, <3>1, AnswerMove DEF Answers, Verdicts, Rejections
    <3>2. CASE \E pc \in {"d_existing", "d_reexisting"} : Go(r, pc)
      BY <2>1, <3>2, StayMove DEF Steps, DeferSteps
    <3>3. CASE At(r, "d_key")
      <4>1. input[r].recheck <= req[r].now \/ input[r].recheck > req[r].now
        BY <1>1 DEF Request, Input
      <4>2. CASE \E d \in deferrals : Answer(r, IF SameDeferral(r, d) THEN "IDEMPOTENT_REPLAY"
                                                                    ELSE "CONFLICT")
        BY <3>1, <4>2
      <4>3. CASE input[r].recheck <= req[r].now /\ Answer(r, "VALIDATION_FAILED")
        BY <3>1, <4>3
      <4>4. CASE input[r].recheck > req[r].now /\ Go(r, "d_existing")
        BY <3>2, <4>4
      <4> QED
        BY <1>2, <3>3, <4>1, <4>2, <4>3, <4>4 DEF DeferReadKey, At
    <3>4. CASE At(r, "d_race")
      BY <1>2, <3>1, <3>4 DEF DeferReadKey, At
    <3>5. CASE At(r, "d_rekey")
      BY <1>2, <3>1, <3>2, <3>5 DEF DeferReadKey, At
    <3> QED
      BY <1>2, <3>3, <3>4, <3>5 DEF DeferReadKey, At
  <2> QED
    BY <1>2, <2>2 DEF Moved, TypeInv, TypeOK, DeferReadKey, ReadOnly, tables
<1>3. CASE DeferReadExisting(r)
  <2>1. req[r].pc \in DeferSteps /\ input' = input
    BY <1>3 DEF DeferReadExisting, ReadOnly, DeferSteps
  <2>2. Moved
    <3>1. CASE Answer(r, "CONFLICT")
      BY <2>1, <3>1, AnswerMove DEF Answers
    <3>2. CASE \E pc \in {"d_batch", "d_terminal"} : Go(r, pc)
      BY <2>1, <3>2, StayMove DEF Steps, DeferSteps
    <3> QED
      BY <1>3, <3>1, <3>2 DEF DeferReadExisting
  <2> QED
    BY <1>3, <2>2 DEF Moved, TypeInv, TypeOK, DeferReadExisting, ReadOnly, tables
<1>4. CASE DeferCommit(r)
  <2>1. DeferRow(r) \in Deferral
    BY <1>1 DEF DeferRow, Deferral, Input
  <2>2. Moved
    BY <1>4, AnswerMove, StayMove DEF DeferCommit, Committed, At, Answers, Steps, DeferSteps
  <2>3. faults' \in 0..MaxFaults
    BY <1>1, <1>4 DEF DeferCommit, Committed
  <2> QED
    BY <1>4, <2>1, <2>2, <2>3 DEF Moved, TypeInv, TypeOK, DeferCommit
<1>5. CASE DeferFenced(r)
  <2>1. Moved
    BY <1>5, StayMove DEF DeferFenced, Committed, At, Steps, DeferSteps
  <2>2. faults' \in 0..MaxFaults
    BY <1>1, <1>5 DEF DeferFenced, Committed
  <2> QED
    BY <1>5, <2>1, <2>2 DEF Moved, TypeInv, TypeOK, DeferFenced
<1>6. CASE DeferClash(r)
  <2>1. Moved
    BY <1>6, StayMove DEF DeferClash, ReadOnly, At, Steps, DeferSteps
  <2> QED
    BY <1>6, <2>1 DEF Moved, TypeInv, TypeOK, DeferClash, ReadOnly, tables
<1>7. CASE DeferReadTerminal(r)
  <2>1. Moved
    BY <1>7, AnswerMove DEF DeferReadTerminal, ReadOnly, Answers, Verdicts, Rejections
  <2> QED
    BY <1>7, <2>1 DEF Moved, TypeInv, TypeOK, DeferReadTerminal, ReadOnly, tables
<1> QED
  BY <1>2, <1>3, <1>4, <1>5, <1>6, <1>7 DEF Defer

\* A caught fault keeps the types.
LEMMA FaultType ==
  ASSUME TypeInv, NEW r \in Requests, BatchFault(r) \/ LookupFault(r)
  PROVE  TypeInv'
<1>1. faults' \in 0..MaxFaults
  BY ConstantsAssumption DEF TypeInv, TypeOK, ConstantsAssumption, BatchFault, LookupFault
<1>2. CASE BatchFault(r)
  <2>1. Moved
    BY <1>2, StayMove DEF BatchFault, At, Steps, SubmitSteps, DeferSteps
  <2> QED
    BY <1>1, <1>2, <2>1 DEF Moved, TypeInv, TypeOK, BatchFault, tables
<1>3. CASE LookupFault(r)
  <2>1. Moved
    BY <1>3, NoRaceMove, AnswerMove DEF LookupFault, At, SubmitSteps, Answers
  <2> QED
    BY <1>1, <1>3, <2>1 DEF Moved, TypeInv, TypeOK, LookupFault, tables
<1> QED
  BY <1>2, <1>3

LEMMA NextType == TypeInv /\ [Next]_vars => TypeInv'
<1> SUFFICES ASSUME TypeInv, [Next]_vars PROVE TypeInv'
  OBVIOUS
<1>1. CASE Tick
  BY <1>1 DEF TypeInv, TypeOK, Placing, Placed, Tick, tables
<1>2. CASE UNCHANGED vars
  BY <1>2 DEF TypeInv, TypeOK, Placing, Placed, vars
<1>3. ASSUME NEW r \in Requests, Start(r) \/ RequestStep(r)
      PROVE  TypeInv'
  BY <1>3, StartType, ClaimType, SubmitType, DeferType, FaultType DEF RequestStep
<1> QED
  BY <1>1, <1>2, <1>3 DEF Next

\* Every row and local keeps its column's type: the attempt counter never leaves
\* its range and a REJECTED row always carries one of the three reasons.
THEOREM TypeCorrect == Spec => []TypeOK
<1>1. Spec => []TypeInv
  BY InitType, NextType, PTL DEF Spec
<1>2. TypeInv => TypeOK
  BY DEF TypeInv
<1> QED
  BY <1>1, <1>2, PTL

-----------------------------------------------------------------------------
(* What every step of a request has in common.                             *)

\* The wall clock and the inputs are not the requests' to change.
LEMMA StepClock ==
  ASSUME NEW r \in Requests, Start(r) \/ RequestStep(r)
  PROVE  clock' = clock /\ input' = input
<1>1. CASE Start(r)
  BY <1>1 DEF Start, ReadOnly
<1>2. CASE Claim(r)
  BY <1>2 DEF Claim, ClaimReadTerminal, ClaimAudit, ClaimReadDeferral, ClaimFresh,
              ClaimPreempt, ClaimMiss, ClaimReadOwn, ClaimReadCurrent, ReadOnly
<1>3. CASE Submit(r)
  BY <1>3 DEF Submit, SubmitReadKey, SubmitReadLease, SubmitReadFormal, SubmitReject,
              SubmitAccept, SubmitFenced, SubmitSynthetic, SubmitClash, SubmitConfirm,
              SubmitMatches, SubmitRace, SubmitFallback, SubmitConflict, ReadOnly
<1>4. CASE Defer(r)
  BY <1>4 DEF Defer, DeferReadKey, DeferReadExisting, DeferCommit, DeferFenced, DeferClash,
              DeferReadTerminal, ReadOnly
<1>5. CASE BatchFault(r) \/ LookupFault(r)
  BY <1>5 DEF BatchFault, LookupFault
<1> QED
  BY <1>1, <1>2, <1>3, <1>4, <1>5 DEF RequestStep

\* The ways a step changes its request's record without answering: only arriving
\* sets its clock, and a request arrives once.
Silent(r) ==
  \/ \E pc : pc # "idle" /\ Go(r, pc)
  \/ At(r, "idle") /\ \E pc : pc # "idle" /\ Arrive(r, pc)
  \/ \E pc, v : pc # "idle" /\ GoWith(r, pc, v)
  \/ Attempt(r)

Changes(r) == Silent(r) \/ \E a : Answer(r, a)

LEMMA StepChanges ==
  ASSUME TypeInv, NEW r \in Requests, Start(r) \/ RequestStep(r)
  PROVE  Changes(r)
<1>1. input[r] \in Input /\ req[r] \in Request
  BY DEF TypeInv, TypeOK
<1>2. CASE Start(r)
  BY <1>1, <1>2 DEF Start, Changes, Silent, Input
<1>3. CASE Claim(r)
  <2>1. CASE ClaimFresh(r) \/ ClaimPreempt(r) \/ ClaimMiss(r)
    BY <2>1 DEF ClaimFresh, ClaimPreempt, ClaimMiss, Changes, Silent
  <2>2. CASE ClaimReadTerminal(r) \/ ClaimAudit(r) \/ ClaimReadDeferral(r) \/ ClaimReadOwn(r)
    BY <2>2 DEF ClaimReadTerminal, ClaimAudit, ClaimReadDeferral, ClaimReadOwn, Changes, Silent
  <2>3. CASE ClaimReadCurrent(r)
    BY <2>3 DEF ClaimReadCurrent, Changes, Silent
  <2> QED
    BY <1>3, <2>1, <2>2, <2>3 DEF Claim
<1>4. ASSUME NEW p \in proposals, ReplayVerdict(r, p)
      PROVE  Changes(r)
  <2>1. p \in Proposal
    BY DEF TypeInv, TypeOK
  <2> QED
    BY <1>4, <2>1 DEF ReplayVerdict, Changes, Silent, Proposal
<1>5. ASSUME NoRace(r)
      PROVE  Changes(r)
  BY <1>5 DEF NoRace, Changes, Silent
<1>6. CASE Submit(r)
  <2>1. CASE SubmitReadKey(r) \/ SubmitRace(r)
    BY <1>4, <1>5, <2>1 DEF SubmitReadKey, SubmitRace, WithKey, Changes, Silent
  <2>2. CASE SubmitReadLease(r)
    BY <2>2 DEF SubmitReadLease, Changes, Silent
  <2>3. CASE SubmitReadFormal(r) \/ SubmitClash(r) \/ SubmitConfirm(r) \/ SubmitMatches(r)
             \/ SubmitFallback(r) \/ SubmitConflict(r)
    BY <2>3 DEF SubmitReadFormal, SubmitClash, SubmitConfirm, SubmitMatches, SubmitFallback,
                SubmitConflict, Changes, Silent
  <2>4. CASE SubmitReject(r) \/ SubmitAccept(r) \/ SubmitFenced(r) \/ SubmitSynthetic(r)
    BY <2>4 DEF SubmitReject, SubmitAccept, SubmitFenced, SubmitSynthetic, Committed, Changes, Silent
  <2> QED
    BY <1>6, <2>1, <2>2, <2>3, <2>4 DEF Submit
<1>7. CASE Defer(r)
  <2>1. CASE DeferReadKey(r)
    <3>1. input[r].recheck <= req[r].now \/ input[r].recheck > req[r].now
      BY <1>1 DEF Input, Request
    <3> QED
      BY <2>1, <3>1 DEF DeferReadKey, At, Changes, Silent
  <2>2. CASE DeferReadExisting(r) \/ DeferClash(r) \/ DeferReadTerminal(r)
    BY <2>2 DEF DeferReadExisting, DeferClash, DeferReadTerminal, Changes, Silent
  <2>3. CASE DeferCommit(r) \/ DeferFenced(r)
    BY <2>3 DEF DeferCommit, DeferFenced, Committed, Changes, Silent
  <2> QED
    BY <1>7, <2>1, <2>2, <2>3 DEF Defer
<1>8. CASE BatchFault(r) \/ LookupFault(r)
  BY <1>5, <1>8 DEF BatchFault, LookupFault, Changes, Silent
<1> QED
  BY <1>2, <1>3, <1>6, <1>7, <1>8 DEF RequestStep

-----------------------------------------------------------------------------
(* Safety.  Of all the steps only four kinds touch what the invariants     *)
(* relate: a grant, a formal accept, a deferral and a synthetic release.   *)
(* The invariants hold together because each of those writes repeats the   *)
(* gate inside its batch and because a job never has two lease rows.       *)

\* PRIMARY KEY job_id: what the upsert and the two fenced deletes rely on.
OneLease == \A l, m \in leases : l.job = m.job => l = m

SafetyInv ==
  /\ OneLease
  /\ NoLeaseAfterCompletion
  /\ LeaseRespectsDeferral
  /\ OneFormalResult

Quiet ==
  /\ UNCHANGED <<leases, terminal, deferrals>>
  /\ \A j \in Jobs : FormalResults(j)' = FormalResults(j)

Grants(r) ==
  /\ Grantable(r)
  /\ \A l \in LeasesOf(input[r].job) : l.expires <= req[r].now
  /\ \E n \in Nat : leases' = (leases \ LeasesOf(input[r].job)) \cup {NewLease(r, n)}
  /\ UNCHANGED <<terminal, deferrals, proposals>>

\* A row that is not a formal result leaves the formal results alone.
LEMMA NotFormal ==
  ASSUME NEW r \in Requests, NEW status, NEW reason,
         status # "RECEIVED" \/ EffectiveOrigin(input[r]) # "CHATGPT",
         proposals' = proposals \cup {ProposalOf(r, status, reason)}
  PROVE  \A j \in Jobs : FormalResults(j)' = FormalResults(j)
BY DEF FormalResults, ProposalOf

\* A batch whose fence fails releases nothing: its lease is not there, or the job
\* is complete and has none.
LEMMA FenceFails ==
  ASSUME NoLeaseAfterCompletion, NEW r \in Requests, ~LeaseHeld(r)
  PROVE  leases \ FencedLeases(r) = leases
BY DEF NoLeaseAfterCompletion, LeaseHeld, FencedLeases

\* Every step of a request is one of the four writes or is quiet.
LEMMA Effects ==
  ASSUME TypeInv, SafetyInv, NEW r \in Requests, Start(r) \/ RequestStep(r)
  PROVE  Quiet \/ Grants(r) \/ SubmitAccept(r) \/ SubmitSynthetic(r) \/ DeferCommit(r)
<1>1. Placed(r, req[r]) /\ input[r] \in Input
  BY DEF TypeInv, TypeOK, Placing
<1>2. ASSUME ReadOnly
      PROVE  Quiet
  BY <1>2 DEF Quiet, ReadOnly, tables, FormalResults
<1>3. CASE Start(r)
  BY <1>2, <1>3 DEF Start
<1>4. CASE Claim(r)
  <2>1. CASE ClaimReadTerminal(r) \/ ClaimReadDeferral(r)
             \/ ClaimReadOwn(r) \/ ClaimReadCurrent(r)
    BY <1>2, <2>1 DEF ClaimReadTerminal, ClaimReadDeferral, ClaimReadOwn, ClaimReadCurrent
  <2>2. CASE ClaimAudit(r) \/ ClaimMiss(r)
    BY <2>2 DEF ClaimAudit, ClaimMiss, Quiet, FormalResults
  <2>3. CASE ClaimFresh(r)
    BY <2>3 DEF ClaimFresh, Grants
  <2>4. CASE ClaimPreempt(r)
    <3>1. PICK old \in LeasesOf(input[r].job) :
            /\ old.expires <= req[r].now
            /\ leases' = (leases \ {old}) \cup {NewLease(r, old.count + 1)}
      BY <2>4 DEF ClaimPreempt
    <3>2. LeasesOf(input[r].job) = {old}
      BY DEF LeasesOf, OneLease, SafetyInv
    <3>3. old.count + 1 \in Nat
      BY DEF LeasesOf, TypeInv, TypeOK, Lease
    <3> QED
      BY <2>4, <3>1, <3>2, <3>3 DEF ClaimPreempt, Grants
  <2> QED
    BY <1>4, <2>1, <2>2, <2>3, <2>4 DEF Claim
<1>5. CASE Submit(r)
  <2>1. CASE SubmitReadKey(r) \/ SubmitReadLease(r) \/ SubmitReadFormal(r) \/ SubmitClash(r)
             \/ SubmitConfirm(r) \/ SubmitMatches(r) \/ SubmitRace(r) \/ SubmitFallback(r)
    BY <1>2, <2>1 DEF SubmitReadKey, SubmitReadLease, SubmitReadFormal, SubmitClash,
                      SubmitConfirm, SubmitMatches, SubmitRace, SubmitFallback
  <2>2. CASE SubmitReject(r)
    BY <2>2, NotFormal DEF SubmitReject, Quiet
  <2>3. CASE SubmitFenced(r)
    BY <2>3, FenceFails DEF SafetyInv, SubmitFenced, Quiet, FormalResults
  <2>4. CASE SubmitConflict(r)
    BY <2>4 DEF SubmitConflict, Quiet, FormalResults
  <2> QED
    BY <1>5, <2>1, <2>2, <2>3, <2>4 DEF Submit
<1>6. CASE Defer(r)
  <2>1. CASE DeferReadKey(r) \/ DeferReadExisting(r) \/ DeferClash(r) \/ DeferReadTerminal(r)
    BY <1>2, <2>1 DEF DeferReadKey, DeferReadExisting, DeferClash, DeferReadTerminal
  <2>2. CASE DeferFenced(r)
    BY <2>2, FenceFails DEF SafetyInv, DeferFenced, Quiet, FormalResults
  <2> QED
    BY <1>6, <2>1, <2>2 DEF Defer
<1>7. CASE BatchFault(r) \/ LookupFault(r)
  BY <1>7 DEF BatchFault, LookupFault, Quiet, FormalResults, tables
<1> QED
  BY <1>3, <1>4, <1>5, <1>6, <1>7 DEF RequestStep

LEMMA QuietSafe ==
  ASSUME SafetyInv, Quiet
  PROVE  SafetyInv'
<1>1. \A j : Completed(j)' = Completed(j)
  BY DEF Quiet, Completed
<1>2. OneLease' /\ NoLeaseAfterCompletion' /\ LeaseRespectsDeferral'
  BY <1>1 DEF SafetyInv, Quiet, OneLease, NoLeaseAfterCompletion, LeaseRespectsDeferral
<1>3. OneFormalResult'
  BY DEF SafetyInv, Quiet, OneFormalResult
<1> QED
  BY <1>2, <1>3 DEF SafetyInv

\* A grant: the gate it repeats is the two invariants it could break.
LEMMA GrantSafe ==
  ASSUME TypeInv, SafetyInv, NEW r \in Requests, Grants(r)
  PROVE  SafetyInv'
<1>1. PICK n \in Nat : leases' = (leases \ LeasesOf(input[r].job)) \cup {NewLease(r, n)}
  BY DEF Grants
<1>2. /\ NewLease(r, n).job = input[r].job
      /\ NewLease(r, n).claimed_at = req[r].now
  BY DEF NewLease
<1>3. OneLease'
  BY <1>1, <1>2 DEF SafetyInv, OneLease, LeasesOf
<1>4. NoLeaseAfterCompletion'
  BY <1>1, <1>2 DEF SafetyInv, NoLeaseAfterCompletion, Grants, Grantable, Completed, LeasesOf
<1>5. LeaseRespectsDeferral'
  <2>1. ASSUME NEW d \in deferrals, d.job = input[r].job
        PROVE  req[r].now >= d.recheck
    <3>1. d.recheck \in Nat /\ req[r].now \in Nat
      BY DEF TypeInv, TypeOK, Deferral, Request
    <3> QED
      BY <2>1, <3>1 DEF Grants, Grantable, Deferred, DeferralsOf
  <2> QED
    BY <1>1, <1>2, <2>1 DEF SafetyInv, LeaseRespectsDeferral, Grants, LeasesOf
<1>6. OneFormalResult'
  BY DEF SafetyInv, OneFormalResult, FormalResults, Grants
<1> QED
  BY <1>3, <1>4, <1>5, <1>6 DEF SafetyInv

\* What a fenced batch deletes is every lease of its job.
LEMMA FenceIsAll ==
  ASSUME OneLease, NEW r \in Requests, LeaseHeld(r)
  PROVE  FencedLeases(r) = LeasesOf(input[r].job)
BY DEF LeaseHeld, FencedLeases, LeasesOf, OneLease

\* A formal accept: the first result of an unfinished job, and its lease goes.
LEMMA AcceptSafe ==
  ASSUME TypeInv, SafetyInv, NEW r \in Requests, SubmitAccept(r)
  PROVE  SafetyInv'
<1> DEFINE job == input[r].job
           row == ProposalOf(r, "RECEIVED", "NONE")
           end == [job |-> input[r].job, proposal |-> r]
<1>1. /\ proposals' = proposals \cup {row} /\ terminal' = terminal \cup {end}
      /\ leases' = leases \ LeasesOf(job) /\ UNCHANGED <<deferrals, input>>
      /\ FormalResults(job) = {} /\ ~Completed(job)
  BY FenceIsAll DEF SubmitAccept, SafetyInv, LeaseHeld
<1>2. row.job = job /\ row.id = r /\ row.origin = "CHATGPT" /\ row.status = "RECEIVED"
  BY DEF TypeInv, Placing, Placed, SubmitAccept, At, ProposalOf
<1>3. OneLease' /\ LeaseRespectsDeferral'
  BY <1>1 DEF SafetyInv, OneLease, LeaseRespectsDeferral
<1>4. NoLeaseAfterCompletion'
  BY <1>1 DEF SafetyInv, NoLeaseAfterCompletion, Completed, LeasesOf
<1>5. \A j \in Jobs : FormalResults(j)' = IF j = job THEN {row} ELSE FormalResults(j)
  BY <1>1, <1>2 DEF FormalResults
<1>6. \A j \in Jobs : {t \in terminal' : t.job = j}
                       = IF j = job THEN {end} ELSE {t \in terminal : t.job = j}
  BY <1>1 DEF Completed
<1>7. OneFormalResult'
  <2> SUFFICES ASSUME NEW j \in Jobs
               PROVE  /\ \A p, q \in FormalResults(j)' : p = q
                      /\ {t \in terminal' : t.job = j}
                           = {[job |-> j, proposal |-> p.id] : p \in FormalResults(j)'}
    BY DEF OneFormalResult
  <2>1. CASE j = job
    <3>1. FormalResults(j)' = {row} /\ {t \in terminal' : t.job = j} = {end}
      BY <1>5, <1>6, <2>1
    <3>2. [job |-> j, proposal |-> row.id] = end
      BY <1>2, <2>1
    <3> HIDE DEF row, end
    <3>3. {[job |-> j, proposal |-> p.id] : p \in {row}} = {end}
      BY <3>2
    <3> QED
      BY <3>1, <3>3
  <2>2. CASE j # job
    BY <1>5, <1>6, <2>2 DEF SafetyInv, OneFormalResult
  <2> QED
    BY <2>1, <2>2
<1> QED
  BY <1>3, <1>4, <1>7 DEF SafetyInv

\* A synthetic release takes a lease away and files nothing formal.
LEMMA SyntheticSafe ==
  ASSUME TypeInv, SafetyInv, NEW r \in Requests, SubmitSynthetic(r)
  PROVE  SafetyInv'
<1>1. EffectiveOrigin(input[r]) # "CHATGPT"
  BY DEF TypeInv, Placing, Placed, SubmitSynthetic, At
<1>2. \A j \in Jobs : FormalResults(j)' = FormalResults(j)
  BY <1>1, NotFormal DEF SubmitSynthetic
<1>3. OneLease' /\ NoLeaseAfterCompletion' /\ LeaseRespectsDeferral'
  BY DEF SafetyInv, SubmitSynthetic, OneLease, NoLeaseAfterCompletion, LeaseRespectsDeferral,
         Completed
<1>4. OneFormalResult'
  BY <1>2 DEF SafetyInv, SubmitSynthetic, OneFormalResult
<1> QED
  BY <1>3, <1>4 DEF SafetyInv

\* A deferral: the job keeps no lease that could outrun it.
LEMMA DeferSafe ==
  ASSUME TypeInv, SafetyInv, NEW r \in Requests, DeferCommit(r)
  PROVE  SafetyInv'
<1>1. /\ leases' = leases \ LeasesOf(input[r].job)
      /\ deferrals' = deferrals \cup {DeferRow(r)}
      /\ UNCHANGED <<terminal, proposals>>
  BY FenceIsAll DEF DeferCommit, SafetyInv
<1>2. DeferRow(r).job = input[r].job
  BY DEF DeferRow
<1>3. OneLease' /\ NoLeaseAfterCompletion'
  BY <1>1 DEF SafetyInv, OneLease, NoLeaseAfterCompletion, Completed
<1>4. LeaseRespectsDeferral'
  BY <1>1, <1>2 DEF SafetyInv, LeaseRespectsDeferral, LeasesOf
<1>5. OneFormalResult'
  BY <1>1 DEF SafetyInv, OneFormalResult, FormalResults
<1> QED
  BY <1>3, <1>4, <1>5 DEF SafetyInv

LEMMA InitSafe == Init => SafetyInv
BY DEF Init, SafetyInv, OneLease, NoLeaseAfterCompletion, LeaseRespectsDeferral,
       OneFormalResult, FormalResults

LEMMA NextSafe == TypeInv /\ SafetyInv /\ [Next]_vars => SafetyInv'
<1> SUFFICES ASSUME TypeInv, SafetyInv, [Next]_vars PROVE SafetyInv'
  OBVIOUS
<1>1. CASE Tick \/ UNCHANGED vars
  BY <1>1, QuietSafe DEF Tick, vars, tables, Quiet, FormalResults
<1>2. ASSUME NEW r \in Requests, Start(r) \/ RequestStep(r)
      PROVE  SafetyInv'
  BY <1>2, Effects, QuietSafe, GrantSafe, AcceptSafe, SyntheticSafe, DeferSafe
<1> QED
  BY <1>1, <1>2 DEF Next

LEMMA Safe == Spec => [](TypeInv /\ SafetyInv)
BY InitType, NextType, InitSafe, NextSafe, PTL DEF Spec

\* A completed job never has a lease again, whatever claims were under way.
THEOREM LeaseEndsWithJob == Spec => []NoLeaseAfterCompletion
BY Safe, PTL DEF SafetyInv

\* A deferral is a gate in time: no lease on the job was claimed before it opens.
THEOREM DeferralGatesLeases == Spec => []LeaseRespectsDeferral
BY Safe, PTL DEF SafetyInv

\* A job has at most one formal result, and it is the one its terminal row names.
THEOREM ResultIsUnique == Spec => []OneFormalResult
BY Safe, PTL DEF SafetyInv

-----------------------------------------------------------------------------
(* The work queue implements the job life cycle, for every value of the    *)
(* constants, when every caller is a formal owner.  A synthetic submit     *)
(* breaks it (it releases whatever lease it finds).                        *)
(*                                                                         *)
(* Beside the safety invariant the proof needs that a request's clock is   *)
(* never ahead of the time: a lease that is over, and a deferral that is   *)
(* open, by a request's own stale clock are so by the true one.            *)

\* No request is ahead of the time.
Behind == \A r \in Requests : req[r].now <= clock

FormalOnly == FormalOwners = Principals

LEMMA InitBehind == Init => Behind
BY DEF Init, Behind

LEMMA NextBehind == TypeInv /\ Behind /\ [Next]_vars => Behind'
<1> SUFFICES ASSUME TypeInv, Behind, [Next]_vars PROVE Behind'
  OBVIOUS
<1>1. clock \in Nat /\ req \in [Requests -> Request]
  BY DEF TypeInv, TypeOK
<1>2. CASE Tick
  BY <1>1, <1>2 DEF Tick, Behind, Request
<1>3. CASE UNCHANGED vars
  BY <1>3 DEF vars, Behind
<1>4. ASSUME NEW r \in Requests, Start(r) \/ RequestStep(r)
      PROVE  Behind'
  <2>1. Changes(r) /\ clock' = clock
    BY <1>4, StepChanges, StepClock
  <2>2. \A q \in Requests : req'[q].now = req[q].now \/ req'[q].now = clock
    <3>1. CASE \E pc : Go(r, pc)
      BY <1>1, <3>1 DEF Go, Request
    <3>2. CASE \E pc : Arrive(r, pc)
      BY <1>1, <3>2 DEF Arrive, Request
    <3>3. CASE \E pc, v : GoWith(r, pc, v)
      BY <1>1, <3>3 DEF GoWith, Request
    <3>4. CASE \E a : Answer(r, a)
      BY <1>1, <3>4 DEF Answer, Request
    <3>5. CASE Attempt(r)
      BY <1>1, <3>5 DEF Attempt, Request
    <3> QED
      BY <2>1, <3>1, <3>2, <3>3, <3>4, <3>5 DEF Changes, Silent
  <2> QED
    BY <1>1, <2>1, <2>2 DEF Behind
<1> QED
  BY <1>2, <1>3, <1>4 DEF Next

-----------------------------------------------------------------------------
(* The refinement mapping, job by job.                                     *)

\* A job with no terminal row has no result.
LEMMA UnfinishedJob ==
  ASSUME OneFormalResult, NEW j \in Jobs, ~Completed(j)
  PROVE  Lifecycle!Unfinished(j)
<1>1. FormalResults(j) = {}
  <2>1. {t \in terminal : t.job = j} = {}
    BY DEF Completed
  <2> SUFFICES ASSUME NEW p \in FormalResults(j) PROVE FALSE
    OBVIOUS
  <2>2. [job |-> j, proposal |-> p.id] \in {[job |-> j, proposal |-> q.id] : q \in FormalResults(j)}
    OBVIOUS
  <2> QED
    BY <2>1, <2>2 DEF OneFormalResult
<1> QED
  BY <1>1 DEF Lifecycle!Unfinished, Result

\* A step that leaves leases, deferrals and formal results alone is a stutter.
LEMMA QuietStutters ==
  ASSUME Quiet, clock' = clock
  PROVE  UNCHANGED Lifecycle!vars
<1>1. Holder' = Holder /\ Parked' = Parked
  BY DEF Quiet, Holder, Parked, LeasesOf, DeferralsOf
<1>2. Result' = Result
  BY DEF Quiet, Result
<1> QED
  BY <1>1, <1>2 DEF Lifecycle!vars

LEMMA GrantMaps ==
  ASSUME TypeInv, SafetyInv, Behind, NEW r \in Requests, Grants(r),
         clock' = clock, input' = input
  PROVE  Lifecycle!Grant(input[r].job, input[r].caller)
<1> DEFINE job == input[r].job
           until == req[r].now + TTL
<1>1. PICK n \in Nat : leases' = (leases \ LeasesOf(job)) \cup {NewLease(r, n)}
  BY DEF Grants
<1>2. /\ NewLease(r, n).job = job /\ NewLease(r, n).owner = input[r].caller
      /\ NewLease(r, n).expires = until
  BY DEF NewLease
<1>3. /\ job \in Jobs /\ req[r].now \in Nat /\ clock \in Nat /\ TTL \in Nat
      /\ req[r].now <= clock
  BY ConstantsAssumption
     DEF TypeInv, TypeOK, Input, Request, Behind, ConstantsAssumption
<1>4. until \in 0..(clock + TTL)
  BY <1>3
<1>5. Lifecycle!Unfinished(job)
  BY <1>3, UnfinishedJob DEF SafetyInv, Grants, Grantable
<1>6. \A h \in Holder[job] : h.until <= clock
  <2>1. \A l \in LeasesOf(job) : l.expires <= clock
    BY <1>3 DEF Grants, LeasesOf, TypeInv, TypeOK, Lease
  <2> QED
    BY <1>3, <2>1 DEF Holder
<1>7. \A t \in Parked[job] : t <= clock
  <2>1. \A d \in deferrals : d.job = job => d.recheck <= clock
    BY <1>3 DEF Grants, Grantable, Deferred, DeferralsOf, TypeInv, TypeOK, Deferral
  <2> QED
    BY <1>3, <2>1 DEF Parked, DeferralsOf
<1>8. Holder' = [Holder EXCEPT ![job] = {[owner |-> input[r].caller, until |-> until]}]
  <2>1. \A j \in Jobs : LeasesOf(j)' = IF j = job THEN {NewLease(r, n)} ELSE LeasesOf(j)
    BY <1>1, <1>2 DEF LeasesOf
  <2> HIDE DEF until
  <2> QED
    BY <1>2, <2>1 DEF Holder
<1>9. Parked' = Parked /\ Result' = Result
  BY DEF Grants, Parked, DeferralsOf, Result, FormalResults
<1> QED
  BY <1>4, <1>5, <1>6, <1>7, <1>8, <1>9 DEF Lifecycle!Grant

LEMMA HeldByCaller ==
  ASSUME TypeInv, NEW r \in Requests, LeaseHeld(r)
  PROVE  Lifecycle!HeldBy(input[r].job, input[r].caller)
<1>1. PICK l \in FencedLeases(r) : TRUE
  BY DEF LeaseHeld
<1>2. l \in LeasesOf(input[r].job) /\ l.owner = input[r].caller /\ input[r].job \in Jobs
  BY <1>1 DEF FencedLeases, LeasesOf, TypeInv, TypeOK, Input
<1>3. [owner |-> l.owner, until |-> l.expires] \in Holder[input[r].job]
  BY <1>2 DEF Holder
<1> QED
  BY <1>2, <1>3 DEF Lifecycle!HeldBy

LEMMA ReleaseMaps ==
  ASSUME NEW r \in Requests, leases' = leases \ LeasesOf(input[r].job), input[r].job \in Jobs
  PROVE  Holder' = [Holder EXCEPT ![input[r].job] = {}]
<1> DEFINE job == input[r].job
<1>1. \A j \in Jobs : LeasesOf(j)' = IF j = job THEN {} ELSE LeasesOf(j)
  BY DEF LeasesOf
<1> QED
  BY <1>1 DEF Holder

LEMMA AcceptMaps ==
  ASSUME TypeInv, SafetyInv, NEW r \in Requests, SubmitAccept(r)
  PROVE  Lifecycle!Finish(input[r].job, input[r].caller)
<1> DEFINE job == input[r].job
           row == ProposalOf(r, "RECEIVED", "NONE")
<1>1. /\ LeaseHeld(r) /\ FormalResults(job) = {} /\ job \in Jobs
      /\ proposals' = proposals \cup {row}
      /\ leases' = leases \ LeasesOf(job)
      /\ UNCHANGED <<clock, deferrals, input>>
  BY FenceIsAll DEF SubmitAccept, SafetyInv, TypeInv, TypeOK, Input
<1>2. /\ row.job = job /\ row.caller = input[r].caller
      /\ row.origin = "CHATGPT" /\ row.status = "RECEIVED"
  BY DEF TypeInv, Placing, Placed, SubmitAccept, At, ProposalOf
<1>3. Lifecycle!Unfinished(job)
  BY <1>1, UnfinishedJob DEF SafetyInv, LeaseHeld
<1>4. Lifecycle!HeldBy(job, input[r].caller)
  BY <1>1, HeldByCaller
<1>5. Result' = [Result EXCEPT ![job] = {input[r].caller}]
  <2>1. \A j \in Jobs : FormalResults(j)' = IF j = job THEN {row} ELSE FormalResults(j)
    BY <1>1, <1>2 DEF FormalResults
  <2> HIDE DEF row
  <2> QED
    BY <1>2, <2>1 DEF Result
<1>6. Holder' = [Holder EXCEPT ![job] = {}] /\ Parked' = Parked
  BY <1>1, ReleaseMaps DEF Parked, DeferralsOf
<1> QED
  BY <1>1, <1>3, <1>4, <1>5, <1>6 DEF Lifecycle!Finish

LEMMA DeferMaps ==
  ASSUME TypeInv, SafetyInv, NEW r \in Requests, DeferCommit(r)
  PROVE  Lifecycle!Park(input[r].job, input[r].caller)
<1> DEFINE job == input[r].job
<1>1. /\ LeaseHeld(r) /\ Clashing(r) = {} /\ job \in Jobs
      /\ deferrals' = deferrals \cup {DeferRow(r)}
      /\ leases' = leases \ LeasesOf(job)
      /\ UNCHANGED <<clock, proposals, input>>
  BY FenceIsAll DEF DeferCommit, SafetyInv, TypeInv, TypeOK, Input
<1>2. Lifecycle!Unfinished(job)
  BY <1>1, UnfinishedJob DEF SafetyInv, LeaseHeld
<1>3. Lifecycle!HeldBy(job, input[r].caller)
  BY <1>1, HeldByCaller
<1>4. Parked[job] = {} /\ Parked' = [Parked EXCEPT ![job] = {input[r].recheck}]
  <2>1. DeferralsOf(job) = {}
    BY <1>1 DEF Clashing, DeferralsOf
  <2>2. DeferRow(r).job = job /\ DeferRow(r).recheck = input[r].recheck
    BY DEF DeferRow
  <2>3. \A j \in Jobs : DeferralsOf(j)' = IF j = job THEN {DeferRow(r)} ELSE DeferralsOf(j)
    BY <1>1, <2>1, <2>2 DEF DeferralsOf
  <2> QED
    BY <1>1, <2>1, <2>2, <2>3 DEF Parked
<1>5. Holder' = [Holder EXCEPT ![job] = {}] /\ Result' = Result
  BY <1>1, ReleaseMaps DEF Result, FormalResults
<1>6. input[r].recheck \in Parked'[job]
  BY <1>1, <1>4 DEF Parked
<1> QED
  BY <1>1, <1>2, <1>3, <1>4, <1>5, <1>6 DEF Lifecycle!Park

\* A formal owner never reaches the synthetic release.
LEMMA NoSynthetic ==
  ASSUME FormalOnly, TypeInv, NEW r \in Requests
  PROVE  ~SubmitSynthetic(r)
<1>1. /\ req[r].pc = "s_synthetic" => EffectiveOrigin(input[r]) # "CHATGPT"
      /\ req[r].pc = "s_synthetic" => ~StructureFailed(input[r])
      /\ input[r].caller \in FormalOwners
  BY DEF TypeInv, TypeOK, Placing, Placed, FormalOnly, Input
<1> QED
  BY <1>1 DEF SubmitSynthetic, At, EffectiveOrigin, StructureFailed

LEMMA NextMaps ==
  ASSUME FormalOnly, TypeInv, SafetyInv, Behind, [Next]_vars
  PROVE  [Lifecycle!Next]_(Lifecycle!vars)
<1>1. CASE UNCHANGED vars
  BY <1>1, QuietStutters DEF vars, tables, Quiet, FormalResults
<1>2. CASE Tick
  <2>1. Quiet
    BY <1>2 DEF Tick, tables, Quiet, FormalResults
  <2>2. Holder' = Holder /\ Parked' = Parked /\ Result' = Result
    BY <2>1 DEF Quiet, Holder, Parked, Result, LeasesOf, DeferralsOf
  <2>3. Lifecycle!Advance
    BY <1>2, <2>2 DEF Tick, Lifecycle!Advance
  <2> QED
    BY <2>3 DEF Lifecycle!Next
<1>3. ASSUME NEW r \in Requests, Start(r) \/ RequestStep(r)
      PROVE  [Lifecycle!Next]_(Lifecycle!vars)
  <2>1. clock' = clock /\ input' = input /\ input[r].job \in Jobs /\ input[r].caller \in Principals
    BY <1>3, StepClock DEF TypeInv, TypeOK, Input
  <2>2. CASE Quiet
    BY <2>1, <2>2, QuietStutters
  <2>3. CASE Grants(r)
    BY <2>1, <2>3, GrantMaps DEF Lifecycle!Next
  <2>4. CASE SubmitAccept(r)
    BY <2>1, <2>4, AcceptMaps DEF Lifecycle!Next
  <2>5. CASE DeferCommit(r)
    BY <2>1, <2>5, DeferMaps DEF Lifecycle!Next
  <2> QED
    BY <1>3, <2>2, <2>3, <2>4, <2>5, Effects, NoSynthetic
<1> QED
  BY <1>1, <1>2, <1>3 DEF Next

LEMMA InitMaps == Init => Lifecycle!Init
BY DEF Init, Lifecycle!Init, Holder, Parked, Result, LeasesOf, DeferralsOf, FormalResults

\* When all callers are formal owners, the queue implements the life cycle: each
\* step of any interleaving grants a free job for at most TTL, finishes it for the
\* holder, parks it for the holder, or changes none of the three.
THEOREM ImplementsLifecycle ==
  ASSUME FormalOnly
  PROVE  Spec => LifecycleSpec
<1>1. Spec => [](TypeInv /\ SafetyInv /\ Behind)
  BY Safe, InitType, NextType, InitBehind, NextBehind, PTL DEF Spec
<1>2. Init => Lifecycle!Init
  BY InitMaps
<1>3. TypeInv /\ SafetyInv /\ Behind /\ [Next]_vars => [Lifecycle!Next]_(Lifecycle!vars)
  BY NextMaps
<1> QED
  BY <1>1, <1>2, <1>3, PTL DEF Spec, LifecycleSpec, Lifecycle!Spec

-----------------------------------------------------------------------------
(* A live lease is fenced.                                                 *)

\* A request that writes moves on.
LEMMA WriterMoves ==
  ASSUME TypeInv, NEW r \in Requests, SubmitAccept(r) \/ DeferCommit(r)
  PROVE  req'[r] # req[r]
<1>1. req \in [Requests -> Request] /\ req[r].pc \in {"s_accept", "d_batch"}
  BY DEF SubmitAccept, DeferCommit, At, TypeInv, TypeOK
<1>2. ASSUME NEW pc, pc \notin {"s_accept", "d_batch"}, Go(r, pc)
      PROVE  req'[r] # req[r]
  <2>1. req'[r].pc = pc
    BY <1>1, <1>2 DEF Go, Request
  <2> QED
    BY <1>1, <1>2, <2>1
<1>3. ASSUME Answer(r, "DEFERRED")
      PROVE  req'[r] # req[r]
  <2>1. req'[r].pc = "done"
    BY <1>1, <1>3 DEF Answer, Request
  <2> QED
    BY <1>1, <2>1
<1> QED
  BY <1>2, <1>3 DEF SubmitAccept, DeferCommit, Committed

LEMMA NextFenced ==
  ASSUME FormalOnly, TypeInv, SafetyInv, Behind, [Next]_vars
  PROVE  [\A l \in leases : l \notin leases' =>
            \/ l.expires <= clock
            \/ \E r \in Requests : /\ req'[r] # req[r]
                                   /\ input[r].op # "claim"
                                   /\ input[r].caller = l.owner /\ input[r].gen = l.count]_vars
<1>1. CASE UNCHANGED vars \/ Tick
  BY <1>1 DEF vars, tables, Tick
<1>2. ASSUME NEW r \in Requests, Start(r) \/ RequestStep(r), NEW l \in leases, l \notin leases'
      PROVE  \/ l.expires <= clock
             \/ /\ req'[r] # req[r]
                /\ input[r].op # "claim"
                /\ input[r].caller = l.owner /\ input[r].gen = l.count
  <2>1. CASE Quiet
    BY <1>2, <2>1 DEF Quiet
  <2>2. CASE Grants(r)
    <3>1. l \in LeasesOf(input[r].job)
      BY <1>2, <2>2 DEF Grants
    <3>2. l.expires <= req[r].now /\ req[r].now <= clock
      BY <2>2, <3>1 DEF Grants, Behind
    <3>3. l.expires \in Nat /\ req[r].now \in Nat /\ clock \in Nat
      BY DEF TypeInv, TypeOK, Lease, Request
    <3> QED
      BY <3>2, <3>3
  <2>3. CASE SubmitAccept(r) \/ DeferCommit(r)
    <3>1. l \in FencedLeases(r)
      BY <1>2, <2>3 DEF SubmitAccept, DeferCommit
    <3>2. input[r].op \in {"submit", "defer"}
      BY <2>3 DEF SubmitAccept, DeferCommit, At, TypeInv, Placing, Placed, SubmitSteps, DeferSteps
    <3> QED
      BY <2>3, <3>1, <3>2, WriterMoves DEF FencedLeases
  <2> QED
    BY <1>2, <2>1, <2>2, <2>3, Effects, NoSynthetic
<1> QED
  BY <1>1, <1>2 DEF Next

\* When all callers are formal owners, a lease that is still live leaves the table
\* only by a submit or a deferral that quotes its owner and its generation.  (With
\* a synthetic submit it does not hold: its release asks neither.)
THEOREM LiveLeasesAreFenced ==
  ASSUME FormalOnly
  PROVE  Spec => LiveLeaseIsFenced
<1>1. Spec => [](TypeInv /\ SafetyInv /\ Behind)
  BY Safe, InitType, NextType, InitBehind, NextBehind, PTL DEF Spec
<1>2. TypeInv /\ SafetyInv /\ Behind /\ [Next]_vars =>
        [\A l \in leases : l \notin leases' =>
            \/ l.expires <= clock
            \/ \E r \in Requests : /\ req'[r] # req[r]
                                   /\ input[r].op # "claim"
                                   /\ input[r].caller = l.owner /\ input[r].gen = l.count]_vars
  BY NextFenced
<1> QED
  BY <1>1, <1>2, PTL DEF Spec, LiveLeaseIsFenced
=============================================================================
