----------------------- MODULE ResearchWorkflowAnswers -----------------------
(***************************************************************************)
(* What a caller is told is what the tables hold: Spec => []AnswersTruthful*)
(* for every value of the constants, faults included.  Rows that back an   *)
(* answer are never deleted, so only the answering step matters; a claim   *)
(* needs besides that a lease carries the clock of the request whose token *)
(* it has.  And two requests that carry the same submit are told the same, *)
(* under the conditions NoEarlyRelease names.                              *)
(***************************************************************************)
EXTENDS ResearchWorkflowProofs

\* Where each lease ever granted came from: its token is of an attempt made.
GrantedBy(l) ==
  LET q == l.token.req IN
  /\ req[q].pc # "idle"
  /\ l.token.try <= req[q].try
  /\ l.owner = input[q].caller
  /\ l.expires = req[q].now + TTL

GrantInv ==
  /\ leases \subseteq granted
  /\ \A l \in granted : GrantedBy(l)

\* The rows answers rest on are only ever added.
Grows ==
  /\ terminal \subseteq terminal' /\ deferrals \subseteq deferrals'
  /\ proposals \subseteq proposals' /\ granted \subseteq granted'

LEMMA StepGrows ==
  ASSUME NEW r \in Requests, Start(r) \/ RequestStep(r)
  PROVE  Grows
<1>1. CASE Start(r)
  BY <1>1 DEF Start, ReadOnly, tables, Grows
<1>2. CASE Claim(r)
  BY <1>2 DEF Claim, ClaimReadTerminal, ClaimAudit, ClaimReadDeferral, ClaimFresh,
              ClaimPreempt, ClaimMiss, ClaimReadOwn, ClaimReadCurrent, ReadOnly, tables, Grows
<1>3. CASE Submit(r)
  BY <1>3 DEF Submit, SubmitReadKey, SubmitReadLease, SubmitReadFormal, SubmitReject,
              SubmitAccept, SubmitFenced, SubmitSynthetic, SubmitClash, SubmitConfirm,
              SubmitMatches, SubmitRace, SubmitFallback, SubmitConflict, ReadOnly, tables, Grows
<1>4. CASE Defer(r)
  BY <1>4 DEF Defer, DeferReadKey, DeferReadExisting, DeferCommit, DeferFenced, DeferClash,
              DeferReadTerminal, ReadOnly, tables, Grows
<1>5. CASE BatchFault(r) \/ LookupFault(r)
  BY <1>5 DEF BatchFault, LookupFault, tables, Grows
<1> QED
  BY <1>1, <1>2, <1>3, <1>4, <1>5 DEF RequestStep

\* A step changes one request's record; a request keeps its clock once started, and
\* its attempts only grow.
LEMMA StepRecords ==
  ASSUME TypeInv, NEW r \in Requests, Start(r) \/ RequestStep(r)
  PROVE  /\ \A q \in Requests \ {r} : req'[q] = req[q]
         /\ req[r].pc # "idle" => req'[r].now = req[r].now /\ req'[r].pc # "idle"
         /\ req[r].try <= req'[r].try
<1>1. req \in [Requests -> Request]
  BY DEF TypeInv, TypeOK
<1>2. ASSUME Changes(r)
      PROVE  \A q \in Requests \ {r} : req'[q] = req[q]
  BY <1>1, <1>2 DEF Changes, Silent, Go, GoWith, Arrive, Answer, Attempt
<1>3. ASSUME Changes(r), req[r].pc # "idle"
      PROVE  req'[r].now = req[r].now /\ req'[r].pc # "idle"
  <2>1. CASE \E pc : pc # "idle" /\ Go(r, pc)
    BY <1>1, <2>1 DEF Go, Request
  <2>2. CASE \E pc, v : pc # "idle" /\ GoWith(r, pc, v)
    BY <1>1, <2>2 DEF GoWith, Request
  <2>3. CASE \E a : Answer(r, a)
    BY <1>1, <2>3 DEF Answer, Request
  <2>4. CASE Attempt(r)
    BY <1>1, <2>4 DEF Attempt, Request
  <2> QED
    BY <1>3, <2>1, <2>2, <2>3, <2>4 DEF Changes, Silent, At
<1>4. ASSUME Changes(r)
      PROVE  req[r].try <= req'[r].try
  <2>1. req[r].try \in Nat
    BY <1>1 DEF Request
  <2>2. CASE Attempt(r)
    BY <1>1, <2>1, <2>2 DEF Attempt, Request
  <2>3. CASE ~Attempt(r)
    <3>1. req'[r].try = req[r].try
      BY <1>1, <1>4, <2>3 DEF Changes, Silent, Go, GoWith, Arrive, Answer, Request
    <3> QED
      BY <2>1, <3>1
  <2> QED
    BY <2>2, <2>3
<1> QED
  BY <1>2, <1>3, <1>4, StepChanges

-----------------------------------------------------------------------------
(* Leases and the requests they were granted to.                           *)

\* Only the upsert of a claim writes a lease row.
LEMMA LeaseWrites ==
  ASSUME TypeInv, NEW r \in Requests, Start(r) \/ RequestStep(r)
  PROVE  \/ leases' \subseteq leases /\ granted' = granted
         \/ /\ Attempt(r)
            /\ \E n \in Nat : /\ leases' \subseteq leases \cup {NewLease(r, n)}
                              /\ granted' = granted \cup {NewLease(r, n)}
<1>1. CASE Start(r)
  BY <1>1 DEF Start, ReadOnly, tables
<1>2. CASE Claim(r)
  <2>1. CASE ClaimFresh(r)
    BY <2>1 DEF ClaimFresh
  <2>2. CASE ClaimPreempt(r)
    <3>1. \A old \in LeasesOf(input[r].job) : old.count + 1 \in Nat
      BY DEF LeasesOf, TypeInv, TypeOK, Lease
    <3> QED
      BY <2>2, <3>1 DEF ClaimPreempt
  <2> QED
    BY <1>2, <2>1, <2>2
       DEF Claim, ClaimReadTerminal, ClaimAudit, ClaimReadDeferral, ClaimMiss, ClaimReadOwn,
           ClaimReadCurrent, ReadOnly, tables
<1>3. CASE Submit(r)
  BY <1>3 DEF Submit, SubmitReadKey, SubmitReadLease, SubmitReadFormal, SubmitReject,
              SubmitAccept, SubmitFenced, SubmitSynthetic, SubmitClash, SubmitConfirm,
              SubmitMatches, SubmitRace, SubmitFallback, SubmitConflict, ReadOnly, tables
<1>4. CASE Defer(r)
  BY <1>4 DEF Defer, DeferReadKey, DeferReadExisting, DeferCommit, DeferFenced, DeferClash,
              DeferReadTerminal, ReadOnly, tables
<1>5. CASE BatchFault(r) \/ LookupFault(r)
  BY <1>5 DEF BatchFault, LookupFault, tables
<1> QED
  BY <1>1, <1>2, <1>3, <1>4, <1>5 DEF RequestStep

LEMMA GrantStep ==
  ASSUME TypeInv, GrantInv, NEW r \in Requests, Start(r) \/ RequestStep(r)
  PROVE  GrantInv'
<1>1. input' = input
  BY StepClock
<1>2. \A l \in granted : l.token.req \in Requests
  BY DEF TypeInv, TypeOK, Lease, Token
<1>3. \A q \in Requests : req[q].try \in Nat /\ req'[q].try \in Nat
  <2>1. TypeInv'
    BY NextType DEF Next
  <2>2. req \in [Requests -> Request] /\ req' \in [Requests -> Request]
    BY <2>1 DEF TypeInv, TypeOK
  <2> QED
    BY <2>2 DEF Request
<1>4. \A q \in Requests : req[q].pc # "idle" =>
        /\ req'[q].pc # "idle" /\ req'[q].now = req[q].now
        /\ req[q].try <= req'[q].try
  BY <1>3, StepRecords
<1>5. \A l \in granted : l.token.try \in Nat
  BY DEF TypeInv, TypeOK, Lease, Token
<1>6. \A l \in granted : GrantedBy(l)'
  <2> SUFFICES ASSUME NEW l \in granted, NEW q, q = l.token.req PROVE GrantedBy(l)'
    OBVIOUS
  <2>1. GrantedBy(l) /\ q \in Requests
    BY <1>2 DEF GrantInv
  <2> QED
    BY <1>1, <1>3, <1>4, <1>5, <2>1 DEF GrantedBy
<1>7. CASE leases' \subseteq leases /\ granted' = granted
  BY <1>6, <1>7 DEF GrantInv
<1>8. CASE /\ Attempt(r)
           /\ \E n \in Nat : /\ leases' \subseteq leases \cup {NewLease(r, n)}
                             /\ granted' = granted \cup {NewLease(r, n)}
  <2>1. PICK n \in Nat : /\ leases' \subseteq leases \cup {NewLease(r, n)}
                         /\ granted' = granted \cup {NewLease(r, n)}
    BY <1>8
  <2>2. /\ NewLease(r, n).token.req = r
        /\ NewLease(r, n).owner = input[r].caller
        /\ NewLease(r, n).expires = req[r].now + TTL
    BY DEF NewLease, NextToken
  <2>3. req[r].pc # "idle"
    BY <1>8 DEF Attempt, At
  <2>4. NewLease(r, n).token.try = req'[r].try /\ req'[r].try \in Nat
    <3>1. req \in [Requests -> Request] /\ req[r].try \in Nat
      BY DEF TypeInv, TypeOK, Request
    <3>2. req'[r].try = req[r].try + 1
      BY <1>8, <3>1 DEF Attempt, Request
    <3> QED
      BY <3>1, <3>2 DEF NewLease, NextToken
  <2>5. \A l : l = NewLease(r, n) => GrantedBy(l)'
    BY <1>1, <2>2, <2>3, <2>4, StepRecords DEF GrantedBy
  <2> QED
    BY <1>6, <2>1, <2>5 DEF GrantInv
<1> QED
  BY <1>7, <1>8, LeaseWrites

-----------------------------------------------------------------------------
(* Answers.                                                                *)

\* A request that has not arrived has no answer yet.
Unanswered == \A r \in Requests : At(r, "idle") => req[r].answer = "NONE"

AnswerInv == GrantInv /\ Unanswered /\ AnswersTruthful

\* The answers that promise nothing about the tables.
Modest == Answers \ {"ACCEPTED", "IDEMPOTENT_REPLAY", "DEFERRED", "CLAIMED"}

\* A row that backs an answer keeps backing it.
LEMMA BackedStays ==
  ASSUME TypeInv, Grows, input' = input, NEW q \in Requests, req'[q].now = req[q].now,
         NEW a, Backed(q, a)
  PROVE  Backed(q, a)'
<1>1. CASE a = "ACCEPTED"
  BY <1>1 DEF Backed, Grows
<1>2. CASE a = "IDEMPOTENT_REPLAY" /\ input[q].op = "submit"
  BY <1>2 DEF Backed, Grows
<1>3. CASE a \in {"DEFERRED", "IDEMPOTENT_REPLAY"} /\ input[q].op = "defer"
  BY <1>3 DEF Backed, Grows, DeferRow
<1>4. CASE a = "CLAIMED"
  BY <1>4 DEF Backed, Grows
<1> QED
  BY <1>1, <1>2, <1>3, <1>4 DEF Backed

LEMMA ModestBacked ==
  ASSUME NEW q \in Requests, NEW a \in Modest
  PROVE  Backed(q, a)'
BY DEF Backed, Modest

\* A step that answers is truthful if its own answer is backed once it is taken.
LEMMA AnswerSound ==
  ASSUME TypeInv, AnswerInv, NEW r \in Requests, Start(r) \/ RequestStep(r),
         NEW a, Answer(r, a), Backed(r, a)'
  PROVE  Unanswered' /\ AnswersTruthful'
<1>1. /\ Grows /\ input' = input
      /\ \A q \in Requests \ {r} : req'[q] = req[q]
      /\ req \in [Requests -> Request]
  BY StepGrows, StepClock, StepRecords DEF TypeInv, TypeOK
<1>2. req'[r].pc = "done" /\ req'[r].answer = a
  BY <1>1 DEF Answer, Request
<1>3. Unanswered'
  BY <1>1, <1>2 DEF AnswerInv, Unanswered, At
<1>4. \A q \in Requests \ {r} : Backed(q, req[q].answer)'
  BY <1>1, BackedStays DEF AnswerInv, AnswersTruthful
<1> QED
  BY <1>1, <1>2, <1>3, <1>4 DEF AnswersTruthful

\* A step that does not answer is truthful.
LEMMA SilentSound ==
  ASSUME TypeInv, AnswerInv, NEW r \in Requests, Start(r) \/ RequestStep(r),
         req'[r].answer = req[r].answer, req'[r].pc # "idle"
  PROVE  Unanswered' /\ AnswersTruthful'
<1>1. /\ Grows /\ input' = input
      /\ \A q \in Requests \ {r} : req'[q] = req[q]
  BY StepGrows, StepClock, StepRecords
<1>2. Unanswered'
  BY <1>1 DEF AnswerInv, Unanswered, At
<1>3. \A q \in Requests \ {r} : Backed(q, req[q].answer)'
  BY <1>1, BackedStays DEF AnswerInv, AnswersTruthful
<1>4. Backed(r, req[r].answer)'
  <2>1. CASE At(r, "idle")
    <3>1. req'[r].answer = "NONE"
      BY <2>1 DEF AnswerInv, Unanswered
    <3>2. "NONE" \in Modest
      BY DEF Modest, Answers, Verdicts
    <3> QED
      BY <3>1, <3>2, ModestBacked
  <2>2. CASE ~At(r, "idle")
    <3>1. req'[r].now = req[r].now
      BY <2>2, StepRecords DEF At
    <3>2. Backed(r, req[r].answer)
      BY DEF AnswerInv, AnswersTruthful
    <3> QED
      BY <1>1, <3>1, <3>2, BackedStays
  <2> QED
    BY <2>1, <2>2
<1> QED
  BY <1>1, <1>2, <1>3, <1>4 DEF AnswersTruthful

LEMMA SilentAnswer ==
  ASSUME TypeInv, NEW r \in Requests, Silent(r)
  PROVE  req'[r].answer = req[r].answer /\ req'[r].pc # "idle"
<1>1. req \in [Requests -> Request]
  BY DEF TypeInv, TypeOK
<1>2. CASE \E pc : pc # "idle" /\ Go(r, pc)
  BY <1>1, <1>2 DEF Go, Request
<1>3. CASE \E pc : pc # "idle" /\ Arrive(r, pc)
  BY <1>1, <1>3 DEF Arrive, Request
<1>4. CASE \E pc, v : pc # "idle" /\ GoWith(r, pc, v)
  BY <1>1, <1>4 DEF GoWith, Request
<1>5. CASE Attempt(r)
  BY <1>1, <1>5 DEF Attempt, Request
<1> QED
  BY <1>2, <1>3, <1>4, <1>5 DEF Silent

\* What a step of request r must be: silent, modest or backed.
Honest(r) ==
  \/ Silent(r)
  \/ \E a \in Modest : Answer(r, a)
  \/ \E a : Answer(r, a) /\ Backed(r, a)'

LEMMA StartHonest ==
  ASSUME TypeInv, NEW r \in Requests, Start(r)
  PROVE  Honest(r)
<1>1. input[r] \in Input
  BY DEF TypeInv, TypeOK
<1>2. "NOT_FOUND" \in Modest /\ "VALIDATION_FAILED" \in Modest
  BY DEF Modest, Answers, Verdicts, Rejections
<1> QED
  BY <1>1, <1>2 DEF Start, Honest, Silent, Input

LEMMA ClaimHonest ==
  ASSUME TypeInv, AnswerInv, NEW r \in Requests, Claim(r)
  PROVE  Honest(r)
<1>1. req[r] \in Request /\ Placed(r, req[r]) /\ input[r] \in Input
  BY DEF TypeInv, TypeOK, Placing
<1>2. CASE ClaimReadTerminal(r) \/ ClaimFresh(r) \/ ClaimPreempt(r) \/ ClaimMiss(r)
  BY <1>2 DEF ClaimReadTerminal, ClaimFresh, ClaimPreempt, ClaimMiss, Honest, Silent
<1>3. CASE ClaimAudit(r)
  BY <1>3 DEF ClaimAudit, Honest, Modest, Answers
<1>4. CASE ClaimReadDeferral(r)
  <2>1. input[r].op = "claim" /\ input' = input
    BY <1>1, <1>4 DEF ClaimReadDeferral, At, Placed, ClaimSteps, ReadOnly
  <2>2. Backed(r, "DEFERRED")'
    BY <2>1 DEF Backed
  <2> QED
    BY <1>4, <2>2 DEF ClaimReadDeferral, Honest, Silent
<1>5. CASE ClaimReadOwn(r)
  <2>1. CASE Go(r, "c_terminal")
    BY <2>1 DEF Honest, Silent
  <2>2. CASE Answer(r, "CLAIMED") /\ ~Go(r, "c_terminal")
    <3>1. PICK l \in LeasesOf(input[r].job) : l.token = [req |-> r, try |-> req[r].try]
      BY <1>5, <2>2 DEF ClaimReadOwn
    <3>2. l \in granted /\ l.job = input[r].job /\ GrantedBy(l) /\ l.token.req = r
      BY <3>1 DEF LeasesOf, AnswerInv, GrantInv
    <3>3. l.owner = input[r].caller /\ l.expires > req[r].now
      BY <1>1, <3>2, ConstantsAssumption DEF GrantedBy, Request, ConstantsAssumption
    <3>4. req'[r].now = req[r].now
      BY <2>2 DEF Answer, TypeInv, TypeOK, Request
    <3>5. Backed(r, "CLAIMED")'
      BY <1>5, <3>2, <3>3, <3>4 DEF ClaimReadOwn, ReadOnly, Backed
    <3> QED
      BY <2>2, <3>5 DEF Honest
  <2> QED
    BY <1>5, <2>1, <2>2 DEF ClaimReadOwn
<1>6. CASE ClaimReadCurrent(r)
  <2> DEFINE live == {l \in LeasesOf(input[r].job) : l.expires > req[r].now}
  <2>1. CASE live = {}
    <3>1. "STORE_UNAVAILABLE" \in Modest
      BY DEF Modest, Answers
    <3> QED
      BY <1>6, <2>1, <3>1 DEF ClaimReadCurrent, Honest, Silent
  <2>2. CASE live # {} /\ \A l \in live : l.owner # input[r].caller
    <3>1. "ALREADY_CLAIMED" \in Modest
      BY DEF Modest, Answers
    <3> QED
      BY <1>6, <2>2, <3>1 DEF ClaimReadCurrent, Honest
  <2>3. CASE \E l \in live : l.owner = input[r].caller
    <3>1. Answer(r, "CLAIMED")
      BY <1>6, <2>3 DEF ClaimReadCurrent
    <3>2. PICK l \in live : l.owner = input[r].caller
      BY <2>3
    <3>3. l \in granted /\ l.job = input[r].job /\ l.expires > req[r].now
      BY DEF LeasesOf, AnswerInv, GrantInv
    <3>4. req'[r].now = req[r].now
      BY <3>1 DEF Answer, TypeInv, TypeOK, Request
    <3>5. Backed(r, "CLAIMED")'
      BY <1>6, <3>2, <3>3, <3>4 DEF ClaimReadCurrent, ReadOnly, Backed
    <3> QED
      BY <3>1, <3>5 DEF Honest
  <2> QED
    BY <2>1, <2>2, <2>3
<1> QED
  BY <1>2, <1>3, <1>4, <1>5, <1>6 DEF Claim

\* A submit that replays repeats a row that is there.
LEMMA ReplayHonest ==
  ASSUME TypeInv, NEW r \in Requests, req[r].pc \in SubmitSteps, UNCHANGED <<input, proposals>>,
         NEW p \in WithKey(input[r].key), ReplayVerdict(r, p)
  PROVE  Honest(r)
<1>1. p \in Proposal /\ p \in proposals /\ p.key = input[r].key
  BY DEF TypeInv, TypeOK, WithKey
<1>2. input[r].op = "submit"
  BY DEF TypeInv, Placing, Placed
<1>3. CASE Go(r, "s_conflict")
  BY <1>3 DEF Honest, Silent
<1>4. CASE p.payload = input[r].payload /\ p.status = "RECEIVED" /\ Answer(r, "IDEMPOTENT_REPLAY")
  <2>1. Backed(r, "IDEMPOTENT_REPLAY")'
    BY <1>1, <1>2, <1>4 DEF Backed
  <2> QED
    BY <1>4, <2>1 DEF Honest
<1>5. CASE Answer(r, p.reason)
  <2>1. p.reason \in Modest
    BY <1>1 DEF Proposal, Modest, Answers, Verdicts, Rejections
  <2> QED
    BY <1>5, <2>1 DEF Honest
<1> QED
  BY <1>1, <1>3, <1>4, <1>5 DEF ReplayVerdict, Proposal

\* Without a row, a batch that was to complete the job is never reported as done.
LEMMA NoRaceHonest ==
  ASSUME TypeInv, NEW r \in Requests, NoRace(r)
  PROVE  Honest(r)
<1>1. CASE req[r].verdict = "ACCEPTED"
  BY <1>1 DEF NoRace, Honest, Silent
<1>2. CASE req[r].verdict # "ACCEPTED"
  <2>1. req[r].verdict \in Modest
    BY <1>2 DEF TypeInv, TypeOK, Request, Modest, Answers, Verdicts, Rejections
  <2> QED
    BY <1>2, <2>1 DEF NoRace, Honest
<1> QED
  BY <1>1, <1>2

LEMMA SubmitHonest ==
  ASSUME TypeInv, NEW r \in Requests, Submit(r)
  PROVE  Honest(r)
<1>1. req[r] \in Request /\ Placed(r, req[r])
  BY DEF TypeInv, TypeOK, Placing
<1>2. /\ Rejections \subseteq Modest
      /\ "ACCEPTED_SYNTHETIC" \in Modest /\ "CONFLICT" \in Modest
  BY DEF Modest, Answers, Verdicts, Rejections
<1>3. CASE SubmitReadKey(r) \/ SubmitRace(r)
  <2>1. req[r].pc \in SubmitSteps /\ UNCHANGED <<input, proposals>>
    BY <1>3 DEF SubmitReadKey, SubmitRace, At, SubmitSteps, ReadOnly, tables
  <2>2. CASE \E p \in WithKey(input[r].key) : ReplayVerdict(r, p)
    BY <2>1, <2>2, ReplayHonest
  <2>3. CASE Go(r, "s_lease") \/ GoWith(r, "s_reject", "VALIDATION_FAILED")
    BY <2>3 DEF Honest, Silent
  <2>4. CASE NoRace(r)
    BY <2>4, NoRaceHonest
  <2> QED
    BY <1>3, <2>2, <2>3, <2>4 DEF SubmitReadKey, SubmitRace
<1>4. CASE SubmitReadLease(r)
  BY <1>4 DEF SubmitReadLease, Honest, Silent
<1>5. CASE SubmitReadFormal(r) \/ SubmitAccept(r) \/ SubmitFenced(r) \/ SubmitClash(r)
           \/ SubmitConfirm(r)
  BY <1>5 DEF SubmitReadFormal, SubmitAccept, SubmitFenced, SubmitClash, SubmitConfirm,
              Committed, Honest, Silent
<1>6. CASE SubmitReject(r)
  <2>1. req[r].verdict \in Modest
    BY <1>1, <1>2, <1>6 DEF SubmitReject, At, Placed
  <2> QED
    BY <1>6, <2>1 DEF SubmitReject, Committed, Honest, Silent
<1>7. CASE SubmitSynthetic(r)
  BY <1>2, <1>7 DEF SubmitSynthetic, Committed, Honest, Silent
<1>8. CASE SubmitMatches(r)
  <2>1. CASE [job |-> input[r].job, proposal |-> r] \in terminal
    <3>1. Backed(r, "ACCEPTED")'
      BY <1>8, <2>1 DEF SubmitMatches, ReadOnly, tables, Backed
    <3> QED
      BY <1>8, <2>1, <3>1 DEF SubmitMatches, Honest
  <2>2. CASE [job |-> input[r].job, proposal |-> r] \notin terminal
    BY <1>8, <2>2 DEF SubmitMatches, Honest, Silent
  <2> QED
    BY <2>1, <2>2
<1>9. CASE SubmitFallback(r) \/ SubmitConflict(r)
  BY <1>2, <1>9 DEF SubmitFallback, SubmitConflict, Rejections, Honest
<1> QED
  BY <1>3, <1>4, <1>5, <1>6, <1>7, <1>8, <1>9 DEF Submit

LEMMA DeferHonest ==
  ASSUME TypeInv, NEW r \in Requests, Defer(r)
  PROVE  Honest(r)
<1>1. req[r] \in Request /\ Placed(r, req[r]) /\ input[r] \in Input
  BY DEF TypeInv, TypeOK, Placing
<1>2. /\ Rejections \subseteq Modest
      /\ "CONFLICT" \in Modest /\ "STORE_UNAVAILABLE" \in Modest
  BY DEF Modest, Answers, Verdicts, Rejections
<1>3. CASE DeferReadKey(r)
  <2>1. input[r].op = "defer" /\ UNCHANGED <<input, deferrals>>
    BY <1>1, <1>3 DEF DeferReadKey, Placed, DeferSteps, ReadOnly, tables
  <2>2. ASSUME NEW d \in deferrals, d.key = input[r].key, SameDeferral(r, d),
               Answer(r, "IDEMPOTENT_REPLAY")
        PROVE  Honest(r)
    <3>1. d = DeferRow(r)
      BY <2>2 DEF SameDeferral, DeferRow, TypeInv, TypeOK, Deferral
    <3>2. Backed(r, "IDEMPOTENT_REPLAY")'
      BY <2>1, <3>1 DEF Backed, DeferRow
    <3> QED
      BY <2>2, <3>2 DEF Honest
  <2>3. CASE \E d \in deferrals :
               /\ d.key = input[r].key
               /\ Answer(r, IF SameDeferral(r, d) THEN "IDEMPOTENT_REPLAY" ELSE "CONFLICT")
    BY <1>2, <2>2, <2>3 DEF Honest
  <2>4. CASE \A d \in deferrals : d.key # input[r].key
    <3>1. input[r].recheck <= req[r].now \/ input[r].recheck > req[r].now
      BY <1>1 DEF Input, Request
    <3> QED
      BY <1>2, <1>3, <2>4, <3>1 DEF DeferReadKey, At, Honest, Silent, Rejections
  <2> QED
    BY <1>3, <2>3, <2>4 DEF DeferReadKey
<1>4. CASE DeferReadExisting(r)
  BY <1>2, <1>4 DEF DeferReadExisting, Honest, Silent
<1>5. CASE DeferCommit(r)
  <2>1. input[r].op = "defer"
    BY <1>1, <1>5 DEF DeferCommit, At, Placed, DeferSteps
  <2>2. Backed(r, "DEFERRED")'
    BY <1>5, <2>1 DEF DeferCommit, Backed, DeferRow
  <2> QED
    BY <1>5, <2>2 DEF DeferCommit, Committed, Honest, Silent
<1>6. CASE DeferFenced(r) \/ DeferClash(r)
  BY <1>6 DEF DeferFenced, DeferClash, Committed, Honest, Silent
<1>7. CASE DeferReadTerminal(r)
  BY <1>2, <1>7 DEF DeferReadTerminal, Rejections, Honest
<1> QED
  BY <1>3, <1>4, <1>5, <1>6, <1>7 DEF Defer

LEMMA FaultHonest ==
  ASSUME TypeInv, NEW r \in Requests, BatchFault(r) \/ LookupFault(r)
  PROVE  Honest(r)
<1>1. CASE BatchFault(r)
  BY <1>1 DEF BatchFault, Honest, Silent
<1>2. CASE LookupFault(r)
  <2>1. "STORE_UNAVAILABLE" \in Modest
    BY DEF Modest, Answers
  <2> QED
    BY <1>2, <2>1, NoRaceHonest DEF LookupFault, Honest
<1> QED
  BY <1>1, <1>2

LEMMA InitAnswers == Init => AnswerInv
<1> SUFFICES ASSUME Init PROVE AnswerInv
  OBVIOUS
<1>1. GrantInv /\ Unanswered
  BY DEF Init, GrantInv, Unanswered
<1>2. AnswersTruthful
  BY DEF Init, AnswersTruthful, Backed
<1> QED
  BY <1>1, <1>2 DEF AnswerInv

LEMMA NextAnswers == TypeInv /\ AnswerInv /\ [Next]_vars => AnswerInv'
<1> SUFFICES ASSUME TypeInv, AnswerInv, [Next]_vars PROVE AnswerInv'
  OBVIOUS
<1>1. CASE Tick \/ UNCHANGED vars
  <2>1. UNCHANGED <<terminal, deferrals, proposals, granted, leases, input, req>>
    BY <1>1 DEF Tick, vars, tables
  <2>2. GrantInv' /\ Unanswered'
    BY <2>1 DEF AnswerInv, GrantInv, GrantedBy, Unanswered, At
  <2>3. AnswersTruthful'
    BY <2>1, BackedStays DEF AnswerInv, AnswersTruthful, Grows
  <2> QED
    BY <2>2, <2>3 DEF AnswerInv
<1>2. ASSUME NEW r \in Requests, Start(r) \/ RequestStep(r)
      PROVE  AnswerInv'
  <2>1. GrantInv'
    BY <1>2, GrantStep DEF AnswerInv
  <2>2. Honest(r)
    BY <1>2, StartHonest, ClaimHonest, SubmitHonest, DeferHonest, FaultHonest DEF RequestStep
  <2>3. CASE Silent(r)
    BY <1>2, <2>1, <2>3, SilentAnswer, SilentSound DEF AnswerInv
  <2>4. CASE \E a \in Modest : Answer(r, a)
    BY <1>2, <2>1, <2>4, ModestBacked, AnswerSound DEF AnswerInv
  <2>5. CASE \E a : Answer(r, a) /\ Backed(r, a)'
    BY <1>2, <2>1, <2>5, AnswerSound DEF AnswerInv
  <2> QED
    BY <2>2, <2>3, <2>4, <2>5 DEF Honest
<1> QED
  BY <1>1, <1>2 DEF Next

\* No caller is told of a result, a replay, a deferral or a lease that the tables
\* do not hold, even when D1 loses the answer of a batch that committed.
THEOREM AnswersAreTruthful == Spec => []AnswersTruthful
<1>1. Spec => []AnswerInv
  BY InitType, NextType, InitAnswers, NextAnswers, PTL DEF Spec
<1>2. AnswerInv => AnswersTruthful
  BY DEF AnswerInv
<1> QED
  BY <1>1, <1>2, PTL

-----------------------------------------------------------------------------
(* Retries.  Two requests that carry the same submit agree as long as a    *)
(* lease is released only by the completion of its job, and D1 does not    *)
(* fail: then a refusal rests on something that stays, a spent generation, *)
(* a row under the key, or a missing generation, and bars the other too.   *)

NoEarlyRelease ==
  /\ FormalOnly
  /\ MaxFaults = 0
  /\ \A s \in Scenarios, r \in Requests : s[r].op # "defer"

NoDefers == \A r \in Requests : input[r].op # "defer"

\* The caller's generation is over for good.
Passed(q) ==
  \/ Completed(input[q].job)
  \/ \E l \in LeasesOf(input[q].job) :
       l.count > input[q].gen \/ (l.count = input[q].gen /\ l.owner # input[q].caller)

KeyTaken(q) ==
  \E p \in WithKey(input[q].key) : p.status = "REJECTED" \/ p.payload # input[q].payload

\* Neither q nor a request that carries the same has been or will be accepted.
Lost(q) ==
  /\ input[q].gen = 0 \/ Passed(q) \/ KeyTaken(q)
  /\ \A p \in proposals : p.status = "RECEIVED" => input[p.id] # input[q]

OwnRow(q) == \E p \in WithKey(input[q].key) : p.id = q /\ p.status = "RECEIVED"

\* A row is what its request carried, and its key is unique.
RowInv ==
  /\ \A p, o \in proposals : p.key = o.key => p = o
  /\ \A p \in proposals : /\ p.key = input[p.id].key /\ p.payload = input[p.id].payload
                          /\ input[p.id].gen # 0

\* Where a submit stands between its reads and its answer.
Standing(q) ==
  /\ req[q].pc \in SubmitSteps => input[q].gen # 0
  /\ req[q].pc \in {"s_formal", "s_accept"} => FencedLeases(q) # {} \/ Passed(q)
  /\ req[q].pc = "s_confirm" => OwnRow(q) \/ Passed(q)
  /\ req[q].pc = "s_matches" => OwnRow(q)
  /\ req[q].pc = "s_race" => WithKey(input[q].key) # {} \/ Passed(q)
  /\ req[q].pc \in {"s_fallback", "s_conflict"} => Lost(q)
  /\ req[q].answer = "ACCEPTED" => OwnRow(q)
  /\ req[q].answer \notin {"NONE", "ACCEPTED", "IDEMPOTENT_REPLAY"} => Lost(q)

RetryInv ==
  /\ NoDefers
  /\ RowInv
  /\ \A q \in Requests : input[q].op = "submit" => Standing(q)

\* Without deferrals a lease changes hands by a claim or goes with its job.
LEMMA LeaseMoves ==
  ASSUME FormalOnly, NoDefers, TypeInv, SafetyInv, NEW r \in Requests,
         Start(r) \/ RequestStep(r)
  PROVE  \/ UNCHANGED <<leases, terminal>>
         \/ ClaimFresh(r) \/ ClaimPreempt(r) \/ SubmitAccept(r)
<1>1. CASE Start(r)
  BY <1>1 DEF Start, ReadOnly, tables
<1>2. CASE Claim(r)
  BY <1>2 DEF Claim, ClaimReadTerminal, ClaimAudit, ClaimReadDeferral, ClaimMiss, ClaimReadOwn,
              ClaimReadCurrent, ReadOnly, tables
<1>3. CASE Submit(r)
  <2>1. CASE SubmitFenced(r)
    BY <2>1, FenceFails DEF SafetyInv, SubmitFenced
  <2> QED
    BY <1>3, <2>1, NoSynthetic
       DEF Submit, SubmitReadKey, SubmitReadLease, SubmitReadFormal, SubmitReject,
           SubmitClash, SubmitConfirm, SubmitMatches, SubmitRace, SubmitFallback,
           SubmitConflict, ReadOnly, tables
<1>4. CASE Defer(r)
  <2>1. req[r].pc \in DeferSteps
    BY <1>4 DEF Defer, DeferReadKey, DeferReadExisting, DeferCommit, DeferFenced, DeferClash,
                DeferReadTerminal, At, DeferSteps
  <2> QED
    BY <2>1 DEF NoDefers, TypeInv, Placing, Placed
<1>5. CASE BatchFault(r) \/ LookupFault(r)
  BY <1>5 DEF BatchFault, LookupFault, tables
<1> QED
  BY <1>1, <1>2, <1>3, <1>4, <1>5 DEF RequestStep

\* A generation that is over stays over, and one that is live stays live or is over.
LEMMA PassedStays ==
  ASSUME FormalOnly, NoDefers, TypeInv, SafetyInv, NEW r \in Requests,
         Start(r) \/ RequestStep(r), NEW q \in Requests, req'[q].now = req[q].now
  PROVE  /\ Passed(q) => Passed(q)'
         /\ FencedLeases(q) # {} \/ Passed(q) => (FencedLeases(q) # {} \/ Passed(q))'
<1> DEFINE job == input[q].job
<1>1. input' = input /\ input[q] \in Input /\ input[r] \in Input
  BY StepClock DEF TypeInv, TypeOK
<1>2. Completed(job) => Completed(job)'
  BY <1>1, StepGrows DEF Grows, Completed
<1>3. CASE UNCHANGED <<leases, terminal>>
  BY <1>1, <1>3 DEF Passed, FencedLeases, LeasesOf, Completed
<1>4. CASE ClaimFresh(r)
  <2>1. leases \subseteq leases'
    BY <1>4 DEF ClaimFresh
  <2> QED
    BY <1>1, <1>2, <2>1 DEF Passed, FencedLeases, LeasesOf
<1>5. CASE ClaimPreempt(r)
  <2>1. PICK old \in LeasesOf(input[r].job) :
          leases' = (leases \ {old}) \cup {NewLease(r, old.count + 1)}
    BY <1>5 DEF ClaimPreempt
  <2> DEFINE new == NewLease(r, old.count + 1)
  <2>2. /\ old.job = input[r].job /\ new.job = input[r].job /\ new.count = old.count + 1
        /\ old.count \in Nat /\ new \in leases' /\ \A l \in leases : l # old => l \in leases'
    BY <2>1 DEF LeasesOf, NewLease, TypeInv, TypeOK, Lease
  <2> HIDE DEF new
  <2>3. ASSUME NEW l \in LeasesOf(job), l.count >= input[q].gen
        PROVE  \/ l \in leases'
               \/ Passed(q)'
    <3>1. CASE l = old
      <4>1. new \in LeasesOf(job)' /\ new.count > input[q].gen
        BY <1>1, <2>2, <2>3, <3>1 DEF LeasesOf, Input
      <4> QED
        BY <1>1, <4>1 DEF Passed
    <3> QED
      BY <2>2, <3>1 DEF LeasesOf
  <2>4. \A l \in LeasesOf(job) : l.count \in Nat /\ input[q].gen \in Nat
    BY <1>1 DEF LeasesOf, TypeInv, TypeOK, Lease, Input
  <2>5. Passed(q) => Passed(q)'
    BY <1>1, <1>2, <2>3, <2>4 DEF Passed, LeasesOf
  <2>6. FencedLeases(q) # {} => (FencedLeases(q) # {} \/ Passed(q))'
    BY <1>1, <2>3, <2>4 DEF FencedLeases, LeasesOf
  <2> QED
    BY <2>5, <2>6
<1>6. CASE SubmitAccept(r)
  <2>1. leases' = leases \ LeasesOf(input[r].job)
    BY <1>6, FenceIsAll DEF SubmitAccept, SafetyInv
  <2>2. CASE job = input[r].job
    <3>1. [job |-> input[r].job, proposal |-> r] \in terminal'
      BY <1>6 DEF SubmitAccept
    <3>2. Completed(job)'
      BY <1>1, <2>2, <3>1 DEF Completed
    <3> QED
      BY <1>1, <3>2 DEF Passed
  <2>3. CASE job # input[r].job
    <3>1. LeasesOf(job)' = LeasesOf(job) /\ FencedLeases(q)' = FencedLeases(q)
      BY <1>1, <2>1, <2>3 DEF LeasesOf, FencedLeases
    <3> QED
      BY <1>1, <1>2, <3>1 DEF Passed
  <2> QED
    BY <2>2, <2>3
<1> QED
  BY <1>3, <1>4, <1>5, <1>6, LeaseMoves

\* A request whose submit is lost is not accepted, nor is one that carries the same.
LEMMA LostIsFinal ==
  ASSUME TypeInv, SafetyInv, NEW r \in Requests, SubmitAccept(r), input[r].gen # 0,
         NEW q \in Requests, Lost(q)
  PROVE  input[r] # input[q]
<1> SUFFICES ASSUME input[r] = input[q] PROVE FALSE
  OBVIOUS
<1>1. ~KeyTaken(q)
  BY DEF SubmitAccept, KeyTaken
<1>2. ~Passed(q)
  <2>1. PICK l \in LeasesOf(input[q].job) : l.owner = input[q].caller /\ l.count = input[q].gen
    BY DEF SubmitAccept, LeaseHeld, FencedLeases, LeasesOf
  <2>2. \A m \in LeasesOf(input[q].job) : m = l
    BY <2>1 DEF SafetyInv, OneLease, LeasesOf
  <2>3. l.count \in Nat
    BY DEF LeasesOf, TypeInv, TypeOK, Lease
  <2> QED
    BY <2>1, <2>2, <2>3 DEF Passed, SubmitAccept, LeaseHeld
<1> QED
  BY <1>1, <1>2 DEF Lost

\* The rows a step adds.
LEMMA RowWrites ==
  ASSUME FormalOnly, TypeInv, NEW r \in Requests, Start(r) \/ RequestStep(r)
  PROVE  \/ proposals' = proposals
         \/ /\ WithKey(input[r].key) = {}
            /\ \/ /\ SubmitReject(r)
                  /\ proposals' = proposals \cup {ProposalOf(r, "REJECTED", req[r].verdict)}
               \/ /\ SubmitAccept(r)
                  /\ proposals' = proposals \cup {ProposalOf(r, "RECEIVED", "NONE")}
<1>1. CASE Start(r)
  BY <1>1 DEF Start, ReadOnly, tables
<1>2. CASE Claim(r)
  BY <1>2 DEF Claim, ClaimReadTerminal, ClaimAudit, ClaimReadDeferral, ClaimFresh,
              ClaimPreempt, ClaimMiss, ClaimReadOwn, ClaimReadCurrent, ReadOnly, tables
<1>3. CASE Submit(r)
  <2>1. CASE SubmitReject(r) \/ SubmitAccept(r)
    BY <2>1 DEF SubmitReject, SubmitAccept
  <2> QED
    BY <1>3, <2>1, NoSynthetic
       DEF Submit, SubmitReadKey, SubmitReadLease, SubmitReadFormal, SubmitFenced,
           SubmitClash, SubmitConfirm, SubmitMatches, SubmitRace, SubmitFallback,
           SubmitConflict, ReadOnly, tables
<1>4. CASE Defer(r)
  BY <1>4 DEF Defer, DeferReadKey, DeferReadExisting, DeferCommit, DeferFenced, DeferClash,
              DeferReadTerminal, ReadOnly, tables
<1>5. CASE BatchFault(r) \/ LookupFault(r)
  BY <1>5 DEF BatchFault, LookupFault, tables
<1> QED
  BY <1>1, <1>2, <1>3, <1>4, <1>5 DEF RequestStep

\* The writer of a row carries a generation.
LEMMA WriterStands ==
  ASSUME TypeInv, RetryInv, NEW r \in Requests, SubmitReject(r) \/ SubmitAccept(r)
  PROVE  input[r].op = "submit" /\ Standing(r) /\ input[r].gen # 0
<1>1. req[r].pc \in SubmitSteps
  BY DEF SubmitReject, SubmitAccept, At, SubmitSteps
<1>2. input[r].op = "submit"
  BY <1>1 DEF TypeInv, Placing, Placed
<1> QED
  BY <1>1, <1>2 DEF RetryInv, Standing

LEMMA RowStep ==
  ASSUME FormalOnly, TypeInv, RetryInv, NEW r \in Requests, Start(r) \/ RequestStep(r)
  PROVE  RowInv'
<1>1. input' = input
  BY StepClock
<1>2. CASE proposals' = proposals
  BY <1>1, <1>2 DEF RetryInv, RowInv
<1>3. ASSUME NEW status, NEW reason, input[r].gen # 0, WithKey(input[r].key) = {},
             proposals' = proposals \cup {ProposalOf(r, status, reason)}
      PROVE  RowInv'
  <2> DEFINE row == ProposalOf(r, status, reason)
  <2>1. /\ row.id = r /\ row.key = input[r].key /\ row.payload = input[r].payload
        /\ proposals' = proposals \cup {row} /\ \A p \in proposals : p.key # row.key
    BY <1>3 DEF ProposalOf, WithKey
  <2> HIDE DEF row
  <2> QED
    BY <1>1, <1>3, <2>1 DEF RetryInv, RowInv
<1> QED
  BY <1>2, <1>3, RowWrites, WriterStands

\* A lost submit stays lost.
LEMMA LostStays ==
  ASSUME FormalOnly, TypeInv, SafetyInv, RetryInv, NEW r \in Requests,
         Start(r) \/ RequestStep(r), NEW q \in Requests, req'[q].now = req[q].now, Lost(q)
  PROVE  Lost(q)'
<1>1. input' = input /\ proposals \subseteq proposals'
  BY StepClock, StepGrows DEF Grows
<1>2. Passed(q) => Passed(q)'
  BY PassedStays DEF RetryInv
<1>3. KeyTaken(q) => KeyTaken(q)'
  BY <1>1 DEF KeyTaken, WithKey
<1>4. ASSUME NEW p \in proposals', p \notin proposals, p.status = "RECEIVED"
      PROVE  input[p.id] # input[q]
  <2>1. SubmitAccept(r) /\ p = ProposalOf(r, "RECEIVED", "NONE")
    <3>1. ProposalOf(r, "REJECTED", req[r].verdict).status = "REJECTED"
      BY DEF ProposalOf
    <3> QED
      BY <1>4, <3>1, RowWrites
  <2>2. p.id = r
    BY <2>1 DEF ProposalOf
  <2> QED
    BY <2>1, <2>2, LostIsFinal, WriterStands
<1> QED
  BY <1>1, <1>2, <1>3, <1>4 DEF Lost

\* A request keeps its standing under the steps of the others.
LEMMA StandingStays ==
  ASSUME FormalOnly, TypeInv, SafetyInv, RetryInv, NEW r \in Requests,
         Start(r) \/ RequestStep(r), NEW q \in Requests, q # r, Standing(q)
  PROVE  Standing(q)'
<1>1. req'[q] = req[q] /\ input' = input /\ proposals \subseteq proposals'
  BY StepRecords, StepClock, StepGrows DEF Grows
<1>2. /\ Passed(q) => Passed(q)'
      /\ FencedLeases(q) # {} \/ Passed(q) => (FencedLeases(q) # {} \/ Passed(q))'
  BY <1>1, PassedStays DEF RetryInv
<1>3. Lost(q) => Lost(q)'
  BY <1>1, LostStays
<1>4. /\ OwnRow(q) => OwnRow(q)'
      /\ WithKey(input[q].key) # {} => (WithKey(input[q].key) # {})'
  BY <1>1 DEF OwnRow, WithKey
<1> QED
  BY <1>1, <1>2, <1>3, <1>4 DEF Standing

-----------------------------------------------------------------------------
(* A submit's own steps.                                                   *)

\* What a step leaves to be shown of the request that took it.
LEMMA RecordAfter ==
  ASSUME TypeInv, NEW r \in Requests
  PROVE  /\ \A pc : Go(r, pc) => /\ req'[r].pc = pc /\ req'[r].answer = req[r].answer
                                 /\ req'[r].now = req[r].now
         /\ \A pc, v : GoWith(r, pc, v) => /\ req'[r].pc = pc /\ req'[r].answer = req[r].answer
                                           /\ req'[r].now = req[r].now
         /\ \A a : Answer(r, a) => /\ req'[r].pc = "done" /\ req'[r].answer = a
                                   /\ req'[r].now = req[r].now
         /\ \A pc : Arrive(r, pc) => req'[r].pc = pc /\ req'[r].answer = req[r].answer
<1>1. req \in [Requests -> Request]
  BY DEF TypeInv, TypeOK
<1>2. \A pc : Go(r, pc) => /\ req'[r].pc = pc /\ req'[r].answer = req[r].answer
                           /\ req'[r].now = req[r].now
  BY <1>1 DEF Go, Request
<1>3. \A pc, v : GoWith(r, pc, v) => /\ req'[r].pc = pc /\ req'[r].answer = req[r].answer
                                     /\ req'[r].now = req[r].now
  BY <1>1 DEF GoWith, Request
<1>4. \A a : Answer(r, a) => /\ req'[r].pc = "done" /\ req'[r].answer = a
                             /\ req'[r].now = req[r].now
  BY <1>1 DEF Answer, Request
<1>5. \A pc : Arrive(r, pc) => req'[r].pc = pc /\ req'[r].answer = req[r].answer
  BY <1>1 DEF Arrive, Request
<1> QED
  BY <1>2, <1>3, <1>4, <1>5

\* A refusal is standing when what it rests on is.
LEMMA RefusedStands ==
  ASSUME TypeInv, NEW r \in Requests, NEW a, Answer(r, a), a # "ACCEPTED",
         input' = input, Lost(r)'
  PROVE  Standing(r)'
<1>1. req'[r].pc = "done" /\ req'[r].answer = a
  BY RecordAfter
<1> QED
  BY <1>1 DEF Standing, SubmitSteps

LEMMA ReplayStands ==
  ASSUME TypeInv, RowInv, NEW r \in Requests, Standing(r), req[r].pc \in SubmitSteps,
         NEW p \in WithKey(input[r].key), ReplayVerdict(r, p), UNCHANGED <<input, proposals>>
  PROVE  Standing(r)'
<1>1. p \in Proposal /\ p \in proposals /\ p.key = input[r].key
  BY DEF WithKey, TypeInv, TypeOK
<1>2. ASSUME KeyTaken(r)
      PROVE  Lost(r)'
  <2>1. PICK o \in WithKey(input[r].key) : o.status = "REJECTED" \/ o.payload # input[r].payload
    BY <1>2 DEF KeyTaken
  <2>2. \A m \in proposals : m.status = "RECEIVED" => input[m.id] # input[r]
    BY <2>1 DEF RowInv, WithKey
  <2> QED
    BY <1>2, <2>2 DEF Lost, KeyTaken, WithKey
<1>3. CASE p.payload # input[r].payload
  <2>1. Go(r, "s_conflict") /\ Lost(r)'
    BY <1>2, <1>3 DEF ReplayVerdict, KeyTaken
  <2>2. req'[r].pc = "s_conflict" /\ req'[r].answer = req[r].answer
    BY <2>1, RecordAfter
  <2> QED
    BY <2>1, <2>2 DEF Standing, SubmitSteps, OwnRow, WithKey
<1>4. CASE p.payload = input[r].payload /\ p.status = "RECEIVED"
  <2>1. Answer(r, "IDEMPOTENT_REPLAY")
    BY <1>4 DEF ReplayVerdict
  <2>2. req'[r].pc = "done" /\ req'[r].answer = "IDEMPOTENT_REPLAY"
    BY <2>1, RecordAfter
  <2> QED
    BY <2>2 DEF Standing, SubmitSteps
<1>5. CASE p.payload = input[r].payload /\ p.status = "REJECTED"
  <2>1. Answer(r, p.reason) /\ Lost(r)' /\ p.reason # "ACCEPTED"
    BY <1>1, <1>2, <1>5 DEF ReplayVerdict, KeyTaken, Proposal, Rejections
  <2> QED
    BY <2>1, RefusedStands
<1> QED
  BY <1>1, <1>3, <1>4, <1>5 DEF Proposal

\* A request that goes on keeps what its answer, if any, rests on.
LEMMA GoesOn ==
  ASSUME FormalOnly, TypeInv, SafetyInv, RetryInv, NEW r \in Requests,
         Start(r) \/ RequestStep(r), input[r].op = "submit", input[r].gen # 0, NEW pc,
         req'[r].pc = pc, req'[r].answer = req[r].answer, req'[r].now = req[r].now,
         pc \in {"s_formal", "s_accept"} => (FencedLeases(r) # {} \/ Passed(r))',
         pc = "s_confirm" => (OwnRow(r) \/ Passed(r))',
         pc = "s_matches" => OwnRow(r)',
         pc = "s_race" => (WithKey(input[r].key) # {} \/ Passed(r))',
         pc \in {"s_fallback", "s_conflict"} => Lost(r)'
  PROVE  Standing(r)'
<1>1. input' = input /\ proposals \subseteq proposals' /\ Standing(r)
  BY StepClock, StepGrows DEF Grows, RetryInv
<1>2. OwnRow(r) => OwnRow(r)'
  BY <1>1 DEF OwnRow, WithKey
<1>3. Lost(r) => Lost(r)'
  BY LostStays
<1> QED
  BY <1>1, <1>2, <1>3 DEF Standing

LEMMA StartStands ==
  ASSUME TypeInv, RetryInv, NEW r \in Requests, Start(r), input[r].op = "submit"
  PROVE  Standing(r)'
<1>1. UNCHANGED <<input, proposals, leases, terminal>> /\ Standing(r)
  BY DEF Start, ReadOnly, tables, RetryInv
<1>2. (OwnRow(r) => OwnRow(r)') /\ (Lost(r) => Lost(r)')
  BY <1>1 DEF OwnRow, Lost, Passed, KeyTaken, WithKey, Completed, LeasesOf
<1>3. CASE input[r].gen = 0
  <2>1. Answer(r, "VALIDATION_FAILED")
    BY <1>3 DEF Start
  <2>2. Lost(r)
    BY <1>3 DEF Lost, RetryInv, RowInv
  <2> QED
    BY <1>1, <1>2, <2>1, <2>2, RefusedStands
<1>4. CASE input[r].gen # 0
  <2>1. Arrive(r, "s_key")
    BY <1>4 DEF Start
  <2>2. req'[r].pc = "s_key" /\ req'[r].answer = req[r].answer
    BY <2>1, RecordAfter
  <2> QED
    BY <1>1, <1>2, <1>4, <2>2 DEF Standing
<1> QED
  BY <1>3, <1>4

\* The reads before the write batch.
LEMMA ReadStands ==
  ASSUME FormalOnly, TypeInv, SafetyInv, RetryInv, NEW r \in Requests,
         SubmitReadKey(r) \/ SubmitReadLease(r) \/ SubmitReadFormal(r)
  PROVE  Standing(r)'
<1>1. /\ Start(r) \/ RequestStep(r)
      /\ req[r].pc \in {"s_key", "s_lease", "s_formal"} /\ req[r].pc \in SubmitSteps
      /\ UNCHANGED <<input, proposals, leases, terminal>>
  BY DEF RequestStep, Submit, SubmitReadKey, SubmitReadLease, SubmitReadFormal, At,
         SubmitSteps, ReadOnly, tables
<1>2. input[r].op = "submit" /\ Standing(r) /\ input[r].gen # 0
  BY <1>1 DEF TypeInv, Placing, Placed, RetryInv, Standing
<1>3. ASSUME NEW pc \in {"s_reject", "s_lease", "s_synthetic"},
             Go(r, pc) \/ \E v : GoWith(r, pc, v)
      PROVE  Standing(r)'
  <2>1. /\ req'[r].pc = pc /\ req'[r].answer = req[r].answer /\ req'[r].now = req[r].now
    BY <1>3, RecordAfter
  <2> QED
    BY <1>1, <1>2, <2>1, GoesOn
<1>4. ASSUME NEW pc \in {"s_formal", "s_accept"}, Go(r, pc) \/ \E v : GoWith(r, pc, v),
             FencedLeases(r) # {} \/ Passed(r)
      PROVE  Standing(r)'
  <2>1. /\ req'[r].pc = pc /\ req'[r].answer = req[r].answer /\ req'[r].now = req[r].now
    BY <1>4, RecordAfter
  <2>2. (FencedLeases(r) # {} \/ Passed(r))'
    BY <1>1, <1>4, <2>1 DEF FencedLeases, Passed, Completed, LeasesOf
  <2> QED
    BY <1>1, <1>2, <2>1, <2>2, GoesOn
<1>5. CASE SubmitReadKey(r)
  <2>1. CASE \E p \in WithKey(input[r].key) : ReplayVerdict(r, p)
    BY <1>1, <1>2, <2>1, ReplayStands DEF RetryInv
  <2> QED
    BY <1>3, <1>5, <2>1 DEF SubmitReadKey
<1>6. CASE SubmitReadLease(r)
  BY <1>3, <1>4, <1>6 DEF SubmitReadLease
<1>7. CASE SubmitReadFormal(r)
  <2>1. FencedLeases(r) # {} \/ Passed(r)
    BY <1>2, <1>7 DEF Standing, SubmitReadFormal, At
  <2> QED
    BY <1>3, <1>4, <1>7, <2>1 DEF SubmitReadFormal
<1> QED
  BY <1>5, <1>6, <1>7

\* The write batches, when none of them fails.
LEMMA BatchStands ==
  ASSUME FormalOnly, MaxFaults = 0, TypeInv, SafetyInv, RetryInv, NEW r \in Requests,
         SubmitReject(r) \/ SubmitAccept(r) \/ SubmitFenced(r) \/ SubmitClash(r)
  PROVE  Standing(r)'
<1>1. /\ Start(r) \/ RequestStep(r)
      /\ req[r].pc \in SubmitSteps /\ input' = input /\ ~(faults < MaxFaults)
  BY DEF RequestStep, Submit, SubmitReject, SubmitAccept, SubmitFenced, SubmitClash, At,
         SubmitSteps, ReadOnly, TypeInv, TypeOK
<1>2. input[r].op = "submit" /\ Standing(r) /\ input[r].gen # 0
  BY <1>1 DEF TypeInv, Placing, Placed, RetryInv, Standing
<1>3. ASSUME NEW pc, Go(r, pc)
      PROVE  /\ req'[r].pc = pc /\ req'[r].answer = req[r].answer /\ req'[r].now = req[r].now
  BY <1>3, RecordAfter
<1>4. CASE SubmitReject(r)
  <2> DEFINE row == ProposalOf(r, "REJECTED", req[r].verdict)
  <2>1. /\ Answer(r, req[r].verdict) /\ req[r].verdict # "ACCEPTED"
        /\ WithKey(input[r].key) = {} /\ proposals' = proposals \cup {row}
    BY <1>1, <1>4 DEF SubmitReject, Committed, TypeInv, Placing, Placed, At, Rejections
  <2>2. row.status = "REJECTED" /\ row.key = input[r].key
    BY DEF ProposalOf
  <2> HIDE DEF row
  <2>3. KeyTaken(r)'
    BY <1>1, <2>1, <2>2 DEF KeyTaken, WithKey
  <2>4. \A p \in proposals' : p.status = "RECEIVED" => input[p.id] # input[r]
    BY <2>1, <2>2 DEF WithKey, RetryInv, RowInv
  <2>5. Lost(r)'
    BY <1>1, <2>3, <2>4 DEF Lost
  <2> QED
    BY <1>1, <2>1, <2>5, RefusedStands
<1>5. CASE SubmitAccept(r)
  <2> DEFINE row == ProposalOf(r, "RECEIVED", "NONE")
  <2>1. Go(r, "s_confirm") /\ proposals' = proposals \cup {row}
    BY <1>1, <1>5 DEF SubmitAccept, Committed
  <2>2. row.status = "RECEIVED" /\ row.key = input[r].key /\ row.id = r
    BY DEF ProposalOf
  <2> HIDE DEF row
  <2>3. OwnRow(r)'
    BY <1>1, <2>1, <2>2 DEF OwnRow, WithKey
  <2> QED
    BY <1>1, <1>2, <1>3, <2>1, <2>3, GoesOn
<1>6. CASE SubmitFenced(r)
  <2>1. Go(r, "s_confirm") /\ leases' = leases /\ terminal' = terminal
    BY <1>1, <1>6, FenceFails DEF SubmitFenced, Committed, SafetyInv
  <2>2. Passed(r)
    BY <1>2, <1>6 DEF SubmitFenced, At, LeaseHeld, Standing, Passed
  <2>3. Passed(r)'
    BY <1>1, <2>1, <2>2 DEF Passed, Completed, LeasesOf
  <2> QED
    BY <1>1, <1>2, <1>3, <2>1, <2>3, GoesOn
<1>7. CASE SubmitClash(r)
  <2>1. Go(r, "s_race") /\ proposals' = proposals
    BY <1>7 DEF SubmitClash, ReadOnly, tables
  <2>2. WithKey(input[r].key) # {}
    <3>1. CASE LeaseHeld(r) /\ FormalResults(input[r].job) # {}
      <4>1. PICK p \in FormalResults(input[r].job) : TRUE
        BY <3>1
      <4>2. input[r].job \in Jobs
        BY DEF TypeInv, TypeOK, Input
      <4>3. [job |-> input[r].job, proposal |-> p.id] \in {t \in terminal : t.job = input[r].job}
        BY <4>1, <4>2 DEF SafetyInv, OneFormalResult
      <4> QED
        BY <3>1, <4>3 DEF LeaseHeld, Completed
    <3> QED
      BY <1>7, <3>1 DEF SubmitClash
  <2>3. (WithKey(input[r].key) # {})'
    BY <1>1, <2>1, <2>2 DEF WithKey
  <2> QED
    BY <1>1, <1>2, <1>3, <2>1, <2>3, GoesOn
<1> QED
  BY <1>4, <1>5, <1>6, <1>7

\* The reads after it.
LEMMA OutcomeStands ==
  ASSUME FormalOnly, TypeInv, SafetyInv, RetryInv, NEW r \in Requests,
         SubmitConfirm(r) \/ SubmitMatches(r) \/ SubmitRace(r) \/ SubmitFallback(r)
           \/ SubmitConflict(r)
  PROVE  Standing(r)'
<1>1. /\ Start(r) \/ RequestStep(r)
      /\ req[r].pc \in SubmitSteps /\ UNCHANGED <<input, proposals, leases, terminal>>
  BY DEF RequestStep, Submit, SubmitConfirm, SubmitMatches, SubmitRace, SubmitFallback,
         SubmitConflict, At, SubmitSteps, ReadOnly, tables
<1>2. input[r].op = "submit" /\ Standing(r) /\ input[r].gen # 0
  BY <1>1 DEF TypeInv, Placing, Placed, RetryInv, Standing
<1>3. /\ OwnRow(r) => OwnRow(r)'
      /\ Passed(r) => Passed(r)'
      /\ Lost(r) => Lost(r)'
  BY <1>1 DEF OwnRow, WithKey, Passed, Completed, LeasesOf, Lost, KeyTaken
<1>4. ASSUME NEW pc, Go(r, pc)
      PROVE  /\ req'[r].pc = pc /\ req'[r].answer = req[r].answer /\ req'[r].now = req[r].now
  BY <1>4, RecordAfter
<1>5. CASE SubmitConfirm(r)
  <2>1. OwnRow(r) \/ Passed(r)
    BY <1>2, <1>5 DEF SubmitConfirm, At, Standing
  <2>2. (OwnRow(r) /\ Go(r, "s_matches")) \/ (Passed(r) /\ Go(r, "s_race"))
    BY <1>5, <2>1 DEF SubmitConfirm, OwnRow
  <2> QED
    BY <1>1, <1>2, <1>3, <1>4, <2>2, GoesOn
<1>6. CASE SubmitMatches(r)
  <2>1. OwnRow(r)
    BY <1>2, <1>6 DEF SubmitMatches, At, Standing
  <2>2. CASE Answer(r, "ACCEPTED")
    <3>1. req'[r].pc = "done" /\ req'[r].answer = "ACCEPTED"
      BY <2>2, RecordAfter
    <3> QED
      BY <1>3, <2>1, <3>1 DEF Standing, SubmitSteps
  <2>3. CASE Go(r, "s_race")
    <3>1. (WithKey(input[r].key) # {})'
      BY <1>1, <2>1 DEF OwnRow, WithKey
    <3> QED
      BY <1>1, <1>2, <1>4, <2>3, <3>1, GoesOn
  <2> QED
    BY <1>6, <2>2, <2>3 DEF SubmitMatches
<1>7. CASE SubmitRace(r)
  <2>1. CASE \E p \in WithKey(input[r].key) : ReplayVerdict(r, p)
    BY <1>1, <1>2, <2>1, ReplayStands DEF RetryInv
  <2>2. CASE WithKey(input[r].key) = {} /\ NoRace(r)
    <3>1. Passed(r)
      BY <1>2, <1>7, <2>2, <2>1 DEF SubmitRace, At, Standing
    <3>2. Lost(r)
      BY <2>2, <3>1 DEF Lost, WithKey, RetryInv, RowInv
    <3>3. CASE Go(r, "s_fallback")
      BY <1>1, <1>2, <1>3, <1>4, <3>2, <3>3, GoesOn
    <3>4. CASE req[r].verdict # "ACCEPTED" /\ Answer(r, req[r].verdict)
      BY <1>1, <1>3, <3>2, <3>4, RefusedStands
    <3> QED
      BY <2>2, <3>3, <3>4 DEF NoRace
  <2> QED
    BY <1>7, <2>1, <2>2 DEF SubmitRace
<1>8. CASE SubmitFallback(r) \/ SubmitConflict(r)
  <2>1. Lost(r)
    BY <1>2, <1>8 DEF SubmitFallback, SubmitConflict, At, Standing
  <2>2. \E a \in {"SECOND_RESULT", "LEASE_INVALID", "CONFLICT"} : Answer(r, a)
    BY <1>8 DEF SubmitFallback, SubmitConflict
  <2> QED
    BY <1>1, <1>3, <2>1, <2>2, RefusedStands
<1> QED
  BY <1>5, <1>6, <1>7, <1>8

LEMMA InitRetry == NoEarlyRelease /\ Init => RetryInv
<1> SUFFICES ASSUME NoEarlyRelease, Init PROVE RetryInv
  OBVIOUS
<1>1. NoDefers
  BY DEF Init, NoDefers, NoEarlyRelease
<1>2. RowInv
  BY DEF Init, RowInv
<1>3. \A q \in Requests : req[q].pc = "idle" /\ req[q].answer = "NONE"
  BY DEF Init
<1>4. \A q \in Requests : Standing(q)
  BY <1>3 DEF Standing, SubmitSteps
<1> QED
  BY <1>1, <1>2, <1>4 DEF RetryInv

LEMMA NextRetry ==
  NoEarlyRelease /\ TypeInv /\ SafetyInv /\ RetryInv /\ [Next]_vars => RetryInv'
<1> SUFFICES ASSUME NoEarlyRelease, TypeInv, SafetyInv, RetryInv, [Next]_vars PROVE RetryInv'
  OBVIOUS
<1>1. CASE Tick \/ UNCHANGED vars
  <2>1. UNCHANGED <<leases, terminal, proposals, input, req>>
    BY <1>1 DEF Tick, vars, tables
  <2>2. \A q \in Requests : Standing(q) => Standing(q)'
    BY <2>1 DEF Standing, FencedLeases, Passed, Completed, LeasesOf, OwnRow, WithKey, Lost, KeyTaken
  <2> QED
    BY <2>1, <2>2 DEF RetryInv, NoDefers, RowInv
<1>2. ASSUME NEW r \in Requests, Start(r) \/ RequestStep(r)
      PROVE  RetryInv'
  <2>1. input' = input /\ FormalOnly /\ MaxFaults = 0 /\ NoDefers
    BY <1>2, StepClock DEF NoEarlyRelease, RetryInv
  <2>2. RowInv' /\ NoDefers'
    BY <1>2, <2>1, RowStep DEF NoDefers
  <2>3. \A q \in Requests : q # r /\ input[q].op = "submit" => Standing(q)'
    BY <1>2, <2>1, StandingStays DEF RetryInv
  <2>4. input[r].op = "submit" => Standing(r)'
    <3> SUFFICES ASSUME input[r].op = "submit" PROVE Standing(r)'
      OBVIOUS
    <3>1. CASE Start(r)
      BY <3>1, StartStands
    <3>2. ~Claim(r) /\ ~Defer(r)
      <4>1. req[r].pc \notin ClaimSteps /\ req[r].pc \notin DeferSteps
        BY DEF TypeInv, Placing, Placed
      <4>2. ~Claim(r)
        BY <4>1 DEF Claim, ClaimReadTerminal, ClaimAudit, ClaimReadDeferral, ClaimFresh,
                    ClaimPreempt, ClaimMiss, Attempt, ClaimReadOwn, ClaimReadCurrent, At, ClaimSteps
      <4>3. ~Defer(r)
        BY <4>1 DEF Defer, DeferReadKey, DeferReadExisting, DeferCommit, DeferFenced,
                    DeferClash, DeferReadTerminal, At, DeferSteps
      <4> QED
        BY <4>2, <4>3
    <3>3. ~BatchFault(r) /\ ~LookupFault(r)
      BY <2>1 DEF BatchFault, LookupFault, TypeInv, TypeOK
    <3>4. CASE Submit(r)
      BY <2>1, <3>4, ReadStands, BatchStands, OutcomeStands, NoSynthetic DEF Submit
    <3> QED
      BY <1>2, <3>1, <3>2, <3>3, <3>4 DEF RequestStep
  <2> QED
    BY <2>1, <2>2, <2>3, <2>4 DEF RetryInv
<1> QED
  BY <1>1, <1>2 DEF Next

\* Two accepted rows under one key are one, and an accepted row refutes a loss.
LEMMA RetriesAgreeNow ==
  ASSUME RetryInv
  PROVE  RetryAgrees
<1> SUFFICES ASSUME NEW r \in Requests, NEW q \in Requests, input[r].op = "submit",
                    input[q] = input[r], req[r].answer = "ACCEPTED", q # r
             PROVE  req[q].answer \in {"NONE", "IDEMPOTENT_REPLAY"}
  BY DEF RetryAgrees
<1>1. Standing(r) /\ Standing(q)
  BY DEF RetryInv
<1>2. PICK p \in proposals : p.id = r /\ p.status = "RECEIVED" /\ p.key = input[r].key
  BY <1>1 DEF Standing, OwnRow, WithKey
<1>3. ~Lost(q)
  BY <1>2 DEF Lost
<1>4. ~OwnRow(q)
  BY <1>2 DEF OwnRow, WithKey, RetryInv, RowInv
<1> QED
  BY <1>1, <1>3, <1>4 DEF Standing

\* As long as leases end only with their job or their time, and D1 answers, two
\* requests that carry the same submit never get an acceptance and a refusal.
\* (A deferral or a synthetic release frees the generation a refusal rested on,
\* and a lost answer lets a refusal be given without a row.)
THEOREM RetriesAgree ==
  ASSUME NoEarlyRelease
  PROVE  Spec => []RetryAgrees
<1>1. Spec => [](TypeInv /\ SafetyInv)
  BY Safe
<1>2. Init => RetryInv
  BY InitRetry
<1>3. TypeInv /\ SafetyInv /\ RetryInv /\ [Next]_vars => RetryInv'
  BY NextRetry
<1>4. RetryInv => RetryAgrees
  BY RetriesAgreeNow
<1> QED
  BY <1>1, <1>2, <1>3, <1>4, PTL DEF Spec
=============================================================================
