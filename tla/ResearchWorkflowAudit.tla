------------------------ MODULE ResearchWorkflowAudit ------------------------
(***************************************************************************)
(* The audit log agrees with the tables, for every value of the constants, *)
(* faults included: the log only grows, each row and its event are written *)
(* by one batch, and a request reaches at most one such batch.             *)
(***************************************************************************)
EXTENDS ResearchWorkflowAnswers

-----------------------------------------------------------------------------
(* The log grows at its end.                                               *)

NewAt == DOMAIN events' \ DOMAIN events

\* What was in the log stays where it was, before whatever is new.
Older ==
  \A i \in DOMAIN events :
    i \in DOMAIN events' /\ events'[i] = events[i] /\ \A k \in NewAt : i < k

LEMMA OneMore ==
  ASSUME TypeInv, NEW e, events' = Append(events, e)
  PROVE  Older /\ NewAt = {Len(events) + 1} /\ events'[Len(events) + 1] = e
<1>1. events \in Seq(Event) /\ Len(events) \in Nat
  BY DEF TypeInv, TypeOK
<1>2. DOMAIN events = 1..Len(events) /\ DOMAIN events' = 1..(Len(events) + 1)
  BY <1>1
<1>3. NewAt = {Len(events) + 1}
  BY <1>1, <1>2 DEF NewAt
<1>4. events'[Len(events) + 1] = e /\ \A i \in 1..Len(events) : events'[i] = events[i]
  BY <1>1
<1> QED
  BY <1>1, <1>2, <1>3, <1>4 DEF Older

LEMMA TwoMore ==
  ASSUME TypeInv, NEW e \in Event, NEW f \in Event, events' = events \o <<e, f>>
  PROVE  /\ Older /\ NewAt = {Len(events) + 1, Len(events) + 2}
         /\ events'[Len(events) + 1] = e /\ events'[Len(events) + 2] = f
<1>1. events \in Seq(Event) /\ Len(events) \in Nat /\ <<e, f>> \in Seq(Event)
  BY DEF TypeInv, TypeOK
<1>2. DOMAIN events = 1..Len(events) /\ DOMAIN events' = 1..(Len(events) + 2)
  BY <1>1
<1>3. NewAt = {Len(events) + 1, Len(events) + 2}
  BY <1>1, <1>2 DEF NewAt
<1>4. /\ events'[Len(events) + 1] = e /\ events'[Len(events) + 2] = f
      /\ \A i \in 1..Len(events) : events'[i] = events[i]
  BY <1>1
<1> QED
  BY <1>1, <1>2, <1>3, <1>4 DEF Older

\* The three statements of a claim's batch select by their own conditions.  They agree
\* because a job has one lease row and because the token of an attempt is fresh.
LeaseRows == OneLease /\ GrantInv

LEMMA FreshToken ==
  ASSUME TypeInv, LeaseRows, NEW r \in Requests
  PROVE  Granted(r, leases) = {}
<1> SUFFICES ASSUME NEW l \in leases, l.token = NextToken(r) PROVE FALSE
  BY DEF Granted
<1>1. l.token.req = r /\ l.token.try = req[r].try + 1
  BY DEF NextToken
<1>2. GrantedBy(l)
  BY DEF LeaseRows, GrantInv
<1>3. req[r].try \in Nat
  BY DEF TypeInv, TypeOK, Request
<1> QED
  BY <1>1, <1>2, <1>3 DEF GrantedBy

\* An insert is recorded as a claim, a takeover as an expiry and a claim, and where the
\* upsert writes nothing nothing is recorded.
LEMMA ClaimLogs ==
  ASSUME TypeInv, LeaseRows, NEW r \in Requests
  PROVE  /\ ClaimFresh(r) => events' = Append(events, EventOf(r, "CLAIMED"))
         /\ ClaimPreempt(r) =>
              \E old \in leases :
                /\ old.job = input[r].job
                /\ granted' = granted \cup {NewLease(r, old.count + 1)}
                /\ events' = events \o <<[EventOf(r, "LEASE_EXPIRED") EXCEPT !.actor = old.owner],
                                         EventOf(r, "CLAIMED")>>
         /\ ClaimMiss(r) => events' = events
<1> DEFINE e == EventOf(r, "CLAIMED")
<1>1. /\ events \in Seq(Event) /\ e \in Event /\ EventOf(r, "LEASE_EXPIRED") \in Event
      /\ req[r].now \in Nat /\ \A l \in leases : l.expires \in Nat /\ l.owner \in Principals
  BY EventType DEF TypeInv, TypeOK, Lease, Request
<1>2. ASSUME NEW n, NewLease(r, n) \in leases'
      PROVE  Granted(r, leases') # {}
  <2>1. NewLease(r, n) \in Granted(r, leases')
    BY <1>2 DEF Granted, NewLease
  <2> QED
    BY <2>1
<1>3. ASSUME NEW old \in LeasesOf(input[r].job)
      PROVE  LeasesOf(input[r].job) = {old}
  BY <1>3 DEF LeasesOf, LeaseRows, OneLease
<1>4. ASSUME ClaimFresh(r)
      PROVE  events' = Append(events, e)
  <2>1. Overdue(r) = {} /\ Granted(r, leases') # {}
    BY <1>2, <1>4 DEF ClaimFresh, Overdue
  <2>2. events' = events \o <<>> \o <<e>>
    BY <1>4, <2>1 DEF ClaimFresh, LeaseAudit, Expirations
  <2>3. events \o <<>> = events /\ events \o <<e>> = Append(events, e)
    BY <1>1
  <2> QED
    BY <2>2, <2>3
<1>5. ASSUME ClaimPreempt(r)
      PROVE  \E old \in leases :
               /\ old.job = input[r].job
               /\ granted' = granted \cup {NewLease(r, old.count + 1)}
               /\ events' = events \o <<[EventOf(r, "LEASE_EXPIRED") EXCEPT !.actor = old.owner], e>>
  <2>1. PICK old \in LeasesOf(input[r].job) :
          /\ old.expires <= req[r].now
          /\ leases' = (leases \ {old}) \cup {NewLease(r, old.count + 1)}
          /\ granted' = granted \cup {NewLease(r, old.count + 1)}
    BY <1>5 DEF ClaimPreempt
  <2> DEFINE x == [EventOf(r, "LEASE_EXPIRED") EXCEPT !.actor = old.owner]
  <2>2. Grantable(r) /\ LeaseAudit(r)
    BY <1>5 DEF ClaimPreempt
  <2>3. Overdue(r) = {old} /\ Granted(r, leases') # {}
    BY <1>2, <1>3, <2>1, <2>2 DEF Overdue
  <2>4. Expirations(r) = {<<x>>}
    BY <2>3 DEF Expirations
  <2>5. events' = events \o <<x>> \o <<e>>
    BY <2>2, <2>3, <2>4 DEF LeaseAudit
  <2>6. old \in leases /\ old.job = input[r].job /\ x \in Event
    BY <1>1 DEF LeasesOf, Event
  <2> HIDE DEF x, e
  <2>7. events \o <<x>> \o <<e>> = events \o <<x, e>>
    BY <1>1, <2>6
  <2> QED
    BY <2>1, <2>5, <2>6, <2>7 DEF x, e
<1>6. ASSUME ClaimMiss(r)
      PROVE  events' = events
  <2>1. Overdue(r) = {}
    <3> SUFFICES ASSUME NEW l \in Overdue(r) PROVE FALSE
      OBVIOUS
    <3>1. Grantable(r) /\ l \in LeasesOf(input[r].job) /\ l.expires <= req[r].now
      BY DEF Overdue
    <3>2. l \in leases /\ l.expires \in Nat
      BY <1>1, <3>1 DEF LeasesOf
    <3>3. PICK m \in LeasesOf(input[r].job) : m.expires > req[r].now
      BY <1>6, <3>1 DEF ClaimMiss
    <3>4. m = l
      BY <1>3, <3>1
    <3> QED
      BY <1>1, <3>1, <3>2, <3>3, <3>4
  <2>2. Granted(r, leases') = {}
    <3>1. leases' = leases
      BY <1>6 DEF ClaimMiss
    <3> QED
      BY <3>1, FreshToken
  <2>3. events' = events \o <<>> \o <<>>
    BY <1>6, <2>1, <2>2 DEF ClaimMiss, LeaseAudit, Expirations
  <2>4. events \o <<>> = events
    BY <1>1
  <2> QED
    BY <2>3, <2>4
<1> QED
  BY <1>4, <1>5, <1>6

\* The writes that reach the log or a table it is about.
LEMMA LogWrites ==
  ASSUME TypeInv, LeaseRows, NEW r \in Requests, Start(r) \/ RequestStep(r)
  PROVE  \/ UNCHANGED <<terminal, proposals, events, granted>>
         \/ ClaimAudit(r) \/ SubmitConflict(r) \/ ClaimFresh(r) \/ ClaimPreempt(r)
         \/ SubmitReject(r) \/ SubmitAccept(r) \/ SubmitSynthetic(r)
<1>1. CASE Start(r)
  BY <1>1 DEF Start, ReadOnly, tables
<1>2. CASE Claim(r)
  <2>1. CASE ClaimMiss(r)
    BY <2>1, ClaimLogs DEF ClaimMiss
  <2> QED
    BY <1>2, <2>1 DEF Claim, ClaimReadTerminal, ClaimReadDeferral, ClaimReadOwn,
                      ClaimReadCurrent, ReadOnly, tables
<1>3. CASE Submit(r)
  BY <1>3 DEF Submit, SubmitReadKey, SubmitReadLease, SubmitReadFormal, SubmitFenced,
              SubmitClash, SubmitConfirm, SubmitMatches, SubmitRace, SubmitFallback,
              ReadOnly, tables
<1>4. CASE Defer(r)
  BY <1>4 DEF Defer, DeferReadKey, DeferReadExisting, DeferCommit, DeferFenced, DeferClash,
              DeferReadTerminal, ReadOnly, tables
<1>5. CASE BatchFault(r) \/ LookupFault(r)
  BY <1>5 DEF BatchFault, LookupFault, tables
<1> QED
  BY <1>1, <1>2, <1>3, <1>4, <1>5 DEF RequestStep

\* What each write adds to the log.
Adds(e) == NewAt = {Len(events) + 1} /\ events'[Len(events) + 1] = e

AddsTwo(e, f) ==
  /\ NewAt = {Len(events) + 1, Len(events) + 2}
  /\ events'[Len(events) + 1] = e /\ events'[Len(events) + 2] = f

LEMMA LogGrowth ==
  ASSUME TypeInv, LeaseRows, NEW r \in Requests, Start(r) \/ RequestStep(r)
  PROVE  /\ Older
         /\ UNCHANGED events => NewAt = {}
         /\ ClaimAudit(r) => Adds(EventOf(r, "CLAIM_DENIED"))
         /\ SubmitConflict(r) => Adds(EventOf(r, "SUBMIT_CONFLICT"))
         /\ ClaimFresh(r) => Adds(EventOf(r, "CLAIMED"))
         /\ ClaimPreempt(r) =>
              \E p \in Principals : AddsTwo([EventOf(r, "LEASE_EXPIRED") EXCEPT !.actor = p],
                                            EventOf(r, "CLAIMED"))
         /\ SubmitReject(r) => Adds(EventOf(r, "SUBMIT_REJECTED"))
         /\ SubmitAccept(r) => AddsTwo(EventOf(r, "SUBMIT_RECEIVED"), EventOf(r, "COMPLETED"))
         /\ SubmitSynthetic(r) => Adds(EventOf(r, "SUBMIT_RECEIVED"))
<1>1. /\ EventOf(r, "CLAIMED") \in Event /\ EventOf(r, "LEASE_EXPIRED") \in Event
      /\ EventOf(r, "SUBMIT_RECEIVED") \in Event /\ EventOf(r, "COMPLETED") \in Event
  BY EventType DEF TypeInv
<1>2. ASSUME UNCHANGED events
      PROVE  Older /\ NewAt = {}
  BY <1>2 DEF NewAt, Older
<1>3. ASSUME NEW e, events' = Append(events, e)
      PROVE  Older /\ Adds(e)
  BY <1>3, OneMore DEF Adds
<1>4. ASSUME ClaimPreempt(r)
      PROVE  /\ Older
             /\ \E p \in Principals : AddsTwo([EventOf(r, "LEASE_EXPIRED") EXCEPT !.actor = p],
                                              EventOf(r, "CLAIMED"))
  <2>1. PICK old \in leases :
          events' = events \o <<[EventOf(r, "LEASE_EXPIRED") EXCEPT !.actor = old.owner],
                                EventOf(r, "CLAIMED")>>
    BY <1>4, ClaimLogs
  <2>2. old.owner \in Principals
    BY DEF TypeInv, TypeOK, Lease
  <2>3. [EventOf(r, "LEASE_EXPIRED") EXCEPT !.actor = old.owner] \in Event
    BY <1>1, <2>2 DEF Event
  <2>4. Older /\ AddsTwo([EventOf(r, "LEASE_EXPIRED") EXCEPT !.actor = old.owner],
                         EventOf(r, "CLAIMED"))
    BY <1>1, <2>1, <2>3, TwoMore DEF AddsTwo
  <2> QED
    BY <2>2, <2>4
<1>5. ASSUME SubmitAccept(r)
      PROVE  Older /\ AddsTwo(EventOf(r, "SUBMIT_RECEIVED"), EventOf(r, "COMPLETED"))
  BY <1>1, <1>5, TwoMore DEF SubmitAccept, AddsTwo
<1>6. /\ ClaimAudit(r) => Older /\ Adds(EventOf(r, "CLAIM_DENIED"))
      /\ SubmitConflict(r) => Older /\ Adds(EventOf(r, "SUBMIT_CONFLICT"))
      /\ ClaimFresh(r) => Older /\ Adds(EventOf(r, "CLAIMED"))
  BY <1>3, ClaimLogs DEF ClaimAudit, SubmitConflict
<1>7. /\ SubmitReject(r) => Older /\ Adds(EventOf(r, "SUBMIT_REJECTED"))
      /\ SubmitSynthetic(r) => Older /\ Adds(EventOf(r, "SUBMIT_RECEIVED"))
  BY <1>3 DEF SubmitReject, SubmitSynthetic
<1> QED
  BY <1>2, <1>4, <1>5, <1>6, <1>7, LogWrites

-----------------------------------------------------------------------------
(* Nothing follows a completion but refusals and synthetic submits.        *)

\* A COMPLETED event has its terminal row.
CompletedBacked ==
  \A i \in DOMAIN events : events[i].type = "COMPLETED" => Completed(events[i].job)

CompletionInv == CompletedBacked /\ NothingAfterCompleted

Harmless(e) ==
  \/ e.type \in {"CLAIM_DENIED", "SUBMIT_REJECTED", "SUBMIT_CONFLICT"}
  \/ e.type = "SUBMIT_RECEIVED" /\ e.actor \notin FormalOwners

\* The gate of every other write is shut for a completed job.
LEMMA ShutAfterCompletion ==
  ASSUME TypeInv, NEW r \in Requests, Completed(input[r].job)
  PROVE  ~ClaimFresh(r) /\ ~ClaimPreempt(r) /\ ~SubmitAccept(r)
BY DEF ClaimFresh, ClaimPreempt, SubmitAccept, Grantable, LeaseHeld

\* A synthetic submit comes from outside the formal owners.
LEMMA SyntheticCaller ==
  ASSUME TypeInv, NEW r \in Requests, SubmitSynthetic(r)
  PROVE  input[r].caller \notin FormalOwners
BY DEF TypeInv, Placing, Placed, SubmitSynthetic, At, EffectiveOrigin, StructureFailed

LEMMA CompletionStep ==
  ASSUME TypeInv, LeaseRows, CompletionInv, NEW r \in Requests, Start(r) \/ RequestStep(r)
  PROVE  CompletionInv'
<1> DEFINE n == Len(events)
<1>1. Older /\ input' = input
  BY LogGrowth, StepClock
<1>2. \A j : Completed(j) => Completed(j)'
  BY StepGrows DEF Grows, Completed
<1>3. \A k \in NewAt : events'[k].job = input[r].job
  <2>1. CASE NewAt = {}
    BY <2>1
  <2>2. ASSUME NEW t, Adds(EventOf(r, t))
        PROVE  \A k \in NewAt : events'[k].job = input[r].job
    BY <2>2 DEF Adds, EventOf
  <2>3. ASSUME NEW t, AddsTwo(EventOf(r, "SUBMIT_RECEIVED"), EventOf(r, "COMPLETED"))
        PROVE  \A k \in NewAt : events'[k].job = input[r].job
    BY <2>3 DEF AddsTwo, EventOf
  <2>4. ASSUME NEW p, AddsTwo([EventOf(r, "LEASE_EXPIRED") EXCEPT !.actor = p], EventOf(r, "CLAIMED"))
        PROVE  \A k \in NewAt : events'[k].job = input[r].job
    BY <2>4 DEF AddsTwo, EventOf
  <2> QED
    BY <2>1, <2>2, <2>3, <2>4, LogGrowth, LogWrites
<1>4. CASE SubmitAccept(r)
  <2>1. /\ NewAt = {n + 1, n + 2} /\ n \in Nat
        /\ events'[n + 1].type = "SUBMIT_RECEIVED" /\ events'[n + 2].type = "COMPLETED"
    <3>1. AddsTwo(EventOf(r, "SUBMIT_RECEIVED"), EventOf(r, "COMPLETED"))
      BY <1>4, LogGrowth
    <3> QED
      BY <3>1 DEF AddsTwo, EventOf, TypeInv, TypeOK
  <2>2. Completed(input[r].job)' /\ ~Completed(input[r].job)
    <3>1. [job |-> input[r].job, proposal |-> r] \in terminal'
      BY <1>4 DEF SubmitAccept
    <3>2. [job |-> input[r].job, proposal |-> r].job = input[r].job
      OBVIOUS
    <3> QED
      BY <1>1, <1>4, <3>1, <3>2 DEF SubmitAccept, Completed, LeaseHeld
  <2>3. CompletedBacked'
    BY <1>1, <1>2, <1>3, <2>1, <2>2 DEF CompletionInv, CompletedBacked, Older, NewAt
  <2>4. ASSUME NEW i \in DOMAIN events', NEW k \in DOMAIN events', i < k,
               events'[i].type = "COMPLETED", events'[k].job = events'[i].job
        PROVE  Harmless(events'[k])
    <3>1. CASE i \in NewAt
      <4>1. i = n + 2 /\ k \in NewAt
        BY <1>1, <2>1, <2>4, <3>1 DEF Older, NewAt
      <4> QED
        BY <2>1, <2>4, <4>1
    <3>2. CASE i \notin NewAt /\ k \in NewAt
      BY <1>1, <1>3, <2>2, <2>4, <3>2 DEF CompletionInv, CompletedBacked, Older, NewAt
    <3>3. CASE i \notin NewAt /\ k \notin NewAt
      BY <1>1, <2>4, <3>3 DEF CompletionInv, NothingAfterCompleted, Harmless, Older, NewAt
    <3> QED
      BY <3>1, <3>2, <3>3
  <2> QED
    BY <2>3, <2>4 DEF CompletionInv, NothingAfterCompleted, Harmless
<1>5. CASE ~SubmitAccept(r)
  <2>1. \A k \in NewAt : events'[k].type # "COMPLETED"
    <3>1. CASE NewAt = {}
      BY <3>1
    <3>2. ASSUME NEW t \in {"CLAIM_DENIED", "SUBMIT_CONFLICT", "CLAIMED", "SUBMIT_REJECTED",
                            "SUBMIT_RECEIVED"}, Adds(EventOf(r, t))
          PROVE  \A k \in NewAt : events'[k].type # "COMPLETED"
      BY <3>2 DEF Adds, EventOf
    <3>3. ASSUME NEW p, AddsTwo([EventOf(r, "LEASE_EXPIRED") EXCEPT !.actor = p],
                                EventOf(r, "CLAIMED"))
          PROVE  \A k \in NewAt : events'[k].type # "COMPLETED"
      BY <3>3 DEF AddsTwo, EventOf
    <3> QED
      BY <1>5, <3>1, <3>2, <3>3, LogGrowth, LogWrites
  <2>2. \A k \in NewAt : Completed(input[r].job) => Harmless(events'[k])
    <3>1. CASE UNCHANGED events
      BY <3>1, LogGrowth
    <3>2. CASE ClaimAudit(r) \/ SubmitConflict(r) \/ SubmitReject(r)
      <4>1. \E t \in {"CLAIM_DENIED", "SUBMIT_CONFLICT", "SUBMIT_REJECTED"} : Adds(EventOf(r, t))
        BY <3>2, LogGrowth
      <4> QED
        BY <4>1 DEF Adds, EventOf, Harmless
    <3>3. CASE SubmitSynthetic(r)
      <4>1. Adds(EventOf(r, "SUBMIT_RECEIVED")) /\ input[r].caller \notin FormalOwners
        BY <3>3, LogGrowth, SyntheticCaller
      <4> QED
        BY <4>1 DEF Adds, EventOf, Harmless
    <3> QED
      BY <1>5, <3>1, <3>2, <3>3, LogWrites, ShutAfterCompletion
  <2>3. CompletedBacked'
    BY <1>1, <1>2, <2>1 DEF CompletionInv, CompletedBacked, Older, NewAt
  <2>4. ASSUME NEW i \in DOMAIN events', NEW k \in DOMAIN events', i < k,
               events'[i].type = "COMPLETED", events'[k].job = events'[i].job
        PROVE  Harmless(events'[k])
    <3>1. i \in DOMAIN events /\ events'[i] = events[i]
      BY <1>1, <2>1, <2>4 DEF Older, NewAt
    <3>2. CASE k \in NewAt
      BY <1>3, <2>2, <2>4, <3>1, <3>2 DEF CompletionInv, CompletedBacked
    <3>3. CASE k \notin NewAt
      BY <1>1, <2>4, <3>1, <3>3 DEF CompletionInv, NothingAfterCompleted, Harmless, Older, NewAt
    <3> QED
      BY <3>2, <3>3
  <2> QED
    BY <2>3, <2>4 DEF CompletionInv, NothingAfterCompleted, Harmless
<1> QED
  BY <1>4, <1>5

-----------------------------------------------------------------------------
(* Every grant is in the log.                                              *)

\* Its parts: a lease has its claim's event and, if it took over, the expiry's; a claim's
\* event has its lease, and an expiry's is followed by the claim's.
Recorded(l) == \E i \in EventsOf(l.token.req, {"CLAIMED"}) : events[i].actor = l.owner

Succeeds(l) ==
  \E h \in granted, i \in EventsOf(l.token.req, {"LEASE_EXPIRED"}) :
    h.job = l.job /\ h.count + 1 = l.count /\ events[i].actor = h.owner

Held(i) == \E l \in granted : l.token.req = events[i].req

Followed(i) ==
  /\ i + 1 \in DOMAIN events
  /\ events[i + 1].type = "CLAIMED"
  /\ events[i + 1].job = events[i].job /\ events[i + 1].req = events[i].req

ClaimLog ==
  /\ \A l \in granted : Recorded(l) /\ (l.count > 1 => Succeeds(l))
  /\ \A i \in DOMAIN events : /\ events[i].type = "CLAIMED" => Held(i)
                              /\ events[i].type = "LEASE_EXPIRED" => Followed(i)

LEMMA ClaimLogStep ==
  ASSUME TypeInv, LeaseRows, ClaimLog, NEW r \in Requests, Start(r) \/ RequestStep(r)
  PROVE  ClaimLog'
<1> DEFINE n == Len(events)
<1>1. Older /\ n \in Nat /\ \A k \in NewAt : k \in DOMAIN events'
  BY LogGrowth DEF TypeInv, TypeOK, NewAt
<1>2. granted \subseteq granted' /\ leases \subseteq granted
  BY StepGrows DEF Grows, LeaseRows, GrantInv
<1>3. \A l \in granted : Recorded(l)' /\ (l.count > 1 => Succeeds(l)')
  <2> SUFFICES ASSUME NEW l \in granted
               PROVE  Recorded(l)' /\ (l.count > 1 => Succeeds(l)')
    OBVIOUS
  <2>1. \A T : \A i \in EventsOf(l.token.req, T) :
          i \in EventsOf(l.token.req, T)' /\ events'[i] = events[i]
    BY <1>1 DEF EventsOf, Older
  <2>2. Recorded(l)'
    BY <2>1 DEF ClaimLog, Recorded
  <2>3. ASSUME Succeeds(l)
        PROVE  Succeeds(l)'
    BY <1>2, <2>1, <2>3 DEF Succeeds
  <2> QED
    BY <2>2, <2>3 DEF ClaimLog
<1>4. \A i \in DOMAIN events : events'[i].type = "CLAIMED" => Held(i)'
  <2> SUFFICES ASSUME NEW i \in DOMAIN events, events'[i].type = "CLAIMED" PROVE Held(i)'
    OBVIOUS
  <2>1. events'[i] = events[i]
    BY <1>1 DEF Older
  <2>2. Held(i)
    BY <2>1 DEF ClaimLog
  <2> QED
    BY <1>2, <2>1, <2>2 DEF Held
<1>5. \A i \in DOMAIN events : events'[i].type = "LEASE_EXPIRED" => Followed(i)'
  <2> SUFFICES ASSUME NEW i \in DOMAIN events, events'[i].type = "LEASE_EXPIRED"
               PROVE  Followed(i)'
    OBVIOUS
  <2>1. events'[i] = events[i]
    BY <1>1 DEF Older
  <2>2. Followed(i)
    BY <2>1 DEF ClaimLog
  <2>3. i + 1 \in DOMAIN events' /\ events'[i + 1] = events[i + 1]
    BY <1>1, <2>2 DEF Older, Followed
  <2> QED
    BY <2>1, <2>2, <2>3 DEF Followed
\* The event of a new lease, and the lease of its event.
<1>6. ASSUME NEW m \in Nat, granted' = granted \cup {NewLease(r, m)},
             NEW i \in DOMAIN events', events'[i] = EventOf(r, "CLAIMED")
      PROVE  (\A l : l = NewLease(r, m) => Recorded(l)') /\ Held(i)'
  <2>1. NewLease(r, m).token.req = r /\ NewLease(r, m).owner = input[r].caller
    BY DEF NewLease, NextToken
  <2>2. i \in EventsOf(r, {"CLAIMED"})' /\ events'[i].actor = input[r].caller
        /\ events'[i].req = r
    BY <1>6 DEF EventsOf, EventOf
  <2>3. NewLease(r, m) \in granted'
    BY <1>6
  <2>4. \A l : l.token.req = r /\ l.owner = input[r].caller => Recorded(l)'
    BY <2>2 DEF Recorded
  <2>5. \A l \in granted' : l.token.req = r => Held(i)'
    BY <2>2 DEF Held
  <2> QED
    BY <2>1, <2>3, <2>4, <2>5
<1>7. CASE ClaimFresh(r)
  <2>1. Adds(EventOf(r, "CLAIMED")) /\ granted' = granted \cup {NewLease(r, 1)}
    BY <1>7, LogGrowth DEF ClaimFresh
  <2>2. /\ n + 1 \in DOMAIN events' /\ events'[n + 1] = EventOf(r, "CLAIMED")
        /\ DOMAIN events' \subseteq DOMAIN events \cup {n + 1}
    BY <1>1, <2>1 DEF Adds, NewAt
  <2>3. /\ \A l : l = NewLease(r, 1) => Recorded(l)' /\ l.count = 1
        /\ \A k : k = n + 1 => Held(k)'
    <3>1. NewLease(r, 1).count = 1
      BY DEF NewLease
    <3> QED
      BY <1>6, <2>1, <2>2, <3>1
  <2>4. events'[n + 1].type # "LEASE_EXPIRED"
    BY <2>2 DEF EventOf
  <2>5. \A l \in granted' : Recorded(l)' /\ (l.count > 1 => Succeeds(l)')
    <3>1. \A l \in granted' : l \in granted \/ l = NewLease(r, 1)
      BY <2>1
    <3>2. ~(1 > 1)
      OBVIOUS
    <3> QED
      BY <1>3, <2>3, <3>1, <3>2
  <2>6. \A i \in DOMAIN events' : /\ events'[i].type = "CLAIMED" => Held(i)'
                                  /\ events'[i].type = "LEASE_EXPIRED" => Followed(i)'
    BY <1>4, <1>5, <2>2, <2>3, <2>4
  <2> QED
    BY <2>5, <2>6 DEF ClaimLog
<1>8. CASE ClaimPreempt(r)
  <2>1. PICK old \in leases :
          /\ old.job = input[r].job
          /\ granted' = granted \cup {NewLease(r, old.count + 1)}
          /\ events' = events \o <<[EventOf(r, "LEASE_EXPIRED") EXCEPT !.actor = old.owner],
                                   EventOf(r, "CLAIMED")>>
    BY <1>8, ClaimLogs
  <2> DEFINE m == old.count + 1
             x == [EventOf(r, "LEASE_EXPIRED") EXCEPT !.actor = old.owner]
  <2>2. m \in Nat /\ old.owner \in Principals /\ old.count \in Nat
    BY DEF TypeInv, TypeOK, Lease
  <2>3. x \in Event /\ EventOf(r, "CLAIMED") \in Event
    BY <2>2, EventType DEF TypeInv, Event
  <2>4. /\ NewAt = {n + 1, n + 2} /\ events'[n + 1] = x
        /\ events'[n + 2] = EventOf(r, "CLAIMED")
    BY <2>1, <2>3, TwoMore
  <2>5. /\ n + 1 \in DOMAIN events' /\ n + 2 \in DOMAIN events'
        /\ DOMAIN events' \subseteq DOMAIN events \cup {n + 1, n + 2}
    BY <1>1, <2>4 DEF NewAt
  <2>6. /\ \A l : l = NewLease(r, m) => Recorded(l)'
        /\ \A k : k = n + 2 => Held(k)'
    BY <1>6, <2>1, <2>2, <2>4, <2>5
  <2>7. /\ events'[n + 1].job = input[r].job /\ events'[n + 1].req = r
        /\ events'[n + 1].actor = old.owner /\ events'[n + 1].type = "LEASE_EXPIRED"
    BY <2>4 DEF EventOf
  <2>8. /\ events'[n + 2].type = "CLAIMED"
        /\ events'[n + 2].job = input[r].job /\ events'[n + 2].req = r
    BY <2>4 DEF EventOf
  <2>9. \A l : l = NewLease(r, m) => Succeeds(l)'
    <3>1. /\ NewLease(r, m).token.req = r /\ NewLease(r, m).job = input[r].job
          /\ NewLease(r, m).count = m
      BY DEF NewLease, NextToken
    <3>2. old \in granted' /\ n + 1 \in EventsOf(r, {"LEASE_EXPIRED"})'
      BY <1>2, <2>5, <2>7 DEF EventsOf
    <3> QED
      BY <2>1, <2>7, <3>1, <3>2 DEF Succeeds
  <2>10. (n + 1) + 1 = n + 2
    BY <1>1
  <2>11. \A k : k = n + 1 => Followed(k)'
    BY <2>5, <2>7, <2>8, <2>10 DEF Followed
  <2>12. \A l \in granted' : Recorded(l)' /\ (l.count > 1 => Succeeds(l)')
    BY <1>3, <2>1, <2>6, <2>9
  <2>13. \A i \in DOMAIN events' : /\ events'[i].type = "CLAIMED" => Held(i)'
                                   /\ events'[i].type = "LEASE_EXPIRED" => Followed(i)'
    <3>1. events'[n + 1].type # "CLAIMED" /\ events'[n + 2].type # "LEASE_EXPIRED"
      BY <2>7, <2>8
    <3> QED
      BY <1>4, <1>5, <2>5, <2>6, <2>11, <3>1
  <2> QED
    BY <2>12, <2>13 DEF ClaimLog
<1>9. CASE ~ClaimFresh(r) /\ ~ClaimPreempt(r)
  <2>1. granted' = granted
    BY <1>9, LogWrites
       DEF ClaimAudit, SubmitConflict, SubmitReject, SubmitAccept, SubmitSynthetic
  <2>2. \A k \in NewAt : events'[k].type \notin {"CLAIMED", "LEASE_EXPIRED"}
    <3>1. CASE NewAt = {}
      BY <3>1
    <3>2. ASSUME NEW t \in {"CLAIM_DENIED", "SUBMIT_CONFLICT", "SUBMIT_REJECTED",
                            "SUBMIT_RECEIVED"}, Adds(EventOf(r, t))
          PROVE  \A k \in NewAt : events'[k].type \notin {"CLAIMED", "LEASE_EXPIRED"}
      BY <3>2 DEF Adds, EventOf
    <3>3. ASSUME AddsTwo(EventOf(r, "SUBMIT_RECEIVED"), EventOf(r, "COMPLETED"))
          PROVE  \A k \in NewAt : events'[k].type \notin {"CLAIMED", "LEASE_EXPIRED"}
      BY <3>3 DEF AddsTwo, EventOf
    <3> QED
      BY <1>9, <3>1, <3>2, <3>3, LogGrowth, LogWrites
  <2>3. \A i \in DOMAIN events' : /\ events'[i].type = "CLAIMED" => Held(i)'
                                  /\ events'[i].type = "LEASE_EXPIRED" => Followed(i)'
    BY <1>4, <1>5, <2>2 DEF NewAt
  <2> QED
    BY <1>3, <2>1, <2>3 DEF ClaimLog
<1> QED
  BY <1>7, <1>8, <1>9

-----------------------------------------------------------------------------
(* A row and its event.  They agree because one batch writes both; a       *)
(* request files once because it never comes back to a write batch.        *)

\* Where a request may have filed: what it reads after its write batch.
After == {"done", "s_confirm", "s_matches", "s_race", "s_fallback", "s_conflict"}

Filings == {"SUBMIT_RECEIVED", "SUBMIT_REJECTED", "COMPLETED"}

NothingFiled(r) ==
  /\ \A p \in proposals : p.id # r
  /\ \A t \in terminal : t.proposal # r
  /\ EventsOf(r, Filings) = {}

RowsOf(r, status) == {p \in proposals : p.id = r /\ p.status = status}

Audited(r) ==
  /\ RowsOf(r, "RECEIVED") # {} <=> EventsOf(r, {"SUBMIT_RECEIVED"}) # {}
  /\ RowsOf(r, "REJECTED") # {} <=> EventsOf(r, {"SUBMIT_REJECTED"}) # {}
  /\ (\E t \in terminal : t.proposal = r) <=> EventsOf(r, {"COMPLETED"}) # {}
  /\ \A i, k \in EventsOf(r, {"SUBMIT_RECEIVED", "SUBMIT_REJECTED"}) : i = k

FilingInv ==
  \A r \in Requests : Audited(r) /\ (req[r].pc \notin After => NothingFiled(r))

LEMMA EventsAfter ==
  ASSUME Older, NEW q, NEW T
  PROVE  EventsOf(q, T)' = EventsOf(q, T)
           \cup {k \in NewAt : events'[k].req = q /\ events'[k].type \in T}
BY DEF EventsOf, Older, NewAt

\* A request that is past its write batch stays past it.
LEMMA StaysAfter ==
  ASSUME TypeInv, NEW r \in Requests, Start(r) \/ RequestStep(r), req[r].pc \in After
  PROVE  req'[r].pc \in After
<1>1. req \in [Requests -> Request]
  BY DEF TypeInv, TypeOK
<1>2. ASSUME NEW pc \in After, Go(r, pc)
      PROVE  req'[r].pc \in After
  BY <1>1, <1>2 DEF Go, Request
<1>3. ASSUME NEW a, Answer(r, a)
      PROVE  req'[r].pc \in After
  <2>1. req'[r].pc = "done"
    BY <1>1, <1>3 DEF Answer, Request
  <2> QED
    BY <2>1 DEF After
<1>4. ASSUME NEW p \in proposals, ReplayVerdict(r, p)
      PROVE  req'[r].pc \in After
  <2>1. p \in Proposal
    BY DEF TypeInv, TypeOK
  <2>2. Go(r, "s_conflict") \/ \E a : Answer(r, a)
    BY <1>4, <2>1 DEF ReplayVerdict, Proposal
  <2> QED
    BY <1>2, <1>3, <2>2 DEF After
<1>5. ASSUME NoRace(r)
      PROVE  req'[r].pc \in After
  BY <1>2, <1>3, <1>5 DEF NoRace, After
<1>6. SubmitConfirm(r) \/ SubmitMatches(r) \/ SubmitRace(r) \/ SubmitFallback(r)
        \/ SubmitConflict(r) \/ LookupFault(r)
  <2>1. ~Start(r) /\ ~BatchFault(r)
    BY DEF After, At, Start, BatchFault
  <2>2. ~Claim(r)
    BY DEF After, At, Claim, ClaimReadTerminal, ClaimAudit, ClaimReadDeferral, ClaimFresh,
           ClaimPreempt, ClaimMiss, Attempt, ClaimReadOwn, ClaimReadCurrent
  <2>3. ~SubmitReadKey(r) /\ ~SubmitReadLease(r) /\ ~SubmitReadFormal(r) /\ ~SubmitReject(r)
        /\ ~SubmitAccept(r) /\ ~SubmitFenced(r) /\ ~SubmitSynthetic(r) /\ ~SubmitClash(r)
    BY DEF After, At, SubmitReadKey, SubmitReadLease, SubmitReadFormal, SubmitReject,
           SubmitAccept, SubmitFenced, SubmitSynthetic, SubmitClash
  <2>4. ~Defer(r)
    BY DEF After, At, Defer, DeferReadKey, DeferReadExisting, DeferCommit, DeferFenced,
           DeferClash, DeferReadTerminal
  <2> QED
    BY <2>1, <2>2, <2>3, <2>4 DEF RequestStep, Submit
<1>7. CASE SubmitConfirm(r)
  BY <1>2, <1>7 DEF SubmitConfirm, After
<1>8. CASE SubmitMatches(r)
  BY <1>2, <1>3, <1>8 DEF SubmitMatches, After
<1>9. CASE SubmitRace(r)
  BY <1>4, <1>5, <1>9 DEF SubmitRace, WithKey
<1>10. CASE SubmitFallback(r) \/ SubmitConflict(r)
  BY <1>3, <1>10 DEF SubmitFallback, SubmitConflict
<1>11. CASE LookupFault(r)
  BY <1>3, <1>5, <1>11 DEF LookupFault
<1> QED
  BY <1>6, <1>7, <1>8, <1>9, <1>10, <1>11

\* A step that files nothing for q leaves it as audited as it was.
LEMMA SameFilings ==
  ASSUME Older, NEW q \in Requests,
         \A p : p.id = q => (p \in proposals' <=> p \in proposals),
         \A t : t.proposal = q => (t \in terminal' <=> t \in terminal),
         \A k \in NewAt : events'[k].req # q \/ events'[k].type \notin Filings
  PROVE  /\ Audited(q) => Audited(q)'
         /\ NothingFiled(q) => NothingFiled(q)'
<1>1. ASSUME NEW T, T \subseteq Filings
      PROVE  EventsOf(q, T)' = EventsOf(q, T)
  <2>1. EventsOf(q, T)' = EventsOf(q, T)
          \cup {k \in NewAt : events'[k].req = q /\ events'[k].type \in T}
    BY EventsAfter
  <2>2. {k \in NewAt : events'[k].req = q /\ events'[k].type \in T} = {}
    BY <1>1
  <2> QED
    BY <2>1, <2>2
<1>2. /\ EventsOf(q, Filings)' = EventsOf(q, Filings)
      /\ EventsOf(q, {"SUBMIT_RECEIVED"})' = EventsOf(q, {"SUBMIT_RECEIVED"})
      /\ EventsOf(q, {"SUBMIT_REJECTED"})' = EventsOf(q, {"SUBMIT_REJECTED"})
      /\ EventsOf(q, {"COMPLETED"})' = EventsOf(q, {"COMPLETED"})
      /\ EventsOf(q, {"SUBMIT_RECEIVED", "SUBMIT_REJECTED"})'
           = EventsOf(q, {"SUBMIT_RECEIVED", "SUBMIT_REJECTED"})
  BY <1>1 DEF Filings
<1>3. \A status : RowsOf(q, status)' = RowsOf(q, status)
  BY DEF RowsOf
<1>4. Audited(q) => Audited(q)'
  BY <1>2, <1>3 DEF Audited
<1>5. NothingFiled(q) => NothingFiled(q)'
  BY <1>2 DEF NothingFiled
<1> QED
  BY <1>4, <1>5

\* The three write batches of a submit: none was filed before, and row and events
\* come together.
LEMMA FilesBoth ==
  ASSUME TypeInv, LeaseRows, FilingInv, NEW r \in Requests,
         SubmitReject(r) \/ SubmitAccept(r) \/ SubmitSynthetic(r)
  PROVE  /\ NothingFiled(r)
         /\ Audited(r)'
         /\ req'[r].pc \in After
         /\ \A p : p.id # r => (p \in proposals' <=> p \in proposals)
         /\ \A t : t.proposal # r => (t \in terminal' <=> t \in terminal)
<1> DEFINE n == Len(events)
<1>1. Start(r) \/ RequestStep(r)
  BY DEF RequestStep, Submit
<1>2. Older /\ n \in Nat /\ req \in [Requests -> Request]
  BY <1>1, LogGrowth DEF TypeInv, TypeOK
<1>3. NothingFiled(r)
  BY DEF FilingInv, SubmitReject, SubmitAccept, SubmitSynthetic, At, After
<1>4. req'[r].pc \in After
  <2>1. ASSUME NEW a, Answer(r, a)
        PROVE  req'[r].pc = "done"
    BY <1>2, <2>1 DEF Answer, Request
  <2>2. ASSUME NEW pc, Go(r, pc)
        PROVE  req'[r].pc = pc
    BY <1>2, <2>2 DEF Go, Request
  <2> QED
    BY <2>1, <2>2 DEF SubmitReject, SubmitAccept, SubmitSynthetic, Committed, After
<1>5. \A T : EventsOf(r, T)' = EventsOf(r, T)
                \cup {k \in NewAt : events'[k].req = r /\ events'[k].type \in T}
  BY <1>2, EventsAfter
<1>6. \A T \in SUBSET Filings : EventsOf(r, T)' = {k \in NewAt : events'[k].req = r /\ events'[k].type \in T}
  <2> SUFFICES ASSUME NEW T \in SUBSET Filings
               PROVE  EventsOf(r, T) = {}
    BY <1>5
  <2> QED
    BY <1>3 DEF NothingFiled, EventsOf
<1> HIDE DEF n
<1>7. CASE SubmitReject(r)
  <2> DEFINE row == ProposalOf(r, "REJECTED", req[r].verdict)
  <2>1. /\ proposals' = proposals \cup {row} /\ terminal' = terminal
        /\ row.id = r /\ row.status = "REJECTED"
    BY <1>7 DEF SubmitReject, ProposalOf
  <2>2. NewAt = {n + 1} /\ events'[n + 1].req = r /\ events'[n + 1].type = "SUBMIT_REJECTED"
    <3>1. Adds(EventOf(r, "SUBMIT_REJECTED"))
      BY <1>1, <1>7, LogGrowth
    <3> QED
      BY <3>1 DEF Adds, EventOf, n
  <2> HIDE DEF row
  <2>3. /\ EventsOf(r, {"SUBMIT_RECEIVED"})' = {} /\ EventsOf(r, {"COMPLETED"})' = {}
        /\ EventsOf(r, {"SUBMIT_REJECTED"})' = {n + 1}
        /\ EventsOf(r, {"SUBMIT_RECEIVED", "SUBMIT_REJECTED"})' = {n + 1}
    BY <1>6, <2>2 DEF Filings
  <2>4. RowsOf(r, "REJECTED")' # {} /\ RowsOf(r, "RECEIVED")' = {}
    BY <1>3, <2>1 DEF RowsOf, NothingFiled
  <2>5. Audited(r)'
    BY <1>3, <2>1, <2>3, <2>4 DEF Audited, NothingFiled
  <2> QED
    BY <1>3, <1>4, <2>1, <2>5
<1>8. CASE SubmitSynthetic(r)
  <2> DEFINE row == ProposalOf(r, "RECEIVED", "NONE")
  <2>1. /\ proposals' = proposals \cup {row} /\ terminal' = terminal
        /\ row.id = r /\ row.status = "RECEIVED"
    BY <1>8 DEF SubmitSynthetic, ProposalOf
  <2>2. NewAt = {n + 1} /\ events'[n + 1].req = r /\ events'[n + 1].type = "SUBMIT_RECEIVED"
    <3>1. Adds(EventOf(r, "SUBMIT_RECEIVED"))
      BY <1>1, <1>8, LogGrowth
    <3> QED
      BY <3>1 DEF Adds, EventOf, n
  <2> HIDE DEF row
  <2>3. /\ EventsOf(r, {"SUBMIT_REJECTED"})' = {} /\ EventsOf(r, {"COMPLETED"})' = {}
        /\ EventsOf(r, {"SUBMIT_RECEIVED"})' = {n + 1}
        /\ EventsOf(r, {"SUBMIT_RECEIVED", "SUBMIT_REJECTED"})' = {n + 1}
    BY <1>6, <2>2 DEF Filings
  <2>4. RowsOf(r, "RECEIVED")' # {} /\ RowsOf(r, "REJECTED")' = {}
    BY <1>3, <2>1 DEF RowsOf, NothingFiled
  <2>5. Audited(r)'
    BY <1>3, <2>1, <2>3, <2>4 DEF Audited, NothingFiled
  <2> QED
    BY <1>3, <1>4, <2>1, <2>5
<1>9. CASE SubmitAccept(r)
  <2> DEFINE row == ProposalOf(r, "RECEIVED", "NONE")
             end == [job |-> input[r].job, proposal |-> r]
  <2>1. /\ proposals' = proposals \cup {row} /\ terminal' = terminal \cup {end}
        /\ row.id = r /\ row.status = "RECEIVED" /\ end.proposal = r
    BY <1>9 DEF SubmitAccept, ProposalOf
  <2>2. /\ NewAt = {n + 1, n + 2} /\ n + 1 # n + 2
        /\ events'[n + 1].req = r /\ events'[n + 1].type = "SUBMIT_RECEIVED"
        /\ events'[n + 2].req = r /\ events'[n + 2].type = "COMPLETED"
    <3>1. AddsTwo(EventOf(r, "SUBMIT_RECEIVED"), EventOf(r, "COMPLETED"))
      BY <1>1, <1>9, LogGrowth
    <3> QED
      BY <1>2, <3>1 DEF AddsTwo, EventOf, n
  <2> HIDE DEF row, end
  <2>3. /\ EventsOf(r, {"SUBMIT_REJECTED"})' = {} /\ EventsOf(r, {"COMPLETED"})' = {n + 2}
        /\ EventsOf(r, {"SUBMIT_RECEIVED"})' = {n + 1}
        /\ EventsOf(r, {"SUBMIT_RECEIVED", "SUBMIT_REJECTED"})' = {n + 1}
    BY <1>6, <2>2 DEF Filings
  <2>4. RowsOf(r, "RECEIVED")' # {} /\ RowsOf(r, "REJECTED")' = {}
    BY <1>3, <2>1 DEF RowsOf, NothingFiled
  <2>5. Audited(r)'
    BY <1>3, <2>1, <2>3, <2>4 DEF Audited, NothingFiled
  <2> QED
    BY <1>3, <1>4, <2>1, <2>5
<1> QED
  BY <1>7, <1>8, <1>9

LEMMA FilingStep ==
  ASSUME TypeInv, LeaseRows, FilingInv, NEW r \in Requests, Start(r) \/ RequestStep(r)
  PROVE  FilingInv'
<1>1. Older /\ \A q \in Requests \ {r} : req'[q] = req[q]
  BY LogGrowth, StepRecords
<1>2. \A k \in NewAt : events'[k].req = r
  <2>1. CASE NewAt = {}
    BY <2>1
  <2>2. ASSUME NEW t, Adds(EventOf(r, t))
        PROVE  \A k \in NewAt : events'[k].req = r
    BY <2>2 DEF Adds, EventOf
  <2>3. ASSUME AddsTwo(EventOf(r, "SUBMIT_RECEIVED"), EventOf(r, "COMPLETED"))
        PROVE  \A k \in NewAt : events'[k].req = r
    BY <2>3 DEF AddsTwo, EventOf
  <2>4. ASSUME NEW p, AddsTwo([EventOf(r, "LEASE_EXPIRED") EXCEPT !.actor = p], EventOf(r, "CLAIMED"))
        PROVE  \A k \in NewAt : events'[k].req = r
    BY <2>4 DEF AddsTwo, EventOf
  <2> QED
    BY <2>1, <2>2, <2>3, <2>4, LogGrowth, LogWrites
<1>3. CASE SubmitReject(r) \/ SubmitAccept(r) \/ SubmitSynthetic(r)
  <2>1. /\ NothingFiled(r) /\ Audited(r)' /\ req'[r].pc \in After
        /\ \A p : p.id # r => (p \in proposals' <=> p \in proposals)
        /\ \A t : t.proposal # r => (t \in terminal' <=> t \in terminal)
    BY <1>3, FilesBoth
  <2>2. ASSUME NEW q \in Requests \ {r}
        PROVE  /\ Audited(q) => Audited(q)'
               /\ NothingFiled(q) => NothingFiled(q)'
    <3>1. /\ \A p : p.id = q => (p \in proposals' <=> p \in proposals)
          /\ \A t : t.proposal = q => (t \in terminal' <=> t \in terminal)
          /\ \A k \in NewAt : events'[k].req # q
      BY <1>2, <2>1
    <3> QED
      BY <1>1, <3>1, SameFilings
  <2> QED
    BY <1>1, <2>1, <2>2 DEF FilingInv
<1>4. CASE ~SubmitReject(r) /\ ~SubmitAccept(r) /\ ~SubmitSynthetic(r)
  <2>1. proposals' = proposals /\ terminal' = terminal
    BY <1>4, LogWrites DEF ClaimAudit, SubmitConflict, ClaimFresh, ClaimPreempt
  <2>2. \A k \in NewAt : events'[k].type \notin Filings
    <3>1. CASE NewAt = {}
      BY <3>1
    <3>2. ASSUME NEW t \in {"CLAIM_DENIED", "SUBMIT_CONFLICT", "CLAIMED"}, Adds(EventOf(r, t))
          PROVE  \A k \in NewAt : events'[k].type \notin Filings
      BY <3>2 DEF Adds, EventOf, Filings
    <3>3. ASSUME NEW p, AddsTwo([EventOf(r, "LEASE_EXPIRED") EXCEPT !.actor = p],
                                EventOf(r, "CLAIMED"))
          PROVE  \A k \in NewAt : events'[k].type \notin Filings
      BY <3>3 DEF AddsTwo, EventOf, Filings
    <3> QED
      BY <1>4, <3>1, <3>2, <3>3, LogGrowth, LogWrites
  <2>3. \A q \in Requests : /\ Audited(q) => Audited(q)'
                            /\ NothingFiled(q) => NothingFiled(q)'
    BY <1>1, <2>1, <2>2, SameFilings
  <2>4. req[r].pc \in After => req'[r].pc \in After
    BY StaysAfter
  <2> QED
    BY <1>1, <2>3, <2>4 DEF FilingInv
<1> QED
  BY <1>3, <1>4

-----------------------------------------------------------------------------
AuditInv == CompletionInv /\ ClaimLog /\ FilingInv

LEMMA InitAudit == Init => AuditInv
<1> SUFFICES ASSUME Init PROVE AuditInv
  OBVIOUS
<1>1. /\ events = <<>> /\ DOMAIN events = {} /\ granted = {} /\ proposals = {} /\ terminal = {}
  BY DEF Init
<1>2. \A r, T : EventsOf(r, T) = {}
  BY <1>1 DEF EventsOf
<1>3. CompletionInv /\ ClaimLog
  BY <1>1 DEF CompletionInv, CompletedBacked, NothingAfterCompleted, ClaimLog
<1>4. FilingInv
  BY <1>1, <1>2 DEF FilingInv, Audited, NothingFiled, RowsOf
<1> QED
  BY <1>3, <1>4 DEF AuditInv

LEMMA NextAudit == TypeInv /\ LeaseRows /\ AuditInv /\ [Next]_vars => AuditInv'
<1> SUFFICES ASSUME TypeInv, LeaseRows, AuditInv, [Next]_vars PROVE AuditInv'
  OBVIOUS
<1>1. CASE Tick \/ UNCHANGED vars
  <2>1. UNCHANGED <<terminal, proposals, events, granted, req>>
    BY <1>1 DEF Tick, vars, tables
  <2>2. CompletionInv' /\ ClaimLog'
    BY <2>1 DEF AuditInv, CompletionInv, CompletedBacked, NothingAfterCompleted, Completed,
                ClaimLog, Recorded, Succeeds, Held, Followed, EventsOf
  <2>3. FilingInv'
    BY <2>1 DEF AuditInv, FilingInv, Audited, NothingFiled, RowsOf, EventsOf
  <2> QED
    BY <2>2, <2>3 DEF AuditInv
<1>2. ASSUME NEW r \in Requests, Start(r) \/ RequestStep(r)
      PROVE  AuditInv'
  BY <1>2, CompletionStep, ClaimLogStep, FilingStep DEF AuditInv
<1> QED
  BY <1>1, <1>2 DEF Next

LEMMA LogAgrees == Spec => []AuditInv
<1>1. TypeInv /\ SafetyInv /\ AnswerInv => LeaseRows
  BY DEF SafetyInv, AnswerInv, LeaseRows
<1>2. Spec => [](TypeInv /\ AnswerInv)
  BY InitType, NextType, InitAnswers, NextAnswers, PTL DEF Spec
<1> QED
  BY <1>1, <1>2, Safe, InitAudit, NextAudit, PTL DEF Spec

\* After a job's COMPLETED event its history holds refusals and synthetic submits
\* only: no claim and no formal submit that was under way slips in behind it.
THEOREM CompletionIsLast == Spec => []NothingAfterCompleted
BY LogAgrees, PTL DEF AuditInv, CompletionInv

\* Every lease ever written has its CLAIMED event, every takeover its LEASE_EXPIRED
\* event, and neither event is there without its lease.
THEOREM ClaimsAreAudited == Spec => []ClaimAudited
<1>1. ClaimLog => ClaimAudited
  <2>1. ClaimLog => \A l \in granted : Recorded(l) /\ (l.count > 1 => Succeeds(l))
    BY DEF ClaimLog
  <2>2. ClaimLog => \A i \in DOMAIN events : /\ events[i].type = "CLAIMED" => Held(i)
                                             /\ events[i].type = "LEASE_EXPIRED" => Followed(i)
    BY DEF ClaimLog
  <2> QED
    BY <2>1, <2>2, Zenon DEF Recorded, Succeeds, Held, Followed, ClaimAudited
<1> QED
  BY <1>1, LogAgrees, PTL DEF AuditInv

\* Every stored proposal has exactly one audit event of its kind, and COMPLETED
\* stands with the terminal row, whichever batches fail or lose their answer.
THEOREM SubmitsAreAudited == Spec => []SubmitAudited
<1>1. FilingInv => SubmitAudited
  BY DEF FilingInv, Audited, RowsOf, SubmitAudited
<1> QED
  BY <1>1, LogAgrees, PTL DEF AuditInv
=============================================================================
