--------------------------- MODULE PortfolioPlane ---------------------------
(***************************************************************************)
(* The portfolio plane: LIVE posts a universe (which codes it holds) and a *)
(* status document (how sure it is) as separate requests; each status also *)
(* updates a baseline and the latest delta between two complete universes; *)
(* readers combine universe and status.  src/src/live-universe.ts,         *)
(* portfolio-status.ts, portfolio-delta.ts, live-overlay.ts and their      *)
(* handlers in index.ts.                                                   *)
(*                                                                         *)
(* Every KV call is a step; the store is a table of a D1 database, so each *)
(* key is an atomic register.  A content hash is the set of codes it is    *)
(* computed from.  A value that may be absent is a set of at most one.     *)
(*                                                                         *)
(* Spec has no fairness: a request may stop for ever at any await.         *)
(***************************************************************************)
EXTENDS Naturals, FiniteSets, WorkerClock

CONSTANTS
  Codes,         \* market:code identities
  Manifests,     \* internal manifests, up to their hash
  Posts,         \* LIVE's requests: a set of numbers, in the order it makes them
  Readers,       \* requests that ask for quotes
  Scenarios,     \* what LIVE may post and the posts it does make, how many it gives up on
                 \* while they still run, and the readers there are
  CompleteAge,   \* LIVE_COMPLETE_MAX_AGE_SECONDS, in clock ticks
  ValidAge,      \* LKG_VALID_MAX_AGE_SECONDS and the universe's own maximal age
  Tolerance,     \* FUTURE_TOLERANCE_SECONDS
  MaxFaults      \* bound on failures and evictions

States == {"LIVE_COMPLETE", "LKG_VALID", "PORTFOLIO_UNKNOWN"}

\* What one round of LIVE publishes: the universe document holds at, codes and
\* manifest, the status document everything, with the codes' hash for the codes.
Publication == [at : Nat, state : States, confirmed : SUBSET Nat, codes : SUBSET Codes,
                manifest : Manifests]

Post == [doc : {"universe", "status"}, pub : Publication]

ASSUME ConstantsAssumption ==
  /\ Posts \subseteq Nat
  /\ Scenarios \subseteq [program : [Posts -> Post], posts : SUBSET Posts, overlap : Nat, readers : SUBSET Readers]
  /\ CompleteAge \in Nat /\ ValidAge \in Nat /\ Tolerance \in Nat
  /\ CompleteAge <= ValidAge
  /\ MaxClock \in Nat /\ MaxFaults \in Nat

VARIABLES
  universe,  \* KV live-portfolio/current
  status,    \* KV live-portfolio/status
  baseline,  \* KV complete-baseline-v1
  delta,     \* KV latest-delta-v1
  program,   \* what each post carries
  overlap,   \* how many unfinished posts LIVE tolerates when it makes the next
  post,      \* each post's program counter, locals and answer
  reader,    \* each reader's program counter, locals and answer
  faults     \* failures and evictions so far

kv == <<universe, status, baseline, delta>>
vars == <<clock, kv, program, overlap, post, reader, faults>>

-----------------------------------------------------------------------------
Observation == [state : States, hash : SUBSET Codes, codes : SUBSET Codes, at : Nat]

Baseline == [hash : SUBSET Codes, codes : SUBSET Codes, observed : Nat, eligible : BOOLEAN,
             last_state : States, last_hash : SUBSET Codes, last_at : Nat]

Delta == [previous : SUBSET Codes, current : SUBSET Codes, added : SUBSET Codes,
          removed : SUBSET Codes, at : Nat]

PostSteps == {"idle", "universe", "status", "observe", "baseline", "delta", "event",
              "advance", "done"}

\* A post's locals: what it observed and the baseline it read.
PostState == [pc : PostSteps, observed : SUBSET Observation, previous : SUBSET Baseline,
              answer : {"NONE", "SUCCESS", "INVALID", "DELTA_UPDATE_FAILED"}]

\* A reader's locals: its clock, the two documents it read, the state it presents
\* and the holdings it serves quotes of.
ReaderState == [pc : {"idle", "universe", "status", "done"}, now : Nat,
                universe : SUBSET Publication, status : SUBSET Publication,
                answer : States \cup {"NONE", "SKIPPED", "FAILED"},
                served : SUBSET SUBSET Codes]

AtMostOne(S) == \A x, y \in S : x = y

\* Every stored document and local has its type.
TypeOK ==
  /\ clock \in Nat
  /\ universe \subseteq Publication /\ status \subseteq Publication
  /\ baseline \subseteq Baseline /\ delta \subseteq Delta
  /\ AtMostOne(universe) /\ AtMostOne(status) /\ AtMostOne(baseline) /\ AtMostOne(delta)
  /\ program \in [Posts -> Post]
  /\ overlap \in Nat
  /\ post \in [Posts -> PostState]
  /\ \A i \in Posts : AtMostOne(post[i].observed) /\ AtMostOne(post[i].previous)
  /\ reader \in [Readers -> ReaderState]
  /\ faults \in 0..MaxFaults

-----------------------------------------------------------------------------
(* The state that is presented.                                            *)

Rank(state) ==
  CASE state = "LIVE_COMPLETE" -> 0 [] state = "LKG_VALID" -> 1 [] state = "PORTFOLIO_UNKNOWN" -> 2

MoreConservative(a, b) == IF Rank(b) > Rank(a) THEN b ELSE a

\* The timestamp is at most age old, and not too far in the future.
Within(times, age, now) == \E t \in times : t <= now + Tolerance /\ now <= t + age

DerivedState(confirmed, now) ==
  CASE Within(confirmed, CompleteAge, now) -> "LIVE_COMPLETE"
    [] ~Within(confirmed, CompleteAge, now) /\ Within(confirmed, ValidAge, now) -> "LKG_VALID"
    [] ~Within(confirmed, ValidAge, now) -> "PORTFOLIO_UNKNOWN"

\* Variant: whatever universe is stored is taken for the one the status is about.
Unchecked(u, s) == TRUE

SamePublication(u, s) == u.codes = s.codes /\ u.manifest = s.manifest

\* resolvePortfolioPresentation of a universe u and a status document s: declared, recomputed and cross-checked, the most conservative counts.
PresentedPair(u, s, now) ==
  MoreConservative(MoreConservative(s.state, DerivedState(s.confirmed, now)),
                   IF SamePublication(u, s) THEN "LIVE_COMPLETE" ELSE "LKG_VALID")

\* resolveLiveUniverseFreshness: anchored on the confirmation, or else on the universe.
Fresh(u, confirmed, now) ==
  Within(IF confirmed # {} THEN confirmed ELSE {u.at}, ValidAge, now)

-----------------------------------------------------------------------------
(* reducePortfolioUniverseDelta                                            *)

Older(b, o) == o.at < b.last_at

Conflict(b, o) == o.at = b.last_at /\ (o.state # b.last_state \/ o.hash # b.last_hash)

\* Variant: a conflicting observation of the same time is compared too.
ContinuesConflict(b, o) == o.state = "LIVE_COMPLETE" /\ ~Older(b, o) /\ b.eligible

\* A complete observation is compared only with an unbroken baseline.
Continues(b, o) ==
  o.state = "LIVE_COMPLETE" /\ ~Older(b, o) /\ ~Conflict(b, o) /\ b.eligible

CompleteBaseline(o) ==
  [hash |-> o.hash, codes |-> o.codes, observed |-> o.at, eligible |-> TRUE,
   last_state |-> "LIVE_COMPLETE", last_hash |-> o.hash, last_at |-> o.at]

\* Variant: an incomplete observation is noted but does not break continuity.
BrokenButEligible(b, o) ==
  [b EXCEPT !.last_state = o.state, !.last_hash = o.hash, !.last_at = o.at]

BrokenBaseline(b, o) ==
  [b EXCEPT !.eligible = FALSE, !.last_state = o.state, !.last_hash = o.hash, !.last_at = o.at]

NextBaseline(previous, o) ==
  CASE \E b \in previous : Older(b, o) -> previous
    [] (\A b \in previous : ~Older(b, o)) /\ o.state = "LIVE_COMPLETE" -> {CompleteBaseline(o)}
    [] (\A b \in previous : ~Older(b, o)) /\ o.state # "LIVE_COMPLETE" ->
         {BrokenBaseline(b, o) : b \in previous}

Difference(b, o) ==
  [previous |-> b.hash, current |-> o.hash, added |-> o.codes \ b.codes,
   removed |-> b.codes \ o.codes, at |-> o.at]

NextDelta(previous, o) ==
  {Difference(b, o) : b \in {x \in previous : Continues(x, o) /\ x.hash # o.hash}}

-----------------------------------------------------------------------------
Init ==
  /\ clock = 0
  /\ universe = {} /\ status = {} /\ baseline = {} /\ delta = {}
  /\ \E s \in Scenarios :
       /\ post = [i \in Posts |-> [pc |-> IF i \in s.posts THEN "idle" ELSE "done",
                                   observed |-> {}, previous |-> {}, answer |-> "NONE"]]
       /\ program = s.program /\ overlap = s.overlap
       /\ reader = [r \in Readers |-> [pc |-> IF r \in s.readers THEN "idle" ELSE "done",
                                       now |-> 0, universe |-> {}, status |-> {},
                                       answer |-> "NONE", served |-> {}]]
  /\ faults = 0

Tick ==
  /\ clock < MaxClock
  /\ clock' = clock + 1
  /\ UNCHANGED <<kv, program, overlap, post, reader, faults>>

Fault == faults < MaxFaults /\ faults' = faults + 1

At(i, pc) == post[i].pc = pc

Go(i, pc) == post' = [post EXCEPT ![i].pc = pc]

Answer(i, a) == post' = [post EXCEPT ![i].pc = "done", ![i].answer = a]

Running(i) == post[i].pc \notin {"idle", "done"}

\* LIVE makes its posts in order, and waits for an answer or gives up on it; a
\* status that claims to know more than nothing must say when it was confirmed.
StartPost(i) ==
  /\ At(i, "idle")
  /\ \A j \in Posts : j < i => ~At(j, "idle")
  /\ Cardinality({j \in Posts : Running(j)}) <= overlap
  /\ LET doc == program[i].doc
         pub == program[i].pub
     IN IF doc = "status" /\ pub.state # "PORTFOLIO_UNKNOWN" /\ pub.confirmed = {}
          THEN Answer(i, "INVALID")
          ELSE Go(i, doc)
  /\ UNCHANGED <<clock, kv, program, overlap, reader, faults>>

\* An evicted worker: the post goes no further and LIVE hears nothing.
Evict(i) ==
  /\ Running(i)
  /\ Fault
  /\ Answer(i, "NONE")
  /\ UNCHANGED <<clock, kv, program, overlap, reader>>

\* A put that takes effect is followed by the step next, or its answer is lost
\* and the handler answers error.
Stored(i, next, error) == (next /\ UNCHANGED faults) \/ (Fault /\ Answer(i, error))

PutUniverse(i) ==
  /\ At(i, "universe")
  /\ universe' = {program[i].pub}
  /\ Stored(i, Answer(i, "SUCCESS"), "INVALID")
  /\ UNCHANGED <<clock, status, baseline, delta, program, overlap, reader>>

PutStatus(i) ==
  /\ At(i, "status")
  /\ status' = {program[i].pub}
  /\ Stored(i, Go(i, "observe"), "INVALID")
  /\ UNCHANGED <<clock, universe, baseline, delta, program, overlap, reader>>

-----------------------------------------------------------------------------
(* recordPortfolioDeltaAfterStatusWrite                                    *)

Observe(i, state, codes) ==
  post' = [post EXCEPT ![i].pc = "baseline",
                       ![i].observed = {[state |-> state, hash |-> program[i].pub.codes,
                                         codes |-> codes, at |-> program[i].pub.at]}]

\* The universe is read back; one that is missing or unreadable proves nothing.
ReadUniverse(i) ==
  /\ At(i, "observe")
  /\ \/ \E u \in universe :
          Observe(i, PresentedPair(u, program[i].pub, clock), u.codes) /\ UNCHANGED faults
     \/ universe = {} /\ Observe(i, "PORTFOLIO_UNKNOWN", {}) /\ UNCHANGED faults
     \/ Observe(i, "PORTFOLIO_UNKNOWN", {}) /\ Fault
  /\ UNCHANGED <<clock, kv, program, overlap, reader>>

ReadBaseline(i) ==
  /\ At(i, "baseline")
  /\ post' = [post EXCEPT ![i].pc = "delta", ![i].previous = baseline]
  /\ UNCHANGED <<clock, kv, program, overlap, reader, faults>>

NewDelta(i) == UNION {NextDelta(post[i].previous, o) : o \in post[i].observed}

NewBaseline(i) == UNION {NextBaseline(post[i].previous, o) : o \in post[i].observed}

\* The delta is read only to fail on a corrupt one; then the reduction is stored,
\* the event first, and what there is nothing of is left as it is.
ReadDelta(i) ==
  /\ At(i, "delta")
  /\ CASE NewDelta(i) # {} -> Go(i, "event")
       [] NewDelta(i) = {} /\ NewBaseline(i) # {} -> Go(i, "advance")
       [] NewDelta(i) = {} /\ NewBaseline(i) = {} -> Answer(i, "SUCCESS")
  /\ UNCHANGED <<clock, kv, program, overlap, reader, faults>>

PutDelta(i) ==
  /\ At(i, "event")
  /\ delta' = NewDelta(i)
  /\ Stored(i, Go(i, "advance"), "DELTA_UPDATE_FAILED")
  /\ UNCHANGED <<clock, universe, status, baseline, program, overlap, reader>>

\* Variant: the new baseline is kept beside the old one.
PutBaselineBeside(i) ==
  /\ At(i, "advance")
  /\ baseline' = baseline \cup NewBaseline(i)
  /\ Stored(i, Answer(i, "SUCCESS"), "DELTA_UPDATE_FAILED")
  /\ UNCHANGED <<clock, universe, status, delta, program, overlap, reader>>

PutBaseline(i) ==
  /\ At(i, "advance")
  /\ baseline' = NewBaseline(i)
  /\ Stored(i, Answer(i, "SUCCESS"), "DELTA_UPDATE_FAILED")
  /\ UNCHANGED <<clock, universe, status, delta, program, overlap, reader>>

\* Variant: a failed event is ignored and the baseline advances past it.
KvFaultIgnored(i) ==
  /\ At(i, "event")
  /\ Fault
  /\ Go(i, "advance")
  /\ UNCHANGED <<clock, kv, program, overlap, reader>>

\* A KV call throws and has no effect.
KvFault(i) ==
  /\ post[i].pc \in {"universe", "status", "baseline", "delta", "event", "advance"}
  /\ Fault
  /\ Answer(i, IF post[i].pc \in {"universe", "status"} THEN "INVALID" ELSE "DELTA_UPDATE_FAILED")
  /\ UNCHANGED <<clock, kv, program, overlap, reader>>

PostStep(i) ==
  \/ StartPost(i) \/ Evict(i) \/ PutUniverse(i) \/ PutStatus(i)
  \/ ReadUniverse(i) \/ ReadBaseline(i) \/ ReadDelta(i)
  \/ PutDelta(i) \/ PutBaseline(i) \/ KvFault(i)

-----------------------------------------------------------------------------
(* Readers: resolveLivePresentation, then projectCallerSnapshot.           *)

\* A caller that may not see holdings gets none, and nothing is read for it.
StartReader(r) ==
  /\ reader[r].pc = "idle"
  /\ \/ reader' = [reader EXCEPT ![r].pc = "universe", ![r].now = clock]
     \/ reader' = [reader EXCEPT ![r].pc = "done", ![r].answer = "SKIPPED"]
  /\ UNCHANGED <<clock, kv, program, overlap, post, faults>>

\* A universe that cannot be read fails a quote request; a status page goes on
\* without it.
ReaderUniverse(r) ==
  /\ reader[r].pc = "universe"
  /\ \/ /\ reader' = [reader EXCEPT ![r].pc = "status", ![r].universe = universe]
        /\ UNCHANGED faults
     \/ reader' = [reader EXCEPT ![r].pc = "done", ![r].answer = "FAILED"] /\ Fault
     \/ reader' = [reader EXCEPT ![r].pc = "status"] /\ Fault
  /\ UNCHANGED <<clock, kv, program, overlap, post>>

Finish(r, seen, state, served) ==
  reader' = [reader EXCEPT ![r].pc = "done", ![r].status = seen,
                           ![r].answer = state, ![r].served = served]

\* Variant: what is quoted is served, whole or not.
OverlayPartial(r, seen, state, u) ==
  \E quoted \in SUBSET Codes : Finish(r, seen, state, {quoted \cap u.codes})

\* The overlay serves the holdings it has quotes of, once it has one of every holding.
Overlay(r, seen, state, u) ==
  \E quoted \in SUBSET Codes :
    IF u.codes \subseteq quoted THEN Finish(r, seen, state, {quoted \cap u.codes})
                                ELSE Finish(r, seen, "FAILED", {})

Present(r, seen) ==
  \/ \E u \in reader[r].universe, s \in seen :
       LET now == reader[r].now
           state == PresentedPair(u, s, now)
       IN IF state # "PORTFOLIO_UNKNOWN" /\ Fresh(u, s.confirmed, now)
            THEN Overlay(r, seen, state, u)
            ELSE Finish(r, seen, state, {})
  \/ reader[r].universe = {} /\ Finish(r, seen, "PORTFOLIO_UNKNOWN", {})
  \/ seen = {} /\ Finish(r, seen, "PORTFOLIO_UNKNOWN", {})

\* A status document that cannot be read counts as missing.
ReaderStatus(r) ==
  /\ reader[r].pc = "status"
  /\ \/ Present(r, status) /\ UNCHANGED faults
     \/ Present(r, {}) /\ Fault
  /\ UNCHANGED <<clock, kv, program, overlap, post>>

ReaderStep(r) == StartReader(r) \/ ReaderUniverse(r) \/ ReaderStatus(r)

Next ==
  \/ Tick
  \/ \E i \in Posts : PostStep(i)
  \/ \E r \in Readers : ReaderStep(r)

Spec == Init /\ [][Next]_vars

-----------------------------------------------------------------------------
(* Properties.                                                             *)

\* Post i observed, as complete, the universe hashed to hash, at time at.
ConfirmedBy(i, hash, at) ==
  /\ program[i].doc = "status" /\ program[i].pub.state = "LIVE_COMPLETE"
  /\ program[i].pub.codes = hash /\ program[i].pub.at = at
  /\ \E o \in post[i].observed : o.state = "LIVE_COMPLETE"

Sound(b) ==
  /\ b.codes = b.hash
  /\ \E i \in Posts : ConfirmedBy(i, b.hash, b.observed)
  /\ b.observed <= b.last_at
  /\ b.eligible <=> b.last_state = "LIVE_COMPLETE"
  /\ b.eligible => b.last_hash = b.hash /\ b.last_at = b.observed

\* The stored baseline can be trusted, and can be read back: its codes are those its
\* hash names although they come from another document, LIVE confirmed them at the
\* time it says, and it is eligible exactly while nothing incomplete came after.
BaselineSound == \A b \in baseline : Sound(b)

Genuine(e) ==
  /\ e.previous # e.current
  /\ e.added = e.current \ e.previous /\ e.removed = e.previous \ e.current
  /\ \E i, j \in Posts :
       /\ ConfirmedBy(j, e.current, e.at)
       /\ program[i].pub.at < e.at /\ ConfirmedBy(i, e.previous, program[i].pub.at)

\* A delta is never made up, whatever posts overlap, fail or repeat: it is the exact
\* difference of two universes LIVE confirmed, the earlier one first.
DeltaGenuine == \A e \in delta : Genuine(e)

\* What a reader is served as held is one whole universe, recently confirmed by the
\* status document it read; presented as LIVE_COMPLETE, the two documents are of one
\* publication, although they are stored and read one after the other.
ServedIsConfirmed ==
  \A r \in Readers :
    /\ reader[r].served # {} =>
         \E u \in reader[r].universe, s \in reader[r].status :
           /\ reader[r].served = {u.codes}
           /\ s.state # "PORTFOLIO_UNKNOWN" /\ Within(s.confirmed, ValidAge, reader[r].now)
    /\ reader[r].answer = "LIVE_COMPLETE" =>
         \E u \in reader[r].universe, s \in reader[r].status :
           /\ u.codes = s.codes /\ u.manifest = s.manifest
           /\ s.state = "LIVE_COMPLETE" /\ Within(s.confirmed, CompleteAge, reader[r].now)

\* Post j was answered SUCCESS for an incomplete observation between two times.
GapRecorded(j, from, to) ==
  /\ post[j].answer = "SUCCESS" /\ post[j].previous # {}
  /\ \E o \in post[j].observed : o.state # "LIVE_COMPLETE" /\ from < o.at /\ o.at < to

StoresDeltaAcrossGap(i) ==
  /\ At(i, "event") /\ delta' # delta
  /\ post'[i] # post[i]
  /\ \E b \in post[i].previous, o \in post[i].observed, j \in Posts :
       GapRecorded(j, b.observed, o.at)

\* No delta, hence no removal, is inferred across an interval in which LIVE's holdings
\* were not confirmed, once the incomplete observation was accepted.
GapBlocksDelta == [][\A i \in Posts : ~StoresDeltaAcrossGap(i)]_vars

\* The same, as long as LIVE makes one post at a time.
SerialGapBlocksDelta ==
  [][overlap = 0 => \A i \in Posts : ~StoresDeltaAcrossGap(i)]_vars

\* While LIVE makes one post at a time, no change is lost: a baseline moves from one
\* confirmed universe to the next only once their delta is stored, whichever call
\* fails, whichever post is cut off and however often it is repeated.
SerialLosesNoEvent ==
  [][overlap = 0 => \A b \in baseline, c \in baseline' :
       (b.eligible /\ c.eligible /\ b.hash # c.hash /\ b.last_at < c.last_at) =>
          \E e \in delta' : e.previous = b.hash /\ e.current = c.hash /\ e.at = c.last_at]_vars
=============================================================================
