------------------------ MODULE PortfolioPlaneProofs ------------------------
(* Theorems about PortfolioPlane, for any posts, readers, programs and faults. *)
EXTENDS PortfolioPlane, FiniteSetTheorems, TLAPS

-----------------------------------------------------------------------------
(* The operators of the plane.                                             *)

\* A presented state is one of the three.
LEMMA PresentedType ==
  ASSUME NEW u, NEW s \in Publication, NEW now
  PROVE  PresentedPair(u, s, now) \in States
<1> DEFINE d == DerivedState(s.confirmed, now)
           x == IF SamePublication(u, s) THEN "LIVE_COMPLETE" ELSE "LKG_VALID"
<1>1. d \in States
  BY DEF DerivedState, States
<1>2. x \in States /\ s.state \in States
  BY DEF States, Publication
<1>3. \A a, b \in States : MoreConservative(a, b) \in States
  BY DEF MoreConservative
<1> QED BY <1>1, <1>2, <1>3 DEF PresentedPair

\* LIVE_COMPLETE is presented only if everything says so, and anything better than
\* unknown only if the document says more and was confirmed in time.
LEMMA PresentedMeans ==
  ASSUME NEW u, NEW s \in Publication, NEW now \in Nat
  PROVE  /\ PresentedPair(u, s, now) = "LIVE_COMPLETE" =>
              /\ SamePublication(u, s) /\ s.state = "LIVE_COMPLETE"
              /\ Within(s.confirmed, CompleteAge, now)
         /\ PresentedPair(u, s, now) # "PORTFOLIO_UNKNOWN" =>
              s.state # "PORTFOLIO_UNKNOWN" /\ Within(s.confirmed, ValidAge, now)
<1> DEFINE d == DerivedState(s.confirmed, now)
           x == IF SamePublication(u, s) THEN "LIVE_COMPLETE" ELSE "LKG_VALID"
           m == MoreConservative(s.state, d)
<1>1. Within(s.confirmed, CompleteAge, now) => Within(s.confirmed, ValidAge, now)
  BY ConstantsAssumption DEF Within, Publication
<1>2. d \in States /\ x \in States /\ s.state \in States
  BY DEF DerivedState, States, Publication
<1>3. /\ d = "LIVE_COMPLETE" => Within(s.confirmed, CompleteAge, now)
      /\ d # "PORTFOLIO_UNKNOWN" => Within(s.confirmed, ValidAge, now)
  BY <1>1 DEF DerivedState
<1>4. \A a, b \in States :
        /\ MoreConservative(a, b) \in States
        /\ MoreConservative(a, b) = "LIVE_COMPLETE" => a = "LIVE_COMPLETE" /\ b = "LIVE_COMPLETE"
        /\ MoreConservative(a, b) # "PORTFOLIO_UNKNOWN" =>
             a # "PORTFOLIO_UNKNOWN" /\ b # "PORTFOLIO_UNKNOWN"
  BY DEF MoreConservative, Rank, States
<1>5. m \in States /\ PresentedPair(u, s, now) = MoreConservative(m, x)
  BY <1>2, <1>4 DEF PresentedPair
<1>6. CASE PresentedPair(u, s, now) = "LIVE_COMPLETE"
  <2>1. m = "LIVE_COMPLETE" /\ x = "LIVE_COMPLETE"
    BY <1>2, <1>4, <1>5, <1>6
  <2>2. s.state = "LIVE_COMPLETE" /\ d = "LIVE_COMPLETE" /\ SamePublication(u, s)
    BY <2>1, <1>2, <1>4
  <2> QED BY <2>2, <1>3, <1>1
<1>7. CASE PresentedPair(u, s, now) # "LIVE_COMPLETE"
  <2>1. PresentedPair(u, s, now) # "PORTFOLIO_UNKNOWN" => m # "PORTFOLIO_UNKNOWN"
    BY <1>2, <1>4, <1>5
  <2>2. m # "PORTFOLIO_UNKNOWN" => s.state # "PORTFOLIO_UNKNOWN" /\ d # "PORTFOLIO_UNKNOWN"
    BY <1>2, <1>4
  <2> QED BY <2>1, <2>2, <1>3, <1>7
<1> QED BY <1>6, <1>7

\* The reduction of one baseline and one observation is at most one of each.
LEMMA ReductionType ==
  ASSUME NEW previous, previous \subseteq Baseline, AtMostOne(previous),
         NEW o \in Observation
  PROVE  /\ NextBaseline(previous, o) \subseteq Baseline /\ AtMostOne(NextBaseline(previous, o))
         /\ NextDelta(previous, o) \subseteq Delta /\ AtMostOne(NextDelta(previous, o))
<1>1. CompleteBaseline(o) \in Baseline
  BY DEF CompleteBaseline, Baseline, Observation, States
<1>2. \A b \in Baseline : BrokenBaseline(b, o) \in Baseline
  BY DEF BrokenBaseline, Baseline, Observation
<1>3. \A b \in Baseline : Difference(b, o) \in Delta
  BY DEF Difference, Delta, Baseline, Observation
<1>4. NextDelta(previous, o) \subseteq Delta /\ AtMostOne(NextDelta(previous, o))
  BY <1>3 DEF NextDelta, AtMostOne
<1>5. CASE \E b \in previous : Older(b, o)
  BY <1>4, <1>5 DEF NextBaseline
<1>6. CASE (\A b \in previous : ~Older(b, o)) /\ o.state = "LIVE_COMPLETE"
  <2>1. NextBaseline(previous, o) = {CompleteBaseline(o)}
    BY <1>6 DEF NextBaseline
  <2> QED BY <2>1, <1>1, <1>4 DEF AtMostOne
<1>7. CASE (\A b \in previous : ~Older(b, o)) /\ o.state # "LIVE_COMPLETE"
  <2>1. NextBaseline(previous, o) = {BrokenBaseline(b, o) : b \in previous}
    BY <1>7 DEF NextBaseline
  <2> QED BY <2>1, <1>2, <1>4 DEF AtMostOne
<1> QED BY <1>5, <1>6, <1>7


-----------------------------------------------------------------------------
(* Type correctness.                                                       *)

\* What a post reduces to is at most one baseline and at most one delta.
LEMMA PostReduction ==
  ASSUME TypeOK, NEW i \in Posts
  PROVE  /\ NewBaseline(i) \subseteq Baseline /\ AtMostOne(NewBaseline(i))
         /\ NewDelta(i) \subseteq Delta /\ AtMostOne(NewDelta(i))
<1>1. /\ post[i].previous \subseteq Baseline /\ AtMostOne(post[i].previous)
      /\ post[i].observed \subseteq Observation /\ AtMostOne(post[i].observed)
  BY DEF TypeOK, PostState
<1>2. CASE post[i].observed = {}
  BY <1>2 DEF NewBaseline, NewDelta, AtMostOne
<1>3. ASSUME NEW o \in post[i].observed
      PROVE  /\ NewBaseline(i) = NextBaseline(post[i].previous, o)
             /\ NewDelta(i) = NextDelta(post[i].previous, o)
  <2>1. post[i].observed = {o}
    BY <1>1 DEF AtMostOne
  <2> QED BY <2>1 DEF NewBaseline, NewDelta
<1>4. CASE post[i].observed # {}
  <2>1. PICK o : o \in post[i].observed
    BY <1>4
  <2>2. o \in Observation
    BY <1>1, <2>1
  <2> QED BY <1>1, <1>3, <2>1, <2>2, ReductionType
<1> QED BY <1>2, <1>4

\* A post's program counter, its answer and at most one local change at a time.
LEMMA PostKeepsType ==
  ASSUME TypeOK, NEW i \in Posts, NEW p \in PostState,
         AtMostOne(p.observed), AtMostOne(p.previous), post' = [post EXCEPT ![i] = p]
  PROVE  /\ post' \in [Posts -> PostState]
         /\ \A k \in Posts : AtMostOne(post'[k].observed) /\ AtMostOne(post'[k].previous)
BY DEF TypeOK

LEMMA GoType ==
  ASSUME TypeOK, NEW i \in Posts, NEW pc \in PostSteps, Go(i, pc)
  PROVE  /\ post' \in [Posts -> PostState]
         /\ \A k \in Posts : AtMostOne(post'[k].observed) /\ AtMostOne(post'[k].previous)
<1>1. post' = [post EXCEPT ![i] = [post[i] EXCEPT !.pc = pc]]
  BY DEF Go, TypeOK
<1>2. post[i] \in PostState /\ AtMostOne(post[i].observed) /\ AtMostOne(post[i].previous)
  BY DEF TypeOK
<1>3. [post[i] EXCEPT !.pc = pc] \in PostState
  BY <1>2 DEF PostState
<1>4. /\ [post[i] EXCEPT !.pc = pc].observed = post[i].observed
      /\ [post[i] EXCEPT !.pc = pc].previous = post[i].previous
  BY <1>2 DEF PostState
<1> QED BY <1>1, <1>2, <1>3, <1>4, PostKeepsType

LEMMA AnswerType ==
  ASSUME TypeOK, NEW i \in Posts, NEW a \in {"NONE", "SUCCESS", "INVALID", "DELTA_UPDATE_FAILED"},
         Answer(i, a)
  PROVE  /\ post' \in [Posts -> PostState]
         /\ \A k \in Posts : AtMostOne(post'[k].observed) /\ AtMostOne(post'[k].previous)
<1> DEFINE p == [post[i] EXCEPT !.pc = "done", !.answer = a]
<1>1. post' = [post EXCEPT ![i] = p]
  BY DEF Answer, TypeOK
<1>2. post[i] \in PostState /\ AtMostOne(post[i].observed) /\ AtMostOne(post[i].previous)
  BY DEF TypeOK
<1>3. p \in PostState /\ p.observed = post[i].observed /\ p.previous = post[i].previous
  BY <1>2 DEF PostState, PostSteps
<1> QED BY <1>1, <1>2, <1>3, PostKeepsType

LEMMA StoredType ==
  ASSUME TypeOK, NEW i \in Posts, NEW pc \in PostSteps, NEW ok \in {"NONE", "SUCCESS"},
         NEW bad \in {"INVALID", "DELTA_UPDATE_FAILED"},
         \/ Stored(i, Go(i, pc), bad)
         \/ Stored(i, Answer(i, ok), bad)
  PROVE  /\ post' \in [Posts -> PostState]
         /\ \A k \in Posts : AtMostOne(post'[k].observed) /\ AtMostOne(post'[k].previous)
         /\ faults' \in 0..MaxFaults
<1>1. faults' \in 0..MaxFaults
  BY ConstantsAssumption DEF Stored, Fault, TypeOK
<1>2. CASE Go(i, pc)
  BY <1>1, <1>2, GoType
<1>3. CASE Answer(i, ok)
  BY <1>1, <1>3, AnswerType
<1>4. CASE Answer(i, bad)
  BY <1>1, <1>4, AnswerType
<1> QED BY <1>2, <1>3, <1>4 DEF Stored

LEMMA FaultType == ASSUME TypeOK, Fault PROVE faults' \in 0..MaxFaults
BY ConstantsAssumption DEF Fault, TypeOK


LEMMA InitType == Init => TypeOK
<1> SUFFICES ASSUME Init PROVE TypeOK
  OBVIOUS
<1>1. /\ clock \in Nat /\ overlap \in Nat /\ faults \in 0..MaxFaults
      /\ program \in [Posts -> Post]
  BY ConstantsAssumption DEF Init
<1>2. /\ universe \subseteq Publication /\ status \subseteq Publication
      /\ baseline \subseteq Baseline /\ delta \subseteq Delta
      /\ AtMostOne(universe) /\ AtMostOne(status) /\ AtMostOne(baseline) /\ AtMostOne(delta)
  BY DEF Init, AtMostOne
<1>3. post \in [Posts -> PostState]
  BY DEF Init, PostState, PostSteps
<1>4. \A i \in Posts : AtMostOne(post[i].observed) /\ AtMostOne(post[i].previous)
  BY DEF Init, AtMostOne
<1>5. reader \in [Readers -> ReaderState]
  BY DEF Init, ReaderState
<1> QED BY <1>1, <1>2, <1>3, <1>4, <1>5 DEF TypeOK

LEMMA PostStepType ==
  ASSUME TypeOK, NEW i \in Posts, PostStep(i)
  PROVE  TypeOK'
<1>p. program[i] \in Post /\ program[i].pub \in Publication
  BY DEF TypeOK, Post
<1>1. CASE StartPost(i)
  <2>1. /\ UNCHANGED <<clock, kv, program, overlap, reader, faults>>
        /\ \/ Answer(i, "INVALID")
           \/ Go(i, program[i].doc)
    BY <1>1 DEF StartPost
  <2>2. program[i].doc \in PostSteps
    BY <1>p DEF Post, PostSteps
  <2>3. /\ post' \in [Posts -> PostState]
        /\ \A k \in Posts : AtMostOne(post'[k].observed) /\ AtMostOne(post'[k].previous)
    BY <2>1, <2>2, GoType, AnswerType
  <2> QED BY <2>1, <2>3 DEF TypeOK, kv
<1>2. CASE Evict(i)
  BY <1>2, AnswerType, FaultType DEF Evict, TypeOK, kv
<1>3. CASE PutUniverse(i)
  <2>1. /\ post' \in [Posts -> PostState]
        /\ \A k \in Posts : AtMostOne(post'[k].observed) /\ AtMostOne(post'[k].previous)
        /\ faults' \in 0..MaxFaults
    BY <1>3, StoredType DEF PutUniverse, PostSteps
  <2>2. universe' \subseteq Publication /\ AtMostOne(universe')
    BY <1>3, <1>p DEF PutUniverse, AtMostOne
  <2> QED BY <1>3, <2>1, <2>2 DEF PutUniverse, TypeOK
<1>4. CASE PutStatus(i)
  <2>1. /\ post' \in [Posts -> PostState]
        /\ \A k \in Posts : AtMostOne(post'[k].observed) /\ AtMostOne(post'[k].previous)
        /\ faults' \in 0..MaxFaults
    BY <1>4, StoredType DEF PutStatus, PostSteps
  <2>2. status' \subseteq Publication /\ AtMostOne(status')
    BY <1>4, <1>p DEF PutStatus, AtMostOne
  <2> QED BY <1>4, <2>1, <2>2 DEF PutStatus, TypeOK
<1>5. CASE ReadUniverse(i)
  <2>1. PICK state \in States, codes \in SUBSET Codes : Observe(i, state, codes)
    <3>1. CASE \E u \in universe : Observe(i, PresentedPair(u, program[i].pub, clock), u.codes)
      <4>1. PICK u \in universe : Observe(i, PresentedPair(u, program[i].pub, clock), u.codes)
        BY <3>1
      <4>2. u.codes \in SUBSET Codes
        BY DEF TypeOK, Publication
      <4> QED BY <4>1, <4>2, <1>p, PresentedType
    <3>2. CASE Observe(i, "PORTFOLIO_UNKNOWN", {})
      BY <3>2 DEF States
    <3> QED BY <1>5, <3>1, <3>2 DEF ReadUniverse
  <2> DEFINE o == [state |-> state, hash |-> program[i].pub.codes, codes |-> codes,
                   at |-> program[i].pub.at]
             p == [post[i] EXCEPT !.pc = "baseline", !.observed = {o}]
  <2>2. post' = [post EXCEPT ![i] = p]
    BY <2>1 DEF Observe, TypeOK
  <2>3. o \in Observation
    BY <1>p DEF Observation, Publication
  <2>4. post[i] \in PostState /\ AtMostOne(post[i].previous)
    BY DEF TypeOK
  <2>5. p \in PostState /\ p.observed = {o} /\ p.previous = post[i].previous
    BY <2>3, <2>4 DEF PostState, PostSteps
  <2>a. AtMostOne({o})
    BY DEF AtMostOne
  <2>6. /\ post' \in [Posts -> PostState]
        /\ \A k \in Posts : AtMostOne(post'[k].observed) /\ AtMostOne(post'[k].previous)
    BY <2>2, <2>4, <2>5, <2>a, PostKeepsType
  <2>7. faults' \in 0..MaxFaults
    BY <1>5, FaultType DEF ReadUniverse, TypeOK
  <2> QED BY <1>5, <2>6, <2>7 DEF ReadUniverse, TypeOK, kv
<1>6. CASE ReadBaseline(i)
  <2> DEFINE p == [post[i] EXCEPT !.pc = "delta", !.previous = baseline]
  <2>1. post' = [post EXCEPT ![i] = p]
    BY <1>6 DEF ReadBaseline, TypeOK
  <2>2. post[i] \in PostState /\ AtMostOne(post[i].observed) /\ baseline \subseteq Baseline
    BY DEF TypeOK
  <2>3. p \in PostState /\ p.observed = post[i].observed /\ p.previous = baseline
    BY <2>2 DEF PostState, PostSteps
  <2>4. /\ post' \in [Posts -> PostState]
        /\ \A k \in Posts : AtMostOne(post'[k].observed) /\ AtMostOne(post'[k].previous)
    BY <2>1, <2>2, <2>3, PostKeepsType DEF TypeOK
  <2> QED BY <1>6, <2>4 DEF ReadBaseline, TypeOK, kv
<1>7. CASE ReadDelta(i)
  <2>1. Go(i, "event") \/ Go(i, "advance") \/ Answer(i, "SUCCESS")
    <3>1. CASE NewDelta(i) # {}
      BY <1>7, <3>1 DEF ReadDelta
    <3>2. CASE NewDelta(i) = {} /\ NewBaseline(i) # {}
      BY <1>7, <3>2 DEF ReadDelta
    <3>3. CASE NewDelta(i) = {} /\ NewBaseline(i) = {}
      BY <1>7, <3>3 DEF ReadDelta
    <3> QED BY <3>1, <3>2, <3>3
  <2>2. /\ post' \in [Posts -> PostState]
        /\ \A k \in Posts : AtMostOne(post'[k].observed) /\ AtMostOne(post'[k].previous)
    BY <2>1, GoType, AnswerType DEF PostSteps
  <2> QED BY <1>7, <2>2 DEF ReadDelta, TypeOK, kv
<1>8. CASE PutDelta(i)
  <2>1. /\ post' \in [Posts -> PostState]
        /\ \A k \in Posts : AtMostOne(post'[k].observed) /\ AtMostOne(post'[k].previous)
        /\ faults' \in 0..MaxFaults
    BY <1>8, StoredType DEF PutDelta, PostSteps
  <2>2. delta' \subseteq Delta /\ AtMostOne(delta')
    BY <1>8, PostReduction DEF PutDelta
  <2> QED BY <1>8, <2>1, <2>2 DEF PutDelta, TypeOK
<1>9. CASE PutBaseline(i)
  <2>1. /\ post' \in [Posts -> PostState]
        /\ \A k \in Posts : AtMostOne(post'[k].observed) /\ AtMostOne(post'[k].previous)
        /\ faults' \in 0..MaxFaults
    BY <1>9, StoredType DEF PutBaseline, PostSteps
  <2>2. baseline' \subseteq Baseline /\ AtMostOne(baseline')
    BY <1>9, PostReduction DEF PutBaseline
  <2> QED BY <1>9, <2>1, <2>2 DEF PutBaseline, TypeOK
<1>10. CASE KvFault(i)
  <2>1. Answer(i, "INVALID") \/ Answer(i, "DELTA_UPDATE_FAILED")
    BY <1>10 DEF KvFault
  <2>2. /\ post' \in [Posts -> PostState]
        /\ \A k \in Posts : AtMostOne(post'[k].observed) /\ AtMostOne(post'[k].previous)
    BY <2>1, AnswerType
  <2> QED BY <1>10, <2>2, FaultType DEF KvFault, TypeOK, kv
<1> QED BY <1>1, <1>2, <1>3, <1>4, <1>5, <1>6, <1>7, <1>8, <1>9, <1>10 DEF PostStep

\* What a reader finishes with: an answer, and codes only with an overlay.
LEMMA FinishType ==
  ASSUME TypeOK, NEW r \in Readers, NEW seen, seen \subseteq Publication,
         NEW answer \in States \cup {"FAILED"}, NEW served \in SUBSET SUBSET Codes,
         Finish(r, seen, answer, served)
  PROVE  reader' \in [Readers -> ReaderState]
<1>1. reader[r] \in ReaderState
  BY DEF TypeOK
<1>2. [reader[r] EXCEPT !.pc = "done", !.status = seen, !.answer = answer, !.served = served]
        \in ReaderState
  BY <1>1 DEF ReaderState
<1> QED BY <1>2 DEF Finish, TypeOK

LEMMA PresentType ==
  ASSUME TypeOK, NEW r \in Readers, NEW seen, seen \subseteq Publication, Present(r, seen)
  PROVE  reader' \in [Readers -> ReaderState]
<1>1. CASE Finish(r, seen, "PORTFOLIO_UNKNOWN", {})
  BY <1>1, FinishType DEF States
<1>2. ASSUME NEW u \in reader[r].universe, NEW s \in seen,
             NEW state, state = PresentedPair(u, s, reader[r].now),
             Overlay(r, seen, state, u) \/ Finish(r, seen, state, {})
      PROVE  reader' \in [Readers -> ReaderState]
  <2>1. state \in States /\ u.codes \subseteq Codes
    BY <1>2, PresentedType DEF TypeOK, ReaderState, Publication
  <2>2. CASE Finish(r, seen, state, {})
    BY <2>1, <2>2, FinishType
  <2>3. CASE Overlay(r, seen, state, u)
    <3>1. PICK quoted \in SUBSET Codes :
            \/ Finish(r, seen, state, {quoted \cap u.codes})
            \/ Finish(r, seen, "FAILED", {})
      BY <2>3 DEF Overlay
    <3> QED BY <2>1, <3>1, FinishType
  <2> QED BY <1>2, <2>2, <2>3
<1> QED BY <1>1, <1>2 DEF Present

LEMMA ReaderStepType ==
  ASSUME TypeOK, NEW r \in Readers, ReaderStep(r)
  PROVE  TypeOK'
<1>r. reader[r] \in ReaderState /\ universe \subseteq Publication /\ status \subseteq Publication
  BY DEF TypeOK
<1>1. CASE StartReader(r)
  <2>1. /\ [reader[r] EXCEPT !.pc = "universe", !.now = clock] \in ReaderState
        /\ [reader[r] EXCEPT !.pc = "done", !.answer = "SKIPPED"] \in ReaderState
    BY <1>r DEF ReaderState, TypeOK
  <2>2. reader' \in [Readers -> ReaderState]
    BY <1>1, <2>1 DEF StartReader, TypeOK
  <2> QED BY <1>1, <2>2 DEF StartReader, TypeOK, kv
<1>2. CASE ReaderUniverse(r)
  <2>1. /\ [reader[r] EXCEPT !.pc = "status", !.universe = universe] \in ReaderState
        /\ [reader[r] EXCEPT !.pc = "done", !.answer = "FAILED"] \in ReaderState
        /\ [reader[r] EXCEPT !.pc = "status"] \in ReaderState
    BY <1>r DEF ReaderState
  <2>2. reader' \in [Readers -> ReaderState]
    BY <1>2, <2>1 DEF ReaderUniverse, TypeOK
  <2>3. faults' \in 0..MaxFaults
    BY <1>2, FaultType DEF ReaderUniverse, TypeOK
  <2> QED BY <1>2, <2>2, <2>3 DEF ReaderUniverse, TypeOK, kv
<1>3. CASE ReaderStatus(r)
  <2>1. reader' \in [Readers -> ReaderState]
    BY <1>3, <1>r, PresentType DEF ReaderStatus
  <2>2. faults' \in 0..MaxFaults
    BY <1>3, FaultType DEF ReaderStatus, TypeOK
  <2> QED BY <1>3, <2>1, <2>2 DEF ReaderStatus, TypeOK, kv
<1> QED BY <1>1, <1>2, <1>3 DEF ReaderStep

LEMMA StepType == TypeOK /\ [Next]_vars => TypeOK'
<1> SUFFICES ASSUME TypeOK, [Next]_vars PROVE TypeOK'
  OBVIOUS
<1>1. CASE Tick
  BY <1>1 DEF Tick, TypeOK, kv
<1>2. CASE UNCHANGED vars
  BY <1>2 DEF vars, kv, TypeOK
<1> QED BY <1>1, <1>2, PostStepType, ReaderStepType DEF Next

\* Every document in the store and every local keeps its type, and no key of the
\* store holds two values.
THEOREM PlaneTypeCorrect == Spec => []TypeOK
BY InitType, StepType, PTL DEF Spec


-----------------------------------------------------------------------------
(* Nothing is made up.                                                     *)

\* What a post observed is what its document says, and a universe is taken for
\* complete only if its codes are those the document's hash names.
ObservationInv ==
  \A i \in Posts :
    /\ post[i].pc \in {"idle", "universe", "status", "observe"} => post[i].observed = {}
    /\ post[i].pc \in {"status", "observe"} => program[i].doc = "status"
    /\ \A o \in post[i].observed :
         /\ o.hash = program[i].pub.codes /\ o.at = program[i].pub.at
         /\ o.state = "LIVE_COMPLETE" =>
              /\ program[i].doc = "status" /\ program[i].pub.state = "LIVE_COMPLETE"
              /\ o.codes = o.hash

PreviousSound == \A i \in Posts : \A b \in post[i].previous : Sound(b)

PlaneInv == TypeOK /\ ObservationInv /\ PreviousSound /\ BaselineSound /\ DeltaGenuine

\* A step keeps what was observed, and may add an observation.
ObservedKept ==
  /\ program' = program
  /\ \A i \in Posts : post[i].observed # {} => post'[i].observed = post[i].observed

LEMMA SoundStays ==
  ASSUME ObservedKept
  PROVE  /\ \A b : Sound(b) => Sound(b)'
         /\ \A e : Genuine(e) => Genuine(e)'
<1>1. \A i \in Posts : \A hash, at : ConfirmedBy(i, hash, at) => ConfirmedBy(i, hash, at)'
  BY DEF ObservedKept, ConfirmedBy
<1>2. \A b : Sound(b) => Sound(b)'
  BY <1>1 DEF Sound
<1>3. ASSUME NEW e, Genuine(e)
      PROVE  Genuine(e)'
  <2>1. PICK i, j, t :
          /\ i \in Posts /\ j \in Posts /\ t = program[i].pub.at
          /\ ConfirmedBy(j, e.current, e.at) /\ t < e.at /\ ConfirmedBy(i, e.previous, t)
    BY <1>3 DEF Genuine
  <2>2. ConfirmedBy(j, e.current, e.at)' /\ ConfirmedBy(i, e.previous, t)'
    BY <1>1, <2>1
  <2>3. program'[i].pub.at = t
    BY <2>1 DEF ObservedKept
  <2>4. \E x, y \in Posts :
          /\ ConfirmedBy(y, e.current, e.at)'
          /\ program'[x].pub.at < e.at /\ (ConfirmedBy(x, e.previous, program[x].pub.at))'
    BY <2>1, <2>2, <2>3 DEF ConfirmedBy
  <2> QED BY <1>3, <2>4 DEF Genuine
<1> QED BY <1>2, <1>3

\* Reducing an observation and a sound baseline makes nothing up.
LEMMA ReductionSound ==
  ASSUME TypeOK, ObservationInv, PreviousSound, NEW i \in Posts, NEW o \in post[i].observed
  PROVE  /\ \A c \in NextBaseline(post[i].previous, o) : Sound(c)
         /\ \A e \in NextDelta(post[i].previous, o) : Genuine(e)
<1>1. /\ o \in Observation /\ post[i].previous \subseteq Baseline
      /\ program[i].pub.at \in Nat
  BY DEF TypeOK, PostState, Post, Publication
<1>2. o.state = "LIVE_COMPLETE" => ConfirmedBy(i, o.hash, o.at) /\ o.codes = o.hash
  BY DEF ObservationInv, ConfirmedBy
<1>3. \A b \in post[i].previous : Sound(b)
  BY DEF PreviousSound
<1>4. ASSUME NEW c \in NextBaseline(post[i].previous, o)
      PROVE  Sound(c)
  <2>1. CASE \E b \in post[i].previous : Older(b, o)
    BY <1>3, <1>4, <2>1 DEF NextBaseline
  <2>2. CASE (\A b \in post[i].previous : ~Older(b, o)) /\ o.state = "LIVE_COMPLETE"
    <3>1. c \in {CompleteBaseline(o)}
      BY <1>4, <2>2 DEF NextBaseline
    <3>2. /\ c.codes = o.codes /\ c.hash = o.hash /\ c.observed = o.at /\ c.eligible = TRUE
          /\ c.last_state = "LIVE_COMPLETE" /\ c.last_hash = o.hash /\ c.last_at = o.at
      BY <3>1 DEF CompleteBaseline
    <3>3. c.observed <= c.last_at
      BY <1>1, <3>2 DEF Observation
    <3>4. \E k \in Posts : ConfirmedBy(k, c.hash, c.observed)
      BY <1>2, <2>2, <3>2
    <3> QED BY <1>2, <2>2, <3>2, <3>3, <3>4 DEF Sound
  <2>3. CASE (\A b \in post[i].previous : ~Older(b, o)) /\ o.state # "LIVE_COMPLETE"
    <3>a. NextBaseline(post[i].previous, o) = {BrokenBaseline(b, o) : b \in post[i].previous}
      BY <2>3 DEF NextBaseline
    <3>1. PICK b \in post[i].previous : c = BrokenBaseline(b, o)
      BY <1>4, <3>a
    <3>2. b \in Baseline /\ Sound(b) /\ ~Older(b, o)
      BY <1>1, <1>3, <2>3
    <3>3. /\ c.codes = b.codes /\ c.hash = b.hash /\ c.observed = b.observed
          /\ c.eligible = FALSE /\ c.last_state = o.state /\ c.last_at = o.at
      BY <3>1, <3>2 DEF BrokenBaseline, Baseline
    <3>4. b.observed \in Nat /\ b.last_at \in Nat /\ o.at \in Nat
      BY <1>1, <3>2 DEF Baseline, Observation
    <3>5. c.observed <= c.last_at
      BY <3>2, <3>3, <3>4 DEF Older, Sound
    <3> QED BY <2>3, <3>2, <3>3, <3>5 DEF Sound
  <2> QED BY <2>1, <2>2, <2>3
<1>5. ASSUME NEW e \in NextDelta(post[i].previous, o)
      PROVE  Genuine(e)
  <2>1. PICK b \in post[i].previous : Continues(b, o) /\ b.hash # o.hash /\ e = Difference(b, o)
    BY <1>5 DEF NextDelta
  <2>2. b \in Baseline /\ Sound(b)
    BY <1>1, <1>3
  <2>3. b.eligible /\ o.state = "LIVE_COMPLETE" /\ ~Older(b, o) /\ ~Conflict(b, o)
    BY <2>1 DEF Continues
  <2>4. b.last_state = "LIVE_COMPLETE" /\ b.last_hash = b.hash /\ b.last_at = b.observed
    BY <2>2, <2>3 DEF Sound
  <2>5. b.observed < o.at
    BY <1>1, <2>1, <2>2, <2>3, <2>4 DEF Older, Conflict, Baseline, Observation
  <2>6. PICK k \in Posts : ConfirmedBy(k, b.hash, b.observed)
    BY <2>2 DEF Sound
  <2>7. /\ e.previous = b.hash /\ e.current = o.hash /\ e.at = o.at
        /\ e.added = o.hash \ b.hash /\ e.removed = b.hash \ o.hash
    BY <1>2, <2>1, <2>2, <2>3 DEF Difference, Sound
  <2>8. program[k].pub.at = b.observed
    BY <2>6 DEF ConfirmedBy
  <2> QED BY <1>2, <2>1, <2>3, <2>5, <2>6, <2>7, <2>8 DEF Genuine
<1> QED BY <1>4, <1>5

\* Going on or answering changes neither what a post observed nor what it read.
LEMMA LocalsKept ==
  ASSUME TypeOK, NEW i \in Posts, NEW pc, NEW a, Go(i, pc) \/ Answer(i, a)
  PROVE  /\ \A k \in Posts : /\ post'[k].observed = post[k].observed
                             /\ post'[k].previous = post[k].previous
         /\ \A k \in Posts : k # i => post'[k] = post[k]
         /\ Go(i, pc) => post'[i].pc = pc
         /\ Answer(i, a) => post'[i].pc = "done"
BY DEF TypeOK, PostState, Go, Answer


\* A step that keeps every observation keeps what is stored sound, if what it writes is.
LEMMA StoreSound ==
  ASSUME PlaneInv, ObservedKept, ObservationInv', TypeOK',
         \/ baseline' = baseline
         \/ \E i \in Posts : baseline' = NewBaseline(i),
         \/ delta' = delta
         \/ \E i \in Posts : delta' = NewDelta(i),
         \A i \in Posts : post'[i].previous \in {post[i].previous, baseline}
  PROVE  PlaneInv'
<1>1. /\ \A b \in baseline : Sound(b)'
      /\ \A i \in Posts : \A b \in post[i].previous : Sound(b)'
      /\ \A e \in delta : Genuine(e)'
  BY SoundStays DEF PlaneInv, BaselineSound, PreviousSound, DeltaGenuine
<1>2. \A i \in Posts : \A b \in NewBaseline(i) : Sound(b)'
  BY SoundStays, ReductionSound DEF PlaneInv, NewBaseline
<1>3. \A i \in Posts : \A e \in NewDelta(i) : Genuine(e)'
  BY SoundStays, ReductionSound DEF PlaneInv, NewDelta
<1>4. BaselineSound'
  BY <1>1, <1>2 DEF BaselineSound
<1>5. DeltaGenuine'
  BY <1>1, <1>3 DEF DeltaGenuine
<1>6. PreviousSound'
  BY <1>1 DEF PreviousSound
<1> QED BY <1>4, <1>5, <1>6 DEF PlaneInv

\* Answering, or going on, keeps all that was observed and read.
LEMMA AnswerStep ==
  ASSUME PlaneInv, NEW i \in Posts, NEW a, Answer(i, a), program' = program
  PROVE  /\ ObservedKept /\ ObservationInv'
         /\ \A k \in Posts : post'[k].previous = post[k].previous
<1>1. /\ \A k \in Posts : /\ post'[k].observed = post[k].observed
                          /\ post'[k].previous = post[k].previous
      /\ \A k \in Posts : k # i => post'[k] = post[k]
      /\ post'[i].pc = "done"
  BY LocalsKept DEF PlaneInv
<1>2. ObservedKept
  BY <1>1 DEF ObservedKept
<1>3. ObservationInv'
  BY <1>1 DEF PlaneInv, ObservationInv
<1> QED BY <1>1, <1>2, <1>3

LEMMA GoStep ==
  ASSUME PlaneInv, NEW i \in Posts, NEW pc, Go(i, pc), program' = program,
         pc \in {"idle", "universe", "status", "observe"} => post[i].observed = {},
         pc \in {"status", "observe"} => program[i].doc = "status"
  PROVE  /\ ObservedKept /\ ObservationInv'
         /\ \A k \in Posts : post'[k].previous = post[k].previous
<1>1. /\ \A k \in Posts : /\ post'[k].observed = post[k].observed
                          /\ post'[k].previous = post[k].previous
      /\ \A k \in Posts : k # i => post'[k] = post[k]
      /\ post'[i].pc = pc
  BY LocalsKept DEF PlaneInv
<1>2. ObservedKept
  BY <1>1 DEF ObservedKept
<1>3. ObservationInv'
  BY <1>1 DEF PlaneInv, ObservationInv
<1> QED BY <1>1, <1>2, <1>3

LEMMA PlaneInit == Init => PlaneInv
<1> SUFFICES ASSUME Init PROVE PlaneInv
  OBVIOUS
<1>1. TypeOK
  BY InitType
<1>2. ObservationInv /\ PreviousSound
  BY DEF Init, ObservationInv, PreviousSound
<1>3. BaselineSound /\ DeltaGenuine
  BY DEF Init, BaselineSound, DeltaGenuine
<1> QED BY <1>1, <1>2, <1>3 DEF PlaneInv

LEMMA PlanePostStep ==
  ASSUME PlaneInv, TypeOK', NEW i \in Posts, PostStep(i)
  PROVE  PlaneInv'
<1> DEFINE Kept == /\ ObservedKept /\ ObservationInv'
                   /\ \A k \in Posts : post'[k].previous = post[k].previous
<1>p. TypeOK /\ ObservationInv
  BY DEF PlaneInv
<1>k. ASSUME Kept, baseline' = baseline \/ baseline' = NewBaseline(i),
             delta' = delta \/ delta' = NewDelta(i)
      PROVE  PlaneInv'
  BY <1>k, StoreSound
<1> HIDE DEF Kept
<1>1. CASE StartPost(i)
  <2>1. /\ At(i, "idle") /\ program' = program /\ baseline' = baseline /\ delta' = delta
        /\ \/ Answer(i, "INVALID")
           \/ Go(i, program[i].doc)
    BY <1>1 DEF StartPost, kv
  <2>2. post[i].observed = {} /\ program[i].doc \in {"universe", "status"}
    BY <1>p, <2>1 DEF ObservationInv, At, TypeOK, Post
  <2>3. Kept
    BY <2>1, <2>2, GoStep, AnswerStep DEF Kept
  <2> QED BY <2>1, <2>3, <1>k
<1>2. CASE Evict(i)
  <2>1. Kept
    BY <1>2, AnswerStep DEF Evict, Kept
  <2> QED BY <1>2, <2>1, <1>k DEF Evict, kv
<1>3. CASE PutUniverse(i)
  <2>1. Kept
    BY <1>3, AnswerStep DEF PutUniverse, Stored, Kept
  <2> QED BY <1>3, <2>1, <1>k DEF PutUniverse
<1>4. CASE PutStatus(i)
  <2>1. post[i].observed = {} /\ program[i].doc = "status"
    BY <1>4, <1>p DEF PutStatus, At, ObservationInv
  <2>2. CASE Go(i, "observe")
    <3>1. Kept
      BY <1>4, <2>1, <2>2, GoStep DEF PutStatus, Kept
    <3> QED BY <1>4, <3>1, <1>k DEF PutStatus
  <2>3. CASE Answer(i, "INVALID")
    <3>1. Kept
      BY <1>4, <2>3, AnswerStep DEF PutStatus, Kept
    <3> QED BY <1>4, <3>1, <1>k DEF PutStatus
  <2> QED BY <1>4, <2>2, <2>3 DEF PutStatus, Stored
<1>5. CASE ReadUniverse(i)
  <2>1. post[i].observed = {} /\ program[i].doc = "status" /\ program[i].pub \in Publication
    BY <1>5, <1>p DEF ReadUniverse, At, ObservationInv, TypeOK, Post
  <2>2. PICK state, codes :
          /\ Observe(i, state, codes)
          /\ state = "LIVE_COMPLETE" =>
               program[i].pub.state = "LIVE_COMPLETE" /\ codes = program[i].pub.codes
    <3>1. ASSUME NEW u \in universe, Observe(i, PresentedPair(u, program[i].pub, clock), u.codes)
          PROVE  PresentedPair(u, program[i].pub, clock) = "LIVE_COMPLETE" =>
                   program[i].pub.state = "LIVE_COMPLETE" /\ u.codes = program[i].pub.codes
      BY <2>1, <1>p, PresentedMeans DEF SamePublication, TypeOK
    <3> QED BY <1>5, <3>1 DEF ReadUniverse
  <2> DEFINE o == [state |-> state, hash |-> program[i].pub.codes, codes |-> codes,
                   at |-> program[i].pub.at]
  <2>3. /\ post'[i].observed = {o} /\ post'[i].pc = "baseline"
        /\ post'[i].previous = post[i].previous
        /\ \A k \in Posts : k # i => post'[k] = post[k]
    BY <2>2, <1>p DEF Observe, TypeOK, PostState
  <2>4. program' = program /\ baseline' = baseline /\ delta' = delta
    BY <1>5 DEF ReadUniverse, kv
  <2>5. ObservedKept
    BY <2>1, <2>3, <2>4 DEF ObservedKept
  <2>6. /\ o.hash = program[i].pub.codes /\ o.at = program[i].pub.at
        /\ o.state = "LIVE_COMPLETE" => program[i].pub.state = "LIVE_COMPLETE" /\ o.codes = o.hash
    BY <2>2
  <2> HIDE DEF o
  <2>7. ObservationInv'
    BY <1>p, <2>1, <2>3, <2>4, <2>6 DEF ObservationInv
  <2>8. Kept
    BY <2>3, <2>5, <2>7 DEF Kept
  <2> QED BY <2>4, <2>8, <1>k
<1>6. CASE ReadBaseline(i)
  <2>1. /\ post'[i].observed = post[i].observed /\ post'[i].pc = "delta"
        /\ post'[i].previous = baseline
        /\ \A k \in Posts : k # i => post'[k] = post[k]
    BY <1>6, <1>p DEF ReadBaseline, TypeOK, PostState
  <2>2. program' = program /\ baseline' = baseline /\ delta' = delta
    BY <1>6 DEF ReadBaseline, kv
  <2>3. ObservedKept
    BY <2>1, <2>2 DEF ObservedKept
  <2>4. ObservationInv'
    BY <1>p, <2>1, <2>2 DEF ObservationInv
  <2>5. \A k \in Posts : post'[k].previous \in {post[k].previous, baseline}
    BY <2>1
  <2> QED BY <2>2, <2>3, <2>4, <2>5, StoreSound
<1>7. CASE ReadDelta(i)
  <2>1. Go(i, "event") \/ Go(i, "advance") \/ Answer(i, "SUCCESS")
    <3>1. CASE NewDelta(i) # {}
      BY <1>7, <3>1 DEF ReadDelta
    <3>2. CASE NewDelta(i) = {} /\ NewBaseline(i) # {}
      BY <1>7, <3>2 DEF ReadDelta
    <3>3. CASE NewDelta(i) = {} /\ NewBaseline(i) = {}
      BY <1>7, <3>3 DEF ReadDelta
    <3> QED BY <3>1, <3>2, <3>3
  <2>2. program' = program /\ baseline' = baseline /\ delta' = delta
    BY <1>7 DEF ReadDelta, kv
  <2>3. Kept
    BY <2>1, <2>2, GoStep, AnswerStep DEF Kept
  <2> QED BY <2>2, <2>3, <1>k
<1>8. CASE PutDelta(i)
  <2>1. Go(i, "advance") \/ Answer(i, "DELTA_UPDATE_FAILED")
    BY <1>8 DEF PutDelta, Stored
  <2>2. program' = program /\ baseline' = baseline /\ delta' = NewDelta(i)
    BY <1>8 DEF PutDelta
  <2>3. Kept
    BY <2>1, <2>2, GoStep, AnswerStep DEF Kept
  <2> QED BY <2>2, <2>3, <1>k
<1>9. CASE PutBaseline(i)
  <2>1. Answer(i, "SUCCESS") \/ Answer(i, "DELTA_UPDATE_FAILED")
    BY <1>9 DEF PutBaseline, Stored
  <2>2. program' = program /\ baseline' = NewBaseline(i) /\ delta' = delta
    BY <1>9 DEF PutBaseline
  <2>3. Kept
    BY <2>1, <2>2, AnswerStep DEF Kept
  <2> QED BY <2>2, <2>3, <1>k
<1>10. CASE KvFault(i)
  <2>1. Answer(i, "INVALID") \/ Answer(i, "DELTA_UPDATE_FAILED")
    BY <1>10 DEF KvFault
  <2>2. program' = program /\ baseline' = baseline /\ delta' = delta
    BY <1>10 DEF KvFault, kv
  <2>3. Kept
    BY <2>1, <2>2, AnswerStep DEF Kept
  <2> QED BY <2>2, <2>3, <1>k
<1> QED BY <1>1, <1>2, <1>3, <1>4, <1>5, <1>6, <1>7, <1>8, <1>9, <1>10 DEF PostStep


LEMMA PlaneReaderStep ==
  ASSUME PlaneInv, TypeOK', UNCHANGED <<program, post, baseline, delta>>
  PROVE  PlaneInv'
<1>1. ObservedKept /\ ObservationInv'
  BY DEF ObservedKept, PlaneInv, ObservationInv
<1>2. \A i \in Posts : post'[i].previous \in {post[i].previous, baseline}
  OBVIOUS
<1> QED BY <1>1, <1>2, StoreSound

LEMMA PlaneStep == PlaneInv /\ [Next]_vars => PlaneInv'
<1> SUFFICES ASSUME PlaneInv, [Next]_vars PROVE PlaneInv'
  OBVIOUS
<1>1. TypeOK'
  BY StepType DEF PlaneInv
<1>2. CASE \E i \in Posts : PostStep(i)
  BY <1>1, <1>2, PlanePostStep
<1>3. CASE Tick
  BY <1>1, <1>3, PlaneReaderStep DEF Tick, kv
<1>4. ASSUME NEW r \in Readers, ReaderStep(r)
      PROVE  PlaneInv'
  <2>1. UNCHANGED <<program, post, baseline, delta>>
    BY <1>4 DEF ReaderStep, StartReader, ReaderUniverse, ReaderStatus, kv
  <2> QED BY <1>1, <2>1, PlaneReaderStep
<1>5. CASE UNCHANGED vars
  BY <1>1, <1>5, PlaneReaderStep DEF vars, kv
<1> QED BY <1>2, <1>3, <1>4, <1>5 DEF Next

LEMMA PlaneInvariant == Spec => []PlaneInv
BY PlaneInit, PlaneStep, PTL DEF Spec

\* The stored baseline is a universe LIVE confirmed, under its own hash, and it is
\* eligible exactly while nothing incomplete came after it.
THEOREM BaselineIsSound == Spec => []BaselineSound
<1>1. PlaneInv => BaselineSound
  BY DEF PlaneInv
<1> QED BY <1>1, PlaneInvariant, PTL

\* The stored delta is the exact difference of two universes LIVE confirmed, however
\* many posts overlap, fail or repeat.
THEOREM DeltaIsGenuine == Spec => []DeltaGenuine
<1>1. PlaneInv => DeltaGenuine
  BY DEF PlaneInv
<1> QED BY <1>1, PlaneInvariant, PTL

-----------------------------------------------------------------------------
(* Posts made one at a time.                                               *)

OneRuns == \A i, k \in Posts : Running(i) /\ Running(k) => i = k

\* What post i read is still stored, and the event it derived is stored before its
\* baseline is.
Fits(i) ==
  /\ post[i].pc # "done" => post[i].answer = "NONE"
  /\ post[i].pc \in {"baseline", "delta", "event", "advance"} => post[i].observed # {}
  /\ post[i].pc \in {"delta", "event", "advance"} => post[i].previous = baseline
  /\ post[i].pc = "event" => NewDelta(i) # {}
  /\ post[i].pc = "advance" => NewDelta(i) = {} \/ delta = NewDelta(i)

\* The baseline knows of this time.
Reaches(at) == \E b \in baseline : at <= b.last_at

\* An incomplete observation that was accepted is not after what the baseline knows of.
Accepted(i) ==
  (post[i].answer = "SUCCESS" /\ post[i].previous # {}) =>
    \A o \in post[i].observed : o.state # "LIVE_COMPLETE" => Reaches(o.at)

\* The inductive invariant: while LIVE waits for every answer, a post that runs is alone,
\* so that what it read of the store is what is there when it writes.
SerialInv == overlap = 0 => OneRuns /\ \A i \in Posts : Fits(i) /\ Accepted(i)

\* The post that moves is the only one that runs.
LEMMA MovesAlone ==
  ASSUME TypeOK, OneRuns, overlap = 0, NEW i \in Posts, PostStep(i)
  PROVE  \A k \in Posts : k # i => ~Running(k) /\ post'[k] = post[k]
<1>1. ASSUME NEW k \in Posts, k # i PROVE post'[k] = post[k]
  <2>1. \A pc : Go(i, pc) => post'[k] = post[k]
    BY <1>1 DEF Go, TypeOK
  <2>2. \A a : Answer(i, a) => post'[k] = post[k]
    BY <1>1 DEF Answer, TypeOK
  <2>3. \A state, codes : Observe(i, state, codes) => post'[k] = post[k]
    BY <1>1 DEF Observe, TypeOK
  <2>4. ReadBaseline(i) => post'[k] = post[k]
    BY <1>1 DEF ReadBaseline, TypeOK
  <2>5. ReadDelta(i) => post'[k] = post[k]
    <3> SUFFICES ASSUME ReadDelta(i) PROVE post'[k] = post[k]
      OBVIOUS
    <3>1. CASE NewDelta(i) # {}
      BY <2>1, <3>1 DEF ReadDelta
    <3>2. CASE NewDelta(i) = {} /\ NewBaseline(i) # {}
      BY <2>1, <3>2 DEF ReadDelta
    <3>3. CASE NewDelta(i) = {} /\ NewBaseline(i) = {}
      BY <2>2, <3>3 DEF ReadDelta
    <3> QED
      BY <3>1, <3>2, <3>3
  <2>6. StartPost(i) => post'[k] = post[k]
    BY <2>1, <2>2 DEF StartPost
  <2>7. ReadUniverse(i) => post'[k] = post[k]
    BY <2>3 DEF ReadUniverse
  <2> QED
    BY <2>1, <2>2, <2>4, <2>5, <2>6, <2>7
       DEF PostStep, Evict, PutUniverse, PutStatus, PutDelta, PutBaseline, KvFault, Stored
<1>2. ASSUME NEW k \in Posts, k # i PROVE ~Running(k)
  <2>1. CASE StartPost(i)
    <3> DEFINE R == {j \in Posts : Running(j)}
    <3>1. Cardinality(R) <= 0
      BY <2>1 DEF StartPost
    <3>2. SUFFICES ASSUME Running(k) PROVE FALSE
      OBVIOUS
    <3>3. R = {k}
      BY <3>2 DEF OneRuns
    <3>4. Cardinality(R) = 1
      BY <3>3, FS_Singleton
    <3> QED
      BY <3>1, <3>4
  <2>2. CASE ~StartPost(i)
    <3>1. Running(i)
      BY <2>2 DEF PostStep, Evict, PutUniverse, PutStatus, ReadUniverse, ReadBaseline, ReadDelta,
                  PutDelta, PutBaseline, KvFault, At, Running
    <3> QED
      BY <1>2, <3>1 DEF OneRuns
  <2> QED
    BY <2>1, <2>2
<1> QED
  BY <1>1, <1>2

\* A reduction of the stored baseline knows of all that the baseline knew of, and of
\* what was observed.
LEMMA ReductionReaches ==
  ASSUME TypeOK, NEW i \in Posts, post[i].previous = baseline, NEW o \in post[i].observed
  PROVE  /\ \A at \in Nat : Reaches(at) => \E b \in NewBaseline(i) : at <= b.last_at
         /\ baseline # {} => \E b \in NewBaseline(i) : o.at <= b.last_at
<1>1. /\ baseline \subseteq Baseline /\ AtMostOne(baseline)
      /\ post[i].observed = {o} /\ o \in Observation
  BY DEF TypeOK, PostState, AtMostOne
<1>2. NewBaseline(i) = NextBaseline(baseline, o)
  BY <1>1 DEF NewBaseline
<1>3. o.at \in Nat /\ \A b \in baseline : b.last_at \in Nat
  BY <1>1 DEF Observation, Baseline
<1>4. CASE \E b \in baseline : Older(b, o)
  <2>1. NewBaseline(i) = baseline
    BY <1>2, <1>4 DEF NextBaseline
  <2> QED
    BY <1>3, <1>4, <2>1 DEF Older, Reaches
<1>5. CASE (\A b \in baseline : ~Older(b, o)) /\ o.state = "LIVE_COMPLETE"
  <2>1. NewBaseline(i) = {CompleteBaseline(o)}
    BY <1>2, <1>5 DEF NextBaseline
  <2>2. CompleteBaseline(o).last_at = o.at
    BY DEF CompleteBaseline
  <2>3. \A b \in baseline : b.last_at <= o.at
    BY <1>3, <1>5 DEF Older
  <2> QED
    BY <1>3, <2>1, <2>2, <2>3 DEF Reaches
<1>6. CASE (\A b \in baseline : ~Older(b, o)) /\ o.state # "LIVE_COMPLETE"
  <2>1. NewBaseline(i) = {BrokenBaseline(b, o) : b \in baseline}
    BY <1>2, <1>6 DEF NextBaseline
  <2>2. \A b \in baseline : BrokenBaseline(b, o) \in NewBaseline(i) /\ BrokenBaseline(b, o).last_at = o.at
    BY <1>1, <2>1 DEF BrokenBaseline, Baseline
  <2>3. \A b \in baseline : b.last_at <= o.at
    BY <1>3, <1>6 DEF Older
  <2>4. o.at <= o.at
    BY <1>3
  <2> QED
    BY <1>3, <2>2, <2>3, <2>4 DEF Reaches
<1> QED
  BY <1>4, <1>5, <1>6

\* What the post that moves is left with.
MovedOn(i) ==
  /\ Fits(i)' /\ Accepted(i)'
  /\ \A at \in Nat : Reaches(at) => Reaches(at)'

LEMMA OnlyLocals ==
  ASSUME TypeOK, NEW i \in Posts, NEW pc, NEW a, Go(i, pc) \/ Answer(i, a)
  PROVE  /\ post'[i].observed = post[i].observed /\ post'[i].previous = post[i].previous
         /\ NewDelta(i)' = NewDelta(i) /\ NewBaseline(i)' = NewBaseline(i)
         /\ Go(i, pc) => post'[i].pc = pc /\ post'[i].answer = post[i].answer
         /\ Answer(i, a) => post'[i].pc = "done" /\ post'[i].answer = a
<1>1. /\ post'[i].observed = post[i].observed /\ post'[i].previous = post[i].previous
      /\ Go(i, pc) => post'[i].pc = pc /\ post'[i].answer = post[i].answer
      /\ Answer(i, a) => post'[i].pc = "done" /\ post'[i].answer = a
  BY DEF TypeOK, PostState, Go, Answer
<1> QED
  BY <1>1 DEF NewDelta, NewBaseline

\* A post that is answered other than SUCCESS has nothing more to keep.
LEMMA Refused ==
  ASSUME TypeOK, NEW i \in Posts, NEW a \in {"NONE", "INVALID", "DELTA_UPDATE_FAILED"},
         Answer(i, a)
  PROVE  Fits(i)' /\ Accepted(i)'
BY OnlyLocals DEF Fits, Accepted

LEMMA PostMovesOn ==
  ASSUME PlaneInv, NEW i \in Posts, Fits(i), Accepted(i), PostStep(i)
  PROVE  MovedOn(i)
<1>t. TypeOK /\ ObservationInv
  BY DEF PlaneInv
<1>s. ASSUME baseline' = baseline PROVE \A at \in Nat : Reaches(at) => Reaches(at)'
  BY <1>s DEF Reaches
<1>r. ASSUME NEW a \in {"NONE", "INVALID", "DELTA_UPDATE_FAILED"}, Answer(i, a)
      PROVE  Fits(i)' /\ Accepted(i)'
  BY <1>r, <1>t, Refused
<1>1. CASE StartPost(i)
  <2>1. baseline' = baseline /\ post[i].pc = "idle"
    BY <1>1 DEF StartPost, kv, At
  <2>2. CASE Answer(i, "INVALID")
    BY <1>r, <1>s, <2>1, <2>2 DEF MovedOn
  <2>3. CASE Go(i, program[i].doc)
    <3>1. program[i].doc \in {"universe", "status"}
      BY <1>t DEF TypeOK, Post
    <3>2. post'[i].pc \in {"universe", "status"} /\ post'[i].answer = "NONE"
      BY <1>t, <2>1, <2>3, <3>1, OnlyLocals DEF Fits
    <3> QED
      BY <1>s, <2>1, <3>2 DEF MovedOn, Fits, Accepted
  <2> QED
    BY <1>1, <2>2, <2>3 DEF StartPost
<1>2. CASE Evict(i)
  BY <1>2, <1>r, <1>s DEF Evict, kv, MovedOn
<1>3. CASE PutUniverse(i)
  <2>1. baseline' = baseline /\ post[i].observed = {}
    BY <1>3, <1>t DEF PutUniverse, At, ObservationInv
  <2>2. CASE Answer(i, "INVALID")
    BY <1>r, <1>s, <2>1, <2>2 DEF MovedOn
  <2>3. CASE Answer(i, "SUCCESS")
    <3>1. post'[i].pc = "done" /\ post'[i].observed = {}
      BY <1>t, <2>1, <2>3, OnlyLocals
    <3> QED
      BY <1>s, <2>1, <3>1 DEF MovedOn, Fits, Accepted
  <2> QED
    BY <1>3, <2>2, <2>3 DEF PutUniverse, Stored
<1>4. CASE PutStatus(i)
  <2>1. baseline' = baseline /\ post[i].pc = "status"
    BY <1>4 DEF PutStatus, At
  <2>2. CASE Answer(i, "INVALID")
    BY <1>r, <1>s, <2>1, <2>2 DEF MovedOn
  <2>3. CASE Go(i, "observe")
    <3>1. post'[i].pc = "observe" /\ post'[i].answer = "NONE"
      BY <1>t, <2>1, <2>3, OnlyLocals DEF Fits
    <3> QED
      BY <1>s, <2>1, <3>1 DEF MovedOn, Fits, Accepted
  <2> QED
    BY <1>4, <2>2, <2>3 DEF PutStatus, Stored
<1>5. CASE ReadUniverse(i)
  <2>1. baseline' = baseline /\ post[i].pc = "observe"
    BY <1>5 DEF ReadUniverse, kv, At
  <2>2. PICK state, codes : Observe(i, state, codes)
    BY <1>5 DEF ReadUniverse
  <2>3. post'[i].pc = "baseline" /\ post'[i].observed # {} /\ post'[i].answer = post[i].answer
    BY <1>t, <2>2 DEF Observe, TypeOK, PostState
  <2> QED
    BY <1>s, <2>1, <2>3 DEF MovedOn, Fits, Accepted
<1>6. CASE ReadBaseline(i)
  <2>1. baseline' = baseline /\ post[i].pc = "baseline"
    BY <1>6 DEF ReadBaseline, kv, At
  <2>2. /\ post'[i].pc = "delta" /\ post'[i].observed = post[i].observed
        /\ post'[i].answer = post[i].answer /\ post'[i].previous = baseline
    BY <1>6, <1>t DEF ReadBaseline, TypeOK, PostState
  <2> QED
    BY <1>s, <2>1, <2>2 DEF MovedOn, Fits, Accepted
<1>7. CASE ReadDelta(i)
  <2>1. /\ baseline' = baseline /\ delta' = delta /\ post[i].pc = "delta"
        /\ post[i].previous = baseline /\ post[i].observed # {} /\ post[i].answer = "NONE"
    BY <1>7 DEF ReadDelta, kv, At, Fits
  <2>2. CASE NewDelta(i) # {}
    <3>1. Go(i, "event")
      BY <1>7, <2>2 DEF ReadDelta
    <3>2. /\ post'[i].pc = "event" /\ post'[i].observed = post[i].observed
          /\ post'[i].answer = post[i].answer /\ post'[i].previous = post[i].previous
          /\ NewDelta(i)' = NewDelta(i)
      BY <1>t, <3>1, OnlyLocals
    <3> QED
      BY <1>s, <2>1, <2>2, <3>2 DEF MovedOn, Fits, Accepted
  <2>3. CASE NewDelta(i) = {} /\ NewBaseline(i) # {}
    <3>1. Go(i, "advance")
      BY <1>7, <2>3 DEF ReadDelta
    <3>2. /\ post'[i].pc = "advance" /\ post'[i].observed = post[i].observed
          /\ post'[i].answer = post[i].answer /\ post'[i].previous = post[i].previous
          /\ NewDelta(i)' = NewDelta(i)
      BY <1>t, <3>1, OnlyLocals
    <3> QED
      BY <1>s, <2>1, <2>3, <3>2 DEF MovedOn, Fits, Accepted
  <2>4. CASE NewDelta(i) = {} /\ NewBaseline(i) = {}
    <3>1. Answer(i, "SUCCESS")
      BY <1>7, <2>4 DEF ReadDelta
    <3>2. post'[i].pc = "done" /\ post'[i].previous = baseline
      BY <1>t, <2>1, <3>1, OnlyLocals
    <3>3. baseline = {}
      BY <1>t, <2>1, <2>4, ReductionReaches
    <3> QED
      BY <1>s, <2>1, <3>2, <3>3 DEF MovedOn, Fits, Accepted
  <2> QED
    BY <2>2, <2>3, <2>4
<1>8. CASE PutDelta(i)
  <2>1. /\ baseline' = baseline /\ delta' = NewDelta(i) /\ post[i].pc = "event"
    BY <1>8 DEF PutDelta, At
  <2>2. CASE Go(i, "advance")
    <3>1. /\ post'[i].pc = "advance" /\ post'[i].observed = post[i].observed
          /\ post'[i].answer = post[i].answer /\ post'[i].previous = post[i].previous
          /\ NewDelta(i)' = NewDelta(i)
      BY <1>t, <2>2, OnlyLocals
    <3> QED
      BY <1>s, <2>1, <3>1 DEF MovedOn, Fits, Accepted
  <2>3. CASE Answer(i, "DELTA_UPDATE_FAILED")
    BY <1>r, <1>s, <2>1, <2>3 DEF MovedOn
  <2> QED
    BY <1>8, <2>2, <2>3 DEF PutDelta, Stored
<1>9. CASE PutBaseline(i)
  <2>1. /\ baseline' = NewBaseline(i) /\ post[i].pc = "advance"
        /\ post[i].previous = baseline /\ post[i].observed # {}
    BY <1>9 DEF PutBaseline, At, Fits
  <2>2. ASSUME NEW o \in post[i].observed
        PROVE  /\ \A at \in Nat : Reaches(at) => Reaches(at)'
               /\ baseline # {} => Reaches(o.at)'
    BY <1>t, <2>1, ReductionReaches DEF Reaches
  <2>3. \A at \in Nat : Reaches(at) => Reaches(at)'
    BY <2>1, <2>2
  <2>4. CASE Answer(i, "DELTA_UPDATE_FAILED")
    BY <1>r, <2>3, <2>4 DEF MovedOn
  <2>5. CASE Answer(i, "SUCCESS")
    <3>1. /\ post'[i].pc = "done" /\ post'[i].observed = post[i].observed
          /\ post'[i].previous = post[i].previous
      BY <1>t, <2>5, OnlyLocals
    <3>2. \A o \in post'[i].observed : post'[i].previous # {} => Reaches(o.at)'
      BY <2>1, <2>2, <3>1
    <3>3. Accepted(i)'
      BY <3>2 DEF Accepted, Reaches
    <3>4. Fits(i)'
      BY <3>1 DEF Fits
    <3> QED
      BY <2>3, <3>3, <3>4 DEF MovedOn
  <2> QED
    BY <1>9, <2>4, <2>5 DEF PutBaseline, Stored
<1>10. CASE KvFault(i)
  <2>1. Answer(i, "INVALID") \/ Answer(i, "DELTA_UPDATE_FAILED")
    BY <1>10 DEF KvFault
  <2> QED
    BY <1>10, <1>r, <1>s, <2>1 DEF KvFault, kv, MovedOn
<1> QED
  BY <1>1, <1>2, <1>3, <1>4, <1>5, <1>6, <1>7, <1>8, <1>9, <1>10 DEF PostStep

LEMMA SerialInit == Init => SerialInv
<1> SUFFICES ASSUME Init PROVE SerialInv
  OBVIOUS
<1>1. \A i \in Posts : /\ post[i].pc \in {"idle", "done"} /\ post[i].answer = "NONE"
                       /\ post[i].observed = {}
  BY DEF Init
<1> QED
  BY <1>1 DEF SerialInv, OneRuns, Running, Fits, Accepted

LEMMA OverlapStays == ASSUME Next PROVE overlap' = overlap
BY DEF Next, Tick, PostStep, StartPost, Evict, PutUniverse, PutStatus, ReadUniverse, ReadBaseline,
       ReadDelta, PutDelta, PutBaseline, KvFault, ReaderStep, StartReader, ReaderUniverse,
       ReaderStatus

\* The clock and the readers leave posts and what they store alone.
LEMMA PostsMove ==
  ASSUME [Next]_vars
  PROVE  \/ \E i \in Posts : PostStep(i)
         \/ UNCHANGED <<post, baseline, delta, overlap, program>>
BY DEF Next, Tick, ReaderStep, StartReader, ReaderUniverse, ReaderStatus, vars, kv

LEMMA SerialStep == PlaneInv /\ SerialInv /\ [Next]_vars => SerialInv'
<1> SUFFICES ASSUME PlaneInv, SerialInv, [Next]_vars, overlap' = 0 PROVE SerialInv'
  BY DEF SerialInv
<1>1. overlap = 0 /\ TypeOK
  BY OverlapStays DEF vars, PlaneInv
<1>2. OneRuns /\ \A i \in Posts : Fits(i) /\ Accepted(i)
  BY <1>1 DEF SerialInv
<1>3. CASE UNCHANGED <<post, baseline, delta, overlap, program>>
  BY <1>2, <1>3 DEF SerialInv, OneRuns, Running, Fits, Accepted, Reaches, NewDelta
<1>4. ASSUME NEW i \in Posts, PostStep(i) PROVE SerialInv'
  <2>1. \A k \in Posts : k # i => ~Running(k) /\ post'[k] = post[k]
    BY <1>1, <1>2, <1>4, MovesAlone
  <2>2. MovedOn(i)
    BY <1>2, <1>4, PostMovesOn
  <2>3. OneRuns'
    BY <2>1 DEF OneRuns, Running
  <2>4. ASSUME NEW k \in Posts, k # i PROVE Fits(k)' /\ Accepted(k)'
    <3>1. ~Running(k) /\ post'[k] = post[k] /\ Fits(k) /\ Accepted(k)
      BY <1>2, <2>1, <2>4
    <3>2. Fits(k)'
      BY <3>1 DEF Fits, Running
    <3>3. \A o \in post[k].observed : o.at \in Nat
      BY <1>1 DEF TypeOK, PostState, Observation
    <3>4. ASSUME NEW o \in post'[k].observed, o.state # "LIVE_COMPLETE",
                 post'[k].answer = "SUCCESS", post'[k].previous # {}
          PROVE  Reaches(o.at)'
      BY <2>2, <3>1, <3>3, <3>4 DEF Accepted, MovedOn
    <3>5. Accepted(k)'
      BY <3>4 DEF Accepted, Reaches
    <3> QED
      BY <3>2, <3>5
  <2> QED
    BY <2>2, <2>3, <2>4 DEF SerialInv, MovedOn
<1> QED
  BY <1>3, <1>4, PostsMove

LEMMA SerialInvariant == Spec => [](PlaneInv /\ SerialInv)
<1>1. Init => PlaneInv /\ SerialInv
  BY PlaneInit, SerialInit
<1>2. (PlaneInv /\ SerialInv) /\ [Next]_vars => (PlaneInv /\ SerialInv)'
  BY PlaneStep, SerialStep
<1> QED
  BY <1>1, <1>2, PTL DEF Spec

\* While LIVE makes one post at a time, no delta is stored across an interval in which
\* its holdings were not confirmed and that was accepted, whatever fails, is cut off,
\* comes late or is repeated.
THEOREM SerialGapsBlock == Spec => SerialGapBlocksDelta
<1> DEFINE Blocks == overlap = 0 => \A i \in Posts : ~StoresDeltaAcrossGap(i)
<1>1. PlaneInv /\ SerialInv /\ [Next]_vars => [Blocks]_vars
  <2> SUFFICES ASSUME PlaneInv, SerialInv, [Next]_vars, overlap = 0,
                      NEW i \in Posts, StoresDeltaAcrossGap(i)
               PROVE  FALSE
    OBVIOUS
  <2>1. TypeOK /\ OneRuns /\ \A k \in Posts : Fits(k) /\ Accepted(k)
    BY DEF PlaneInv, SerialInv
  <2>2. /\ post[i].pc = "event" /\ delta' # delta /\ post'[i] # post[i]
    BY DEF StoresDeltaAcrossGap, At
  <2>3. PICK b \in post[i].previous, o \in post[i].observed, j \in Posts :
          GapRecorded(j, b.observed, o.at)
    BY DEF StoresDeltaAcrossGap
  <2>4. post[i].previous = baseline /\ NewDelta(i) # {}
    BY <2>1, <2>2 DEF Fits
  <2>5. /\ post[i].observed = {o} /\ baseline = {b} /\ b \in Baseline /\ o \in Observation
    BY <2>1, <2>3, <2>4 DEF TypeOK, PostState, AtMostOne
  <2>6. NewDelta(i) = NextDelta({b}, o)
    BY <2>4, <2>5 DEF NewDelta
  <2>7. b.eligible
    BY <2>4, <2>6 DEF NextDelta, Continues
  <2>8. b.last_at = b.observed
    BY <2>5, <2>7 DEF PlaneInv, BaselineSound, Sound
  <2>9. PICK g \in post[j].observed :
          g.state # "LIVE_COMPLETE" /\ b.observed < g.at /\ g.at < o.at
    BY <2>3 DEF GapRecorded
  <2>10. Reaches(g.at)
    BY <2>1, <2>3, <2>9 DEF GapRecorded, Accepted
  <2>11. g.at <= b.last_at
    BY <2>5, <2>10 DEF Reaches
  <2>12. g.at \in Nat /\ b.last_at \in Nat
    BY <2>1, <2>5, <2>9 DEF TypeOK, PostState, Observation, Baseline
  <2> QED
    BY <2>8, <2>9, <2>11, <2>12
<1> QED
  BY <1>1, SerialInvariant, PTL DEF Spec, SerialGapBlocksDelta

\* While LIVE makes one post at a time, the baseline moves from one confirmed universe
\* to the next only once their difference is stored.
THEOREM SerialLosesNothing == Spec => SerialLosesNoEvent
<1> DEFINE Moves ==
      overlap = 0 => \A b \in baseline, c \in baseline' :
        (b.eligible /\ c.eligible /\ b.hash # c.hash /\ b.last_at < c.last_at) =>
           \E e \in delta' : e.previous = b.hash /\ e.current = c.hash /\ e.at = c.last_at
<1>1. PlaneInv /\ SerialInv /\ [Next]_vars => [Moves]_vars
  <2> SUFFICES ASSUME PlaneInv, SerialInv, [Next]_vars, overlap = 0,
                      NEW b \in baseline, NEW c \in baseline',
                      b.eligible, c.eligible, b.hash # c.hash, b.last_at < c.last_at
               PROVE  \E e \in delta' : e.previous = b.hash /\ e.current = c.hash /\ e.at = c.last_at
    OBVIOUS
  <2>1. TypeOK /\ OneRuns /\ \A k \in Posts : Fits(k)
    BY DEF PlaneInv, SerialInv
  <2>2. baseline = {b} /\ b \in Baseline
    BY <2>1 DEF TypeOK, AtMostOne
  <2>3. baseline' # baseline
    BY <2>2
  <2>4. PICK i \in Posts : PutBaseline(i)
    <3>1. PICK i \in Posts : PostStep(i)
      BY <2>3, PostsMove
    <3>2. PutBaseline(i)
      BY <2>3, <3>1 DEF PostStep, StartPost, Evict, PutUniverse, PutStatus, ReadUniverse,
           ReadBaseline, ReadDelta, PutDelta, KvFault, kv
    <3> QED
      BY <3>2
  <2>5. /\ baseline' = NewBaseline(i) /\ delta' = delta /\ post[i].pc = "advance"
    BY <2>4 DEF PutBaseline, At
  <2>6. /\ post[i].previous = baseline /\ post[i].observed # {}
        /\ NewDelta(i) = {} \/ delta = NewDelta(i)
    BY <2>1, <2>5 DEF Fits
  <2>7. PICK o \in Observation : post[i].observed = {o}
    BY <2>1, <2>6 DEF TypeOK, PostState, AtMostOne
  <2>8. baseline' = NextBaseline({b}, o) /\ NewDelta(i) = NextDelta({b}, o)
    BY <2>2, <2>5, <2>6, <2>7 DEF NewBaseline, NewDelta
  <2>9. ~Older(b, o)
    BY <2>2, <2>3, <2>8 DEF NextBaseline
  <2>10. o.state = "LIVE_COMPLETE"
    <3> SUFFICES ASSUME o.state # "LIVE_COMPLETE" PROVE FALSE
      OBVIOUS
    <3>1. c = BrokenBaseline(b, o)
      BY <2>8, <2>9 DEF NextBaseline
    <3> QED
      BY <2>2, <3>1 DEF BrokenBaseline, Baseline
  <2>11. c = CompleteBaseline(o)
    BY <2>8, <2>9, <2>10 DEF NextBaseline
  <2>12. c.hash = o.hash /\ c.last_at = o.at
    BY <2>11 DEF CompleteBaseline
  <2>13. ~Conflict(b, o)
    BY <2>2, <2>7, <2>12 DEF Conflict, Baseline, Observation
  <2>14. Difference(b, o) \in NewDelta(i)
    BY <2>8, <2>9, <2>10, <2>12, <2>13 DEF NextDelta, Continues
  <2>15. Difference(b, o) \in delta'
    BY <2>5, <2>6, <2>14
  <2> QED
    BY <2>12, <2>15 DEF Difference
<1> QED
  BY <1>1, SerialInvariant, PTL DEF Spec, SerialLosesNoEvent

-----------------------------------------------------------------------------
(* Readers.                                                                *)

\* A reader that is not done has been told nothing.
ReaderInv ==
  /\ TypeOK /\ ServedIsConfirmed
  /\ \A r \in Readers : reader[r].pc # "done" =>
       reader[r].served = {} /\ reader[r].answer = "NONE"

ServedTo(r) ==
  /\ reader[r].served # {} =>
       \E u \in reader[r].universe, s \in reader[r].status :
         /\ reader[r].served = {u.codes}
         /\ s.state # "PORTFOLIO_UNKNOWN" /\ Within(s.confirmed, ValidAge, reader[r].now)
  /\ reader[r].answer = "LIVE_COMPLETE" =>
       \E u \in reader[r].universe, s \in reader[r].status :
         /\ u.codes = s.codes /\ u.manifest = s.manifest
         /\ s.state = "LIVE_COMPLETE" /\ Within(s.confirmed, CompleteAge, reader[r].now)

LEMMA FinishKeeps ==
  ASSUME TypeOK, NEW r \in Readers, NEW seen, NEW answer, NEW served,
         Finish(r, seen, answer, served)
  PROVE  /\ reader'[r].universe = reader[r].universe /\ reader'[r].now = reader[r].now
         /\ reader'[r].status = seen /\ reader'[r].answer = answer
         /\ reader'[r].served = served /\ reader'[r].pc = "done"
BY DEF TypeOK, ReaderState, Finish

LEMMA PresentServes ==
  ASSUME TypeOK, NEW r \in Readers, NEW seen, seen \subseteq Publication, Present(r, seen)
  PROVE  ServedTo(r)' /\ reader'[r].pc = "done"
<1>1. ASSUME NEW answer, answer # "LIVE_COMPLETE", Finish(r, seen, answer, {})
      PROVE  ServedTo(r)' /\ reader'[r].pc = "done"
  BY <1>1, FinishKeeps DEF ServedTo
<1>2. ASSUME NEW u \in reader[r].universe, NEW s \in seen, NEW served,
             NEW state, state = PresentedPair(u, s, reader[r].now),
             Finish(r, seen, state, served),
             served # {} => served = {u.codes} /\ state # "PORTFOLIO_UNKNOWN"
      PROVE  ServedTo(r)' /\ reader'[r].pc = "done"
  <2>1. reader[r].now \in Nat
    BY DEF TypeOK, ReaderState
  <2>2. /\ state = "LIVE_COMPLETE" =>
             /\ u.codes = s.codes /\ u.manifest = s.manifest
             /\ s.state = "LIVE_COMPLETE" /\ Within(s.confirmed, CompleteAge, reader[r].now)
        /\ state # "PORTFOLIO_UNKNOWN" =>
             s.state # "PORTFOLIO_UNKNOWN" /\ Within(s.confirmed, ValidAge, reader[r].now)
    BY <1>2, <2>1, PresentedMeans DEF SamePublication
  <2>3. /\ reader'[r].universe = reader[r].universe /\ reader'[r].now = reader[r].now
        /\ reader'[r].status = seen /\ reader'[r].answer = state
        /\ reader'[r].served = served /\ reader'[r].pc = "done"
    BY <1>2, FinishKeeps
  <2> QED BY <1>2, <2>2, <2>3 DEF ServedTo, Within
<1>3. ASSUME NEW u \in reader[r].universe, NEW s \in seen,
             NEW state, state = PresentedPair(u, s, reader[r].now),
             state # "PORTFOLIO_UNKNOWN", Overlay(r, seen, state, u)
      PROVE  ServedTo(r)' /\ reader'[r].pc = "done"
  <2>1. PICK quoted \in SUBSET Codes :
          IF u.codes \subseteq quoted THEN Finish(r, seen, state, {quoted \cap u.codes})
                                      ELSE Finish(r, seen, "FAILED", {})
    BY <1>3 DEF Overlay
  <2>2. CASE u.codes \subseteq quoted
    <3>1. quoted \cap u.codes = u.codes
      BY <2>2
    <3> QED BY <1>2, <1>3, <2>1, <2>2, <3>1
  <2>3. CASE ~(u.codes \subseteq quoted)
    BY <1>1, <2>1, <2>3
  <2> QED BY <2>2, <2>3
<1> QED BY <1>1, <1>2, <1>3 DEF Present

LEMMA ReaderStepServes ==
  ASSUME ReaderInv, TypeOK', NEW r \in Readers, ReaderStep(r)
  PROVE  ReaderInv'
<1>1. /\ \A q \in Readers : ServedTo(q)
      /\ reader[r].pc # "done" => reader[r].served = {} /\ reader[r].answer = "NONE"
      /\ TypeOK
  BY DEF ReaderInv, ServedIsConfirmed, ServedTo
<1>2. \A q \in Readers : q # r => reader'[q] = reader[q]
  BY <1>1 DEF ReaderStep, StartReader, ReaderUniverse, ReaderStatus, Present, Overlay, Finish, TypeOK
<1>3. /\ ServedTo(r)'
      /\ reader'[r].pc # "done" => reader'[r].served = {} /\ reader'[r].answer = "NONE"
  <2>1. CASE StartReader(r)
    BY <1>1, <2>1 DEF StartReader, ServedTo, TypeOK, ReaderState
  <2>2. CASE ReaderUniverse(r)
    BY <1>1, <2>2 DEF ReaderUniverse, ServedTo, TypeOK, ReaderState
  <2>3. CASE ReaderStatus(r)
    <3>1. Present(r, status) \/ Present(r, {})
      BY <2>3 DEF ReaderStatus
    <3> QED BY <1>1, <3>1, PresentServes DEF TypeOK
  <2> QED BY <2>1, <2>2, <2>3 DEF ReaderStep
<1>4. \A q \in Readers : ServedTo(q)'
  BY <1>1, <1>2, <1>3 DEF ServedTo
<1>5. ServedIsConfirmed'
  BY <1>4 DEF ServedIsConfirmed, ServedTo
<1> QED BY <1>2, <1>3, <1>5 DEF ReaderInv

LEMMA ReaderInit == Init => ReaderInv
<1> SUFFICES ASSUME Init PROVE ReaderInv
  OBVIOUS
<1>1. \A r \in Readers : reader[r].served = {} /\ reader[r].answer = "NONE"
  BY DEF Init
<1>2. ServedIsConfirmed
  BY <1>1 DEF ServedIsConfirmed
<1> QED BY <1>1, <1>2, InitType DEF ReaderInv

LEMMA ReaderStepInv == ReaderInv /\ [Next]_vars => ReaderInv'
<1> SUFFICES ASSUME ReaderInv, [Next]_vars PROVE ReaderInv'
  OBVIOUS
<1>1. TypeOK'
  BY StepType DEF ReaderInv
<1>2. CASE \E r \in Readers : ReaderStep(r)
  BY <1>1, <1>2, ReaderStepServes
<1>3. CASE reader' = reader
  BY <1>1, <1>3 DEF ReaderInv, ServedIsConfirmed, Within
<1>4. CASE \E i \in Posts : PostStep(i)
  BY <1>3, <1>4 DEF PostStep, StartPost, Evict, PutUniverse, PutStatus, ReadUniverse, ReadBaseline,
                    ReadDelta, PutDelta, PutBaseline, KvFault
<1> QED BY <1>2, <1>3, <1>4 DEF Next, Tick, vars

\* What a reader is served as held is one whole universe that was confirmed in time,
\* and LIVE_COMPLETE is said of one publication only.
THEOREM ReadersAreServedConfirmed == Spec => []ServedIsConfirmed
<1>1. ReaderInv => ServedIsConfirmed
  BY DEF ReaderInv
<1>2. Spec => []ReaderInv
  BY ReaderInit, ReaderStepInv, PTL DEF Spec
<1> QED BY <1>1, <1>2, PTL
=============================================================================
