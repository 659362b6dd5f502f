------------------------- MODULE QuoteServiceProofs -------------------------
(***************************************************************************)
(* The worker implements each of its parts, so that what is proved of a    *)
(* part holds of the worker; a listing of its table is complete, and what  *)
(* the quotes endpoint answers is well formed, exact and never the static  *)
(* catalogue in silence.                                                   *)
(***************************************************************************)
EXTENDS QuoteService, QuoteBridgeProofs, PortfolioPlaneProofs, WellFoundedInduction

\* What a caller does leaves the parts as they are.
LEMMA CallerLeavesParts ==
  ASSUME NEW c \in Callers, CallerStep(c)
  PROVE  UNCHANGED <<vars, bridgeState, kvState>>
<1>1. ASSUME NEW locals, Caller(c, locals)
      PROVE  UNCHANGED <<vars, bridgeState, kvState>>
  BY <1>1 DEF Caller
<1>2. CASE StartCaller(c)
  BY <1>1, <1>2 DEF StartCaller
<1>3. CASE CallerUniverse(c)
  BY <1>1, <1>3 DEF CallerUniverse, Respond
<1>4. CASE CheckStatus(c)
  BY <1>1, <1>4 DEF CheckStatus
<1>5. CASE CallerQuotes(c)
  <2>1. PICK wire \in Wires :
          LET quoted == UNION {FromCatalog(catalog, wire, clock) : catalog \in catalogs.d1}
          IN IF quoted = {} THEN Respond(c, "FAILED", {})
             ELSE Caller(c, [caller[c] EXCEPT !.pc = "universe again", !.second.now = clock,
                                              !.quoted = quoted])
    BY <1>5 DEF CallerQuotes
  <2> QED
    BY <1>1, <2>1 DEF Respond
<1>6. CASE ServeStatus(c)
  BY <1>1, <1>6 DEF ServeStatus, Serve
<1> QED
  BY <1>2, <1>3, <1>4, <1>5, <1>6 DEF CallerStep

\* A step of the worker is the clock's, one part's, or a caller's.
LEMMA StepOfOnePart ==
  ASSUME WorkerNext
  PROVE  \/ WorkerTick
         \/ Plane /\ ((\E i \in Posts : PostStep(i)) \/ (\E r \in Readers : ReaderStep(r)))
         \/ Bridge /\ BridgeStep
         \/ Table /\ KvStep
         \/ UNCHANGED <<vars, bridgeState, kvState>>
<1>1. ASSUME NEW i \in Posts,
             \/ StartPost(i) \/ Evict(i) \/ PutUniverse(i) \/ PutStatus(i)
             \/ ReadUniverse(i) \/ ReadBaseline(i) \/ ReadDelta(i)
             \/ PutDelta(i) \/ PutBaseline(i) \/ KvFault(i)
      PROVE  PostStep(i)
  BY <1>1 DEF PostStep
<1>2. ASSUME NEW r \in Readers, StartReader(r) \/ ReaderUniverse(r) \/ ReaderStatus(r)
      PROVE  ReaderStep(r)
  BY <1>2 DEF ReaderStep
<1>3. ASSUME NEW r \in Runs,
             StartRun(r) \/ ReadIssue(r) \/ FetchQuotes(r) \/ PatchIssue(r) \/ LoseRun(r)
      PROVE  BridgeStep
  BY <1>3 DEF BridgeStep
<1> QED
  BY <1>1, <1>2, <1>3, CallerLeavesParts DEF WorkerNext, KvStep

\* Only the clock's step moves the clock.
LEMMA PartsKeepTheClock ==
  /\ (\E i \in Posts : PostStep(i)) => UNCHANGED clock
  /\ (\E r \in Readers : ReaderStep(r)) => UNCHANGED clock
  /\ BridgeStep => UNCHANGED clock
  /\ KvStep => UNCHANGED clock
<1>1. ASSUME NEW i \in Posts, PostStep(i) PROVE UNCHANGED clock
  BY <1>1 DEF PostStep, StartPost, Evict, PutUniverse, PutStatus, ReadUniverse, ReadBaseline,
              ReadDelta, PutDelta, PutBaseline, KvFault
<1>2. ASSUME NEW r \in Readers, ReaderStep(r) PROVE UNCHANGED clock
  BY <1>2 DEF ReaderStep, StartReader, ReaderUniverse, ReaderStatus
<1>3. BridgeStep => UNCHANGED clock
  BY DEF BridgeStep, StartRun, ReadIssue, FetchQuotes, PatchIssue, LoseRun, Step
<1>4. KvStep => UNCHANGED clock
  BY DEF KvStep, KvPut, KvDelete, StartListing, ListPage
<1> QED
  BY <1>1, <1>2, <1>3, <1>4

\* Every step of the worker is a step of LIVE's posts and readers, or none of theirs:
\* the portfolio plane's handlers in the worker do what PortfolioPlane says.
THEOREM WorkerRefinesPlane == WorkerSpec => Spec
<1>1. WorkerInit => Init
  BY DEF WorkerInit
<1>2. ASSUME [WorkerNext]_workerVars PROVE [Next]_vars
  <2>1. WorkerTick => Tick
    BY DEF WorkerTick, KvTick, Tick, kv
  <2>2. Bridge /\ BridgeStep => UNCHANGED vars
    BY PartsKeepTheClock DEF Bridge, vars, kv
  <2>3. Table /\ KvStep => UNCHANGED vars
    BY PartsKeepTheClock DEF Table, vars, kv
  <2> QED
    BY <1>2, <2>1, <2>2, <2>3, StepOfOnePart DEF Next, workerVars
<1> QED
  BY <1>1, <1>2, PTL DEF WorkerSpec, Spec

\* Every step of the worker is a step of the quote bridge, or none of its: cron and
\* manual runs beside the worker's other requests do what QuoteBridge says.
THEOREM WorkerRefinesBridge == WorkerSpec => BridgeSpec
<1>1. WorkerInit => BridgeInit
  BY WorkerAssumption DEF WorkerInit, Init, BridgeInit
<1>2. ASSUME [WorkerNext]_workerVars PROVE [BridgeNext]_bridgeVars
  <2>1. WorkerTick => BridgeTick
    BY DEF WorkerTick, KvTick, BridgeTick
  <2>2. Plane /\ ((\E i \in Posts : PostStep(i)) \/ (\E r \in Readers : ReaderStep(r)))
          => UNCHANGED bridgeVars
    BY PartsKeepTheClock DEF Plane, bridgeVars
  <2>3. Table /\ KvStep => UNCHANGED bridgeVars
    BY PartsKeepTheClock DEF Table, bridgeVars
  <2>4. UNCHANGED <<vars, bridgeState, kvState>> => UNCHANGED bridgeVars
    BY DEF vars, bridgeVars
  <2>5. UNCHANGED workerVars => UNCHANGED bridgeVars
    BY DEF workerVars, vars, bridgeVars
  <2> QED
    BY <1>2, <2>1, <2>2, <2>3, <2>4, <2>5, StepOfOnePart DEF BridgeNext
<1> QED
  BY <1>1, <1>2, PTL DEF WorkerSpec, BridgeSpec

\* Every step of the worker is a step of the D1 table, or none of its: the listing and
\* those who change the table meanwhile do what D1KeyValue says.
THEOREM WorkerRefinesTable == WorkerSpec => KvSpec
<1>1. WorkerInit => KvInit
  BY WorkerAssumption DEF WorkerInit, Init, KvInit
<1>2. ASSUME [WorkerNext]_workerVars PROVE [KvNext]_kvVars
  <2>1. WorkerTick => KvTick
    BY DEF WorkerTick
  <2>2. Plane /\ ((\E i \in Posts : PostStep(i)) \/ (\E r \in Readers : ReaderStep(r)))
          => UNCHANGED kvVars
    BY PartsKeepTheClock DEF Plane, kvVars
  <2>3. Bridge /\ BridgeStep => UNCHANGED kvVars
    BY PartsKeepTheClock DEF Bridge, kvVars
  <2>4. UNCHANGED <<vars, bridgeState, kvState>> => UNCHANGED kvVars
    BY DEF vars, kvVars
  <2>5. UNCHANGED workerVars => UNCHANGED kvVars
    BY DEF workerVars, vars, kvVars
  <2> QED
    BY <1>2, <2>1, <2>2, <2>3, <2>4, <2>5, StepOfOnePart DEF KvNext
<1> QED
  BY <1>1, <1>2, PTL DEF WorkerSpec, KvSpec

\* The same of the whole worker, as it implements the bridge.
THEOREM WorkerNeverMixes == WorkerSpec => []ReportPaired
BY WorkerRefinesBridge, BridgeNeverMixes, PTL

-----------------------------------------------------------------------------
(* The two looks of a caller.                                              *)

CallerFields == {"pc", "first", "second", "quoted", "answer", "served"}

\* A caller that is past the check has seen the overlay apply.
Checked(x) ==
  /\ DOMAIN x = CallerFields
  /\ x.pc \in {"quotes", "universe again", "status again"} => Applies(x.first)

CallersInv ==
  /\ misses \in Nat
  /\ caller = [c \in Callers |-> caller[c]]
  /\ \A c \in Callers : Checked(caller[c])

\* A caller's step keeps the others, and the invariant if its new locals are checked.
LEMMA CallerMoves ==
  ASSUME CallersInv, NEW c \in Callers, NEW x, Caller(c, x), Checked(x), misses' \in Nat
  PROVE  /\ CallersInv'
         /\ \A d \in Callers : caller'[d] = IF d = c THEN x ELSE caller[d]
<1>1. caller' = [d \in Callers |-> IF d = c THEN x ELSE caller[d]]
  BY DEF Caller, CallersInv
<1> QED
  BY <1>1 DEF CallersInv

\* What is to be shown of each step of a caller.
CallerGood(c) ==
  /\ CallersInv'
  /\ \A d \in Callers : caller'[d].answer = "STATIC" /\ caller[d].answer # "STATIC" =>
       \/ caller[d].first # [caller[d].second EXCEPT !.status = status]
       \/ misses' > misses

LEMMA CallerStepGood ==
  ASSUME CallersInv, NEW c \in Callers, CallerStep(c)
  PROVE  CallerGood(c)
<1>1. Checked(caller[c]) /\ misses \in Nat
  BY DEF CallersInv
<1>2. Miss => misses' \in Nat /\ misses' > misses
  BY <1>1 DEF Miss
<1>3. ASSUME NEW x, Caller(c, x), Checked(x), misses' \in Nat,
             x.answer = "STATIC" => x.answer = caller[c].answer
      PROVE  CallerGood(c)
  BY <1>3, CallerMoves DEF CallerGood
<1>4. ASSUME NEW served, NEW answer \in {"FAILED", "REFUSED"}, Respond(c, answer, served),
             misses' \in Nat
      PROVE  CallerGood(c)
  <2> DEFINE x == [caller[c] EXCEPT !.pc = "done", !.answer = answer, !.served = served]
  <2>1. Checked(x) /\ x.answer = answer
    BY <1>1 DEF Checked, CallerFields
  <2>2. Caller(c, x)
    BY <1>4 DEF Respond
  <2> HIDE DEF x
  <2> QED
    BY <1>3, <1>4, <2>1, <2>2
<1>5. CASE StartCaller(c)
  <2> DEFINE x == [caller[c] EXCEPT !.pc = "universe", !.first.now = clock]
  <2>1. Checked(x) /\ x.answer = caller[c].answer
    BY <1>1 DEF Checked, CallerFields
  <2>2. Caller(c, x) /\ misses' \in Nat
    BY <1>1, <1>5 DEF StartCaller
  <2> HIDE DEF x
  <2> QED
    BY <1>3, <2>1, <2>2
<1>6. CASE CallerUniverse(c)
  <2>1. CASE /\ caller[c].pc = "universe"
             /\ Caller(c, [caller[c] EXCEPT !.pc = "status", !.first.universe = universe])
             /\ UNCHANGED misses
    <3> DEFINE x == [caller[c] EXCEPT !.pc = "status", !.first.universe = universe]
    <3>1. Checked(x) /\ x.answer = caller[c].answer
      BY <1>1 DEF Checked, CallerFields
    <3> HIDE DEF x
    <3> QED
      BY <1>1, <1>3, <2>1, <3>1 DEF x
  <2>2. CASE /\ caller[c].pc = "universe again"
             /\ Caller(c, [caller[c] EXCEPT !.pc = "status again", !.second.universe = universe])
             /\ UNCHANGED misses
    <3> DEFINE x == [caller[c] EXCEPT !.pc = "status again", !.second.universe = universe]
    <3>1. x.first = caller[c].first /\ DOMAIN x = CallerFields /\ x.answer = caller[c].answer
      BY <1>1 DEF Checked, CallerFields
    <3>2. Checked(x)
      BY <1>1, <2>2, <3>1 DEF Checked
    <3> HIDE DEF x
    <3> QED
      BY <1>1, <1>3, <2>2, <3>1, <3>2 DEF x
  <2>3. CASE Miss /\ Respond(c, "FAILED", {})
    BY <1>2, <1>4, <2>3
  <2> QED
    BY <1>6, <2>1, <2>2, <2>3 DEF CallerUniverse
<1>7. CASE CheckStatus(c)
  <2>1. PICK seen : /\ StatusSeen(seen)
                    /\ LET view == [caller[c].first EXCEPT !.status = seen]
                       IN Caller(c, [caller[c] EXCEPT
                            !.first = view, !.pc = IF Applies(view) THEN "quotes" ELSE "done",
                            !.answer = IF Applies(view) THEN @ ELSE "REFUSED"])
    BY <1>7 DEF CheckStatus
  <2> DEFINE view == [caller[c].first EXCEPT !.status = seen]
             x == [caller[c] EXCEPT
                     !.first = view, !.pc = IF Applies(view) THEN "quotes" ELSE "done",
                     !.answer = IF Applies(view) THEN @ ELSE "REFUSED"]
  <2>2. Caller(c, x)
    BY <2>1
  <2>3. misses' \in Nat
    BY <1>1, <1>2, <2>1 DEF StatusSeen
  <2> HIDE DEF view
  <2>4. /\ DOMAIN x = CallerFields /\ x.first = view
        /\ x.pc = IF Applies(view) THEN "quotes" ELSE "done"
        /\ x.answer \in {caller[c].answer, "REFUSED"}
    BY <1>1 DEF Checked, CallerFields
  <2> HIDE DEF x
  <2>5. Checked(x) /\ (x.answer = "STATIC" => x.answer = caller[c].answer)
    BY <2>4 DEF Checked
  <2> QED
    BY <1>3, <2>2, <2>3, <2>5
<1>8. CASE CallerQuotes(c)
  <2>1. misses' \in Nat
    BY <1>1, <1>8 DEF CallerQuotes
  <2>2. PICK quoted : \/ Respond(c, "FAILED", {})
                      \/ Caller(c, [caller[c] EXCEPT !.pc = "universe again", !.second.now = clock,
                                                    !.quoted = quoted])
    BY <1>8 DEF CallerQuotes
  <2> DEFINE x == [caller[c] EXCEPT !.pc = "universe again", !.second.now = clock, !.quoted = quoted]
  <2>3. DOMAIN x = CallerFields /\ x.first = caller[c].first /\ x.answer = caller[c].answer
    BY <1>1 DEF Checked, CallerFields
  <2>4. Checked(x)
    BY <1>1, <1>8, <2>3 DEF Checked, CallerQuotes
  <2>5. Respond(c, "FAILED", {}) \/ Caller(c, x)
    BY <2>2
  <2> HIDE DEF x
  <2> QED
    BY <1>3, <1>4, <2>1, <2>3, <2>4, <2>5
<1>9. CASE ServeStatus(c)
  <2>1. PICK seen : StatusSeen(seen) /\ Serve(c, [caller[c].second EXCEPT !.status = seen])
    BY <1>9 DEF ServeStatus
  <2> DEFINE view == [caller[c].second EXCEPT !.status = seen]
             overlays(wire) == UNION {Overlays(c, u, wire) : u \in view.universe}
             answer(wire) == CASE ~Applies(view) -> "STATIC"
                               [] Applies(view) /\ overlays(wire) # {} -> "LIVE"
                               [] Applies(view) /\ overlays(wire) = {} -> "FAILED"
             x(wire) == [caller[c] EXCEPT
                           !.pc = "done", !.second = view,
                           !.served = IF ~Applies(view) THEN caller[c].quoted ELSE overlays(wire),
                           !.answer = answer(wire)]
  <2>2. PICK wire \in Wires : Caller(c, x(wire))
    BY <2>1 DEF Serve
  <2>3. misses' \in Nat
    BY <1>1, <1>2, <2>1 DEF StatusSeen
  <2>4. answer(wire) = "STATIC" => ~Applies(view)
    BY Zenon
  <2> HIDE DEF overlays, answer
  <2>5. Checked(x(wire)) /\ x(wire).answer = answer(wire)
    BY <1>1 DEF Checked, CallerFields
  <2> HIDE DEF x
  <2>6. Applies(caller[c].first)
    BY <1>1, <1>9 DEF Checked, ServeStatus
  <2>7. ASSUME answer(wire) = "STATIC"
        PROVE  \/ caller[c].first # [caller[c].second EXCEPT !.status = status]
               \/ misses' > misses
    <3>1. CASE seen = status
      <4>1. ~Applies([caller[c].second EXCEPT !.status = status])
        BY <2>4, <2>7, <3>1
      <4> QED
        BY <2>6, <4>1
    <3>2. CASE Miss
      BY <1>2, <3>2
    <3> QED
      BY <2>1, <3>1, <3>2 DEF StatusSeen
  <2>8. /\ CallersInv'
        /\ \A d \in Callers : caller'[d] = IF d = c THEN x(wire) ELSE caller[d]
    BY <2>2, <2>3, <2>5, CallerMoves
  <2> HIDE DEF view
  <2> QED
    BY <2>5, <2>7, <2>8 DEF CallerGood
<1> QED
  BY <1>5, <1>6, <1>7, <1>8, <1>9 DEF CallerStep

\* The catalogue without holdings is served only if, since the first look, the clock
\* moved, LIVE posted, or reading the status fails now.
StaticOnlyAfterChange ==
  [][\A c \in Callers : caller'[c].answer = "STATIC" /\ caller[c].answer # "STATIC" =>
       \/ caller[c].first # [caller[c].second EXCEPT !.status = status]
       \/ misses' > misses]_workerVars

\* UnknownIsRefused does not hold.  It fails in no other way than by a change between the
\* endpoint's two looks, for any callers, posts and answers of the provider: while what
\* it checked still stands, the dynamic endpoint does not fall back on the catalogue.
THEOREM StaticNeedsChange == WorkerSpec => StaticOnlyAfterChange
<1> DEFINE Good == \A c \in Callers : caller'[c].answer = "STATIC" /\ caller[c].answer # "STATIC" =>
                     \/ caller[c].first # [caller[c].second EXCEPT !.status = status]
                     \/ misses' > misses
<1>1. ASSUME WorkerInit PROVE CallersInv
  <2>1. PICK w \in WorkerScenes :
          /\ misses = 0
          /\ caller = [c \in Callers |-> [pc |-> IF c \in w.callers THEN "idle" ELSE "done",
                                          first |-> NoView, second |-> NoView, quoted |-> {},
                                          answer |-> "NONE", served |-> {}]]
    BY <1>1 DEF WorkerInit
  <2>2. ASSUME NEW c \in Callers PROVE Checked(caller[c])
    <3>1. caller[c] = [pc |-> IF c \in w.callers THEN "idle" ELSE "done",
                       first |-> NoView, second |-> NoView, quoted |-> {},
                       answer |-> "NONE", served |-> {}]
      BY <2>1
    <3> QED
      BY <3>1 DEF Checked, CallerFields
  <2> QED
    BY <2>1, <2>2 DEF CallersInv
<1>2. ASSUME CallersInv, [WorkerNext]_workerVars PROVE CallersInv' /\ Good
  <2>1. CASE \E c \in Callers : CallerStep(c)
    BY <1>2, <2>1, CallerStepGood DEF CallerGood
  <2>2. CASE UNCHANGED callers
    BY <1>2, <2>2 DEF callers, CallersInv
  <2>3. WorkerTick \/ Plane \/ Bridge \/ Table => UNCHANGED callers
    BY DEF WorkerTick, Plane, Bridge, Table
  <2> QED
    BY <1>2, <2>1, <2>2, <2>3 DEF WorkerNext, workerVars
<1>3. WorkerSpec => []CallersInv
  BY <1>1, <1>2, PTL DEF WorkerSpec
<1>4. CallersInv /\ [WorkerNext]_workerVars => [Good]_workerVars
  BY <1>2
<1> QED
  BY <1>3, <1>4, PTL DEF WorkerSpec, StaticOnlyAfterChange

-----------------------------------------------------------------------------
(* The table of the D1 database and its listing.                           *)

\* A set of numbers that is not empty has a least.
LEMMA LeastElement ==
  ASSUME NEW S, S \subseteq Nat, S # {}
  PROVE  \E m \in S : \A n \in S : m <= n
<1>1. IsWellFoundedOn(OpToRel(<, Nat), Nat)
  BY NatLessThanWellFounded
<1>2. PICK m \in S : \A n \in S : ~(<<n, m>> \in OpToRel(<, Nat))
  BY <1>1, WFMin
<1>3. \A n \in S : ~(n < m)
  BY <1>2 DEF OpToRel
<1> QED
  BY <1>3

\* How many of the keys come before one.
Place(key, keys) == Cardinality({k \in keys : k < key})

LEMMA PlaceIs ==
  ASSUME NEW S, IsFiniteSet(S), NEW key
  PROVE  /\ Place(key, S) \in Nat /\ Place(key, S) = Cardinality({k \in S : k < key})
         /\ IsFiniteSet({k \in S : k < key}) /\ Cardinality({k \in S : k < key}) \in Nat
<1>1. {k \in S : k < key} \in SUBSET S
  OBVIOUS
<1> QED
  BY <1>1, FS_Subset, FS_CardinalityType DEF Place

LEMMA PlaceGrows ==
  ASSUME NEW S, IsFiniteSet(S), NEW T, IsFiniteSet(T), NEW key,
         {k \in S : k < key} \subseteq {k \in T : k < key}
  PROVE  Place(key, S) <= Place(key, T)
<1>1. {k \in S : k < key} \in SUBSET {k \in T : k < key}
  OBVIOUS
<1> QED
  BY <1>1, PlaceIs, FS_Subset DEF Place

\* Keys come in the order of their places.
LEMMA PlaceOrders ==
  ASSUME NEW S, IsFiniteSet(S), S \subseteq Nat, NEW j \in S, NEW k \in S, j < k
  PROVE  Place(j, S) < Place(k, S)
<1> DEFINE below == {i \in S : i < j}
           upto == {i \in S : i < k}
<1>1. IsFiniteSet(below) /\ IsFiniteSet(upto) /\ Cardinality(below) \in Nat /\ Cardinality(upto) \in Nat
  BY PlaceIs
<1>2. below \cup {j} \in SUBSET upto /\ j \notin below
  <2>1. j \in Nat /\ k \in Nat /\ ~(j < j)
    OBVIOUS
  <2>2. ASSUME NEW i \in below PROVE i \in upto
    <3>1. i \in Nat /\ i \in S /\ i < j
      OBVIOUS
    <3> QED
      BY <2>1, <3>1
  <2> QED
    BY <2>1, <2>2
<1> HIDE DEF below, upto
<1>3. Cardinality(below \cup {j}) = Cardinality(below) + 1
  BY <1>1, <1>2, FS_AddElement
<1>4. Cardinality(below \cup {j}) <= Cardinality(upto)
  BY <1>1, <1>2, FS_Subset
<1>5. Cardinality(below) < Cardinality(upto)
  BY <1>1, <1>3, <1>4
<1> QED
  BY <1>5 DEF Place, below, upto

\* A finite set of keys that is not empty has a last.
LEMMA LastKey ==
  ASSUME NEW S, IsFiniteSet(S), S \subseteq Nat, S # {}
  PROVE  \E m \in S : \A n \in S : n <= m
<1> DEFINE After(m) == {n \in S : m < n}
           Left == {Cardinality(After(m)) : m \in S}
<1>1. ASSUME NEW m \in S PROVE IsFiniteSet(After(m)) /\ Cardinality(After(m)) \in Nat
  <2>1. After(m) \in SUBSET S
    OBVIOUS
  <2> QED
    BY <2>1, FS_Subset, FS_CardinalityType
<1>2. Left \subseteq Nat /\ Left # {}
  BY <1>1
<1> HIDE DEF Left
<1>3. PICK x \in Left : \A y \in Left : x <= y
  BY <1>2, LeastElement
<1>4. PICK m \in S : x = Cardinality(After(m))
  BY DEF Left
<1>5. ASSUME NEW n \in S, ~(n <= m) PROVE FALSE
  <2>1. After(n) \cup {n} \in SUBSET After(m) /\ n \notin After(n)
    <3>1. n \in Nat /\ m \in Nat /\ ~(n < n) /\ m < n
      BY <1>5
    <3>2. ASSUME NEW i \in After(n) PROVE i \in After(m)
      <4>1. i \in Nat /\ i \in S /\ n < i
        OBVIOUS
      <4> QED
        BY <3>1, <4>1
    <3> QED
      BY <3>1, <3>2
  <2>2. IsFiniteSet(After(n)) /\ IsFiniteSet(After(m)) /\ Cardinality(After(n)) \in Nat /\ Cardinality(After(m)) \in Nat
    BY <1>1
  <2>3. Cardinality(After(m)) <= Cardinality(After(n))
    BY <1>3, <1>4 DEF Left
  <2> HIDE DEF After
  <2>4. Cardinality(After(n) \cup {n}) = Cardinality(After(n)) + 1
    BY <2>1, <2>2, FS_AddElement
  <2>5. Cardinality(After(n) \cup {n}) <= Cardinality(After(m))
    BY <2>1, <2>2, FS_Subset
  <2> QED
    BY <2>2, <2>3, <2>4, <2>5
<1> QED
  BY <1>5

\* The keys that OFFSET skips are at most as many as it says.
LEMMA SkippedKeys ==
  ASSUME NEW S, IsFiniteSet(S), S \subseteq Nat, NEW o \in Nat
  PROVE  LET skipped == {k \in S : Place(k, S) < o}
         IN IsFiniteSet(skipped) /\ Cardinality(skipped) \in Nat /\ Cardinality(skipped) <= o
<1> DEFINE skipped == {k \in S : Place(k, S) < o}
<1>1. skipped \in SUBSET S
  OBVIOUS
<1>2. IsFiniteSet(skipped) /\ Cardinality(skipped) \in Nat
  BY <1>1, FS_Subset, FS_CardinalityType
<1>3. ASSUME skipped # {} PROVE Cardinality(skipped) <= o
  <2>1. skipped \subseteq Nat
    OBVIOUS
  <2>2. PICK m \in skipped : \A k \in skipped : k <= m
    <3> HIDE DEF skipped
    <3> QED
      BY <1>2, <1>3, <2>1, LastKey
  <2> DEFINE before == {k \in S : k < m}
  <2>3. m \in S /\ Place(m, S) < o
    OBVIOUS
  <2>4. skipped \in SUBSET (before \cup {m})
    <3>1. ASSUME NEW k \in skipped PROVE k \in before \cup {m}
      <4>1. k \in Nat /\ k \in S /\ m \in Nat /\ k <= m
        BY <2>2
      <4>2. k < m \/ k = m
        BY <4>1
      <4> QED
        BY <4>1, <4>2
    <3> QED
      BY <3>1
  <2>5. IsFiniteSet(before) /\ Cardinality(before) \in Nat /\ Cardinality(before) < o /\ m \notin before
    BY <2>3, PlaceIs DEF Place
  <2> HIDE DEF skipped, before
  <2>6. IsFiniteSet(before \cup {m}) /\ Cardinality(before \cup {m}) = Cardinality(before) + 1
    BY <2>5, FS_AddElement
  <2>7. Cardinality(skipped) <= Cardinality(before \cup {m})
    BY <2>4, <2>6, FS_Subset
  <2> QED
    BY <1>2, <2>5, <2>6, <2>7
<1>4. ASSUME skipped = {} PROVE Cardinality(skipped) <= o
  BY <1>4, FS_EmptySet
<1>5. Cardinality(skipped) <= o
  BY <1>3, <1>4
<1> QED
  BY <1>2, <1>5

\* The keys of a page and one more.
Ranked(S, o, p) == {k \in S : Place(k, S) \in o..o + p}

LEMMA PlacedIs ==
  ASSUME NEW S, IsFiniteSet(S), NEW o, NEW p
  PROVE  IsFiniteSet(Ranked(S, o, p)) /\ Cardinality(Ranked(S, o, p)) \in Nat
<1>1. Ranked(S, o, p) \in SUBSET S
  BY DEF Ranked
<1> QED
  BY <1>1, FS_Subset, FS_CardinalityType

\* A page that leaves a key for later is full.
LEMMA FullPage ==
  ASSUME NEW S, IsFiniteSet(S), S \subseteq Nat, NEW o \in Nat, NEW p \in Nat,
         NEW key \in S, Place(key, S) > o + p
  PROVE  Cardinality(Ranked(S, o, p)) > p
<1> DEFINE later == {k \in S : Place(k, S) > o + p}
           skipped == {k \in S : Place(k, S) < o}
           page == Ranked(S, o, p)
<1>1. later \subseteq Nat /\ key \in later
  OBVIOUS
<1>2. PICK m \in later : \A k \in later : m <= k
  <2> HIDE DEF later
  <2> QED
    BY <1>1, LeastElement
<1> DEFINE before == {k \in S : k < m}
<1>3. m \in S /\ Place(m, S) > o + p
  OBVIOUS
<1>4. ASSUME NEW k \in before PROVE k \in skipped \cup page
  <2>1. k \in S /\ k < m /\ Place(k, S) \in Nat
    BY PlaceIs
  <2>2. k \notin later
    BY <1>2, <1>3, <2>1
  <2> QED
    BY <2>1, <2>2 DEF Ranked
<1>5. IsFiniteSet(skipped) /\ Cardinality(skipped) \in Nat /\ Cardinality(skipped) <= o
  BY SkippedKeys
<1>6. IsFiniteSet(page) /\ Cardinality(page) \in Nat
  BY PlacedIs
<1>7. IsFiniteSet(before) /\ Cardinality(before) \in Nat /\ Cardinality(before) > o + p
  BY <1>3, PlaceIs DEF Place
<1> HIDE DEF before, skipped, page
<1>8. before \in SUBSET (skipped \cup page)
  BY <1>4
<1>9. /\ IsFiniteSet(skipped \cup page)
      /\ Cardinality(skipped \cup page) = Cardinality(skipped) + Cardinality(page) - Cardinality(skipped \cap page)
  BY <1>5, <1>6, FS_Union
<1>10. Cardinality(skipped \cap page) \in Nat
  <2>1. skipped \cap page \in SUBSET page
    OBVIOUS
  <2> QED
    BY <1>6, <2>1, FS_Subset, FS_CardinalityType
<1>11. Cardinality(before) <= Cardinality(skipped \cup page)
  BY <1>8, <1>9, FS_Subset
<1>12. Cardinality(page) > p
  BY <1>5, <1>6, <1>7, <1>9, <1>10, <1>11
<1> QED
  BY <1>12 DEF page

\* The key that a full page leaves for the next has a place beyond it.
LEMMA KeyLeftOver ==
  ASSUME NEW S, IsFiniteSet(S), S \subseteq Nat, NEW o \in Nat, NEW p \in Nat,
         Cardinality(Ranked(S, o, p)) > p,
         NEW key \in Ranked(S, o, p), \A k \in Ranked(S, o, p) : ~(key < k)
  PROVE  Place(key, S) >= o + p
<1> DEFINE page == Ranked(S, o, p)
           rest == page \ {key}
<1>1. page \subseteq S /\ page \subseteq Nat /\ key \in page
  BY DEF Ranked
<1>2. IsFiniteSet(page) /\ Cardinality(page) \in Nat /\ Cardinality(page) > p
  BY PlacedIs
<1> HIDE DEF page
<1>3. PICK m \in page : \A k \in page : m <= k
  BY <1>1, LeastElement
<1> DEFINE first == {k \in S : k < m}
           before == {k \in S : k < key}
<1>4. Place(m, S) >= o
  <2>1. Place(m, S) \in o..o + p
    BY DEF page, Ranked
  <2> QED
    BY <2>1
<1>5. IsFiniteSet(first) /\ Cardinality(first) \in Nat /\ Cardinality(first) >= o
  BY <1>4, PlaceIs DEF Place
<1>6. IsFiniteSet(before) /\ Cardinality(before) \in Nat
  BY PlaceIs DEF Place
<1>7. \A k \in page : k <= key
  BY <1>1 DEF page
<1>8. first \cup rest \in SUBSET before
  <2>1. m \in Nat /\ key \in Nat /\ m <= key
    BY <1>1, <1>7
  <2>2. ASSUME NEW k \in first PROVE k \in before
    <3>1. k \in Nat /\ k \in S /\ k < m
      OBVIOUS
    <3> QED
      BY <2>1, <3>1
  <2>3. ASSUME NEW k \in rest PROVE k \in before
    <3>1. k \in Nat /\ k \in S /\ k <= key /\ k # key
      BY <1>1, <1>7
    <3>2. k < key
      BY <2>1, <3>1
    <3> QED
      BY <3>1, <3>2
  <2> QED
    BY <2>2, <2>3
<1>9. first \cap rest = {}
  <2>1. ASSUME NEW k \in first, k \in rest PROVE FALSE
    <3>1. k \in Nat /\ m \in Nat /\ k < m /\ m <= k
      BY <1>1, <1>3, <2>1
    <3> QED
      BY <3>1
  <2> QED
    BY <2>1
<1>10. IsFiniteSet(rest) /\ Cardinality(rest) = Cardinality(page) - 1
  BY <1>1, <1>2, FS_RemoveElement
<1> HIDE DEF first, before, rest
<1>11. Cardinality(first \cup rest) = Cardinality(first) + Cardinality(rest)
  <2>1. Cardinality(rest) \in Nat
    BY <1>10, FS_CardinalityType
  <2>2. Cardinality(first \cup rest) = Cardinality(first) + Cardinality(rest) - Cardinality(first \cap rest)
    BY <1>5, <1>10, FS_Union
  <2>3. Cardinality(first \cap rest) = 0
    BY <1>9, FS_EmptySet
  <2> QED
    BY <1>5, <2>1, <2>2, <2>3
<1>12. Cardinality(first \cup rest) <= Cardinality(before)
  BY <1>6, <1>8, FS_Subset
<1>13. Cardinality(before) >= o + p
  BY <1>2, <1>5, <1>6, <1>10, <1>11, <1>12
<1> QED
  BY <1>13 DEF Place, before

\* A key that the listing has yet to give has a place it has yet to reach, unless one
\* before it was lost.
Ahead(key, keys, o, lost) == Place(key, keys) >= o \/ \E gone \in lost : gone < key

\* A key that it gave has a place it is past, unless one came before it or it came back.
Behind(key, keys, o, came) == Place(key, keys) < o \/ \E new \in came : new <= key

LEMMA AheadStays ==
  ASSUME NEW S, IsFiniteSet(S), NEW T, IsFiniteSet(T), NEW o \in Nat, NEW lost, NEW key,
         Ahead(key, S, o, lost)
  PROVE  Ahead(key, T, o, lost \cup (S \ T))
<1>1. CASE \E gone \in lost \cup (S \ T) : gone < key
  BY <1>1 DEF Ahead
<1>2. CASE \A gone \in lost \cup (S \ T) : ~(gone < key)
  <2>1. {k \in S : k < key} \subseteq {k \in T : k < key}
    BY <1>2
  <2>2. Place(key, S) <= Place(key, T) /\ Place(key, S) >= o
    BY <1>2, <2>1, PlaceGrows DEF Ahead
  <2>3. Place(key, S) \in Nat /\ Place(key, T) \in Nat
    BY PlaceIs
  <2> QED
    BY <2>2, <2>3 DEF Ahead
<1> QED
  BY <1>1, <1>2

LEMMA BehindStays ==
  ASSUME NEW S, IsFiniteSet(S), NEW T, IsFiniteSet(T), T \subseteq Nat, NEW o \in Nat, NEW came,
         NEW key \in T, key \in S => Behind(key, S, o, came)
  PROVE  Behind(key, T, o, came \cup (T \ S))
<1>1. CASE \E new \in came \cup (T \ S) : new <= key
  BY <1>1 DEF Behind
<1>2. CASE \A new \in came \cup (T \ S) : ~(new <= key)
  <2>1. key \in S /\ key \in Nat
    BY <1>2
  <2>2. {k \in T : k < key} \subseteq {k \in S : k < key}
    <3>1. ASSUME NEW k \in T, k < key PROVE k \in S
      <4>1. k \in Nat /\ k <= key
        BY <2>1, <3>1
      <4> QED
        BY <1>2, <4>1
    <3> QED
      BY <3>1
  <2>3. Place(key, T) <= Place(key, S) /\ Place(key, S) < o
    BY <1>2, <2>1, <2>2, PlaceGrows DEF Behind
  <2>4. Place(key, S) \in Nat /\ Place(key, T) \in Nat
    BY PlaceIs
  <2> QED
    BY <2>3, <2>4 DEF Behind
<1> QED
  BY <1>1, <1>2

\* What a page gives, and what it leaves for later.
Splits(page, S, o, p) ==
  /\ page \subseteq S /\ \A key \in page : Place(key, S) >= o
  /\ Cardinality(page) <= p => \A key \in S : Place(key, S) >= o => key \in page
  /\ \A key \in page : (\E last \in page : key < last) => Place(key, S) < o + p
  /\ Cardinality(page) > p =>
       \A key \in S : Place(key, S) >= o /\ (key \in page => \A last \in page : ~(key < last))
                        => Place(key, S) >= o + p

LEMMA PageSplits ==
  ASSUME NEW S, IsFiniteSet(S), S \subseteq Nat, NEW o \in Nat, NEW p \in Nat, NEW page,
         page = Ranked(S, o, p)
  PROVE  Splits(page, S, o, p)
<1>1. \A key \in S : key \in Nat /\ Place(key, S) \in Nat
  BY PlaceIs
<1>2. page \subseteq S /\ \A key \in S : key \in page <=> Place(key, S) >= o /\ Place(key, S) <= o + p
  BY <1>1 DEF Ranked
<1>3. Cardinality(page) \in Nat
  BY PlacedIs
<1>4. ASSUME Cardinality(page) <= p, NEW key \in S, Place(key, S) >= o PROVE key \in page
  <2>1. ~(Place(key, S) > o + p)
    <3>1. Place(key, S) > o + p => Cardinality(page) > p
      BY FullPage
    <3> QED
      BY <1>3, <1>4, <3>1
  <2> QED
    BY <1>1, <1>2, <1>4, <2>1
<1>5. ASSUME NEW key \in page, NEW last \in page, key < last PROVE Place(key, S) < o + p
  <2>1. Place(key, S) < Place(last, S)
    BY <1>2, <1>5, PlaceOrders
  <2> QED
    BY <1>1, <1>2, <2>1
<1>6. ASSUME Cardinality(page) > p, NEW key \in S, Place(key, S) >= o,
             key \in page => \A last \in page : ~(key < last)
      PROVE  Place(key, S) >= o + p
  <2>1. CASE key \in page
    BY <1>6, <2>1, KeyLeftOver
  <2>2. CASE key \notin page
    BY <1>1, <1>2, <1>6, <2>2
  <2> QED
    BY <2>1, <2>2
<1> QED
  BY <1>2, <1>4, <1>5, <1>6 DEF Splits

TableInv ==
  /\ clock \in Nat /\ changes \in Nat /\ listings \in Nat
  /\ DOMAIN table \subseteq Keys /\ IsFiniteSet(DOMAIN table)
  /\ \A key \in DOMAIN table : table[key] \subseteq Nat

ListerState ==
  [pc : {"idle", "page", "done"}, offset : Nat, listed : SUBSET Keys, twice : SUBSET Keys,
   stable : SUBSET Keys, lost : SUBSET Keys, came : SUBSET Keys]

\* Where a listing is, against what the table became since it started.
ListingInv ==
  /\ lister \in ListerState
  /\ lister.stable \subseteq Live
  /\ lister.pc = "page" =>
       /\ \A key \in lister.stable \ lister.listed : Ahead(key, Live, lister.offset, lister.lost)
       /\ \A key \in lister.listed \cap Live : Behind(key, Live, lister.offset, lister.came)
  /\ lister.pc = "done" =>
       \A key \in lister.stable \ lister.listed : \E gone \in lister.lost : gone < key
  /\ \A key \in lister.twice : \E new \in lister.came : new <= key

LEMMA TableInvInit == KvInit => TableInv
<1> SUFFICES ASSUME KvInit PROVE TableInv
  OBVIOUS
<1>1. PICK s \in KvScenes : KvStart(s)
  BY DEF KvInit
<1>2. DOMAIN table = s.keys /\ \A key \in s.keys : table[key] = {}
  BY <1>1 DEF KvStart
<1> QED
  BY <1>1, <1>2, KvAssumption DEF KvInit, KvStart, TableInv

LEMMA TableInvStep == TableInv /\ [KvNext]_kvVars => TableInv'
<1> SUFFICES ASSUME TableInv, [KvNext]_kvVars PROVE TableInv'
  OBVIOUS
<1>1. CASE KvTick
  BY <1>1 DEF KvTick, TableInv
<1>2. ASSUME NEW key \in Keys, NEW ttl \in Ttls, KvPut(key, ttl) PROVE TableInv'
  <2>1. /\ DOMAIN table' = DOMAIN table \cup {key}
        /\ \A k \in DOMAIN table' : table'[k] = IF k = key THEN Expiration(ttl) ELSE table[k]
    BY <1>2 DEF KvPut
  <2>2. IsFiniteSet(DOMAIN table')
    BY <2>1, FS_AddElement DEF TableInv
  <2>3. Expiration(ttl) \subseteq Nat
    BY KvAssumption DEF TableInv, Expiration
  <2>4. clock' = clock /\ listings' = listings /\ changes' = changes - 1 /\ changes > 0
    BY <1>2 DEF KvPut, Change
  <2> QED
    BY <2>1, <2>2, <2>3, <2>4 DEF TableInv
<1>3. ASSUME NEW key \in Keys, KvDelete(key) PROVE TableInv'
  <2>1. /\ DOMAIN table' = DOMAIN table \ {key}
        /\ \A k \in DOMAIN table' : table'[k] = table[k]
    BY <1>3 DEF KvDelete
  <2>2. IsFiniteSet(DOMAIN table')
    BY <2>1, FS_RemoveElement DEF TableInv
  <2>3. clock' = clock /\ listings' = listings /\ changes' = changes - 1 /\ changes > 0
    BY <1>3 DEF KvDelete, Change
  <2> QED
    BY <2>1, <2>2, <2>3 DEF TableInv
<1>4. CASE StartListing
  BY <1>4 DEF StartListing, TableInv
<1>5. CASE ListPage
  BY <1>5 DEF ListPage, TableInv
<1>6. CASE UNCHANGED kvVars
  BY <1>6 DEF kvVars, kvState, TableInv
<1> QED
  BY <1>1, <1>2, <1>3, <1>4, <1>5, <1>6 DEF KvNext, KvStep

LiveRules == Live \subseteq Keys /\ Live \subseteq Nat /\ IsFiniteSet(Live)

LEMMA LiveIs == TableInv => LiveRules
<1> SUFFICES ASSUME TableInv PROVE LiveRules
  OBVIOUS
<1>1. Live \in SUBSET DOMAIN table /\ DOMAIN table \subseteq Keys /\ Keys \subseteq Nat
  BY KvAssumption DEF TableInv, Live
<1> QED
  BY <1>1, FS_Subset DEF TableInv, LiveRules

LEMMA LiveIsNext == TableInv' => LiveRules'
BY LiveIs, PTL

LEMMA ListingInvInit == KvInit => ListingInv
<1> SUFFICES ASSUME KvInit PROVE ListingInv
  OBVIOUS
<1>1. PICK s \in KvScenes : KvStart(s)
  BY DEF KvInit
<1> QED
  BY <1>1 DEF KvStart, ListingInv, ListerState

\* A change of the table or of the time.
LEMMA ObservedKeeps ==
  ASSUME TableInv, TableInv', ListingInv, lister' = Observed
  PROVE  ListingInv'
<1>1. LiveRules /\ LiveRules' /\ lister \in ListerState
  BY LiveIs, LiveIsNext DEF ListingInv
<1> DEFINE S == Live
           T == Live'
           lost == lister.lost \cup (S \ T)
           came == lister.came \cup (T \ S)
<1>2. lister' = [lister EXCEPT !.stable = @ \cap T, !.lost = lost, !.came = came]
  BY <1>1 DEF Observed, ListerState
<1>3. /\ IsFiniteSet(S) /\ IsFiniteSet(T) /\ S \subseteq Keys /\ T \subseteq Keys
      /\ S \subseteq Nat /\ T \subseteq Nat
  BY <1>1 DEF LiveRules
<1> HIDE DEF S, T
<1>4. /\ lister' \in ListerState /\ lister'.pc = lister.pc /\ lister'.offset = lister.offset
      /\ lister'.listed = lister.listed /\ lister'.twice = lister.twice
      /\ lister'.stable = lister.stable \cap T /\ lister'.lost = lost /\ lister'.came = came
  BY <1>1, <1>2, <1>3 DEF ListerState
<1>5. lister.offset \in Nat
  BY <1>1 DEF ListerState
<1>6. ASSUME lister.pc = "page", NEW key \in lister'.stable \ lister'.listed
      PROVE  Ahead(key, T, lister'.offset, lister'.lost)
  <2>1. Ahead(key, S, lister.offset, lister.lost)
    BY <1>4, <1>6 DEF ListingInv, S
  <2> QED
    BY <1>3, <1>4, <1>5, <2>1, AheadStays
<1>7. ASSUME lister.pc = "page", NEW key \in lister'.listed \cap T
      PROVE  Behind(key, T, lister'.offset, lister'.came)
  <2>1. key \in S => Behind(key, S, lister.offset, lister.came)
    BY <1>4, <1>7 DEF ListingInv, S
  <2>2. key \in T
    BY <1>7
  <2>3. Behind(key, T, lister.offset, came)
    BY <1>3, <1>5, <2>1, <2>2, BehindStays
  <2> QED
    BY <1>4, <2>3
<1>8. lister.pc = "done" => \A key \in lister'.stable \ lister'.listed : \E gone \in lister'.lost : gone < key
  BY <1>4 DEF ListingInv
<1>9. \A key \in lister'.twice : \E new \in lister'.came : new <= key
  BY <1>4 DEF ListingInv
<1> HIDE DEF lost, came
<1>10. lister'.stable \subseteq T
  BY <1>4
<1> QED
  BY <1>4, <1>6, <1>7, <1>8, <1>9, <1>10 DEF ListingInv, T

LEMMA ListingStarts ==
  ASSUME TableInv, ListingInv, StartListing
  PROVE  ListingInv'
<1>1. LiveRules
  BY LiveIs
<1>2. /\ lister' = [pc |-> "page", offset |-> 0, listed |-> {}, twice |-> {},
                    stable |-> Live, lost |-> {}, came |-> {}]
      /\ Live' = Live
  BY DEF StartListing, Live, Expired
<1>3. lister' \in ListerState
  BY <1>1, <1>2 DEF ListerState, LiveRules
<1>4. \A key \in Live : Ahead(key, Live, 0, {})
  <2>1. \A key \in Live : Place(key, Live) \in Nat
    BY <1>1, PlaceIs DEF LiveRules
  <2> QED
    BY <2>1 DEF Ahead
<1> QED
  BY <1>2, <1>3, <1>4 DEF ListingInv

LEMMA ListingGoesOn ==
  ASSUME TableInv, ListingInv, ListPage
  PROVE  ListingInv'
<1>1. LiveRules /\ lister \in ListerState /\ lister.offset \in Nat /\ PageSize \in Nat
  BY LiveIs, KvAssumption DEF ListingInv, ListerState
<1> DEFINE o == lister.offset
           page == Page
           complete == Cardinality(page) <= PageSize
           visible == IF complete THEN page ELSE {key \in page : \E last \in page : key < last}
<1>2. /\ lister' = [lister EXCEPT !.pc = IF complete THEN "done" ELSE @,
                                  !.offset = IF complete THEN @ ELSE NextOffset,
                                  !.listed = @ \cup visible,
                                  !.twice = @ \cup (lister.listed \cap visible)]
      /\ Live' = Live /\ lister.pc = "page"
  BY DEF ListPage, Live, Expired
<1>3. page = Ranked(Live, o, PageSize)
  BY DEF Page, Selected, Ranked, Place
<1> HIDE DEF page
<1>4. Splits(page, Live, o, PageSize)
  <2>1. IsFiniteSet(Live) /\ Live \subseteq Nat /\ o \in Nat
    BY <1>1 DEF LiveRules
  <2> HIDE DEF o
  <2> QED
    BY <1>1, <1>3, <2>1, PageSplits
<1>5. Cardinality(page) \in Nat /\ \A key \in Live : Place(key, Live) \in Nat
  BY <1>1, <1>3, PlaceIs, PlacedIs DEF LiveRules
<1>6. visible \subseteq page
  OBVIOUS
<1> DEFINE next == IF complete THEN o ELSE o + PageSize
<1>7. /\ lister' \in ListerState
      /\ lister'.pc = IF complete THEN "done" ELSE "page"
      /\ lister'.offset = next
      /\ lister'.listed = lister.listed \cup visible
      /\ lister'.twice = lister.twice \cup (lister.listed \cap visible)
      /\ lister'.stable = lister.stable /\ lister'.lost = lister.lost /\ lister'.came = lister.came
  <2>1. visible \subseteq Keys
    BY <1>1, <1>4, <1>6 DEF LiveRules, Splits
  <2> HIDE DEF visible, complete
  <2>2. NextOffset \in Nat /\ next = IF complete THEN lister.offset ELSE NextOffset
    BY <1>1 DEF NextOffset
  <2> HIDE DEF next
  <2>3. CASE complete
    BY <1>1, <1>2, <2>1, <2>2, <2>3 DEF ListerState
  <2>4. CASE ~complete
    BY <1>1, <1>2, <2>1, <2>2, <2>4 DEF ListerState
  <2> QED
    BY <2>3, <2>4
<1>8. \A key \in lister.stable \ lister.listed : key \in Live /\ Ahead(key, Live, o, lister.lost)
  BY <1>2 DEF ListingInv
<1>9. \A key \in lister.listed \cap Live : Behind(key, Live, o, lister.came)
  BY <1>2 DEF ListingInv
<1>10. ASSUME complete, NEW key \in lister'.stable \ lister'.listed
       PROVE  \E gone \in lister'.lost : gone < key
  <2>1. key \notin page /\ key \in lister.stable \ lister.listed
    BY <1>7, <1>10
  <2>2. ~(Place(key, Live) >= o)
    BY <1>4, <1>8, <1>10, <2>1 DEF Splits
  <2> QED
    BY <1>7, <1>8, <2>1, <2>2 DEF Ahead
<1>11. ASSUME ~complete, NEW key \in lister'.stable \ lister'.listed
       PROVE  Ahead(key, Live, next, lister'.lost)
  <2>1. key \in lister.stable \ lister.listed /\ (key \in page => \A last \in page : ~(key < last))
    BY <1>7, <1>11
  <2>2. CASE Place(key, Live) >= o
    <3>1. Place(key, Live) >= o + PageSize
      BY <1>4, <1>5, <1>8, <1>11, <1>1, <2>1, <2>2 DEF Splits
    <3> QED
      BY <1>11, <3>1 DEF Ahead
  <2>3. CASE \E gone \in lister.lost : gone < key
    BY <1>7, <2>3 DEF Ahead
  <2> QED
    BY <1>8, <2>1, <2>2, <2>3 DEF Ahead
<1>12. ASSUME ~complete, NEW key \in lister'.listed \cap Live
       PROVE  Behind(key, Live, next, lister'.came)
  <2>1. CASE key \in visible
    BY <1>4, <1>12, <2>1 DEF Behind, Splits
  <2>2. CASE key \in lister.listed
    <3>1. Behind(key, Live, o, lister.came)
      BY <1>9, <1>12, <2>2
    <3>2. Place(key, Live) < o => Place(key, Live) < o + PageSize
      BY <1>1, <1>5, <1>12
    <3> QED
      BY <1>7, <1>12, <3>1, <3>2 DEF Behind
  <2> QED
    BY <1>7, <1>12, <2>1, <2>2
<1>13. ASSUME NEW key \in lister'.twice PROVE \E new \in lister'.came : new <= key
  <2>1. CASE key \in lister.twice
    BY <1>7, <2>1 DEF ListingInv
  <2>2. CASE key \in lister.listed \cap visible
    <3>1. key \in Live /\ Place(key, Live) >= o
      BY <1>4, <1>6, <2>2 DEF Splits
    <3>2. ~(Place(key, Live) < o)
      BY <1>1, <1>5, <3>1
    <3> QED
      BY <1>7, <1>9, <2>2, <3>1, <3>2 DEF Behind
  <2> QED
    BY <1>7, <2>1, <2>2
<1> HIDE DEF visible, complete, next
<1>14. lister'.stable \subseteq Live
  BY <1>7 DEF ListingInv
<1> QED
  BY <1>2, <1>7, <1>10, <1>11, <1>12, <1>13, <1>14 DEF ListingInv

LEMMA ListingInvStep == TableInv /\ TableInv' /\ ListingInv /\ [KvNext]_kvVars => ListingInv'
<1> SUFFICES ASSUME TableInv, TableInv', ListingInv, [KvNext]_kvVars PROVE ListingInv'
  OBVIOUS
<1>1. CASE KvTick \/ (\E key \in Keys, ttl \in Ttls : KvPut(key, ttl)) \/ (\E key \in Keys : KvDelete(key))
  BY <1>1, ObservedKeeps DEF KvTick, KvPut, KvDelete, Change
<1>2. CASE UNCHANGED kvVars
  <2>1. Live' = Live /\ lister' = lister
    BY <1>2 DEF kvVars, kvState, Live, Expired
  <2> QED
    BY <2>1 DEF ListingInv
<1> QED
  BY <1>1, <1>2, ListingStarts, ListingGoesOn DEF KvNext, KvStep

\* However others put and delete keys and rows expire between the pages of a listing,
\* a listing that came to its end missed no key without one before it having gone,
\* and gave none twice without one having come.
THEOREM ListingIsComplete == KvSpec => []ListingComplete
<1>1. ListingInv => ListingComplete
  BY DEF ListingInv, ListingComplete
<1> QED
  BY <1>1, TableInvInit, TableInvStep, ListingInvInit, ListingInvStep, PTL DEF KvSpec

\* Whatever is put, deleted, listed or expires, the table and the listing keep their types.
THEOREM KvTypes == KvSpec => []KvTypeOK
<1>1. TableInv /\ ListingInv => KvTypeOK
  BY DEF TableInv, ListingInv, ListerState, KvTypeOK
<1> QED
  BY <1>1, TableInvInit, TableInvStep, ListingInvInit, ListingInvStep, PTL DEF KvSpec

\* The same of the whole worker, as it implements the table: its listings miss nothing
\* whatever else it does meanwhile.
THEOREM WorkerListsCompletely == WorkerSpec => []ListingComplete
BY WorkerRefinesTable, ListingIsComplete, PTL

\* The same of the whole worker, as it implements the bridge.
THEOREM WorkerNeverWritesRich == WorkerSpec => WorkerKeepsQuoteOnly
BY WorkerRefinesBridge, WorkerWritesQuotesOnly, PTL

\* The same of the whole worker: its catalogues serve.
THEOREM WorkerCatalogsServe == WorkerSpec => []CatalogServes
BY WorkerRefinesBridge, CatalogsServe, PTL

-----------------------------------------------------------------------------
(* What a caller holds.                                                    *)

\* What a caller saw of LIVE: one universe at most.
SoundView(v) ==
  /\ DOMAIN v = {"now", "universe", "status"}
  /\ v.now \in Nat /\ v.universe \subseteq Publication /\ v.status \subseteq Publication
  /\ AtMostOne(v.universe)

SoundQuotes(quoted) == AtMostOne(quoted) /\ \A q \in quoted : OwnRows(q.stocks)

\* An answer with one snapshot, which holds exactly what LIVE does if it says so.
SoundAnswer(x) ==
  /\ x.answer \in {"NONE", "REFUSED", "FAILED", "STATIC", "LIVE"}
  /\ x.answer \in {"STATIC", "LIVE"} => \E s : x.served = {s}
  /\ x.answer \notin {"STATIC", "LIVE"} => x.served = {}
  /\ x.answer = "LIVE" => \A s \in x.served : \E u \in x.second.universe :
       Applies(x.second) /\ HoldsExactly(s, u.codes)

CallerShape(x) ==
  /\ DOMAIN x = CallerFields /\ x.pc \in CallerSteps
  /\ SoundView(x.first) /\ SoundView(x.second)
  /\ SoundQuotes(x.quoted)
  /\ x.pc \in {"universe again", "status again"} => x.quoted # {}
  /\ x.pc # "done" => x.answer = "NONE"
  /\ SoundAnswer(x)

ServiceInv ==
  /\ misses \in 0..MaxMisses
  /\ caller = [c \in Callers |-> caller[c]]
  /\ \A c \in Callers : CallerShape(caller[c])

\* What a caller finds in the worker.
Surroundings ==
  /\ clock \in Nat
  /\ universe \subseteq Publication /\ status \subseteq Publication /\ AtMostOne(universe)
  /\ CatalogInv

LEMMA CallerKeepsService ==
  ASSUME ServiceInv, NEW c \in Callers, NEW x, Caller(c, x), CallerShape(x), misses' \in 0..MaxMisses
  PROVE  ServiceInv'
<1>1. caller' = [d \in Callers |-> IF d = c THEN x ELSE caller[d]]
  BY DEF Caller, ServiceInv
<1>2. \A d \in Callers : CallerShape(caller'[d])
  BY <1>1 DEF ServiceInv
<1> QED
  BY <1>1, <1>2 DEF ServiceInv

LEMMA MissCounts == ServiceInv /\ Miss => misses' \in 0..MaxMisses
BY WorkerAssumption DEF ServiceInv, Miss

LEMMA SeenSound ==
  ASSUME ServiceInv, Surroundings, NEW seen, StatusSeen(seen)
  PROVE  seen \subseteq Publication /\ misses' \in 0..MaxMisses
BY MissCounts DEF StatusSeen, Surroundings, ServiceInv

LEMMA NothingAnswered ==
  ASSUME ServiceInv, NEW c \in Callers, caller[c].pc # "done", NEW answer \in {"FAILED", "REFUSED"},
         Respond(c, answer, {}), misses' \in 0..MaxMisses
  PROVE  ServiceInv'
<1> DEFINE x == [caller[c] EXCEPT !.pc = "done", !.answer = answer, !.served = {}]
<1>1. CallerShape(caller[c])
  BY DEF ServiceInv
<1>2. /\ DOMAIN x = CallerFields /\ x.pc = "done" /\ x.first = caller[c].first
      /\ x.second = caller[c].second /\ x.quoted = caller[c].quoted
      /\ x.answer = answer /\ x.served = {}
  BY <1>1 DEF CallerShape, CallerFields
<1>3. Caller(c, x)
  BY DEF Respond
<1> HIDE DEF x
<1>4. SoundAnswer(x)
  BY <1>2 DEF SoundAnswer
<1>5. CallerShape(x)
  BY <1>1, <1>2, <1>4 DEF CallerShape, CallerSteps
<1> QED
  BY <1>3, <1>5, CallerKeepsService

\* A snapshot with the holdings laid over it.
LEMMA OverlaysSound ==
  ASSUME ServiceInv, NEW c \in Callers, NEW u, u.codes \subseteq Codes, NEW wire
  PROVE  AtMostOne(Overlays(c, u, wire)) /\ \A s \in Overlays(c, u, wire) : HoldsExactly(s, u.codes)
<1> DEFINE completed == UNION {CompleteMissing(q, u.codes, wire) : q \in caller[c].quoted}
<1>1. SoundQuotes(caller[c].quoted)
  BY DEF ServiceInv, CallerShape
<1>2. IsFiniteSet(u.codes)
  BY WorkerAssumption, FS_Subset
<1>3. \A s \in completed : \E q \in caller[c].quoted : s \in CompleteMissing(q, u.codes, wire)
  OBVIOUS
<1>4. Overlays(c, u, wire) = UNION {Project(s, u.codes) : s \in completed}
  BY DEF Overlays
<1> HIDE DEF completed
<1>5. \A s \in completed : OwnRows(s.stocks)
  BY <1>1, <1>2, <1>3, CompletedRows DEF SoundQuotes
<1>6. \A s, t \in completed : s = t
  BY <1>1, <1>3, CompletedOnce DEF SoundQuotes, AtMostOne
<1>7. ASSUME NEW p \in Overlays(c, u, wire)
      PROVE  \E s \in completed : p \in Project(s, u.codes)
  BY <1>4, <1>7
<1>8. ASSUME NEW p \in Overlays(c, u, wire) PROVE HoldsExactly(p, u.codes)
  <2>1. PICK s \in completed : p \in Project(s, u.codes)
    BY <1>7
  <2> QED
    BY <1>5, <2>1, OverlayHoldsExactly
<1>9. ASSUME NEW p \in Overlays(c, u, wire), NEW q \in Overlays(c, u, wire) PROVE p = q
  <2>1. PICK s \in completed : p \in Project(s, u.codes)
    BY <1>7
  <2>2. PICK t \in completed : q \in Project(t, u.codes)
    BY <1>7
  <2>3. s = t
    BY <1>6
  <2> QED
    BY <2>1, <2>2, <2>3 DEF Project
<1> QED
  BY <1>8, <1>9 DEF AtMostOne

LEMMA StartKeepsService ==
  ASSUME ServiceInv, Surroundings, NEW c \in Callers, StartCaller(c)
  PROVE  ServiceInv'
<1> DEFINE x == [caller[c] EXCEPT !.pc = "universe", !.first.now = clock]
<1>1. CallerShape(caller[c]) /\ caller[c].pc = "idle" /\ misses \in 0..MaxMisses
  BY DEF ServiceInv, StartCaller
<1>2. /\ DOMAIN x = CallerFields /\ x.pc = "universe" /\ x.first = [caller[c].first EXCEPT !.now = clock]
      /\ x.second = caller[c].second /\ x.quoted = caller[c].quoted
      /\ x.answer = caller[c].answer /\ x.served = caller[c].served
  BY <1>1 DEF CallerShape, CallerFields
<1>3. Caller(c, x) /\ misses' = misses
  BY DEF StartCaller
<1> HIDE DEF x
<1>4. SoundView(x.first)
  BY <1>1, <1>2 DEF CallerShape, SoundView, Surroundings
<1>5. SoundAnswer(x)
  BY <1>1, <1>2 DEF CallerShape, SoundAnswer
<1>6. CallerShape(x)
  BY <1>1, <1>2, <1>4, <1>5 DEF CallerShape, CallerSteps
<1> QED
  BY <1>1, <1>3, <1>6, CallerKeepsService

LEMMA UniverseKeepsService ==
  ASSUME ServiceInv, Surroundings, NEW c \in Callers, CallerUniverse(c)
  PROVE  ServiceInv'
<1>1. CallerShape(caller[c]) /\ misses \in 0..MaxMisses
  BY DEF ServiceInv
<1>2. CASE /\ caller[c].pc = "universe"
           /\ Caller(c, [caller[c] EXCEPT !.pc = "status", !.first.universe = universe])
           /\ UNCHANGED misses
  <2> DEFINE x == [caller[c] EXCEPT !.pc = "status", !.first.universe = universe]
  <2>1. /\ DOMAIN x = CallerFields /\ x.pc = "status"
        /\ x.first = [caller[c].first EXCEPT !.universe = universe]
        /\ x.second = caller[c].second /\ x.quoted = caller[c].quoted
        /\ x.answer = caller[c].answer /\ x.served = caller[c].served
    BY <1>1 DEF CallerShape, CallerFields
  <2>2. Caller(c, x)
    BY <1>2
  <2> HIDE DEF x
  <2>3. SoundView(x.first)
    BY <1>1, <2>1 DEF CallerShape, SoundView, Surroundings
  <2>4. SoundAnswer(x)
    BY <1>1, <2>1 DEF CallerShape, SoundAnswer
  <2>5. CallerShape(x)
    BY <1>1, <1>2, <2>1, <2>3, <2>4 DEF CallerShape, CallerSteps
  <2> QED
    BY <1>1, <1>2, <2>2, <2>5, CallerKeepsService
<1>3. CASE /\ caller[c].pc = "universe again"
           /\ Caller(c, [caller[c] EXCEPT !.pc = "status again", !.second.universe = universe])
           /\ UNCHANGED misses
  <2> DEFINE x == [caller[c] EXCEPT !.pc = "status again", !.second.universe = universe]
  <2>1. /\ DOMAIN x = CallerFields /\ x.pc = "status again"
        /\ x.second = [caller[c].second EXCEPT !.universe = universe]
        /\ x.first = caller[c].first /\ x.quoted = caller[c].quoted
        /\ x.answer = caller[c].answer /\ x.served = caller[c].served
    BY <1>1 DEF CallerShape, CallerFields
  <2>2. Caller(c, x)
    BY <1>3
  <2> HIDE DEF x
  <2>3. SoundView(x.second)
    BY <1>1, <2>1 DEF CallerShape, SoundView, Surroundings
  <2>4. SoundAnswer(x)
    BY <1>1, <1>3, <2>1 DEF CallerShape, SoundAnswer
  <2>5. CallerShape(x)
    BY <1>1, <1>3, <2>1, <2>3, <2>4 DEF CallerShape, CallerSteps
  <2> QED
    BY <1>1, <1>3, <2>2, <2>5, CallerKeepsService
<1>4. CASE caller[c].pc \in {"universe", "universe again"} /\ Miss /\ Respond(c, "FAILED", {})
  BY <1>4, MissCounts, NothingAnswered
<1> QED
  BY <1>2, <1>3, <1>4 DEF CallerUniverse

LEMMA CheckKeepsService ==
  ASSUME ServiceInv, Surroundings, NEW c \in Callers, CheckStatus(c)
  PROVE  ServiceInv'
<1>1. CallerShape(caller[c]) /\ caller[c].pc = "status"
  BY DEF ServiceInv, CheckStatus
<1>2. PICK seen : /\ StatusSeen(seen)
                  /\ LET view == [caller[c].first EXCEPT !.status = seen]
                     IN Caller(c, [caller[c] EXCEPT
                          !.first = view, !.pc = IF Applies(view) THEN "quotes" ELSE "done",
                          !.answer = IF Applies(view) THEN @ ELSE "REFUSED"])
  BY DEF CheckStatus
<1> DEFINE view == [caller[c].first EXCEPT !.status = seen]
           x == [caller[c] EXCEPT
                   !.first = view, !.pc = IF Applies(view) THEN "quotes" ELSE "done",
                   !.answer = IF Applies(view) THEN @ ELSE "REFUSED"]
<1>3. Caller(c, x)
  BY <1>2
<1>4. seen \subseteq Publication /\ misses' \in 0..MaxMisses
  BY <1>2, SeenSound
<1>5. SoundView(view)
  BY <1>1, <1>4 DEF CallerShape, SoundView
<1> HIDE DEF view
<1>6. /\ DOMAIN x = CallerFields /\ x.first = view /\ x.second = caller[c].second
      /\ x.pc = (IF Applies(view) THEN "quotes" ELSE "done")
      /\ x.answer = (IF Applies(view) THEN caller[c].answer ELSE "REFUSED")
      /\ x.quoted = caller[c].quoted /\ x.served = caller[c].served
  BY <1>1 DEF CallerShape, CallerFields
<1> HIDE DEF x
<1>7. caller[c].answer = "NONE" /\ caller[c].served = {}
  BY <1>1 DEF CallerShape, SoundAnswer
<1>8. SoundAnswer(x)
  BY <1>6, <1>7 DEF SoundAnswer
<1>9. CallerShape(x)
  BY <1>1, <1>5, <1>6, <1>7, <1>8 DEF CallerShape, CallerSteps
<1> QED
  BY <1>3, <1>4, <1>9, CallerKeepsService

\* The quotes of the catalogue there is.
LEMMA QuotesSound ==
  ASSUME Surroundings, NEW wire
  PROVE  SoundQuotes(UNION {FromCatalog(catalog, wire, clock) : catalog \in catalogs.d1})
<1> DEFINE quoted == UNION {FromCatalog(catalog, wire, clock) : catalog \in catalogs.d1}
<1>1. \A q \in quoted : \E catalog \in catalogs.d1 : q \in FromCatalog(catalog, wire, clock)
  OBVIOUS
<1> HIDE DEF quoted
<1>2. \A catalog \in catalogs.d1 : GoodCatalog(catalog)
  BY DEF Surroundings, CatalogInv, Shelves
<1>3. \A a, b \in catalogs.d1 : a = b
  BY DEF Surroundings, CatalogInv
<1>4. ASSUME NEW q \in quoted PROVE OwnRows(q.stocks)
  BY <1>1, <1>2, MadeOfCatalog DEF OwnRows
<1>5. ASSUME NEW p \in quoted, NEW q \in quoted PROVE p = q
  BY <1>1, <1>3, MadeOnce
<1>6. SoundQuotes(quoted)
  BY <1>4, <1>5 DEF SoundQuotes, AtMostOne
<1> QED
  BY <1>6 DEF quoted

LEMMA QuotesKeepService ==
  ASSUME ServiceInv, Surroundings, NEW c \in Callers, CallerQuotes(c)
  PROVE  ServiceInv'
<1>1. CallerShape(caller[c]) /\ caller[c].pc = "quotes" /\ misses' \in 0..MaxMisses
  BY DEF ServiceInv, CallerQuotes
<1> DEFINE found(wire) == UNION {FromCatalog(catalog, wire, clock) : catalog \in catalogs.d1}
<1>2. PICK wire \in Wires :
        IF found(wire) = {} THEN Respond(c, "FAILED", {})
        ELSE Caller(c, [caller[c] EXCEPT !.pc = "universe again", !.second.now = clock,
                                         !.quoted = found(wire)])
  BY DEF CallerQuotes
<1>3. SoundQuotes(found(wire))
  BY QuotesSound
<1> HIDE DEF found
<1>4. CASE found(wire) = {}
  BY <1>1, <1>2, <1>4, NothingAnswered
<1>5. CASE found(wire) # {}
  <2> DEFINE x == [caller[c] EXCEPT !.pc = "universe again", !.second.now = clock,
                                    !.quoted = found(wire)]
  <2>1. /\ DOMAIN x = CallerFields /\ x.pc = "universe again" /\ x.first = caller[c].first
        /\ x.second = [caller[c].second EXCEPT !.now = clock] /\ x.quoted = found(wire)
        /\ x.answer = caller[c].answer /\ x.served = caller[c].served
    BY <1>1 DEF CallerShape, CallerFields
  <2>2. Caller(c, x)
    BY <1>2, <1>5
  <2> HIDE DEF x
  <2>3. SoundView(x.second)
    BY <1>1, <2>1 DEF CallerShape, SoundView, Surroundings
  <2>4. SoundAnswer(x)
    BY <1>1, <2>1 DEF CallerShape, SoundAnswer
  <2>5. CallerShape(x)
    BY <1>1, <1>3, <1>5, <2>1, <2>3, <2>4 DEF CallerShape, CallerSteps
  <2> QED
    BY <1>1, <2>2, <2>5, CallerKeepsService
<1> QED
  BY <1>4, <1>5

LEMMA ServeKeepsService ==
  ASSUME ServiceInv, Surroundings, NEW c \in Callers, ServeStatus(c)
  PROVE  ServiceInv'
<1>1. CallerShape(caller[c]) /\ caller[c].pc = "status again"
  BY DEF ServiceInv, ServeStatus
<1>2. PICK seen : StatusSeen(seen) /\ Serve(c, [caller[c].second EXCEPT !.status = seen])
  BY DEF ServeStatus
<1> DEFINE view == [caller[c].second EXCEPT !.status = seen]
           overlays(wire) == UNION {Overlays(c, u, wire) : u \in view.universe}
           static == ~Applies(view)
           answer(wire) == CASE static -> "STATIC"
                             [] ~static /\ overlays(wire) # {} -> "LIVE"
                             [] ~static /\ overlays(wire) = {} -> "FAILED"
           x(wire) == [caller[c] EXCEPT
                         !.pc = "done", !.second = view,
                         !.served = IF static THEN caller[c].quoted ELSE overlays(wire),
                         !.answer = answer(wire)]
<1>3. PICK wire \in Wires : Caller(c, x(wire))
  BY <1>2 DEF Serve
<1>4. seen \subseteq Publication /\ misses' \in 0..MaxMisses
  BY <1>2, SeenSound
<1>5. SoundView(view)
  BY <1>1, <1>4 DEF CallerShape, SoundView
<1> DEFINE laid == overlays(wire)
<1> HIDE DEF view
<1>6. \A s \in laid : \E u \in view.universe : s \in Overlays(c, u, wire)
  OBVIOUS
<1>7. /\ answer(wire) \in {"STATIC", "LIVE", "FAILED"}
      /\ answer(wire) = "STATIC" <=> static
      /\ answer(wire) = "LIVE" => ~static /\ laid # {}
      /\ answer(wire) = "FAILED" => ~static /\ laid = {}
  BY Zenon
<1> HIDE DEF overlays, answer
<1>8. \A u \in view.universe : u.codes \subseteq Codes
  BY <1>5 DEF SoundView, Publication
<1>9. \A s \in laid : \E u \in view.universe : HoldsExactly(s, u.codes)
  BY <1>6, <1>8, OverlaysSound
<1>10. ASSUME NEW s \in laid, NEW t \in laid PROVE s = t
  <2>1. PICK u \in view.universe : s \in Overlays(c, u, wire)
    BY <1>6
  <2>2. PICK w \in view.universe : t \in Overlays(c, w, wire)
    BY <1>6
  <2>3. u = w
    BY <1>5 DEF SoundView, AtMostOne
  <2>4. AtMostOne(Overlays(c, u, wire))
    BY <1>8, OverlaysSound
  <2> QED
    BY <2>1, <2>2, <2>3, <2>4 DEF AtMostOne
<1> DEFINE y == x(wire)
<1> HIDE DEF laid
<1>11. /\ DOMAIN y = CallerFields /\ y.pc = "done" /\ y.first = caller[c].first /\ y.second = view
       /\ y.quoted = caller[c].quoted /\ y.answer = answer(wire)
       /\ y.served = IF static THEN caller[c].quoted ELSE laid
  BY <1>1 DEF CallerShape, CallerFields, laid
<1> HIDE DEF x, y
<1>12. SoundQuotes(caller[c].quoted) /\ caller[c].quoted # {}
  BY <1>1 DEF CallerShape
<1>13. \E q : caller[c].quoted = {q}
  BY <1>12 DEF SoundQuotes, AtMostOne
<1>14. laid # {} => \E s : laid = {s}
  BY <1>10
<1> HIDE DEF static
<1>15. /\ y.answer \in {"STATIC", "LIVE", "FAILED"}
       /\ y.answer \in {"STATIC", "LIVE"} => \E s : y.served = {s}
       /\ y.answer = "FAILED" => y.served = {}
  BY <1>7, <1>11, <1>13, <1>14
<1>16. y.answer = "LIVE" => \A s \in y.served : \E u \in y.second.universe :
         Applies(y.second) /\ HoldsExactly(s, u.codes)
  BY <1>7, <1>9, <1>11 DEF static
<1>17. SoundAnswer(y)
  BY <1>15, <1>16 DEF SoundAnswer
<1>18. CallerShape(y)
  BY <1>1, <1>5, <1>11, <1>17 DEF CallerShape, CallerSteps
<1>19. Caller(c, y)
  BY <1>3 DEF y
<1> QED
  BY <1>4, <1>18, <1>19, CallerKeepsService

LEMMA ServiceInvInit == WorkerInit => ServiceInv
<1> SUFFICES ASSUME WorkerInit PROVE ServiceInv
  OBVIOUS
<1>1. PICK w \in WorkerScenes :
        /\ caller = [c \in Callers |-> [pc |-> IF c \in w.callers THEN "idle" ELSE "done",
                                        first |-> NoView, second |-> NoView, quoted |-> {},
                                        answer |-> "NONE", served |-> {}]]
        /\ misses = 0
  BY DEF WorkerInit
<1>2. ASSUME NEW c \in Callers PROVE CallerShape(caller[c])
  <2>1. caller[c] = [pc |-> IF c \in w.callers THEN "idle" ELSE "done",
                     first |-> NoView, second |-> NoView, quoted |-> {},
                     answer |-> "NONE", served |-> {}]
    BY <1>1
  <2>2. SoundView(NoView)
    BY DEF SoundView, NoView, AtMostOne
  <2>3. /\ DOMAIN caller[c] = CallerFields /\ caller[c].pc \in {"idle", "done"}
        /\ caller[c].first = NoView /\ caller[c].second = NoView
        /\ caller[c].quoted = {} /\ caller[c].answer = "NONE" /\ caller[c].served = {}
    BY <2>1 DEF CallerFields
  <2>4. SoundQuotes(caller[c].quoted) /\ SoundAnswer(caller[c])
    BY <2>3 DEF SoundQuotes, SoundAnswer, AtMostOne
  <2> QED
    BY <2>2, <2>3, <2>4 DEF CallerShape, CallerSteps
<1> QED
  BY <1>1, <1>2, WorkerAssumption DEF ServiceInv

LEMMA ServiceInvStep == ServiceInv /\ Surroundings /\ [WorkerNext]_workerVars => ServiceInv'
<1> SUFFICES ASSUME ServiceInv, Surroundings, [WorkerNext]_workerVars PROVE ServiceInv'
  OBVIOUS
<1>1. ASSUME NEW c \in Callers, CallerStep(c) PROVE ServiceInv'
  BY <1>1, StartKeepsService, UniverseKeepsService, CheckKeepsService, QuotesKeepService,
     ServeKeepsService DEF CallerStep
<1>2. CASE UNCHANGED callers
  BY <1>2 DEF callers, ServiceInv
<1>3. WorkerTick \/ Plane \/ Bridge \/ Table => UNCHANGED callers
  BY DEF WorkerTick, Plane, Bridge, Table
<1> QED
  BY <1>1, <1>2, <1>3 DEF WorkerNext, workerVars

LEMMA WorkerSound == WorkerSpec => [](ServiceInv /\ Surroundings /\ BridgeTypeOK /\ KvTypeOK)
<1>1. WorkerSpec => []TypeOK
  BY WorkerRefinesPlane, PlaneTypeCorrect, PTL
<1>2. WorkerSpec => []ShapeInv
  BY WorkerRefinesBridge, ShapeInvInit, ShapeInvStep, PTL DEF BridgeSpec
<1>3. TypeOK /\ ShapeInv => Surroundings
  BY DEF TypeOK, ShapeInv, Surroundings
<1>4. WorkerSpec => []BridgeTypeOK /\ []KvTypeOK
  BY WorkerRefinesBridge, BridgeTypes, WorkerRefinesTable, KvTypes, PTL
<1>5. WorkerSpec => []Surroundings
  BY <1>1, <1>2, <1>3, PTL
<1> QED
  BY <1>4, <1>5, ServiceInvInit, ServiceInvStep, PTL DEF WorkerSpec

\* The worker's parts keep their types together, and a caller that is answered LIVE or
\* STATIC is given exactly one snapshot, any other none.
THEOREM WorkerTypes == WorkerSpec => []WorkerTypeOK
<1>1. ServiceInv /\ BridgeTypeOK /\ KvTypeOK => WorkerTypeOK
  <2> SUFFICES ASSUME ServiceInv, BridgeTypeOK, KvTypeOK PROVE WorkerTypeOK
    OBVIOUS
  <2>1. ASSUME NEW c \in Callers
        PROVE  /\ caller[c].pc \in CallerSteps
               /\ caller[c].answer \in {"NONE", "REFUSED", "FAILED", "STATIC", "LIVE"}
               /\ SoundView(caller[c].first) /\ SoundView(caller[c].second)
               /\ Cardinality(caller[c].served)
                    = IF caller[c].answer \in {"STATIC", "LIVE"} THEN 1 ELSE 0
    <3>1. CallerShape(caller[c]) /\ SoundAnswer(caller[c])
      BY DEF ServiceInv, CallerShape
    <3>2. CASE caller[c].answer \in {"STATIC", "LIVE"}
      <4>1. PICK s : caller[c].served = {s}
        BY <3>1, <3>2 DEF SoundAnswer
      <4>2. Cardinality({s}) = 1
        BY FS_Singleton
      <4> QED
        BY <3>1, <3>2, <4>1, <4>2 DEF CallerShape, SoundAnswer
    <3>3. CASE caller[c].answer \notin {"STATIC", "LIVE"}
      <4>1. caller[c].served = {}
        BY <3>1, <3>3 DEF SoundAnswer
      <4>2. Cardinality({}) = 0
        BY FS_EmptySet
      <4> QED
        BY <3>1, <3>3, <4>1, <4>2 DEF CallerShape, SoundAnswer
    <3> QED
      BY <3>2, <3>3
  <2>2. misses \in 0..MaxMisses
    BY DEF ServiceInv
  <2> QED
    BY <2>1, <2>2 DEF WorkerTypeOK, SoundView
<1> QED
  BY <1>1, WorkerSound, PTL

\* A caller that is told it sees LIVE's holdings is given exactly those of one universe
\* LIVE still confirmed, each with its own quote, for every catalogue, universe and
\* answer of the provider, however LIVE posts between the caller's two looks.
THEOREM OverlaysAreExact == WorkerSpec => []OverlayExact
<1>1. ServiceInv => OverlayExact
  <2> SUFFICES ASSUME ServiceInv, NEW c \in Callers, caller[c].answer = "LIVE",
                      NEW s \in caller[c].served
               PROVE  \E u \in caller[c].second.universe :
                        Applies(caller[c].second) /\ HoldsExactly(s, u.codes)
    BY DEF OverlayExact, HoldsExactly
  <2> QED
    BY DEF ServiceInv, CallerShape, SoundAnswer
<1> QED
  BY <1>1, WorkerSound, PTL
=============================================================================
