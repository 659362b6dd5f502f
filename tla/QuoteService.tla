---------------------------- MODULE QuoteService ----------------------------
(***************************************************************************)
(* The worker's quotes and LIVE's documents together: requests of the      *)
(* dynamic portfolio endpoint (src/src/index.ts,                           *)
(* handleDynamicPortfolioQuotes) check what LIVE says, fetch quotes of the *)
(* private catalogue, and look a second time at what LIVE says to lay it   *)
(* over them, while LIVE posts, the quote bridge runs, and others use the  *)
(* D1 tables.                                                              *)
(***************************************************************************)
EXTENDS PortfolioPlane, QuoteBridge, D1KeyValue

CONSTANTS
  Callers,      \* requests of the endpoint
  WorkerScenes, \* a scenario of each part, and the callers there are
  MaxMisses     \* bound on reads of callers that fail

ASSUME WorkerAssumption ==
  /\ MaxMisses \in Nat /\ Codes \subseteq Instruments /\ IsFiniteSet(Codes)
  /\ \A w \in WorkerScenes : w.bridge \in BridgeScenes /\ w.kv \in KvScenes

VARIABLES
  caller,  \* each caller's program counter, what it read both times, and its answer
  misses   \* reads of callers that failed so far

callers == <<caller, misses>>
workerVars == <<vars, bridgeState, kvState, callers>>

CallerSteps == {"idle", "universe", "status", "quotes", "universe again", "status again", "done"}

NoView == [now |-> 0, universe |-> {}, status |-> {}]

\* The parts have their types, and a caller answers LIVE or STATIC with one snapshot.
WorkerTypeOK ==
  /\ BridgeTypeOK /\ KvTypeOK /\ misses \in 0..MaxMisses
  /\ \A c \in Callers :
       /\ caller[c].pc \in CallerSteps
       /\ \A v \in {"first", "second"} :
            /\ caller[c][v].now \in Nat
            /\ caller[c][v].universe \subseteq Publication /\ caller[c][v].status \subseteq Publication
       /\ caller[c].answer \in {"NONE", "REFUSED", "FAILED", "STATIC", "LIVE"}
       /\ Cardinality(caller[c].served) = IF caller[c].answer \in {"STATIC", "LIVE"} THEN 1 ELSE 0

WorkerInit ==
  \E w \in WorkerScenes :
    /\ Init
    /\ program = w.plane.program /\ overlap = w.plane.overlap
    /\ {i \in Posts : post[i].pc = "idle"} = w.plane.posts
    /\ {r \in Readers : reader[r].pc = "idle"} = w.plane.readers
    /\ BridgeStart(w.bridge) /\ KvStart(w.kv)
    /\ caller = [c \in Callers |-> [pc |-> IF c \in w.callers THEN "idle" ELSE "done",
                                    first |-> NoView, second |-> NoView, quoted |-> {},
                                    answer |-> "NONE", served |-> {}]]
    /\ misses = 0

Miss == misses < MaxMisses /\ misses' = misses + 1

Caller(c, locals) ==
  /\ caller' = [caller EXCEPT ![c] = locals]
  /\ UNCHANGED <<vars, bridgeState, kvState>>

Respond(c, answer, served) ==
  Caller(c, [caller[c] EXCEPT !.pc = "done", !.answer = answer, !.served = served])

\* resolvePortfolioPresentation's apply_overlay of what was read
Applies(view) ==
  \E u \in view.universe, s \in view.status :
    PresentedPair(u, s, view.now) # "PORTFOLIO_UNKNOWN" /\ Fresh(u, s.confirmed, view.now)

StartCaller(c) ==
  /\ caller[c].pc = "idle"
  /\ Caller(c, [caller[c] EXCEPT !.pc = "universe", !.first.now = clock])
  /\ UNCHANGED misses

\* A universe that cannot be read fails the request.
CallerUniverse(c) ==
  \/ /\ caller[c].pc = "universe"
     /\ Caller(c, [caller[c] EXCEPT !.pc = "status", !.first.universe = universe])
     /\ UNCHANGED misses
  \/ /\ caller[c].pc = "universe again"
     /\ Caller(c, [caller[c] EXCEPT !.pc = "status again", !.second.universe = universe])
     /\ UNCHANGED misses
  \/ /\ caller[c].pc \in {"universe", "universe again"} /\ Miss
     /\ Respond(c, "FAILED", {})

\* A status document that cannot be read counts as missing.
StatusSeen(seen) == (seen = status /\ UNCHANGED misses) \/ (seen = {} /\ Miss)

\* The request is refused unless the overlay applies.
CheckStatus(c) ==
  /\ caller[c].pc = "status"
  /\ \E seen \in {status, {}} :
       /\ StatusSeen(seen)
       /\ LET view == [caller[c].first EXCEPT !.status = seen]
          IN Caller(c, [caller[c] EXCEPT !.first = view, !.pc = IF Applies(view) THEN "quotes" ELSE "done",
                                         !.answer = IF Applies(view) THEN @ ELSE "REFUSED"])

\* The quotes of the catalogue, all of them or a failed request; the clock is read again.
CallerQuotes(c) ==
  /\ caller[c].pc = "quotes"
  /\ \E wire \in Wires :
       LET quoted == UNION {FromCatalog(catalog, wire, clock) : catalog \in catalogs.d1}
       IN IF quoted = {} THEN Respond(c, "FAILED", {})
          ELSE Caller(c, [caller[c] EXCEPT !.pc = "universe again", !.second.now = clock, !.quoted = quoted])
  /\ UNCHANGED misses

\* The quotes with the holdings u laid over them, those that are missing fetched first.
Overlays(c, u, wire) ==
  UNION {Project(s, u.codes) : s \in UNION {CompleteMissing(q, u.codes, wire) : q \in caller[c].quoted}}

\* Variant: holdings that could not be quoted count as none.
ServeUnquoted(c, view) ==
  \E wire \in Wires :
    LET overlays == UNION {Overlays(c, u, wire) : u \in view.universe}
        static == ~Applies(view)
    IN Caller(c, [caller[c] EXCEPT
         !.pc = "done", !.second = view,
         !.served = IF static THEN caller[c].quoted ELSE overlays,
         !.answer = IF static THEN "STATIC" ELSE "LIVE"])

\* What a request serves once it has looked again: the overlay if LIVE still confirms
\* its holdings, and the quotes as they are if it does not.
Serve(c, view) ==
  \E wire \in Wires :
    LET overlays == UNION {Overlays(c, u, wire) : u \in view.universe}
        static == ~Applies(view)
    IN Caller(c, [caller[c] EXCEPT
         !.pc = "done", !.second = view,
         !.served = IF static THEN caller[c].quoted ELSE overlays,
         !.answer = CASE static -> "STATIC" [] ~static /\ overlays # {} -> "LIVE"
                      [] ~static /\ overlays = {} -> "FAILED"])

ServeStatus(c) ==
  /\ caller[c].pc = "status again"
  /\ \E seen \in {status, {}} :
       StatusSeen(seen) /\ Serve(c, [caller[c].second EXCEPT !.status = seen])

CallerStep(c) ==
  \/ StartCaller(c) \/ CallerUniverse(c) \/ CheckStatus(c)
  \/ CallerQuotes(c) \/ ServeStatus(c)

\* Time passes for all at once.
WorkerTick ==
  /\ KvTick
  /\ UNCHANGED <<kv, program, overlap, post, reader, faults, bridgeState, callers>>

\* A step of one part leaves the others as they are.
Plane == UNCHANGED <<bridgeState, kvState, callers>>
Bridge == UNCHANGED <<kv, program, overlap, post, reader, faults, kvState, callers>>
Table == UNCHANGED <<kv, program, overlap, post, reader, faults, bridgeState, callers>>

WorkerNext ==
  \/ WorkerTick
  \/ \E i \in Posts :
       \/ StartPost(i) /\ Plane
       \/ Evict(i) /\ Plane
       \/ PutUniverse(i) /\ Plane
       \/ PutStatus(i) /\ Plane
       \/ ReadUniverse(i) /\ Plane
       \/ ReadBaseline(i) /\ Plane
       \/ ReadDelta(i) /\ Plane
       \/ PutDelta(i) /\ Plane
       \/ PutBaseline(i) /\ Plane
       \/ KvFault(i) /\ Plane
  \/ \E r \in Readers :
       \/ StartReader(r) /\ Plane
       \/ ReaderUniverse(r) /\ Plane
       \/ ReaderStatus(r) /\ Plane
  \/ \E r \in Runs :
       \/ StartRun(r) /\ Bridge
       \/ ReadIssue(r) /\ Bridge
       \/ FetchQuotes(r) /\ Bridge
       \/ PatchIssue(r) /\ Bridge
       \/ LoseRun(r) /\ Bridge
  \/ \E key \in Keys, ttl \in Ttls : KvPut(key, ttl) /\ Table
  \/ \E key \in Keys : KvDelete(key) /\ Table
  \/ StartListing /\ Table
  \/ ListPage /\ Table
  \/ \E c \in Callers : CallerStep(c)

WorkerSpec == WorkerInit /\ [][WorkerNext]_workerVars

-----------------------------------------------------------------------------
(* Properties.                                                             *)

\* An answer that claims LIVE's holdings has exactly one whole universe of them, which
\* LIVE still confirmed, each with its own quote, whether the catalogue lists it or not:
\* no row of the catalogue that is no longer held passes for one, and nothing
\* the provider left out is made up.  A mapping row is never a position.
OverlayExact ==
  \A c \in Callers : caller[c].answer = "LIVE" =>
    \A s \in caller[c].served : \E u \in caller[c].second.universe :
      LET rows == {s.stocks[i] : i \in DOMAIN s.stocks}
      IN /\ Applies(caller[c].second) /\ Valid(s)
         /\ u.codes \subseteq {r.id : r \in rows}
         /\ {r.id : r \in {x \in rows : x.is_position}}
              = u.codes \ {r.id : r \in {x \in rows : x.mapping_only}}
         /\ \A r \in rows : r.quote = {r.id} /\ (r.portfolio_group \in {"core", "growth"} => r.is_position)

\* The endpoint shows LIVE's holdings or says why it cannot: it does not answer with the
\* catalogue without holdings, and no word of it, when the state LIVE is in is unknown.
UnknownIsRefused ==
  \A c \in Callers : caller[c].answer = "STATIC" =>
    \E u \in caller[c].second.universe, s \in caller[c].second.status :
      PresentedPair(u, s, caller[c].second.now) # "PORTFOLIO_UNKNOWN"
=============================================================================
