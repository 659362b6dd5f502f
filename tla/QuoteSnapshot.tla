--------------------------- MODULE QuoteSnapshot ---------------------------
(***************************************************************************)
(* The documents quotes travel in, as operators: the provider's answers,   *)
(* the private catalogue, the rich snapshot and its validation, the LIVE   *)
(* overlay and the public projection.  src/src/portfolio-validation.ts,    *)
(* quote-catalog.ts, dynamic-quotes.ts, live-universe.ts, live-overlay.ts  *)
(* and quote-projections.ts.                                               *)
(*                                                                         *)
(* An instrument is its market:code.  A row's prices and times are the     *)
(* instrument they are of, absent when a numeric field is null; mapped_to  *)
(* is the copy of mapping_to that validation requires.  What throws is the *)
(* empty set, what is returned a set of one.                               *)
(***************************************************************************)
EXTENDS SequencesExt

CONSTANTS
  Instruments,  \* market:code identities
  Canonical,    \* those canonicalizeIdentity accepts
  MaxRows       \* the largest catalogue

ASSUME SnapshotAssumption == Canonical \subseteq Instruments /\ MaxRows \in Nat

PortfolioGroups == {"core", "growth", "watch", "mapping"}

\* The broad group and the status that go with a portfolio group.
BroadGroup == [core |-> "Core", mapping |-> "Core", growth |-> "Growth", watch |-> "Watch"]
StatusOf == [core |-> {"CORE"}, growth |-> {"GROWTH"}, watch |-> {"WATCH"}, mapping |-> {}]

-----------------------------------------------------------------------------
(* portfolio-validation.ts                                                 *)

Ids(rows) == {rows[i].id : i \in DOMAIN rows}

Distinct(rows) == \A i, k \in DOMAIN rows : rows[i].id = rows[k].id => i = k

Classified(r) ==
  /\ r.group = BroadGroup[r.portfolio_group]
  /\ r.portfolio_status = StatusOf[r.portfolio_group]
  /\ r.mapping_only <=> r.portfolio_group = "mapping"
  /\ r.holding_status = "MAPPING_ONLY" <=> r.portfolio_group = "mapping"
  /\ r.mapping_to # {} <=> r.portfolio_group = "mapping"
  /\ r.is_position <=> r.holding_status = "ACTIVE"
  /\ IF r.is_position THEN r.position_qty # "zero" ELSE r.position_qty = "zero"

\* Only a row that is no position may lack prices.
ValidStock(r) == Classified(r) /\ (r.is_position => r.quote # {})

\* A row as the portfolio universe lists it, without its prices.
Member(r) == [f \in DOMAIN r \ {"quote"} |-> r[f]]

Number(rows, group) == Cardinality({i \in DOMAIN rows : rows[i].portfolio_group = group})

\* getSnapshotCounts
Counts(rows) ==
  [quoted |-> Cardinality({i \in DOMAIN rows : rows[i].is_position \/ rows[i].mapping_only}),
   held |-> Cardinality({i \in DOMAIN rows : rows[i].is_position}),
   groups |-> [g \in PortfolioGroups |-> Number(rows, g)]]

\* validateSnapshot; the derived counts of a summary may be left out.
Valid(s) ==
  /\ s.schema = "rich"
  /\ s.total = Len(s.stocks)
  /\ \A i \in DOMAIN s.stocks : ValidStock(s.stocks[i])
  /\ \A i \in DOMAIN s.universe : Classified(s.universe[i])
  /\ Len(s.universe) = Len(s.stocks)
  /\ Distinct(s.stocks) /\ Distinct(s.universe)
  /\ \A i \in DOMAIN s.universe : \E k \in DOMAIN s.stocks : s.universe[i] = Member(s.stocks[k])
  /\ s.counts \subseteq {Counts(s.stocks)}

\* A snapshot of these rows, with its universe and counts.
Snapshot(rows, time, usable) ==
  [schema |-> "rich", time |-> time, stocks |-> rows,
   universe |-> [i \in DOMAIN rows |-> Member(rows[i])],
   total |-> Len(rows), counts |-> {Counts(rows)}, usable |-> usable]

-----------------------------------------------------------------------------
(* dynamic-quotes.ts                                                       *)

\* An answer of the provider: whether there is one with the symbol that was asked for,
\* the code in its record, and whether every field it needs is there.
Response == [found : BOOLEAN, code : Instruments, complete : BOOLEAN]

\* parseTencentQuoteResponse
Quote(id, w) == IF w.found /\ w.code = id /\ w.complete THEN {w.code} ELSE {}

\* normalizeProviderQuote: a newly seen holding, in the watch bucket.
ProviderRow(id, quote) ==
  [id |-> id, group |-> "Watch", portfolio_group |-> "watch", portfolio_status |-> {"WATCH"},
   holding_status |-> "ACTIVE", mapping_only |-> FALSE, mapping_to |-> {},
   position_qty |-> "null", is_position |-> TRUE, quote |-> quote]

\* fetchDynamicQuoteRows: every identity is good and every quote is had, or there are no rows.
FetchRows(ids, wire) ==
  IF /\ \A i \in DOMAIN ids : ids[i] \in Canonical /\ Quote(ids[i], wire[ids[i]]) # {}
     /\ \A i, k \in DOMAIN ids : ids[i] = ids[k] => i = k
    THEN {[i \in DOMAIN ids |-> ProviderRow(ids[i], Quote(ids[i], wire[ids[i]]))]}
    ELSE {}

\* The rows at these places, in their order: a loop that skips rows, as mergeDynamicQuoteRows
\* and applyLiveUniverse have.
Filtered(rows, places) ==
  [n \in 1..Cardinality(places) |->
     rows[CHOOSE i \in places : Cardinality({k \in places : k <= i}) = n]]

\* mergeDynamicQuoteRows: a batch of exactly the rows that were asked for is added.
Merge(s, ids, rows) ==
  IF /\ \A i, k \in DOMAIN ids : ids[i] = ids[k] => i = k
     /\ Distinct(rows) /\ Ids(rows) = {ids[i] : i \in DOMAIN ids}
    THEN LET new == Filtered(rows, {i \in DOMAIN rows : rows[i].id \notin Ids(s.stocks)})
         IN {Snapshot(s.stocks \o new, s.time, Len(s.stocks \o new))}
    ELSE {}

-----------------------------------------------------------------------------
(* quote-catalog.ts                                                        *)

Item(r) ==
  [f \in {"id", "group", "portfolio_group", "portfolio_status", "mapping_only", "mapping_to"} |-> r[f]]

\* validateQuoteCatalog: weaker than what validation asks of the rows made from it.
ValidCatalog(c) == Len(c) \in 1..MaxRows /\ Distinct(c)

\* writeQuoteCatalog of quoteCatalogFromSnapshot
CatalogFrom(s) ==
  IF Valid(s) THEN {c \in {[i \in DOMAIN s.stocks |-> Item(s.stocks[i])]} : ValidCatalog(c)} ELSE {}

\* Variant: a row keeps the holding it was made with.
ClassifiedRowHeld(row, item) ==
  [row EXCEPT !.group = item.group, !.portfolio_group = item.portfolio_group,
              !.portfolio_status = item.portfolio_status, !.mapping_only = item.mapping_only,
              !.mapping_to = item.mapping_to]

\* classifiedRow: the catalogue says what an instrument is, never that it is held.
ClassifiedRow(row, item) ==
  LET mapping == item.portfolio_group = "mapping" \/ item.mapping_only
  IN [row EXCEPT !.group = item.group, !.portfolio_group = item.portfolio_group,
                 !.portfolio_status = item.portfolio_status,
                 !.holding_status = IF mapping THEN "MAPPING_ONLY" ELSE "WATCH",
                 !.mapping_only = mapping, !.mapping_to = item.mapping_to,
                 !.position_qty = "zero", !.is_position = FALSE]

\* fetchQuoteSnapshotFromCatalog
FromCatalog(c, wire, now) ==
  IF ~ValidCatalog(c) THEN {}
  ELSE {s \in {Snapshot([i \in DOMAIN rows |-> ClassifiedRow(rows[i], c[i])], now, Len(rows)) :
                 rows \in FetchRows([i \in DOMAIN c |-> c[i].id], wire)} : Valid(s)}

-----------------------------------------------------------------------------
(* live-universe.ts, live-overlay.ts and completeMissingLiveQuotes         *)

\* completeMissingLiveQuotes: holdings the catalogue does not list are quoted too.
CompleteMissing(s, codes, wire) ==
  LET missing == SetToSeq(codes \ Ids(s.stocks))
  IN IF missing = <<>> THEN {s}
     ELSE UNION {Merge(s, missing, rows) : rows \in FetchRows(missing, wire)}

\* Mapping rows are never held, watch rows are when LIVE says so, and core and growth
\* rows that LIVE does not hold are left out.
Overlaid(r, codes) ==
  IF r.mapping_only \/ r.portfolio_group = "mapping"
    THEN [r EXCEPT !.is_position = FALSE, !.position_qty = "zero", !.holding_status = "MAPPING_ONLY"]
  ELSE IF r.id \in codes
    THEN [r EXCEPT !.is_position = TRUE, !.position_qty = "null", !.holding_status = "ACTIVE"]
  ELSE [r EXCEPT !.is_position = FALSE, !.position_qty = "zero", !.holding_status = "WATCH"]

\* Variant: core and growth rows stay although LIVE no longer holds them.
ApplyLiveAll(s, codes) ==
  Snapshot([i \in DOMAIN s.stocks |-> [s.stocks[i] EXCEPT !.is_position = @ \/ s.stocks[i].id \in codes]],
           s.time, s.usable)

\* applyLiveUniverse; usable stays what it was.
ApplyLive(s, codes) ==
  LET Stays(r) == r.mapping_only \/ r.portfolio_group \in {"mapping", "watch"} \/ r.id \in codes
      kept == Filtered(s.stocks, {i \in DOMAIN s.stocks : Stays(s.stocks[i])})
  IN Snapshot([i \in DOMAIN kept |-> Overlaid(kept[i], codes)], s.time, s.usable)

\* projectCallerSnapshot for a caller that may see holdings: all of them quoted, or nothing.
Project(s, codes) == IF codes \subseteq Ids(s.stocks) THEN {ApplyLive(s, codes)} ELSE {}

-----------------------------------------------------------------------------
(* quote-projections.ts                                                    *)

\* pickPublicStock
PublicStock(r) == [id |-> r.id, quote |-> r.quote]

QuoteOnly(s) == s.schema = "public" /\ s.total = Len(s.stocks)

\* toPublicQuoteSnapshot: only a rich snapshot can be projected.
ToPublic(s) ==
  IF Valid(s)
    THEN {[schema |-> "public", time |-> s.time, stocks |-> [i \in DOMAIN s.stocks |-> PublicStock(s.stocks[i])],
           total |-> s.total, usable |-> s.usable]}
    ELSE {}
=============================================================================
