------------------------- MODULE QuoteBridgeProofs -------------------------
(***************************************************************************)
(* Theorems about the documents quotes travel in and about the quote       *)
(* bridge: whatever catalogue, provider's answer, holdings and runs there  *)
(* are, what is made of them is valid, carries the quotes it says, and is  *)
(* never a mixture.                                                        *)
(***************************************************************************)
EXTENDS QuoteBridge, FiniteSetTheorems, SequenceTheorems, TLAPS

-----------------------------------------------------------------------------
(* Rows, in the order they are kept.                                       *)

\* Which place each row is from that filtering gives: each place that is kept, once.
Picks(rows, places, at) ==
  /\ at \in [1..Cardinality(places) -> places]
  /\ \A j, k \in 1..Cardinality(places) : at[j] = at[k] => j = k
  /\ \A i \in places : \E j \in 1..Cardinality(places) : at[j] = i
  /\ Filtered(rows, places) = [j \in 1..Cardinality(places) |-> rows[at[j]]]

LEMMA FilteredPlaces ==
  ASSUME NEW rows, NEW n \in Nat, NEW places \in SUBSET (1..n)
  PROVE  Cardinality(places) \in Nat /\ \E at : Picks(rows, places, at)
<1> DEFINE m == Cardinality(places)
           upto(i) == {k \in places : k <= i}
           number == [i \in places |-> Cardinality(upto(i))]
<1>1. IsFiniteSet(places) /\ m \in Nat
  <2>1. IsFiniteSet(1..n)
    BY FS_Interval
  <2>2. IsFiniteSet(places)
    BY <2>1, FS_Subset
  <2> QED
    BY <2>2, FS_CardinalityType
<1>2. ASSUME NEW i \in places PROVE IsFiniteSet(upto(i)) /\ Cardinality(upto(i)) \in 1..m
  <2>1. upto(i) \in SUBSET places
    OBVIOUS
  <2>2. IsFiniteSet(upto(i)) /\ Cardinality(upto(i)) \in Nat /\ Cardinality(upto(i)) <= m
    BY <1>1, <2>1, FS_Subset, FS_CardinalityType
  <2>3. i \in upto(i)
    OBVIOUS
  <2>4. Cardinality(upto(i)) # 0
    BY <2>2, <2>3, FS_EmptySet
  <2> HIDE DEF upto, m
  <2> QED
    BY <1>1, <2>2, <2>4
<1>3. ASSUME NEW i \in places, NEW k \in places, i < k
      PROVE  Cardinality(upto(i)) < Cardinality(upto(k))
  <2>1. upto(i) \in SUBSET upto(k)
    <3>1. ASSUME NEW x \in upto(i) PROVE x \in upto(k)
      <4>1. x \in places /\ x <= i /\ x \in Nat /\ i \in Nat /\ k \in Nat
        OBVIOUS
      <4> QED
        BY <1>3, <4>1
    <3> QED
      BY <3>1
  <2>2. k \in upto(k) /\ k \notin upto(i)
    BY <1>3
  <2>3. /\ IsFiniteSet(upto(k))
        /\ Cardinality(upto(i)) <= Cardinality(upto(k))
        /\ Cardinality(upto(i)) = Cardinality(upto(k)) => upto(i) = upto(k)
    BY <1>2, <2>1, FS_Subset
  <2>4. Cardinality(upto(i)) \in Nat /\ Cardinality(upto(k)) \in Nat
    BY <1>2
  <2> HIDE DEF upto
  <2> QED
    BY <2>2, <2>3, <2>4
<1> HIDE DEF upto
<1>4. number \in [places -> 1..m]
  BY <1>2
<1>5. \A i, k \in places : number[i] = number[k] => i = k
  <2> SUFFICES ASSUME NEW i \in places, NEW k \in places, i # k
               PROVE  number[i] # number[k]
    OBVIOUS
  <2>1. i < k \/ k < i
    OBVIOUS
  <2>2. number[i] \in Nat /\ number[k] \in Nat
    BY <1>2
  <2> QED
    BY <1>3, <2>1, <2>2
<1>6. IsFiniteSet(1..m) /\ Cardinality(1..m) = m
  <2> HIDE DEF m
  <2> QED
    BY <1>1, FS_Interval
<1>7. number \in Surjection(places, 1..m)
  <2>1. number \in Injection(places, 1..m)
    BY <1>4, <1>5 DEF Injection, IsInjective
  <2> HIDE DEF number
  <2> QED
    BY <1>1, <1>6, <2>1, FS_Injection
<1>8. \A j \in 1..m : \E i \in places : number[i] = j
  BY <1>7 DEF Surjection
<1> DEFINE at == [j \in 1..m |-> CHOOSE i \in places : number[i] = j]
<1>9. \A j \in 1..m : at[j] \in places /\ number[at[j]] = j
  BY <1>8
<1>10. Filtered(rows, places) = [j \in 1..m |-> rows[at[j]]]
  <2>1. \A j \in 1..m : (CHOOSE i \in places : Cardinality({k \in places : k <= i}) = j)
                          = (CHOOSE i \in places : number[i] = j)
    BY DEF upto
  <2>2. Filtered(rows, places)
          = [j \in 1..m |-> rows[CHOOSE i \in places : Cardinality({k \in places : k <= i}) = j]]
    BY DEF Filtered
  <2> QED
    BY <2>1, <2>2
<1>11. \A i \in places : number[i] \in 1..m /\ at[number[i]] = i
  BY <1>4, <1>5, <1>9
<1> QED
  <2>1. at \in [1..m -> places]
    BY <1>9
  <2>2. \A j, k \in 1..m : at[j] = at[k] => j = k
    BY <1>9
  <2>3. \A i \in places : \E j \in 1..m : at[j] = i
    BY <1>11
  <2> HIDE DEF at, number
  <2>4. Picks(rows, places, at)
    BY <1>10, <2>1, <2>2, <2>3 DEF Picks
  <2> QED
    BY <1>1, <2>4

-----------------------------------------------------------------------------
(* Valid snapshots.                                                        *)

RowFields == {"id", "group", "portfolio_group", "portfolio_status", "holding_status", "mapping_only",
              "mapping_to", "position_qty", "is_position", "quote"}

\* A row that validation accepts, with all its fields.
FullRow(r) == DOMAIN r = RowFields /\ ValidStock(r)

FullRows(rows) ==
  /\ Len(rows) \in Nat /\ rows = [i \in 1..Len(rows) |-> rows[i]]
  /\ \A i \in DOMAIN rows : FullRow(rows[i])
  /\ Distinct(rows)

\* A snapshot of such rows is valid.
LEMMA SnapshotOfFullRows ==
  ASSUME NEW rows, FullRows(rows), NEW time, NEW usable
  PROVE  Valid(Snapshot(rows, time, usable)) /\ Listed(Snapshot(rows, time, usable))
<1> DEFINE n == Len(rows)
           s == Snapshot(rows, time, usable)
           members == [i \in DOMAIN rows |-> Member(rows[i])]
<1>1. /\ s.schema = "rich" /\ s.stocks = rows /\ s.universe = members
      /\ s.total = Len(rows) /\ s.counts = {Counts(rows)}
  BY DEF Snapshot
<1>2. n \in Nat /\ DOMAIN rows = 1..n
  BY DEF FullRows
<1>3. ASSUME NEW i \in DOMAIN rows
      PROVE  Classified(members[i]) /\ members[i].id = rows[i].id
  <2>1. FullRow(rows[i])
    BY DEF FullRows
  <2> DEFINE r == rows[i]
  <2>2. members[i] = [f \in RowFields \ {"quote"} |-> r[f]]
    BY <2>1 DEF Member, FullRow
  <2>3. Classified(r)
    BY <2>1 DEF FullRow, ValidStock
  <2> HIDE DEF r, members
  <2>4. /\ members[i].id = r.id /\ members[i].group = r.group
        /\ members[i].portfolio_group = r.portfolio_group
        /\ members[i].portfolio_status = r.portfolio_status
        /\ members[i].mapping_only = r.mapping_only /\ members[i].holding_status = r.holding_status
        /\ members[i].mapping_to = r.mapping_to /\ members[i].is_position = r.is_position
        /\ members[i].position_qty = r.position_qty
    BY <2>2 DEF RowFields
  <2> QED
    BY <2>3, <2>4 DEF Classified, r
<1>4. DOMAIN members = 1..n /\ Len(members) = n
  <2> HIDE DEF n
  <2>1. members = [i \in 1..n |-> Member(rows[i])]
    BY <1>2
  <2> QED
    BY <1>2, <2>1
<1>5. Distinct(rows)
  BY DEF FullRows
<1>6. Distinct(members)
  <2> HIDE DEF n, members
  <2> QED
    BY <1>2, <1>3, <1>4, <1>5 DEF Distinct
<1>7. \A i \in DOMAIN members : members[i] = Member(rows[i]) /\ i \in DOMAIN rows
  OBVIOUS
<1>8. \A i \in DOMAIN rows : ValidStock(rows[i])
  BY DEF FullRows, FullRow
<1> HIDE DEF s, members, n
<1>9. Len(s.universe) = Len(s.stocks)
  BY <1>1, <1>4 DEF n
<1>10. \A i \in DOMAIN s.universe : \E k \in DOMAIN s.stocks : s.universe[i] = Member(s.stocks[k])
  BY <1>1, <1>7
<1>11. Valid(s)
  BY <1>1, <1>2, <1>3, <1>4, <1>5, <1>6, <1>8, <1>9, <1>10 DEF Valid, n
<1> QED
  BY <1>1, <1>2, <1>11 DEF Listed, s, n

-----------------------------------------------------------------------------
(* What the catalogue makes.                                               *)

\* What an item of the catalogue says of its instrument.
GoodItem(item) ==
  /\ DOMAIN item = {"id", "group", "portfolio_group", "portfolio_status", "mapping_only", "mapping_to"}
  /\ item.group = BroadGroup[item.portfolio_group]
  /\ item.portfolio_status = StatusOf[item.portfolio_group]
  /\ item.mapping_only <=> item.portfolio_group = "mapping"
  /\ item.mapping_to # {} <=> item.portfolio_group = "mapping"

\* A row that carries its own quote.
OwnQuote(r) == r.quote = {r.id}

LEMMA ClassifiedRowFull ==
  ASSUME NEW item, GoodItem(item)
  PROVE  LET r == ClassifiedRow(ProviderRow(item.id, {item.id}), item)
         IN FullRow(r) /\ OwnQuote(r) /\ r.id = item.id
<1> DEFINE p == ProviderRow(item.id, {item.id})
           r == ClassifiedRow(p, item)
           mapping == item.portfolio_group = "mapping" \/ item.mapping_only
<1>1. DOMAIN p = RowFields /\ p.id = item.id /\ p.quote = {item.id}
  BY DEF ProviderRow, RowFields
<1>2. r = [p EXCEPT !.group = item.group, !.portfolio_group = item.portfolio_group,
                    !.portfolio_status = item.portfolio_status,
                    !.holding_status = IF mapping THEN "MAPPING_ONLY" ELSE "WATCH",
                    !.mapping_only = mapping, !.mapping_to = item.mapping_to,
                    !.position_qty = "zero", !.is_position = FALSE]
  BY DEF ClassifiedRow
<1>3. mapping <=> item.portfolio_group = "mapping"
  BY DEF GoodItem
<1> HIDE DEF p, mapping
<1>4. /\ DOMAIN r = RowFields /\ r.id = item.id /\ r.quote = {item.id} /\ r.group = item.group
      /\ r.portfolio_group = item.portfolio_group /\ r.portfolio_status = item.portfolio_status
      /\ r.holding_status = (IF mapping THEN "MAPPING_ONLY" ELSE "WATCH")
      /\ r.mapping_only = mapping /\ r.mapping_to = item.mapping_to
      /\ r.position_qty = "zero" /\ r.is_position = FALSE
  BY <1>1, <1>2 DEF RowFields
<1> HIDE DEF r
<1>5. Classified(r)
  BY <1>3, <1>4 DEF Classified, GoodItem
<1> QED
  BY <1>4, <1>5 DEF FullRow, ValidStock, OwnQuote, r, p

GoodCatalog(c) ==
  /\ Len(c) \in Nat /\ DOMAIN c = 1..Len(c)
  /\ ValidCatalog(c)
  /\ \A i \in DOMAIN c : GoodItem(c[i])

LEMMA CatalogIsGood ==
  ASSUME NEW s, Listed(s), NEW c \in CatalogFrom(s)
  PROVE  GoodCatalog(c)
<1> DEFINE n == Len(s.stocks)
<1>1. c = [i \in DOMAIN s.stocks |-> Item(s.stocks[i])] /\ ValidCatalog(c) /\ Valid(s)
  BY DEF CatalogFrom
<1>2. n \in Nat /\ DOMAIN s.stocks = 1..n
  BY DEF Listed
<1>3. ASSUME NEW i \in 1..n PROVE GoodItem(Item(s.stocks[i]))
  <2> DEFINE r == s.stocks[i]
  <2>1. Classified(r)
    BY <1>1, <1>2 DEF Valid, ValidStock
  <2> HIDE DEF r
  <2> QED
    BY <2>1 DEF GoodItem, Item, Classified, r
<1> HIDE DEF n
<1>4. c = [i \in 1..n |-> Item(s.stocks[i])]
  BY <1>1, <1>2
<1>5. Len(c) = n /\ DOMAIN c = 1..n
  BY <1>2, <1>4
<1> QED
  BY <1>1, <1>2, <1>3, <1>4, <1>5 DEF GoodCatalog

\* The rows that are made of a catalogue for which every quote is had.
MadeRows(c) == [i \in 1..Len(c) |-> ClassifiedRow(ProviderRow(c[i].id, {c[i].id}), c[i])]

LEMMA MadeRowsFull ==
  ASSUME NEW c, GoodCatalog(c)
  PROVE  /\ FullRows(MadeRows(c)) /\ \A i \in DOMAIN MadeRows(c) : OwnQuote(MadeRows(c)[i])
         /\ Len(MadeRows(c)) = Len(c)
<1> DEFINE n == Len(c)
           rows == MadeRows(c)
<1>1. n \in Nat /\ DOMAIN c = 1..n
  BY DEF GoodCatalog
<1>2. ASSUME NEW i \in 1..n PROVE FullRow(rows[i]) /\ OwnQuote(rows[i]) /\ rows[i].id = c[i].id
  <2>1. GoodItem(c[i])
    BY <1>1 DEF GoodCatalog
  <2>2. rows[i] = ClassifiedRow(ProviderRow(c[i].id, {c[i].id}), c[i])
    BY DEF MadeRows
  <2> HIDE DEF rows
  <2> QED
    BY <2>1, <2>2, ClassifiedRowFull
<1> HIDE DEF n
<1>3. rows = [i \in 1..n |-> ClassifiedRow(ProviderRow(c[i].id, {c[i].id}), c[i])]
  BY DEF MadeRows, n
<1>4. Len(rows) = n /\ DOMAIN rows = 1..n /\ rows = [i \in 1..n |-> rows[i]]
  <2> HIDE DEF rows
  <2> QED
    BY <1>1, <1>3
<1>5. Distinct(c)
  BY DEF GoodCatalog, ValidCatalog
<1> HIDE DEF rows
<1>6. Distinct(rows)
  BY <1>1, <1>2, <1>4, <1>5 DEF Distinct
<1> QED
  BY <1>1, <1>2, <1>4, <1>6 DEF FullRows, rows, n

\* The quotes a wire gives for the instruments of a catalogue, one that is had for all.
LEMMA FetchedOfCatalog ==
  ASSUME NEW c, GoodCatalog(c), NEW wire,
         NEW rows \in FetchRows([i \in DOMAIN c |-> c[i].id], wire)
  PROVE  rows = [i \in 1..Len(c) |-> ProviderRow(c[i].id, {c[i].id})]
<1> DEFINE ids == [i \in DOMAIN c |-> c[i].id]
           n == Len(c)
<1>1. DOMAIN c = 1..n
  BY DEF GoodCatalog
<1>2. /\ \A i \in DOMAIN ids : Quote(ids[i], wire[ids[i]]) # {}
      /\ rows = [i \in DOMAIN ids |-> ProviderRow(ids[i], Quote(ids[i], wire[ids[i]]))]
  BY DEF FetchRows
<1>3. \A i \in DOMAIN ids : Quote(ids[i], wire[ids[i]]) = {ids[i]}
  BY <1>2 DEF Quote
<1>4. DOMAIN ids = 1..n /\ \A i \in 1..n : ids[i] = c[i].id
  BY <1>1
<1> HIDE DEF ids, n
<1>5. rows = [i \in 1..n |-> ProviderRow(c[i].id, {c[i].id})]
  BY <1>2, <1>3, <1>4
<1> QED
  BY <1>5 DEF n

\* A snapshot made from a catalogue.
LEMMA MadeOfCatalog ==
  ASSUME NEW c, GoodCatalog(c), NEW wire, NEW now, NEW s \in FromCatalog(c, wire, now)
  PROVE  FullRows(s.stocks) /\ \A i \in DOMAIN s.stocks : OwnQuote(s.stocks[i])
<1> DEFINE n == Len(c)
<1>1. PICK rows \in FetchRows([i \in DOMAIN c |-> c[i].id], wire) :
        s = Snapshot([i \in DOMAIN rows |-> ClassifiedRow(rows[i], c[i])], now, Len(rows))
  BY DEF FromCatalog
<1>2. rows = [i \in 1..n |-> ProviderRow(c[i].id, {c[i].id})]
  BY FetchedOfCatalog
<1> HIDE DEF n
<1>3. [i \in DOMAIN rows |-> ClassifiedRow(rows[i], c[i])]
        = [i \in 1..n |-> ClassifiedRow(ProviderRow(c[i].id, {c[i].id}), c[i])]
  BY <1>2
<1>4. s.stocks = MadeRows(c)
  BY <1>1, <1>3 DEF Snapshot, MadeRows, n
<1> QED
  BY <1>4, MadeRowsFull

\* A catalogue of instruments the worker can ask for makes a snapshot when the
\* provider answers for every one.
LEMMA CatalogMakesSnapshot ==
  ASSUME NEW c, GoodCatalog(c), \A i \in DOMAIN c : c[i].id \in Canonical, NEW now
  PROVE  FromCatalog(c, [i \in Instruments |-> [found |-> TRUE, code |-> i, complete |-> TRUE]], now) # {}
<1> DEFINE n == Len(c)
           wire == [i \in Instruments |-> [found |-> TRUE, code |-> i, complete |-> TRUE]]
           ids == [i \in DOMAIN c |-> c[i].id]
           rows == [i \in 1..n |-> ProviderRow(c[i].id, {c[i].id})]
           s == Snapshot(MadeRows(c), now, n)
<1>1. n \in Nat /\ DOMAIN c = 1..n /\ ValidCatalog(c) /\ Distinct(c)
  BY DEF GoodCatalog, ValidCatalog
<1>2. \A i \in DOMAIN c : c[i].id \in Instruments
  BY SnapshotAssumption
<1>3. ASSUME NEW i \in DOMAIN c PROVE Quote(ids[i], wire[ids[i]]) = {c[i].id}
  BY <1>2 DEF Quote
<1>4. \A i, k \in DOMAIN ids : ids[i] = ids[k] => i = k
  BY <1>1 DEF Distinct
<1> HIDE DEF wire, n
<1>5. rows = [i \in DOMAIN ids |-> ProviderRow(ids[i], Quote(ids[i], wire[ids[i]]))]
  BY <1>1, <1>3
<1>6. \A i \in DOMAIN ids : ids[i] \in Canonical /\ Quote(ids[i], wire[ids[i]]) # {}
  BY <1>3
<1> HIDE DEF ids
<1>7. rows \in FetchRows(ids, wire)
  BY <1>4, <1>5, <1>6 DEF FetchRows
<1>8. DOMAIN rows = 1..n /\ Len(rows) = n
  BY <1>1
<1>9. [i \in DOMAIN rows |-> ClassifiedRow(rows[i], c[i])] = MadeRows(c)
  BY <1>8 DEF MadeRows, n
<1> HIDE DEF rows
<1>10. Valid(s)
  BY MadeRowsFull, SnapshotOfFullRows
<1>11. s \in {t \in {Snapshot([i \in DOMAIN q |-> ClassifiedRow(q[i], c[i])], now, Len(q)) :
                       q \in FetchRows(ids, wire)} : Valid(t)}
  BY <1>7, <1>8, <1>9, <1>10
<1>12. s \in FromCatalog(c, wire, now)
  BY <1>1, <1>11 DEF FromCatalog, ids
<1> QED
  BY <1>12 DEF wire

-----------------------------------------------------------------------------
(* Rows that carry their own quotes, merged and filtered.                  *)

\* Valid rows that each carry their own quote.
OwnRows(rows) == FullRows(rows) /\ \A i \in DOMAIN rows : OwnQuote(rows[i])

\* What is added for holdings the catalogue does not list.
LEMMA AddedRow ==
  ASSUME NEW id
  PROVE  /\ FullRow(ProviderRow(id, {id})) /\ OwnQuote(ProviderRow(id, {id}))
         /\ ProviderRow(id, {id}).id = id
<1> DEFINE r == ProviderRow(id, {id})
<1>1. DOMAIN r = RowFields
  BY DEF ProviderRow, RowFields
<1>2. /\ r.id = id /\ r.quote = {id} /\ r.group = "Watch" /\ r.portfolio_group = "watch"
      /\ r.portfolio_status = {"WATCH"} /\ r.holding_status = "ACTIVE" /\ r.mapping_only = FALSE
      /\ r.mapping_to = {} /\ r.position_qty = "null" /\ r.is_position = TRUE
  BY DEF ProviderRow
<1> HIDE DEF r
<1>3. Classified(r)
  BY <1>2 DEF Classified, BroadGroup, StatusOf
<1> QED
  BY <1>1, <1>2, <1>3 DEF FullRow, ValidStock, OwnQuote, r

LEMMA SequenceOf ==
  ASSUME NEW n \in Nat, NEW q, q = [i \in 1..n |-> q[i]], NEW S, \A i \in 1..n : q[i] \in S
  PROVE  q \in Seq(S) /\ Len(q) = n /\ DOMAIN q = 1..n
<1>1. q \in [1..n -> S]
  OBVIOUS
<1> QED
  BY <1>1, SeqDef

\* One sequence of rows after another, with no instrument in both.
LEMMA JoinedRows ==
  ASSUME NEW a, OwnRows(a), NEW b, OwnRows(b),
         \A i \in DOMAIN a, j \in DOMAIN b : a[i].id # b[j].id
  PROVE  OwnRows(a \o b)
<1> DEFINE n == Len(a)
           m == Len(b)
           all == a \o b
           S == {a[i] : i \in 1..n} \cup {b[i] : i \in 1..m}
<1>1. n \in Nat /\ m \in Nat /\ a = [i \in 1..n |-> a[i]] /\ b = [i \in 1..m |-> b[i]]
  BY DEF OwnRows, FullRows
<1>2. a \in Seq(S) /\ b \in Seq(S) /\ DOMAIN a = 1..n /\ DOMAIN b = 1..m
  <2> \A i \in 1..n : a[i] \in S
    OBVIOUS
  <2> \A i \in 1..m : b[i] \in S
    OBVIOUS
  <2> HIDE DEF n, m, S
  <2> QED
    BY <1>1, SequenceOf
<1> HIDE DEF S
<1>3. /\ all \in Seq(S) /\ Len(all) = n + m
      /\ \A i \in 1..n + m : all[i] = IF i <= n THEN a[i] ELSE b[i - n]
  BY <1>2, ConcatProperties
<1>4. all = [i \in 1..n + m |-> all[i]]
  <2> HIDE DEF all, n, m
  <2> QED
    BY <1>1, <1>3
<1> HIDE DEF all
<1>5. DOMAIN all = 1..n + m
  BY <1>4
<1>6. \A i \in DOMAIN a : FullRow(a[i]) /\ OwnQuote(a[i])
  BY DEF OwnRows, FullRows
<1>7. \A i \in DOMAIN b : FullRow(b[i]) /\ OwnQuote(b[i])
  BY DEF OwnRows, FullRows
<1>8. Distinct(a) /\ Distinct(b)
  BY DEF OwnRows, FullRows
<1> HIDE DEF n, m
<1>9. ASSUME NEW i \in 1..n + m
      PROVE  \/ i \in DOMAIN a /\ all[i] = a[i]
             \/ i - n \in DOMAIN b /\ all[i] = b[i - n]
  <2>1. CASE i <= n
    <3>1. all[i] = a[i]
      BY <1>3, <2>1
    <3>2. i \in 1..n
      BY <1>1, <2>1
    <3> QED
      BY <1>2, <3>1, <3>2
  <2>2. CASE ~(i <= n)
    <3>1. i - n \in 1..m
      BY <1>1, <2>2
    <3> QED
      BY <1>2, <1>3, <2>2, <3>1
  <2> QED
    BY <2>1, <2>2
<1>10. \A i \in 1..n + m : FullRow(all[i]) /\ OwnQuote(all[i])
  BY <1>6, <1>7, <1>9
<1>11. ASSUME NEW i \in 1..n + m, NEW k \in 1..n + m, all[i].id = all[k].id
       PROVE  i = k
  <2>1. CASE i \in DOMAIN a /\ all[i] = a[i] /\ k \in DOMAIN a /\ all[k] = a[k]
    BY <1>8, <1>11, <2>1 DEF Distinct
  <2>2. CASE /\ i - n \in DOMAIN b /\ all[i] = b[i - n]
             /\ k - n \in DOMAIN b /\ all[k] = b[k - n]
    <3>1. i - n = k - n
      BY <1>8, <1>11, <2>2 DEF Distinct
    <3> QED
      BY <1>1, <3>1
  <2> QED
    BY <1>9, <1>11, <2>1, <2>2
<1>12. Distinct(all)
  BY <1>5, <1>11 DEF Distinct
<1> QED
  <2>1. n + m \in Nat
    BY <1>1
  <2>2. Len(all) \in Nat /\ all = [i \in 1..Len(all) |-> all[i]]
    BY <1>3, <1>4, <2>1
  <2> QED
    BY <1>5, <1>10, <1>12, <2>2 DEF OwnRows, FullRows, all

\* Filtering keeps valid rows valid.
LEMMA FilteredOwnRows ==
  ASSUME NEW rows, OwnRows(rows), NEW places \in SUBSET DOMAIN rows
  PROVE  /\ OwnRows(Filtered(rows, places))
         /\ \A j \in DOMAIN Filtered(rows, places) : \E i \in places : Filtered(rows, places)[j] = rows[i]
         /\ \A i \in places : \E j \in DOMAIN Filtered(rows, places) : Filtered(rows, places)[j] = rows[i]
<1> DEFINE n == Len(rows)
           m == Cardinality(places)
           new == Filtered(rows, places)
<1>1. n \in Nat /\ rows = [i \in 1..n |-> rows[i]]
  BY DEF OwnRows, FullRows
<1>2. DOMAIN rows = 1..n
  <2> HIDE DEF n
  <2> QED
    BY <1>1
<1>3. m \in Nat /\ \E at : Picks(rows, places, at)
  <2>1. places \in SUBSET (1..n)
    BY <1>2
  <2> HIDE DEF n
  <2> QED
    BY <1>1, <2>1, FilteredPlaces
<1>4. PICK at : Picks(rows, places, at)
  BY <1>3
<1> HIDE DEF m, new
<1>5. /\ at \in [1..m -> places]
      /\ \A j, k \in 1..m : at[j] = at[k] => j = k
      /\ \A i \in places : \E j \in 1..m : at[j] = i
      /\ new = [j \in 1..m |-> rows[at[j]]]
  BY <1>4 DEF Picks, m, new
<1>6. \A j \in 1..m : at[j] \in places /\ new[j] = rows[at[j]]
  BY <1>5
<1>7. DOMAIN new = 1..m /\ Len(new) = m /\ new = [j \in 1..m |-> new[j]]
  BY <1>3, <1>5
<1>8. \A j \in 1..m : FullRow(new[j]) /\ OwnQuote(new[j])
  BY <1>6 DEF OwnRows, FullRows
<1>9. ASSUME NEW j \in 1..m, NEW k \in 1..m, new[j].id = new[k].id PROVE j = k
  <2>1. at[j] = at[k]
    BY <1>6, <1>9 DEF OwnRows, FullRows, Distinct
  <2> QED
    BY <1>5, <2>1
<1>10. Distinct(new)
  BY <1>7, <1>9 DEF Distinct
<1>11. OwnRows(new)
  BY <1>3, <1>7, <1>8, <1>10 DEF OwnRows, FullRows
<1>12. \A i \in places : \E j \in 1..m : new[j] = rows[i]
  BY <1>6, <1>5
<1> QED
  BY <1>6, <1>7, <1>11, <1>12 DEF new

\* The members of a finite set, in some order.
LEMMA SetInOrder ==
  ASSUME NEW S, IsFiniteSet(S)
  PROVE  Cardinality(S) \in Nat /\ SetToSeq(S) \in [1..Cardinality(S) -> S]
<1> DEFINE n == Cardinality(S)
<1>1. n \in Nat
  BY FS_CardinalityType
<1>2. ExistsBijection(1..n, S)
  BY FS_CardinalityType
<1>3. PICK f : f \in Bijection(1..n, S)
  BY <1>2 DEF ExistsBijection
<1>4. f \in [1..n -> S] /\ IsInjective(f)
  BY <1>3 DEF Bijection, Injection
<1>5. SetToSeq(S) = CHOOSE g \in [1..n -> S] : IsInjective(g)
  BY DEF SetToSeq
<1> QED
  BY <1>1, <1>4, <1>5

\* Snapshots completed by quotes of what the catalogue does not list.
LEMMA CompletedRows ==
  ASSUME NEW s, OwnRows(s.stocks), NEW codes, IsFiniteSet(codes), NEW wire,
         NEW t \in CompleteMissing(s, codes, wire)
  PROVE  OwnRows(t.stocks)
<1> DEFINE S == codes \ Ids(s.stocks)
           ids == SetToSeq(S)
           n == Cardinality(S)
<1>1. IsFiniteSet(S)
  BY FS_Subset
<1>2. n \in Nat /\ ids \in [1..n -> S]
  <2> HIDE DEF S
  <2> QED
    BY <1>1, SetInOrder
<1> HIDE DEF ids, n
<1>3. CASE ids = <<>>
  BY <1>3 DEF CompleteMissing, ids
<1>4. CASE ids # <<>>
  <2>1. PICK rows \in FetchRows(ids, wire) : t \in Merge(s, ids, rows)
    BY <1>4 DEF CompleteMissing, ids
  <2> HIDE DEF S
  <2>2. DOMAIN ids = 1..n
    BY <1>2
  <2>3. /\ \A i \in DOMAIN ids : Quote(ids[i], wire[ids[i]]) # {}
        /\ rows = [i \in DOMAIN ids |-> ProviderRow(ids[i], Quote(ids[i], wire[ids[i]]))]
    BY DEF FetchRows
  <2>4. \A i \in DOMAIN ids : Quote(ids[i], wire[ids[i]]) = {ids[i]}
    BY <2>3 DEF Quote
  <2>5. rows = [i \in 1..n |-> ProviderRow(ids[i], {ids[i]})]
    BY <2>2, <2>3, <2>4
  <2> DEFINE places == {i \in DOMAIN rows : rows[i].id \notin Ids(s.stocks)}
             new == Filtered(rows, places)
  <2> DEFINE allowed == /\ \A i, k \in DOMAIN ids : ids[i] = ids[k] => i = k
                        /\ Distinct(rows) /\ Ids(rows) = {ids[i] : i \in DOMAIN ids}
             merged == Snapshot(s.stocks \o new, s.time, Len(s.stocks \o new))
  <2>6. Distinct(rows) /\ t = merged
    <3>1. Merge(s, ids, rows) = IF allowed THEN {merged} ELSE {}
      BY DEF Merge
    <3>2. allowed => Distinct(rows)
      OBVIOUS
    <3> HIDE DEF allowed, merged
    <3> QED
      BY <2>1, <3>1, <3>2
  <2>7. DOMAIN rows = 1..n /\ Len(rows) = n /\ rows = [i \in 1..n |-> rows[i]]
    BY <1>2, <2>5
  <2>8. \A i \in 1..n : FullRow(rows[i]) /\ OwnQuote(rows[i])
    BY <2>5, AddedRow
  <2>9. OwnRows(rows)
    BY <1>2, <2>6, <2>7, <2>8 DEF OwnRows, FullRows
  <2>10. places \in SUBSET DOMAIN rows
    OBVIOUS
  <2>11. \A i \in places : rows[i].id \notin Ids(s.stocks)
    OBVIOUS
  <2> HIDE DEF places
  <2>12. OwnRows(new) /\ \A j \in DOMAIN new : \E i \in places : new[j] = rows[i]
    BY <2>9, <2>10, FilteredOwnRows
  <2> HIDE DEF new
  <2>13. \A i \in DOMAIN s.stocks, j \in DOMAIN new : s.stocks[i].id # new[j].id
    BY <2>11, <2>12 DEF Ids
  <2>14. OwnRows(s.stocks \o new)
    BY <2>12, <2>13, JoinedRows
  <2> QED
    BY <2>6, <2>14 DEF Snapshot
<1> QED
  BY <1>3, <1>4

-----------------------------------------------------------------------------
(* The overlay.                                                            *)

\* What the overlay makes of one row.
LEMMA OverlaidRow ==
  ASSUME NEW r, FullRow(r), OwnQuote(r), NEW codes
  PROVE  LET o == Overlaid(r, codes)
         IN /\ FullRow(o) /\ OwnQuote(o) /\ o.id = r.id
            /\ o.portfolio_group = r.portfolio_group
            /\ o.mapping_only <=> r.portfolio_group = "mapping"
            /\ o.is_position <=> r.portfolio_group # "mapping" /\ r.id \in codes
<1> DEFINE o == Overlaid(r, codes)
           mapping == r.portfolio_group = "mapping"
           held == ~mapping /\ r.id \in codes
           position == IF held THEN TRUE ELSE FALSE
           qty == IF held THEN "null" ELSE "zero"
           holding == IF mapping THEN "MAPPING_ONLY" ELSE IF held THEN "ACTIVE" ELSE "WATCH"
<1>1. DOMAIN r = RowFields /\ Classified(r) /\ r.quote = {r.id}
  BY DEF FullRow, ValidStock, OwnQuote
<1>2. r.mapping_only <=> mapping
  BY <1>1 DEF Classified
<1>3. o = [r EXCEPT !.is_position = position, !.position_qty = qty, !.holding_status = holding]
  <2>1. CASE mapping
    BY <1>2, <2>1 DEF Overlaid
  <2>2. CASE ~mapping /\ r.id \in codes
    BY <1>2, <2>2 DEF Overlaid
  <2>3. CASE ~mapping /\ r.id \notin codes
    BY <1>2, <2>3 DEF Overlaid
  <2> QED
    BY <2>1, <2>2, <2>3
<1> HIDE DEF o, position, qty, holding
<1>4. /\ DOMAIN o = RowFields /\ o.id = r.id /\ o.quote = r.quote /\ o.group = r.group
      /\ o.portfolio_group = r.portfolio_group /\ o.portfolio_status = r.portfolio_status
      /\ o.holding_status = holding /\ o.mapping_only = r.mapping_only
      /\ o.mapping_to = r.mapping_to /\ o.position_qty = qty /\ o.is_position = position
  BY <1>1, <1>3 DEF RowFields
<1>5. o.is_position <=> held
  BY <1>4 DEF position
<1>6. /\ holding = "MAPPING_ONLY" <=> mapping
      /\ holding = "ACTIVE" <=> held
      /\ qty = "zero" <=> ~held
  BY DEF holding, qty
<1>7. o.mapping_only <=> mapping
  BY <1>2, <1>4
<1> HIDE DEF held, mapping
<1>8. Classified(o)
  BY <1>1, <1>4, <1>5, <1>6, <1>7 DEF Classified, mapping
<1>9. FullRow(o) /\ OwnQuote(o)
  BY <1>1, <1>4, <1>8 DEF FullRow, ValidStock, OwnQuote
<1> QED
  BY <1>4, <1>5, <1>7, <1>9 DEF o, held, mapping

\* A snapshot whose positions are the holdings, each with its own quote.
HoldsExactly(s, codes) ==
  LET rows == {s.stocks[i] : i \in DOMAIN s.stocks}
  IN /\ Valid(s)
     /\ codes \subseteq {r.id : r \in rows}
     /\ {r.id : r \in {x \in rows : x.is_position}}
          = codes \ {r.id : r \in {x \in rows : x.mapping_only}}
     /\ \A r \in rows : r.quote = {r.id} /\ (r.portfolio_group \in {"core", "growth"} => r.is_position)

LEMMA OverlayHoldsExactly ==
  ASSUME NEW s, OwnRows(s.stocks), NEW codes, NEW p \in Project(s, codes)
  PROVE  HoldsExactly(p, codes)
<1> DEFINE Stays(r) == r.mapping_only \/ r.portfolio_group \in {"mapping", "watch"} \/ r.id \in codes
           places == {i \in DOMAIN s.stocks : Stays(s.stocks[i])}
           kept == Filtered(s.stocks, places)
           n == Len(kept)
           laid == [i \in DOMAIN kept |-> Overlaid(kept[i], codes)]
<1>1. codes \subseteq Ids(s.stocks) /\ p = ApplyLive(s, codes)
  BY DEF Project
<1>2. p = Snapshot(laid, s.time, s.usable)
  BY <1>1 DEF ApplyLive
<1>3. \A i \in DOMAIN s.stocks : FullRow(s.stocks[i]) /\ OwnQuote(s.stocks[i])
  BY DEF OwnRows, FullRows
<1>4. Distinct(s.stocks)
  BY DEF OwnRows, FullRows
<1>5. places \in SUBSET DOMAIN s.stocks /\ \A i \in places : Stays(s.stocks[i])
  OBVIOUS
<1>6. \A i \in DOMAIN s.stocks : s.stocks[i].id \in codes => i \in places
  OBVIOUS
<1> HIDE DEF places
<1>7. /\ OwnRows(kept)
      /\ \A j \in DOMAIN kept : \E i \in places : kept[j] = s.stocks[i]
      /\ \A i \in places : \E j \in DOMAIN kept : kept[j] = s.stocks[i]
  BY <1>5, FilteredOwnRows
<1> HIDE DEF kept
<1>8. n \in Nat /\ kept = [i \in 1..n |-> kept[i]]
  BY <1>7 DEF OwnRows, FullRows
<1> HIDE DEF n
<1>9. DOMAIN kept = 1..n
  BY <1>8
<1>10. laid = [i \in 1..n |-> Overlaid(kept[i], codes)]
  BY <1>9
<1> HIDE DEF laid
<1>11. DOMAIN laid = 1..n /\ Len(laid) = n /\ laid = [i \in 1..n |-> laid[i]]
  BY <1>8, <1>10
<1>12. \A i \in 1..n : FullRow(kept[i]) /\ OwnQuote(kept[i]) /\ Stays(kept[i])
  BY <1>3, <1>5, <1>7, <1>9
<1>13. ASSUME NEW i \in 1..n
       PROVE  /\ FullRow(laid[i]) /\ OwnQuote(laid[i]) /\ laid[i].id = kept[i].id
              /\ laid[i].portfolio_group = kept[i].portfolio_group
              /\ laid[i].mapping_only <=> kept[i].portfolio_group = "mapping"
              /\ laid[i].is_position <=> kept[i].portfolio_group # "mapping" /\ kept[i].id \in codes
  <2>1. FullRow(kept[i]) /\ OwnQuote(kept[i])
    BY <1>12
  <2>2. laid[i] = Overlaid(kept[i], codes)
    BY <1>10
  <2> QED
    BY <2>1, <2>2, OverlaidRow
<1>14. Distinct(kept)
  BY <1>7 DEF OwnRows, FullRows
<1>15. Distinct(laid)
  BY <1>9, <1>11, <1>13, <1>14 DEF Distinct
<1>16. FullRows(laid)
  BY <1>8, <1>11, <1>13, <1>15 DEF FullRows
<1>17. Valid(p)
  BY <1>2, <1>16, SnapshotOfFullRows
<1> DEFINE rows == {p.stocks[i] : i \in DOMAIN p.stocks}
<1>18. p.stocks = laid
  BY <1>2 DEF Snapshot
<1>19. rows = {laid[i] : i \in 1..n}
  BY <1>11, <1>18
<1> HIDE DEF rows
<1>20. ASSUME NEW c \in codes
       PROVE  \E i \in 1..n : laid[i].id = c
  <2>1. PICK i \in DOMAIN s.stocks : s.stocks[i].id = c
    BY <1>1 DEF Ids
  <2>2. i \in places
    BY <1>6, <2>1
  <2>3. PICK j \in 1..n : kept[j] = s.stocks[i]
    BY <1>7, <1>9, <2>2
  <2> QED
    BY <1>13, <2>1, <2>3
<1>21. codes \subseteq {r.id : r \in rows}
  BY <1>19, <1>20
<1>22. \A r \in rows : r.quote = {r.id}
  BY <1>13, <1>19 DEF OwnQuote
<1>23. \A i \in 1..n : laid[i].portfolio_group \in {"core", "growth"} => laid[i].is_position
  <2> SUFFICES ASSUME NEW i \in 1..n, laid[i].portfolio_group \in {"core", "growth"}
               PROVE  laid[i].is_position
    OBVIOUS
  <2>1. kept[i].portfolio_group \in {"core", "growth"}
    BY <1>13
  <2>2. ~kept[i].mapping_only
    BY <1>12, <2>1 DEF FullRow, ValidStock, Classified
  <2>3. kept[i].id \in codes
    BY <1>12, <2>1, <2>2
  <2> QED
    BY <1>13, <2>1, <2>3
<1>24. \A r \in rows : r.portfolio_group \in {"core", "growth"} => r.is_position
  BY <1>19, <1>23
<1> DEFINE positions == {r.id : r \in {x \in rows : x.is_position}}
           mapped == {r.id : r \in {x \in rows : x.mapping_only}}
<1>25. ASSUME NEW c \in positions PROVE c \in codes \ mapped
  <2>1. PICK i \in 1..n : laid[i].is_position /\ laid[i].id = c
    BY <1>19
  <2>2. c \in codes /\ kept[i].portfolio_group # "mapping"
    BY <1>13, <2>1
  <2>3. ASSUME c \in mapped PROVE FALSE
    <3>1. PICK k \in 1..n : laid[k].mapping_only /\ laid[k].id = c
      BY <1>19, <2>3
    <3>2. i = k
      BY <1>11, <1>15, <2>1, <3>1 DEF Distinct
    <3> QED
      BY <1>13, <2>2, <3>1, <3>2
  <2> QED
    BY <2>2, <2>3
<1>26. ASSUME NEW c \in codes \ mapped PROVE c \in positions
  <2>1. PICK i \in 1..n : laid[i].id = c
    BY <1>20
  <2>2. ~laid[i].mapping_only
    BY <1>19, <2>1
  <2>3. laid[i].is_position
    BY <1>13, <2>1, <2>2
  <2> QED
    BY <1>19, <2>1, <2>3
<1>27. positions = codes \ mapped
  BY <1>25, <1>26
<1> QED
  BY <1>17, <1>21, <1>22, <1>24, <1>27 DEF HoldsExactly, rows

-----------------------------------------------------------------------------
(* What is made, is made in one way.                                       *)

\* The provider's answers give one set of rows at most.
LEMMA FetchedOnce ==
  ASSUME NEW ids, NEW wire, NEW a \in FetchRows(ids, wire), NEW b \in FetchRows(ids, wire)
  PROVE  a = b
BY DEF FetchRows

\* A catalogue makes one snapshot at most.
LEMMA MadeOnce ==
  ASSUME NEW c, NEW wire, NEW now, NEW a \in FromCatalog(c, wire, now),
         NEW b \in FromCatalog(c, wire, now)
  PROVE  a = b
<1> DEFINE ids == [i \in DOMAIN c |-> c[i].id]
           filled(rows) == Snapshot([i \in DOMAIN rows |-> ClassifiedRow(rows[i], c[i])], now, Len(rows))
<1>1. \A s \in FromCatalog(c, wire, now) : \E rows \in FetchRows(ids, wire) : s = filled(rows)
  BY DEF FromCatalog
<1> HIDE DEF ids, filled
<1> QED
  BY <1>1, FetchedOnce

\* A batch is merged in one way.
LEMMA MergedOnce ==
  ASSUME NEW s, NEW ids, NEW rows, NEW a \in Merge(s, ids, rows), NEW b \in Merge(s, ids, rows)
  PROVE  a = b
<1> DEFINE new == Filtered(rows, {i \in DOMAIN rows : rows[i].id \notin Ids(s.stocks)})
           allowed == /\ \A i, k \in DOMAIN ids : ids[i] = ids[k] => i = k
                      /\ Distinct(rows) /\ Ids(rows) = {ids[i] : i \in DOMAIN ids}
           merged == Snapshot(s.stocks \o new, s.time, Len(s.stocks \o new))
<1>1. Merge(s, ids, rows) = IF allowed THEN {merged} ELSE {}
  BY DEF Merge
<1> HIDE DEF allowed, merged
<1> QED
  BY <1>1

\* Missing holdings are completed in one way.
LEMMA CompletedOnce ==
  ASSUME NEW s, NEW codes, NEW wire, NEW a \in CompleteMissing(s, codes, wire),
         NEW b \in CompleteMissing(s, codes, wire)
  PROVE  a = b
<1> DEFINE ids == SetToSeq(codes \ Ids(s.stocks))
           merged == UNION {Merge(s, ids, rows) : rows \in FetchRows(ids, wire)}
<1>1. CompleteMissing(s, codes, wire) = IF ids = <<>> THEN {s} ELSE merged
  BY DEF CompleteMissing
<1> HIDE DEF ids
<1>2. \A t \in merged : \E rows \in FetchRows(ids, wire) : t \in Merge(s, ids, rows)
  OBVIOUS
<1> HIDE DEF merged
<1>3. CASE ids = <<>>
  BY <1>1, <1>3
<1>4. CASE ids # <<>>
  <2>1. PICK x \in FetchRows(ids, wire) : a \in Merge(s, ids, x)
    BY <1>1, <1>2, <1>4
  <2>2. PICK y \in FetchRows(ids, wire) : b \in Merge(s, ids, y)
    BY <1>1, <1>2, <1>4
  <2>3. x = y
    BY FetchedOnce
  <2> QED
    BY <2>1, <2>2, <2>3, MergedOnce
<1> QED
  BY <1>3, <1>4

-----------------------------------------------------------------------------
(* The report of the bridge.                                               *)

\* The projection keeps the quotes and their time.
LEMMA PublicQuotes ==
  ASSUME NEW s, NEW p \in ToPublic(s)
  PROVE  p.time = s.time /\ Quotes(p) = Quotes(s)
<1> DEFINE public == [i \in DOMAIN s.stocks |-> PublicStock(s.stocks[i])]
<1>1. p.time = s.time /\ p.stocks = public
  BY DEF ToPublic
<1>2. DOMAIN p.stocks = DOMAIN s.stocks
  BY <1>1
<1>3. ASSUME NEW i \in DOMAIN s.stocks
      PROVE  p.stocks[i].id = s.stocks[i].id /\ p.stocks[i].quote = s.stocks[i].quote
  BY <1>1 DEF PublicStock
<1> QED
  BY <1>1, <1>2, <1>3 DEF Quotes

\* What is fetched of a catalogue has the time at which it was fetched.
LEMMA FetchedNow ==
  ASSUME NEW r, NEW wire, NEW p \in Fetched(r, wire)
  PROVE  Quotes(p).at = clock
<1>1. PICK c \in Catalog(r) : \E s \in FromCatalog(c, wire, clock) : p \in ToPublic(s)
  BY DEF Fetched
<1>2. PICK s \in FromCatalog(c, wire, clock) : p \in ToPublic(s)
  BY <1>1
<1>3. s.time = clock
  <2>1. PICK rows : s = Snapshot([i \in DOMAIN rows |-> ClassifiedRow(rows[i], c[i])], clock, Len(rows))
    BY <1>2 DEF FromCatalog
  <2> QED
    BY <2>1 DEF Snapshot
<1> QED
  BY <1>2, <1>3, PublicQuotes DEF Quotes

\* A report whose quotes and success time are those of one run in history.
Paired(report, history) ==
  /\ \A s \in report.snapshot : [success |-> report.success, snapshot |-> Quotes(s)] \in history
  /\ report.status = "SUCCESS" => report.snapshot # {} /\ report.success # {}

\* A run whose locals are all paired, and whose time is not ahead of the clock.
SoundRun(x, history, now) ==
  /\ DOMAIN x = {"kind", "pc", "now", "previous", "report", "outcome"}
  /\ x.now \in Nat /\ x.now <= now
  /\ \A p \in x.previous \cup x.report : Paired(p, history)

\* The inductive invariant: what a run has read or is about to write is as good as
\* what stands in the issue.
BridgeInv ==
  /\ clock \in Nat
  /\ \A m \in made : \A t \in m.success : t <= m.snapshot.at
  /\ Paired(issue, made)
  /\ run = [r \in Runs |-> run[r]]
  /\ \A r \in Runs : SoundRun(run[r], made, clock)

LEMMA PairedGrows ==
  ASSUME NEW report, NEW H, NEW J, H \subseteq J, Paired(report, H)
  PROVE  Paired(report, J)
BY DEF Paired

LEMMA SoundRunGrows ==
  ASSUME NEW x, NEW H, NEW J, H \subseteq J, NEW t \in Nat, NEW u \in Nat, t <= u, SoundRun(x, H, t)
  PROVE  SoundRun(x, J, u)
BY PairedGrows DEF SoundRun

\* A step of one run keeps the invariant if the run stays sound and the history grows.
LEMMA StepKeepsRuns ==
  ASSUME BridgeInv, NEW r \in Runs, NEW x, Step(r, x), made \subseteq made',
         SoundRun(x, made', clock)
  PROVE  /\ clock' \in Nat /\ run' = [q \in Runs |-> run'[q]]
         /\ \A q \in Runs : SoundRun(run'[q], made', clock')
<1>1. clock' = clock /\ clock \in Nat
  BY DEF Step, BridgeInv
<1>2. run' = [q \in Runs |-> IF q = r THEN x ELSE run[q]]
  BY DEF Step, BridgeInv
<1>3. ASSUME NEW q \in Runs PROVE SoundRun(run'[q], made', clock')
  <2>1. CASE q = r
    BY <1>1, <1>2, <2>1
  <2>2. CASE q # r
    <3>1. SoundRun(run[q], made, clock)
      BY DEF BridgeInv
    <3>2. SoundRun(run[q], made', clock)
      BY <1>1, <3>1, SoundRunGrows
    <3> QED
      BY <1>1, <1>2, <2>2, <3>2
  <2> QED
    BY <2>1, <2>2
<1> QED
  BY <1>1, <1>2, <1>3

\* A run's report is paired in the history it leaves.
LEMMA ReportsPaired ==
  ASSUME BridgeInv, NEW r \in Runs, NEW wire, NEW report \in Reports(r, wire),
         NEW history,
         history = IF report.status = "FAIL" THEN made
                   ELSE made \cup {[success |-> report.success, snapshot |-> Quotes(s)] :
                                      s \in report.snapshot}
  PROVE  /\ Paired(report, history) /\ made \subseteq history
         /\ \A m \in history : \A t \in m.success : t <= m.snapshot.at
<1>1. CASE Fetched(r, wire) # {}
  <2>1. PICK s \in Fetched(r, wire) :
          report = [status |-> "SUCCESS", success |-> {run[r].now}, snapshot |-> {s}]
    BY <1>1 DEF Reports
  <2>2. history = made \cup {[success |-> {run[r].now}, snapshot |-> Quotes(s)]}
    BY <2>1
  <2>3. Quotes(s).at = clock /\ run[r].now <= clock
    BY FetchedNow DEF BridgeInv, SoundRun
  <2>4. Paired(report, history)
    BY <2>1, <2>2 DEF Paired
  <2>5. ASSUME NEW m \in history, NEW t \in m.success PROVE t <= m.snapshot.at
    <3>1. CASE m \in made
      BY <3>1 DEF BridgeInv
    <3>2. CASE m = [success |-> {run[r].now}, snapshot |-> Quotes(s)]
      BY <2>3, <3>2
    <3> QED
      BY <2>2, <3>1, <3>2
  <2> QED
    BY <2>2, <2>4, <2>5
<1>2. CASE Fetched(r, wire) = {}
  <2>1. PICK p \in run[r].previous : report \in FailReports(r, p)
    BY <1>2 DEF Reports
  <2>2. PICK f \in Fallback(r, p) :
          report = [status |-> "FAIL", success |-> p.success, snapshot |-> f]
    BY <2>1 DEF FailReports
  <2>3. history = made
    BY <2>2
  <2>4. Paired(p, made)
    BY DEF BridgeInv, SoundRun
  <2>5. ASSUME NEW q \in f
        PROVE  [success |-> p.success, snapshot |-> Quotes(q)] \in made
    <3>1. CASE f = p.snapshot
      BY <2>4, <3>1 DEF Paired
    <3>2. CASE f # p.snapshot
      <4>1. PICK s \in p.snapshot : q \in ToPublic(s)
        BY <3>2 DEF Fallback
      <4>2. Quotes(q) = Quotes(s)
        BY <4>1, PublicQuotes
      <4> QED
        BY <2>4, <4>2 DEF Paired
    <3> QED
      BY <3>1, <3>2
  <2>6. Paired(report, history)
    BY <2>2, <2>3, <2>5 DEF Paired
  <2> QED
    BY <2>3, <2>6 DEF BridgeInv
<1> QED
  BY <1>1, <1>2

\* What the assumption says of one scene.
LEMMA SceneOf ==
  ASSUME NEW b \in BridgeScenes
  PROVE  /\ DOMAIN b.issue = {"status", "success", "snapshot"}
         /\ \A s \in b.issue.snapshot \cup b.seeds.d1 \cup b.seeds.workers : Listed(s)
         /\ \A store \in {"d1", "workers"} : \A s, t \in b.seeds[store] : s = t
         /\ \A s \in b.issue.snapshot, t \in b.issue.success : t <= s.time
         /\ b.issue.status = "SUCCESS" => b.issue.snapshot # {} /\ b.issue.success # {}
BY BridgeAssumption

LEMMA BridgeInvInit == BridgeInit => BridgeInv
<1> SUFFICES ASSUME BridgeInit PROVE BridgeInv
  OBVIOUS
<1>1. PICK b \in BridgeScenes : BridgeStart(b)
  BY DEF BridgeInit
<1>2. clock = 0
  BY DEF BridgeInit
<1>3. \A m \in made : \A t \in m.success : t <= m.snapshot.at
  <2>1. \A s \in b.issue.snapshot, t \in b.issue.success : t <= s.time
    BY SceneOf
  <2> QED
    BY <1>1, <2>1 DEF BridgeStart, Quotes
<1>4. Paired(issue, made)
  <2>1. b.issue.status = "SUCCESS" => b.issue.snapshot # {} /\ b.issue.success # {}
    BY SceneOf
  <2>2. /\ issue = b.issue
        /\ made = {[success |-> b.issue.success, snapshot |-> Quotes(s)] : s \in b.issue.snapshot}
    BY <1>1 DEF BridgeStart
  <2>3. \A s \in issue.snapshot : [success |-> issue.success, snapshot |-> Quotes(s)] \in made
    BY <2>2
  <2> QED
    BY <2>1, <2>2, <2>3 DEF Paired
<1>5. \A r \in Runs : SoundRun(run[r], made, clock)
  BY <1>1, <1>2 DEF BridgeStart, SoundRun
<1> QED
  BY <1>1, <1>2, <1>3, <1>4, <1>5 DEF BridgeStart, BridgeInv

LEMMA BridgeInvStep == BridgeInv /\ [BridgeNext]_bridgeVars => BridgeInv'
<1> SUFFICES ASSUME BridgeInv, [BridgeNext]_bridgeVars PROVE BridgeInv'
  OBVIOUS
<1>1. ASSUME NEW r \in Runs PROVE SoundRun(run[r], made, clock)
  BY DEF BridgeInv
<1>2. clock \in Nat
  BY DEF BridgeInv
<1>3. CASE BridgeTick
  <2>1. clock' \in Nat /\ clock <= clock' /\ UNCHANGED <<issue, run, made>>
    BY <1>2, <1>3 DEF BridgeTick, bridgeState
  <2>2. \A r \in Runs : SoundRun(run[r], made, clock')
    BY <1>1, <1>2, <2>1, SoundRunGrows
  <2> QED
    BY <2>1, <2>2 DEF BridgeInv
<1>4. ASSUME NEW r \in Runs, StartRun(r) PROVE BridgeInv'
  <2> DEFINE x == [run[r] EXCEPT !.pc = "get", !.now = IF run[r].kind = "manual" THEN clock ELSE @]
  <2>1. SoundRun(x, made, clock)
    BY <1>1, <1>2 DEF SoundRun
  <2>2. Step(r, x) /\ UNCHANGED <<issue, made>>
    BY <1>4 DEF StartRun
  <2> QED
    BY <2>1, <2>2, StepKeepsRuns DEF BridgeInv
<1>5. ASSUME NEW r \in Runs, ReadIssue(r) PROVE BridgeInv'
  <2> DEFINE x == [run[r] EXCEPT !.pc = "quotes", !.previous = {issue},
                                 !.now = IF run[r].kind = "cron" THEN clock ELSE @]
  <2>1. Paired(issue, made)
    BY DEF BridgeInv
  <2>2. SoundRun(x, made, clock)
    BY <1>1, <1>2, <2>1 DEF SoundRun
  <2>3. Step(r, x) /\ UNCHANGED <<issue, made>>
    BY <1>5 DEF ReadIssue
  <2> QED
    BY <2>2, <2>3, StepKeepsRuns DEF BridgeInv
<1>6. ASSUME NEW r \in Runs, FetchQuotes(r) PROVE BridgeInv'
  <2>1. PICK wire \in Wires :
          \/ \E report \in Reports(r, wire) :
               /\ Step(r, [run[r] EXCEPT !.pc = "patch", !.report = {report}])
               /\ made' = IF report.status = "FAIL" THEN made
                          ELSE made \cup {[success |-> report.success, snapshot |-> Quotes(s)] :
                                             s \in report.snapshot}
          \/ Step(r, [run[r] EXCEPT !.pc = "done", !.outcome = "UNREPORTED"]) /\ UNCHANGED made
    BY <1>6 DEF FetchQuotes
  <2>2. issue' = issue
    BY <1>6 DEF FetchQuotes
  <2>3. ASSUME NEW report \in Reports(r, wire),
               Step(r, [run[r] EXCEPT !.pc = "patch", !.report = {report}]),
               made' = IF report.status = "FAIL" THEN made
                       ELSE made \cup {[success |-> report.success, snapshot |-> Quotes(s)] :
                                          s \in report.snapshot}
        PROVE  BridgeInv'
    <3> DEFINE x == [run[r] EXCEPT !.pc = "patch", !.report = {report}]
    <3>1. /\ Paired(report, made') /\ made \subseteq made'
          /\ \A m \in made' : \A t \in m.success : t <= m.snapshot.at
      BY <2>3, ReportsPaired
    <3>2. SoundRun(run[r], made', clock)
      BY <1>1, <1>2, <3>1, SoundRunGrows
    <3>3. SoundRun(x, made', clock)
      BY <3>1, <3>2 DEF SoundRun
    <3>4. Paired(issue, made')
      BY <3>1, PairedGrows DEF BridgeInv
    <3> QED
      BY <2>2, <2>3, <3>1, <3>3, <3>4, StepKeepsRuns DEF BridgeInv
  <2>4. ASSUME Step(r, [run[r] EXCEPT !.pc = "done", !.outcome = "UNREPORTED"]), UNCHANGED made
        PROVE  BridgeInv'
    <3>1. SoundRun([run[r] EXCEPT !.pc = "done", !.outcome = "UNREPORTED"], made, clock)
      BY <1>1 DEF SoundRun
    <3> QED
      BY <2>2, <2>4, <3>1, StepKeepsRuns DEF BridgeInv
  <2> QED
    BY <2>1, <2>3, <2>4
<1>7. ASSUME NEW r \in Runs, PatchIssue(r) PROVE BridgeInv'
  <2>1. PICK report \in run[r].report :
          /\ issue' = report
          /\ \/ Step(r, [run[r] EXCEPT !.pc = "done", !.outcome = report.status])
             \/ Step(r, [run[r] EXCEPT !.pc = "done"])
    BY <1>7 DEF PatchIssue
  <2>2. made' = made
    BY <1>7 DEF PatchIssue
  <2>3. Paired(report, made)
    BY <1>1 DEF SoundRun
  <2>4. /\ SoundRun([run[r] EXCEPT !.pc = "done", !.outcome = report.status], made, clock)
        /\ SoundRun([run[r] EXCEPT !.pc = "done"], made, clock)
    BY <1>1 DEF SoundRun
  <2> QED
    BY <2>1, <2>2, <2>3, <2>4, StepKeepsRuns DEF BridgeInv
<1>8. ASSUME NEW r \in Runs, LoseRun(r) PROVE BridgeInv'
  <2>1. SoundRun([run[r] EXCEPT !.pc = "done"], made, clock)
    BY <1>1 DEF SoundRun
  <2>2. Step(r, [run[r] EXCEPT !.pc = "done"]) /\ UNCHANGED <<issue, made>>
    BY <1>8 DEF LoseRun
  <2> QED
    BY <2>1, <2>2, StepKeepsRuns DEF BridgeInv
<1>9. CASE UNCHANGED bridgeVars
  BY <1>9 DEF bridgeVars, bridgeState, BridgeInv
<1> QED
  BY <1>3, <1>4, <1>5, <1>6, <1>7, <1>8, <1>9 DEF BridgeNext, BridgeStep

\* The report in the issue is never put together from two runs, for any number of cron
\* and manual runs and whatever the provider answers.
THEOREM BridgeNeverMixes == BridgeSpec => []ReportPaired
<1>1. BridgeInv => ReportPaired
  BY DEF BridgeInv, ReportPaired, Paired
<1> QED
  BY <1>1, BridgeInvInit, BridgeInvStep, PTL DEF BridgeSpec

-----------------------------------------------------------------------------
(* What runs of the bridge write.                                          *)

\* The projection lists the rows it was given, and is quote-only.
LEMMA PublicListed ==
  ASSUME NEW s, Listed(s), NEW p \in ToPublic(s)
  PROVE  Listed(p) /\ QuoteOnly(p)
<1> DEFINE n == Len(s.stocks)
           public == [i \in DOMAIN s.stocks |-> PublicStock(s.stocks[i])]
<1>1. p.stocks = public /\ p.schema = "public" /\ p.total = n
  BY DEF ToPublic, Valid
<1>2. n \in Nat /\ DOMAIN s.stocks = 1..n
  BY DEF Listed
<1> HIDE DEF n
<1>3. p.stocks = [i \in 1..n |-> PublicStock(s.stocks[i])]
  BY <1>1, <1>2
<1>4. Len(p.stocks) = n /\ DOMAIN p.stocks = 1..n
  BY <1>2, <1>3
<1> QED
  BY <1>1, <1>2, <1>4 DEF Listed, QuoteOnly

\* What a catalogue makes lists its rows.
LEMMA FromCatalogListed ==
  ASSUME NEW c, GoodCatalog(c), NEW wire, NEW now, NEW s \in FromCatalog(c, wire, now)
  PROVE  Listed(s)
<1>1. FullRows(s.stocks)
  BY MadeOfCatalog
<1> DEFINE n == Len(s.stocks)
<1>2. n \in Nat /\ s.stocks = [i \in 1..n |-> s.stocks[i]]
  BY <1>1 DEF FullRows
<1>3. DOMAIN s.stocks = 1..n
  <2> HIDE DEF n
  <2> QED
    BY <1>2
<1> QED
  BY <1>2, <1>3 DEF Listed

Shelves == catalogs.d1 \cup catalogs.workers

\* A catalogue is made from a valid snapshot, and a store has one at most.
CatalogInv ==
  /\ \A c \in Shelves : GoodCatalog(c)
  /\ \A store \in {"d1", "workers"} : \A c, e \in catalogs[store] : c = e

Written(report) ==
  /\ DOMAIN report = {"status", "success", "snapshot"}
  /\ \A s \in report.snapshot : Listed(s)

\* What a run of the worker is about to write is quote-only.
WritesPublic(x) == x.kind = "cron" => \A p \in x.report : \A s \in p.snapshot : QuoteOnly(s)

RunShape(x, now) ==
  /\ DOMAIN x = {"kind", "pc", "now", "previous", "report", "outcome"}
  /\ x.kind \in {"cron", "manual"} /\ x.pc \in RunSteps /\ x.now \in 0..now
  /\ x.outcome \in {"NONE", "SUCCESS", "FAIL", "UNREPORTED"}
  /\ x.pc = "patch" => x.report # {}
  /\ x.pc = "quotes" => x.previous # {}
  /\ \A p \in x.previous : Written(p)
  /\ \A p \in x.report : Written(p) /\ p.status \in {"SUCCESS", "FAIL"}
  /\ WritesPublic(x)

ShapeInv ==
  /\ clock \in Nat /\ outages \in 0..MaxOutages
  /\ Written(issue) /\ CatalogInv
  /\ run = [r \in Runs |-> run[r]]
  /\ \A r \in Runs : RunShape(run[r], clock)

LEMMA ShapeInvInit == BridgeInit => ShapeInv
<1> SUFFICES ASSUME BridgeInit PROVE ShapeInv
  OBVIOUS
<1>1. PICK b \in BridgeScenes : BridgeStart(b)
  BY DEF BridgeInit
<1>2. clock = 0
  BY DEF BridgeInit
<1>3. Written(issue)
  BY <1>1, SceneOf DEF BridgeStart, Written
<1>4. CatalogInv
  <2>1. /\ catalogs.d1 = UNION {CatalogFrom(s) : s \in b.seeds["d1"]}
        /\ catalogs.workers = UNION {CatalogFrom(s) : s \in b.seeds["workers"]}
    BY <1>1 DEF BridgeStart
  <2>2. ASSUME NEW c \in Shelves PROVE GoodCatalog(c)
    <3>1. PICK s \in b.seeds["d1"] \cup b.seeds["workers"] : c \in CatalogFrom(s)
      BY <2>1 DEF Shelves
    <3>2. Listed(s)
      BY <3>1, SceneOf
    <3> QED
      BY <3>1, <3>2, CatalogIsGood
  <2>3. ASSUME NEW store \in {"d1", "workers"}, NEW c \in catalogs[store], NEW e \in catalogs[store]
        PROVE  c = e
    <3>1. PICK s \in b.seeds[store] : c \in CatalogFrom(s)
      BY <2>1
    <3>2. PICK t \in b.seeds[store] : e \in CatalogFrom(t)
      BY <2>1
    <3>3. s = t
      BY SceneOf
    <3> QED
      BY <3>1, <3>2, <3>3 DEF CatalogFrom
  <2> QED
    BY <2>2, <2>3 DEF CatalogInv
<1>5. \A r \in Runs : RunShape(run[r], clock)
  BY <1>1, <1>2 DEF BridgeStart, RunShape, RunSteps, WritesPublic
<1>6. clock \in Nat /\ outages \in 0..MaxOutages
  BY <1>1, <1>2, BridgeAssumption DEF BridgeStart
<1>7. run = [r \in Runs |-> run[r]]
  BY <1>1 DEF BridgeStart
<1> QED
  BY <1>3, <1>4, <1>5, <1>6, <1>7 DEF ShapeInv

\* What a run reports.
LEMMA ReportsWritten ==
  ASSUME ShapeInv, NEW r \in Runs, NEW wire, NEW report \in Reports(r, wire)
  PROVE  /\ Written(report) /\ report.status \in {"SUCCESS", "FAIL"}
         /\ run[r].kind = "cron" => \A s \in report.snapshot : QuoteOnly(s)
<1>1. ASSUME NEW p \in Fetched(r, wire) PROVE Listed(p) /\ QuoteOnly(p)
  <2>1. PICK c \in Catalog(r) : \E s \in FromCatalog(c, wire, clock) : p \in ToPublic(s)
    BY DEF Fetched
  <2>2. PICK s \in FromCatalog(c, wire, clock) : p \in ToPublic(s)
    BY <2>1
  <2>3. GoodCatalog(c)
    BY DEF ShapeInv, CatalogInv, Shelves, Catalog
  <2> QED
    BY <2>2, <2>3, FromCatalogListed, PublicListed
<1>2. CASE Fetched(r, wire) # {}
  <2>1. PICK s \in Fetched(r, wire) :
          report = [status |-> "SUCCESS", success |-> {run[r].now}, snapshot |-> {s}]
    BY <1>2 DEF Reports
  <2> QED
    BY <1>1, <2>1 DEF Written
<1>3. CASE Fetched(r, wire) = {}
  <2>1. PICK p \in run[r].previous : report \in FailReports(r, p)
    BY <1>3 DEF Reports
  <2>2. PICK f \in Fallback(r, p) :
          report = [status |-> "FAIL", success |-> p.success, snapshot |-> f]
    BY <2>1 DEF FailReports
  <2>3. \A s \in p.snapshot : Listed(s)
    BY DEF ShapeInv, RunShape, Written
  <2>4. ASSUME NEW q \in f PROVE Listed(q) /\ (run[r].kind = "cron" => QuoteOnly(q))
    <3>1. CASE run[r].kind = "manual" \/ p.snapshot = {}
      <4>1. f = p.snapshot
        BY <3>1 DEF Fallback
      <4> QED
        BY <2>3, <3>1, <4>1
    <3>2. CASE ~(run[r].kind = "manual" \/ p.snapshot = {})
      <4>1. PICK s \in p.snapshot : q \in ToPublic(s)
        BY <3>2 DEF Fallback
      <4> QED
        BY <2>3, <4>1, PublicListed
    <3> QED
      BY <3>1, <3>2
  <2> QED
    BY <2>2, <2>4 DEF Written
<1> QED
  BY <1>2, <1>3

LEMMA StepKeepsShape ==
  ASSUME ShapeInv, NEW r \in Runs, NEW x, Step(r, x), RunShape(x, clock), Written(issue'),
         outages' \in 0..MaxOutages
  PROVE  ShapeInv'
<1>1. clock' = clock /\ catalogs' = catalogs /\ run' = [q \in Runs |-> IF q = r THEN x ELSE run[q]]
  BY DEF Step, ShapeInv
<1>2. \A q \in Runs : RunShape(run'[q], clock')
  BY <1>1 DEF ShapeInv
<1>3. CatalogInv'
  BY <1>1 DEF ShapeInv, CatalogInv, Shelves
<1> QED
  BY <1>1, <1>2, <1>3 DEF ShapeInv

LEMMA ShapeInvStep == ShapeInv /\ [BridgeNext]_bridgeVars => ShapeInv'
<1> SUFFICES ASSUME ShapeInv, [BridgeNext]_bridgeVars PROVE ShapeInv'
  OBVIOUS
<1>1. ASSUME NEW r \in Runs PROVE RunShape(run[r], clock) /\ clock \in 0..clock
  BY DEF ShapeInv
<1>2. Written(issue) /\ clock \in Nat /\ outages \in 0..MaxOutages /\ MaxOutages \in Nat
  BY BridgeAssumption DEF ShapeInv
<1>3. Outage => outages' \in 0..MaxOutages
  BY <1>2 DEF Outage
<1>4. CASE BridgeTick
  <2>1. clock' = clock + 1 /\ UNCHANGED <<issue, catalogs, run, outages>>
    BY <1>4 DEF BridgeTick, bridgeState
  <2>2. ASSUME NEW r \in Runs PROVE RunShape(run[r], clock')
    <3>1. run[r].now \in 0..clock => run[r].now \in 0..clock'
      BY <1>2, <2>1
    <3> QED
      BY <1>1, <3>1 DEF RunShape
  <2>3. CatalogInv'
    BY <2>1 DEF ShapeInv, CatalogInv, Shelves
  <2> QED
    BY <1>2, <2>1, <2>2, <2>3 DEF ShapeInv, Written
<1>5. ASSUME NEW r \in Runs, StartRun(r) PROVE ShapeInv'
  <2> DEFINE x == [run[r] EXCEPT !.pc = "get", !.now = IF run[r].kind = "manual" THEN clock ELSE @]
  <2>1. RunShape(x, clock)
    BY <1>1 DEF RunShape, RunSteps, WritesPublic
  <2>2. Step(r, x) /\ UNCHANGED <<issue, outages>>
    BY <1>5 DEF StartRun
  <2> HIDE DEF x
  <2> QED
    BY <1>2, <2>1, <2>2, StepKeepsShape
<1>6. ASSUME NEW r \in Runs, ReadIssue(r) PROVE ShapeInv'
  <2> DEFINE x == [run[r] EXCEPT !.pc = "quotes", !.previous = {issue},
                                 !.now = IF run[r].kind = "cron" THEN clock ELSE @]
  <2>1. RunShape(x, clock)
    BY <1>1, <1>2 DEF RunShape, RunSteps, WritesPublic
  <2>2. Step(r, x) /\ UNCHANGED <<issue, outages>>
    BY <1>6 DEF ReadIssue
  <2> HIDE DEF x
  <2> QED
    BY <1>2, <2>1, <2>2, StepKeepsShape
<1>7. ASSUME NEW r \in Runs, FetchQuotes(r) PROVE ShapeInv'
  <2>1. PICK wire \in Wires :
          \/ \E report \in Reports(r, wire) : Step(r, [run[r] EXCEPT !.pc = "patch", !.report = {report}])
          \/ Step(r, [run[r] EXCEPT !.pc = "done", !.outcome = "UNREPORTED"])
    BY <1>7 DEF FetchQuotes
  <2>2. UNCHANGED <<issue, outages>>
    BY <1>7 DEF FetchQuotes
  <2>3. ASSUME NEW report \in Reports(r, wire), Step(r, [run[r] EXCEPT !.pc = "patch", !.report = {report}])
        PROVE  ShapeInv'
    <3> DEFINE x == [run[r] EXCEPT !.pc = "patch", !.report = {report}]
    <3>1. /\ Written(report) /\ report.status \in {"SUCCESS", "FAIL"}
          /\ run[r].kind = "cron" => \A s \in report.snapshot : QuoteOnly(s)
      BY ReportsWritten
    <3>2. RunShape(x, clock)
      BY <1>1, <3>1 DEF RunShape, RunSteps, WritesPublic
    <3>3. Step(r, x)
      BY <2>3
    <3> HIDE DEF x
    <3> QED
      BY <1>2, <2>2, <3>2, <3>3, StepKeepsShape
  <2>4. ASSUME Step(r, [run[r] EXCEPT !.pc = "done", !.outcome = "UNREPORTED"]) PROVE ShapeInv'
    <3> DEFINE x == [run[r] EXCEPT !.pc = "done", !.outcome = "UNREPORTED"]
    <3>1. RunShape(x, clock)
      BY <1>1 DEF RunShape, RunSteps, WritesPublic
    <3>2. Step(r, x)
      BY <2>4
    <3> HIDE DEF x
    <3> QED
      BY <1>2, <2>2, <3>1, <3>2, StepKeepsShape
  <2> QED
    BY <2>1, <2>3, <2>4
<1>8. ASSUME NEW r \in Runs, PatchIssue(r) PROVE ShapeInv'
  <2>1. PICK report \in run[r].report :
          /\ issue' = report
          /\ \/ Step(r, [run[r] EXCEPT !.pc = "done", !.outcome = report.status]) /\ UNCHANGED outages
             \/ Step(r, [run[r] EXCEPT !.pc = "done"]) /\ Outage
    BY <1>8 DEF PatchIssue
  <2>2. Written(report) /\ report.status \in {"SUCCESS", "FAIL"}
    BY <1>1 DEF RunShape
  <2>3. /\ RunShape([run[r] EXCEPT !.pc = "done", !.outcome = report.status], clock)
        /\ RunShape([run[r] EXCEPT !.pc = "done"], clock)
    BY <1>1, <2>2 DEF RunShape, RunSteps, WritesPublic
  <2>4. Written(issue') /\ outages' \in 0..MaxOutages
    BY <1>2, <1>3, <2>1, <2>2
  <2> QED
    BY <2>1, <2>3, <2>4, StepKeepsShape
<1>9. ASSUME NEW r \in Runs, LoseRun(r) PROVE ShapeInv'
  <2>1. RunShape([run[r] EXCEPT !.pc = "done"], clock)
    BY <1>1 DEF RunShape, RunSteps, WritesPublic
  <2>2. Step(r, [run[r] EXCEPT !.pc = "done"]) /\ UNCHANGED issue /\ outages' \in 0..MaxOutages
    BY <1>3, <1>9 DEF LoseRun
  <2> QED
    BY <1>2, <2>1, <2>2, StepKeepsShape
<1>10. CASE UNCHANGED bridgeVars
  <2>1. UNCHANGED <<clock, issue, catalogs, run, outages>>
    BY <1>10 DEF bridgeVars, bridgeState
  <2>2. CatalogInv'
    BY <2>1 DEF ShapeInv, CatalogInv, Shelves
  <2> QED
    BY <2>1, <2>2 DEF ShapeInv
<1> QED
  BY <1>4, <1>5, <1>6, <1>7, <1>8, <1>9, <1>10 DEF BridgeNext, BridgeStep

\* While only the worker's cron writes the issue, every report it replaces the issue by
\* is quote-only: no rich snapshot of an older report is written back.
THEOREM WorkerWritesQuotesOnly == BridgeSpec => WorkerKeepsQuoteOnly
<1> DEFINE Kept == (\A r \in Runs : run[r].kind = "cron" \/ run[r].pc = "done")
                     => \A s \in issue'.snapshot : issue' = issue \/ QuoteOnly(s)
<1>1. ShapeInv /\ [BridgeNext]_bridgeVars => [Kept]_bridgeVars
  <2> SUFFICES ASSUME ShapeInv, [BridgeNext]_bridgeVars PROVE Kept \/ UNCHANGED bridgeVars
    OBVIOUS
  <2>1. CASE issue' = issue
    BY <2>1
  <2>2. ASSUME NEW r \in Runs, PatchIssue(r) PROVE Kept
    <3>1. PICK report \in run[r].report : issue' = report
      BY <2>2 DEF PatchIssue
    <3>2. WritesPublic(run[r]) /\ run[r].pc = "patch"
      BY <2>2 DEF PatchIssue, ShapeInv, RunShape
    <3> QED
      BY <3>1, <3>2 DEF WritesPublic
  <2>3. BridgeTick => issue' = issue
    BY DEF BridgeTick, bridgeState
  <2>4. \A r \in Runs : StartRun(r) \/ ReadIssue(r) \/ FetchQuotes(r) \/ LoseRun(r) => issue' = issue
    BY DEF StartRun, ReadIssue, FetchQuotes, LoseRun
  <2> QED
    BY <2>1, <2>2, <2>3, <2>4 DEF BridgeNext, BridgeStep
<1> QED
  BY <1>1, ShapeInvInit, ShapeInvStep, PTL DEF BridgeSpec, WorkerKeepsQuoteOnly

\* However runs overlap and fail, every local has its type, and a run that is about to
\* fetch or to write has what it needs for that.
THEOREM BridgeTypes == BridgeSpec => []BridgeTypeOK
<1>1. ShapeInv => BridgeTypeOK
  BY DEF ShapeInv, RunShape, Written, BridgeTypeOK
<1> QED
  BY <1>1, ShapeInvInit, ShapeInvStep, PTL DEF BridgeSpec

\* Every catalogue of instruments the worker can ask for serves, whatever the rich
\* snapshot it was made from held, mapped or watched: what the catalogue leaves out
\* never makes a row that the full validation refuses.
THEOREM CatalogsServe == BridgeSpec => []CatalogServes
<1>1. ShapeInv => CatalogServes
  BY CatalogMakesSnapshot DEF ShapeInv, CatalogInv, Shelves, CatalogServes
<1> QED
  BY <1>1, ShapeInvInit, ShapeInvStep, PTL DEF BridgeSpec
=============================================================================
