---------------------------- MODULE MCQuoteBridge ----------------------------
(* Instances of QuoteBridge for TLC: issues, catalogues and what the provider answers. *)
EXTENDS QuoteBridge

CONSTANTS i1, i2, i3, q1, q2

Row(id, group, status, holding) ==
  [id |-> id, group |-> BroadGroup[group], portfolio_group |-> group, portfolio_status |-> status,
   holding_status |-> holding, mapping_only |-> group = "mapping",
   mapping_to |-> IF group = "mapping" THEN {"index"} ELSE {},
   position_qty |-> IF holding = "ACTIVE" THEN "positive" ELSE "zero",
   is_position |-> holding = "ACTIVE",
   quote |-> IF holding = "MAPPING_ONLY" THEN {} ELSE {id}]

Held(id, group) == Row(id, group, StatusOf[group], "ACTIVE")
Watched(id, group) == Row(id, group, StatusOf[group], "WATCH")
Mapping(id) == Row(id, "mapping", {}, "MAPPING_ONLY")

Rich(rows) == Snapshot(rows, 0, Len(rows))

Book == Rich(<<Held(i1, "core"), Mapping(i3)>>)

\* Rows of every classification, some of which no snapshot may have.
Rows(id) ==
  {Row(id, g, s, h) : g \in PortfolioGroups, s \in {{}, {"CORE"}, {"WATCH"}},
                      h \in {"ACTIVE", "WATCH", "MAPPING_ONLY"}}

Books == {Book} \cup {Rich(<<r, s>>) : r \in Rows(i1), s \in {Held(i2, "growth"), Mapping(i2)}}

Reported(snapshot) == [status |-> "SUCCESS", success |-> {0}, snapshot |-> {snapshot}]

\* The issue at first: nothing to read, a rich report of an earlier version, which left
\* the derived counts out, and a public one.
Issues ==
  {NoReport, Reported([Rich(<<Held(i1, "core"), Watched(i2, "watch")>>) EXCEPT !.counts = {}])} \cup
  {Reported(s) : s \in ToPublic(Rich(<<Held(i2, "core")>>))}

Answered(id) == [found |-> TRUE, code |-> id, complete |-> TRUE]

\* The provider answers for all, not at all, in part, or for another instrument.
AllAnswered == [id \in Instruments |-> Answered(id)]
Answers ==
  {AllAnswered, [AllAnswered EXCEPT ![i1].found = FALSE], [AllAnswered EXCEPT ![i1].complete = FALSE],
   [AllAnswered EXCEPT ![i2] = Answered(i1)]}

Scene(i, d1, workers, manual, runs) ==
  [issue |-> i, seeds |-> [d1 |-> d1, workers |-> workers], manual |-> manual, runs |-> runs]

\* Overlapping runs of the worker, with a catalogue of their own or without, and runs
\* of the worker beside manual ones.
RunScenes ==
  {Scene(i, {Book}, w, m, Runs) : i \in Issues, w \in {{}, {Book}}, m \in {{}, {q2}}}

\* Catalogues made from all sorts of books.
SeedScenes == {Scene(NoReport, {s}, {}, {}, {}) : s \in Books}

Scenes == RunScenes \cup SeedScenes

\* A run of the worker over the public report that an earlier run left.
FailureScenes == {Scene(i, {Book}, {Book}, {}, {q1}) : i \in Issues}
=============================================================================
