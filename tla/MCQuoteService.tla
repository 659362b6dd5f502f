--------------------------- MODULE MCQuoteService ---------------------------
(* Instances of QuoteService for TLC: each part at work on its own, and callers
   among LIVE's posts. *)
EXTENDS QuoteService, MCPortfolioPlane, MCQuoteBridge

CONSTANT c1

\* LIVE confirms, and then lapses, or publishes another universe.
Lapse == Start \o <<Status(Gap), Status(First), Status(First)>>
Replace == Start \o <<Universe(Second), Status(Second), Status(Second)>>

Making(posts, n) == [Scenario(posts, 0, {}) EXCEPT !.posts = 1..n]

\* A catalogue of which LIVE holds one, both or neither.
Shelf == Rich(<<Held(i2, "core"), Watched(i1, "watch")>>)

NoPosts == Making(Lapse, 0)
NoRuns == Scene(NoReport, {}, {}, {}, {})
NoKeys == [keys |-> {}, changes |-> 0, listings |-> 0]

Together(plane, bridge, keys, who) ==
  [plane |-> plane, bridge |-> bridge, kv |-> keys, callers |-> who]

\* Keys that are there, and one that is put while others expire.
KeyScenes ==
  {[keys |-> Keys, changes |-> 3, listings |-> 1], [keys |-> {}, changes |-> 4, listings |-> 1]}

CallerScenes ==
  {Together(Making(Lapse, 3), Scene(NoReport, {Book}, {}, {}, {}), NoKeys, {c1}),
   Together(Making(Replace, 4), Scene(NoReport, {Shelf}, {}, {}, {}), NoKeys, {c1})}

Everything ==
  {Together(p, NoRuns, NoKeys, {}) : p \in PostScenarios} \cup
  {Together(NoPosts, s, NoKeys, {}) : s \in Scenes} \cup
  {Together(NoPosts, NoRuns, k, {}) : k \in KeyScenes} \cup CallerScenes

AllPlanes == {w.plane : w \in Everything}
AllBridges == {w.bridge : w \in Everything}
AllTables == {w.kv : w \in Everything}
=============================================================================
