-------------------------- MODULE MCPortfolioPlane --------------------------
(* Instances of PortfolioPlane for TLC: LIVE's programs. *)
EXTENDS PortfolioPlane, Sequences

CONSTANTS a, b, m1, m2, r1

Pub(at, state, confirmed, codes, manifest) ==
  [at |-> at, state |-> state, confirmed |-> confirmed, codes |-> codes, manifest |-> manifest]

First == Pub(1, "LIVE_COMPLETE", {0}, {a, b}, m1)
Gap == Pub(2, "PORTFOLIO_UNKNOWN", {}, {a, b}, m1)
Second == Pub(3, "LIVE_COMPLETE", {1}, {a}, m2)
Rival == Pub(1, "LIVE_COMPLETE", {0}, {b}, m2)
Unsure == Pub(4, "LKG_VALID", {}, {a}, m2)

Universe(p) == [doc |-> "universe", pub |-> p]
Status(p) == [doc |-> "status", pub |-> p]

Start == <<Universe(First), Status(First)>>

\* After a first publication: the next one, with a round that confirmed nothing in
\* between; with a retry of the first status between the next universe and its
\* status, or after both; with a retry of the second status; a rival publication of
\* the same time and a status document that is refused.
Lapsing == Start \o <<Universe(Second), Status(Gap), Status(Second)>>
Clashing == Start \o <<Universe(Rival), Status(Rival), Status(Unsure)>>
Growing == {Lapsing, Clashing,
  Start \o <<Universe(Second), Status(First), Status(Second)>>,
  Start \o <<Universe(Second), Status(Second), Status(First)>>,
  Start \o <<Universe(Second), Status(Second), Status(Second)>>}

Scenario(posts, unfinished, readers) ==
  [program |-> posts, posts |-> Posts, overlap |-> unfinished, readers |-> readers]

\* Posts that overlap, posts one by one with a reader between them, and both.
PostScenarios ==
  {Scenario(posts, 1, {}) : posts \in Growing} \cup
  {Scenario(posts, 0, {r1}) : posts \in Growing} \cup {Scenario(Clashing, 1, {r1})}

\* A round that confirmed nothing, and the next complete one on its heels.
GapScenarios == {Scenario(Lapsing, 1, {})}
=============================================================================
