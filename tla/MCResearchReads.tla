-------------------------- MODULE MCResearchReads --------------------------
(* Small instances of ResearchReads for TLC. *)
EXTENDS ResearchReads

CONSTANTS ann, bob, x, y

At(epoch, n) == [epoch |-> epoch, at |-> n]

Scene(who, cursor, held, sent) ==
  [clients |-> who, cursor |-> cursor, held |-> held, inbox |-> sent]

\* The two events before the migration were inserted as 1, 2 and numbered 2, 1.
Renumbered == <<2, 1>>

\* A new consumer, one that followed each earlier epoch and may have missed an event
\* by it, and one of this epoch.
Consumers ==
  {<<NoCursor, {}>>, <<At("time", 0), {1}>>, <<At("rcpt1", 0), {2}>>, <<At("rcpt2", 1), {1}>>,
   <<At("rcpt3", 1), {2}>>, <<At("rcpt3", 0), {}>>}

Object(b) == [type |-> "object", body |-> b]
Row(k, n, gone, own, text) ==
  [type |-> "document_version", key |-> k,
   version |-> [number |-> n, withdrawn |-> gone, own |-> own, readable |-> own # {}, text |-> text]]
\* A version whose own body nobody can read.
Scan(k, n, own, text) ==
  [type |-> "document_version", key |-> k,
   version |-> [number |-> n, withdrawn |-> FALSE, own |-> own, readable |-> FALSE, text |-> text]]
Refers(v4, k, attached, b) ==
  [type |-> "evidence", row |-> [v4 |-> v4, key |-> k, attached |-> attached, body |-> b]]
Calculated(v4, t, k) == [type |-> "accumulator", v4 |-> v4, key |-> k, created |-> t]

\* Two versions of one number, with a body and with an extraction, a later withdrawal,
\* and a revised row of the second version.
Document ==
  {Object(x), Object(y), Row(1, 1, FALSE, {x}, {}), Scan(2, 1, {x}, {y}),
   Row(3, 2, TRUE, {x}, {}), Row(2, 2, FALSE, {}, {y})}
\* A later version whose bytes never arrive.
Incomplete == {Object(x), Row(1, 1, FALSE, {x}, {}), Row(2, 2, FALSE, {}, {y})}
\* Evidence in a version's own body; the version is sent again extracted, and withdrawn.
Proof ==
  {Object(x), Row(1, 1, FALSE, {x}, {}), Row(1, 1, FALSE, {x}, {y}), Row(1, 1, TRUE, {x}, {}),
   Refers(TRUE, 1, FALSE, x), Refers(FALSE, 1, FALSE, x)}
\* Evidence in an attachment; the version is sent again with its own body stated.
Extracted ==
  {Object(y), Scan(2, 1, {}, {y}), Scan(2, 1, {x}, {y}), Refers(TRUE, 2, TRUE, y), Refers(FALSE, 2, TRUE, y)}
\* Snapshots, one of them sent in both generations, one calculated before a lower key's,
\* and two at the same time.
Calculations ==
  {Calculated(FALSE, 2, 1), Calculated(TRUE, 2, 1), Calculated(TRUE, 1, 2), Calculated(TRUE, 2, 3)}

Sent == Document \cup Incomplete \cup Proof \cup Extracted \cup Calculations

ReadScenarios ==
  {Scene({"consumer"}, c[1], c[2], {}) : c \in Consumers} \cup
  {Scene({"consumer", "job"}, At("rcpt3", 2), {1, 2}, {}),
   Scene({"document"}, NoCursor, {1, 2}, Document),
   Scene({"document"}, NoCursor, {1, 2}, Incomplete),
   Scene({"evidence"}, NoCursor, {1, 2}, Proof), Scene({"evidence"}, NoCursor, {1, 2}, Extracted),
   Scene({}, NoCursor, {1, 2}, Calculations)}

\* The scenarios of the passing run keep the premises of VerifiedStays and of
\* AccumulatorMovesForward.
ASSUME PremisesKept == \A s \in ReadScenarios : FixedSource(s.inbox) /\ ImmutableSnapshots(s.inbox)
=============================================================================
