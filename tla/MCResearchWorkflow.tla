------------------------- MODULE MCResearchWorkflow -------------------------
(* Small instances of ResearchWorkflow for TLC.                            *)
EXTENDS ResearchWorkflow, TLC

CONSTANTS job, ann, bob, eve, k1, k2, p1, p2, r1, r2, r3, r4

Carries(op, caller, gen, key, payload, origin, recheck) ==
  [op |-> op, job |-> job, caller |-> caller, gen |-> gen, key |-> key,
   payload |-> payload, origin |-> origin, recheck |-> recheck]

ClaimBy(p) == Carries("claim", p, 0, k1, p1, "CHATGPT", 0)

SubmitAs(p, gen, key, payload) == Carries("submit", p, gen, key, payload, "CHATGPT", 0)

DeferAs(p, gen, key, recheck) == Carries("defer", p, gen, key, p1, "CHATGPT", recheck)

Requested(a, b, c, d) ==
  [r \in Requests |-> CASE r = r1 -> a [] r = r2 -> b [] r = r3 -> c [] r = r4 -> d]

\* Two owners race for the lease and both submit; or one owner submits while a
\* retry and a malformed payload (p2) arrive under the same key.
SubmitScenarios ==
  {Requested(ClaimBy(ann), ClaimBy(bob), SubmitAs(ann, 1, k1, p1), SubmitAs(bob, 2, k2, p1)),
   Requested(ClaimBy(ann), SubmitAs(ann, 1, k1, p1), SubmitAs(ann, 1, k1, p1),
             SubmitAs(ann, 1, k1, p2))}

\* The holder gives the job back, retries or submits at the same time, while the
\* other owner claims.
DeferScenarios ==
  {Requested(ClaimBy(ann), ClaimBy(bob), DeferAs(ann, 1, k1, 1), last) :
   last \in {SubmitAs(ann, 1, k2, p1), DeferAs(ann, 1, k1, 1), DeferAs(bob, 2, k2, 2)}}

\* eve is no formal owner: her submit is synthetic whatever she declares, and meets
\* a formal submit under the other lease of the job, whichever comes first.
SyntheticScenarios ==
  {Requested(ClaimBy(eve), ClaimBy(ann), SubmitAs(eve, 1, k1, p1), SubmitAs(ann, gen, k2, p1)) :
   gen \in 1..2}

\* One owner claims twice while the other claims: a claim may find its own lease. The
\* fourth request is refused on arrival: it names no generation.
TwiceScenarios ==
  {Requested(ClaimBy(ann), ClaimBy(ann), ClaimBy(bob), DeferAs(ann, 0, k1, 1))}

\* One owner, two leases of generation 1: the first is deferred, which deletes the row
\* that counts, and its late submit arrives.
ReclaimScenarios ==
  {Requested(ClaimBy(ann), DeferAs(ann, 1, k1, 1), ClaimBy(ann), SubmitAs(ann, 1, k2, p1))}

\* Races for the lease and for the job's one formal result.
RaceScenarios ==
  SubmitScenarios \cup SyntheticScenarios \cup TwiceScenarios \cup ReclaimScenarios

OnlyP1 == {<<p1, job>>}
=============================================================================
