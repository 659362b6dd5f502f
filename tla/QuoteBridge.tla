---------------------------- MODULE QuoteBridge ----------------------------
(***************************************************************************)
(* The quote bridge: runs that read the report in a GitHub issue, fetch    *)
(* quotes for seconds, and replace the report, without a version check.    *)
(* The worker's cron runs updateQuoteBridge of src/src/index.ts; operators *)
(* run src/scripts/manual-quote-bridge.mjs beside it, which takes its      *)
(* quotes from the worker's public endpoint.                               *)
(*                                                                         *)
(* The cron handler is given the raw environment (src/src/oauth-entry.ts), *)
(* so its catalogue is that of Workers KV; HTTP requests read the one in   *)
(* the D1 table behind the same interface.                                 *)
(***************************************************************************)
EXTENDS QuoteSnapshot, WorkerClock

CONSTANTS
  Runs,         \* runs of the bridge
  Wires,        \* what the provider may answer: functions from Instruments to Response
  BridgeScenes, \* the issue, the snapshots the catalogues were made from, and the runs
  MaxOutages    \* bound on failures and evictions

\* The rows of a snapshot are numbered from one.
Listed(s) == Len(s.stocks) \in Nat /\ DOMAIN s.stocks = 1..Len(s.stocks)

\* A report that is there at first was written by an earlier run that succeeded, and
\* each store holds one catalogue at most.
ASSUME BridgeAssumption ==
  /\ MaxClock \in Nat /\ MaxOutages \in Nat
  /\ \A b \in BridgeScenes :
       /\ DOMAIN b.issue = {"status", "success", "snapshot"}
       /\ \A s \in b.issue.snapshot \cup b.seeds.d1 \cup b.seeds.workers : Listed(s)
       /\ \A store \in {"d1", "workers"} : \A s, t \in b.seeds[store] : s = t
       /\ \A s \in b.issue.snapshot, t \in b.issue.success : t <= s.time
       /\ b.issue.status = "SUCCESS" => b.issue.snapshot # {} /\ b.issue.success # {}

VARIABLES
  issue,    \* the report in the issue's body
  catalogs, \* the catalogue in the D1 table and that in Workers KV
  run,      \* each run's program counter and locals
  made,     \* history: the success times and quotes of the runs that succeeded
  outages   \* failures and evictions so far

bridgeState == <<issue, catalogs, run, made, outages>>
bridgeVars == <<clock, bridgeState>>

\* A body without a readable report has no success and no snapshot.
NoReport == [status |-> "NONE", success |-> {}, snapshot |-> {}]

RunSteps == {"idle", "get", "quotes", "patch", "done"}

\* Every local has its type, and a run has what its step needs.
BridgeTypeOK ==
  /\ clock \in Nat /\ outages \in 0..MaxOutages
  /\ DOMAIN issue = {"status", "success", "snapshot"}
  /\ DOMAIN run = Runs
  /\ \A r \in Runs :
       /\ run[r].kind \in {"cron", "manual"} /\ run[r].pc \in RunSteps /\ run[r].now \in 0..clock
       /\ run[r].outcome \in {"NONE", "SUCCESS", "FAIL", "UNREPORTED"}
       /\ run[r].pc = "patch" => run[r].report # {}
       /\ run[r].pc = "quotes" => run[r].previous # {}

\* What tells one reported snapshot from another.
Quotes(s) == [at |-> s.time, quotes |-> {<<s.stocks[i].id, s.stocks[i].quote>> : i \in DOMAIN s.stocks}]

\* A catalogue is made from a rich snapshot, from outside.
BridgeStart(b) ==
  /\ issue = b.issue
  /\ catalogs = [store \in {"d1", "workers"} |-> UNION {CatalogFrom(s) : s \in b.seeds[store]}]
  /\ made = {[success |-> b.issue.success, snapshot |-> Quotes(s)] : s \in b.issue.snapshot}
  /\ run = [r \in Runs |-> [kind |-> IF r \in b.manual THEN "manual" ELSE "cron",
                            pc |-> IF r \in b.runs THEN "idle" ELSE "done", now |-> 0,
                            previous |-> {}, report |-> {}, outcome |-> "NONE"]]
  /\ outages = 0

BridgeInit == clock = 0 /\ \E b \in BridgeScenes : BridgeStart(b)

Outage == outages < MaxOutages /\ outages' = outages + 1

BridgeTick ==
  /\ clock < MaxClock /\ clock' = clock + 1
  /\ UNCHANGED bridgeState

Step(r, s) == run' = [run EXCEPT ![r] = s] /\ UNCHANGED <<clock, catalogs>>

\* A manual run takes its time when it starts.
StartRun(r) ==
  /\ run[r].pc = "idle"
  /\ Step(r, [run[r] EXCEPT !.pc = "get", !.now = IF run[r].kind = "manual" THEN clock ELSE @])
  /\ UNCHANGED <<issue, made, outages>>

\* A run of the worker takes its time when it has the issue, before it fetches.
ReadIssue(r) ==
  /\ run[r].pc = "get"
  /\ Step(r, [run[r] EXCEPT !.pc = "quotes", !.previous = {issue},
                            !.now = IF run[r].kind = "cron" THEN clock ELSE @])
  /\ UNCHANGED <<issue, made, outages>>

Catalog(r) == IF run[r].kind = "cron" THEN catalogs.workers ELSE catalogs.d1

\* A run fetches from its catalogue and has the public projection of that, if all goes well.
Fetched(r, wire) ==
  UNION {ToPublic(s) : s \in UNION {FromCatalog(c, wire, clock) : c \in Catalog(r)}}

\* Variant: a failed run keeps the snapshot it read as it is.
FallbackAsRead(r, previous) == {previous.snapshot}

\* What a failed run has instead of a snapshot: the one it read, projected once more
\* by the worker, which throws on what is projected already.
Fallback(r, previous) ==
  IF run[r].kind = "manual" \/ previous.snapshot = {}
    THEN {previous.snapshot}
    ELSE {{p} : p \in UNION {ToPublic(s) : s \in previous.snapshot}}

\* Variant: a failed run states its own time as that of the last success.
FailReportsNow(r, previous) ==
  {[status |-> "FAIL", success |-> {run[r].now}, snapshot |-> f] : f \in Fallback(r, previous)}

FailReports(r, previous) ==
  {[status |-> "FAIL", success |-> previous.success, snapshot |-> f] : f \in Fallback(r, previous)}

Reports(r, wire) ==
  IF Fetched(r, wire) # {}
    THEN {[status |-> "SUCCESS", success |-> {run[r].now}, snapshot |-> {s}] : s \in Fetched(r, wire)}
    ELSE UNION {FailReports(r, p) : p \in run[r].previous}

FetchQuotes(r) ==
  /\ run[r].pc = "quotes"
  /\ \E wire \in Wires :
       \/ \E report \in Reports(r, wire) :
            /\ Step(r, [run[r] EXCEPT !.pc = "patch", !.report = {report}])
            /\ made' = IF report.status = "FAIL" THEN made
                       ELSE made \cup {[success |-> report.success, snapshot |-> Quotes(s)] :
                                          s \in report.snapshot}
       \/ /\ Reports(r, wire) = {}
          /\ Step(r, [run[r] EXCEPT !.pc = "done", !.outcome = "UNREPORTED"])
          /\ UNCHANGED made
  /\ UNCHANGED <<issue, outages>>

\* The report takes effect; its answer may be lost, which fails the run.
PatchIssue(r) ==
  /\ run[r].pc = "patch"
  /\ \E report \in run[r].report :
       /\ issue' = report
       /\ \/ Step(r, [run[r] EXCEPT !.pc = "done", !.outcome = report.status]) /\ UNCHANGED outages
          \/ Step(r, [run[r] EXCEPT !.pc = "done"]) /\ Outage
  /\ UNCHANGED made

\* GitHub does not answer, or the run is cut off.
LoseRun(r) ==
  /\ run[r].pc \in {"get", "quotes", "patch"} /\ Outage
  /\ Step(r, [run[r] EXCEPT !.pc = "done"])
  /\ UNCHANGED <<issue, made>>

BridgeStep ==
  \E r \in Runs : StartRun(r) \/ ReadIssue(r) \/ FetchQuotes(r) \/ PatchIssue(r) \/ LoseRun(r)

BridgeNext == BridgeTick \/ BridgeStep

BridgeSpec == BridgeInit /\ [][BridgeNext]_bridgeVars

-----------------------------------------------------------------------------
(* Properties.                                                             *)

\* The report never mixes runs, however cron and manual runs overlap, fail and are cut
\* off: the time it gives for the last success and the quotes it carries are those of
\* one run that succeeded, and the quotes are not older than that time.
ReportPaired ==
  /\ \A s \in issue.snapshot : [success |-> issue.success, snapshot |-> Quotes(s)] \in made
  /\ \A m \in made : \A t \in m.success : t <= m.snapshot.at
  /\ issue.status = "SUCCESS" => issue.snapshot # {} /\ issue.success # {}

\* The catalogue, which only says what there is, makes a snapshot that passes the full
\* validation whenever it lists what the worker can ask for and the provider answers for
\* all of it, whatever the rich snapshot it was made from held, mapped or watched.
CatalogServes ==
  \A c \in catalogs.d1 \cup catalogs.workers : (\A i \in DOMAIN c : c[i].id \in Canonical) =>
    FromCatalog(c, [i \in Instruments |-> [found |-> TRUE, code |-> i, complete |-> TRUE]], clock) # {}

\* While only the worker writes it, an issue that is quote-only stays so, whatever
\* older report a failing run falls back on.
WorkerKeepsQuoteOnly ==
  [][(\A r \in Runs : run[r].kind = "cron" \/ run[r].pc = "done")
       => \A s \in issue'.snapshot : issue' = issue \/ QuoteOnly(s)]_bridgeVars

\* A run that could read the issue and not fetch its quotes reports the failure, with
\* the last good snapshot.
FailureReported == \A r \in Runs : run[r].outcome # "UNREPORTED"
=============================================================================
