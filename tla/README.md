# Toleman platform: TLA+ verification

Toleman is a DevSecOps platform: a FastAPI backend (`backend/app/api`, `core`), a
PostgreSQL database (`models/models.py`), Celery workers on Redis (`tasks/`,
`scanners/`), a Next.js frontend and an MCP server. Its one loop is scan, dedup,
prioritise, block or fix. Everything in that loop is a row in a table that several
processes read, think about, and write back: request threads, workers, a beat clock,
GitHub's webhooks, and people. This directory models the parts of the loop where the
order of those reads and writes decides whether the platform tells the truth.

Paths below are relative to `src/backend/app`.

## 1. Inventory

| Part | State | Operations | Talks to | What is hard | Correct when |
|---|---|---|---|---|---|
| Scan scheduling (`core/scan_schedules`, `tasks/schedule_tasks`, `api/scan_schedules`) | `scan_schedule` rows: scope, enabled, interval, last/next run, count | seed defaults, select due, claim, fan out, report; PUT, DELETE | scan execution (`queue_full_scan`, `queue_api_scan`), target lifecycle | overlapping and redelivered passes, a pass with an old `now`, edits during a pass | one run reaches a target once; a due schedule is served |
| Target lifecycle (`core/target_lifecycle`) | `deactivated_at`, `deleted_at` | deactivate, reactivate, soft delete | checked by dispatch and again by the worker | the state changes while a scan waits in the queue | a switched-off target is not scanned, and the refused scan is settled |
| Scan execution (`tasks/scan_tasks`, `tasks/api_scan_tasks`, `api/scans`, `core/staleness`) | `scan` rows, broker messages, a checkout | dispatch, start, clone, run tool, retry, fail, time out | ingestion, notifications | late acknowledgement, redelivery, retries, a row nobody settles | every scan ends in one visible outcome |
| Ingestion (`core/ingestion`, `api/ingest`) | `finding`, `finding_state_log` | look up, insert, reopen, suppress, announce, sweep | Jira, SIEM, notifications, false-positive rules | five commits in one function, two ingests at once, partial tool output | nothing real is cleared, nothing is announced twice |
| Triage and false-positive learning (`core/triage`, `core/fp_learning`) | finding state, `false_positive_rule` | triage, learn, suppress, edit rule | ingestion | a decision made while a sweep is running | a human decision stands |
| PR Guardrail (`core/pr_guardrail_executor`, `api/pr_guardrail`, `tasks/pr_guardrail_tasks`) | `PRGuardrailScan` and `PRGuardrailFinding` rows, a commit status and a comment on GitHub, a cached import graph | run, carry approvals forward, store, post, comment; request, approve, reject, revoke, override, retry, recompute | GitHub, webhooks, the findings of the default branch | the head moves during a run, approvals during a run, only 20 findings stored, two writers of one comment | green is earned, a block has a reason, an all-clear is one, a run is settled |
| Remediation (`core/remediation*`, `tasks/remediation_tasks`, `api/findings`) | advisories kept, fix pull requests, batch rows with counters | plan, raise one, raise all, sweep | GitHub, OSV | redelivery of a half-done batch, a plan that changes under it | one pull request per fix; counters add up; the plan closes what it says |
| Pipeline rollout (`tasks/pipeline_tasks`, `core/pipeline_*`, `api/pipeline_templates`) | templates, batch rows, workflow pull requests | edit a template, integrate one, many, all | GitHub | the same, and templates edited under a rollout | one pull request per repository; the workflow is the template |
| SBOM, AIBOM and malware check (`core/sbom_ingestion`, `core/osv_malware*`, `tasks/sbom_tasks`, `api/sbom`) | component rows, findings of its own tool, a run row | import, upload, check, sweep | GitHub, OSV | overlapping imports and checks, lost or short answers | no source is lost; nothing is cleared without an answer |
| Scanner runner (`scanners/runner`, `core/scan_health`) | a shared warm database, a lock, private caches | warm, link, run, judge, sweep | the tools, ingestion | replacing a directory others link, killed workers, stale databases | a run called healthy looked at everything |
| Priority score (`core/scoring`, `core/cvss`) | weights per workspace | compute, set weights | ingestion, reports | saturation, unknown signals, bad stored weights | the breakdown adds up; learning a fact never lowers a score |
| Security score and SLA (`core/security_score`, `core/sla`) | rules, the audit trail | compute | reports | targets without a past, nothing to measure | a trend is real; what is not measured does not count |
| GitHub App and webhooks (`core/github_app`, `api/github_app`, `api/webhooks`) | Apps, installations, imported targets, flows under way in memory | register, install, sync, route and verify a delivery | everything | several Apps and workspaces, overlapping syncs, revoked installations | work starts only for the tenant that signed; a repository is imported once |
| Enforcement, policies | configuration rows | resolve | guardrail | precedence of overrides | part of PrGuardrail and GuardrailDiff |
| Tool installation, API discovery, authentication, rate limits | a row or window each | install, discover, admit | - | - | not modelled |
| Reports, widgets, frontend, MCP server, charts | none of their own | read | API | - | not modelled |

`PROJECT.json` lists the same parts with their status, and under `hazards` the places
where this code can go wrong in a way a unit test would hardly reach, with the properties
that would catch it; further ones are described at the end of section 3.

## 2. Modules

| Module | Models |
|---|---|
| `ScanSchedules` | the scheduler, its operators and the target switches it reads |
| `RunLedger` | what the scheduler promises, without passes: the specification `ScanSchedules` implements |
| `ScanRuns` | a scan from dispatch to the last commit of `ingest_findings`, with triage, rules and the lazy timeout |
| `PrGuardrail` | guardrail scans of one pull request, reviews, and the commit status |
| `GuardrailDiff` | what such a scan examines and reports, and the sentence it closes with |
| `GuardrailComment` | the comment, rendered by scans and patched by reviews |
| `FixPlan` | advisories, the plan, and the pull requests raised from it |
| `PipelineRollout` | templates and the rollout of workflows |
| `Inventory` | dependency and AI components, and the malware check |
| `ToolRuns` | one tool run: applicability, the shared database, its health |
| `PriorityScore`, `SecurityScore` | the two scores and their configuration |
| `GitHubLink` | Apps, installations, syncs, the routing of deliveries |
| `MCScanSchedules`, `MCScanRuns`, `MCPrGuardrail` | instances of one component |
| `MCScanning`, `MCGitHub` | five and four components side by side |
| `ScanSchedulesProofs`, `ScanRunsProofs`, `PrGuardrailProofs`, `ToolRunsProofs`, `InventoryProofs` | theorems about the module each is named after |
| `GuardrailReportProofs` | theorems about `GuardrailDiff` and `GuardrailComment` |
| `GitHubProofs` | theorems about `FixPlan`, `PipelineRollout` and `GitHubLink` |
| `ScoreProofs` | theorems about `PriorityScore` and `SecurityScore` |

`MCScanning` and `MCGitHub` put components that share no state into one run. A behaviour
picks one of them at the start (`part`) and moves only it, so that the states of the run
are the sum of theirs and not the product; every property is about one component and says
nothing about the others.

Interaction between components is modelled at its boundary, by what the other side may
do: a target is switched off under a scan, the default branch triages a finding under a
guardrail scan, the rules a guardrail scan is judged by change. The tables behind these
boundaries have the same values on both sides (the finding states, the lifecycle, the
guardrail modes).

### ScanSchedules

One workspace and one scan type; rows of other workspaces or types only share the
loop. Time is counted in dispatcher ticks. The atomic steps are the database's: one
statement or one commit each.

A dispatcher pass (`dispatch_due_scan_schedules`) is `StartPass` (reads `now` and looks
for the workspace default), `EnsureDefault` (the insert, under the unique index),
`SelectDue` (the whole due list, once), then per row `PickRow` (computes the next due
time from what it reads), `Claim` (the conditional UPDATE), `Cover`, `Dispatch` per
target and `Report`. `RowFails` is the handler that goes on with the next row;
`RowVanished` is the case where that handler itself raises because the row was deleted;
`Crash` is a worker lost at any point, whose message is redelivered: a redelivered pass
is a new pass. A PUT is `PutStart`, `PutInsert` or `PutUpdate` (first commit),
`PutDecide`, `PutReset` (second commit). `sent` is a history variable: which run of
which row reached which target.

The model keeps SQL's NULL apart from every value, because inheritance
(`_overlay`) and due times both turn on it. Interval validation
(`validate_interval_hours`) is the constant `Intervals`.

### ScanRuns

One target, branch and tool: ingestion reads and writes only findings of one such
triple. A vulnerability is its dedup hash. `Dispatch` commits the row and publishes the
message, `DispatchLost` fails in between, `Push` is a CI job whose request thread
ingests by itself. On a worker: `Start`, `Refuse`, `Clone`, `RunTool`, `Skip`, `Retry`,
`Fail`. Inside `ingest_findings`: `Look` per item (the SELECT), `Store` (first commit),
`Suppress` (second), `Announce`, `FindStale` (the sweep's SELECT), `Mitigate` (third),
`Complete` (last). `IngestFails` is an exception between those; its two outcomes are a
handler that could still commit and one that could not. `Crash` and `Redeliver` return
an unacknowledged message to the queue. `MarkStale` is `mark_stale_if_needed`, which may
fire on any read of a running row, since nothing bounds how long a scan waits or runs.

The tool is modelled by what it promises: a healthy run reports exactly what its
checkout contains, a degraded one any part of that. The commit of the repository
(`Commit`) and the broker's visibility timeout (`Redeliver`) are external.
History variables: `told` (announcements), `clones` and `latest` (which checkout is newest),
`raced` (hashes that two runs looked up before either stored a row) and `outrun` (hashes that
the sweep of an older checkout cleared although a newer one had seen them).

### PrGuardrail

One pull request. A webhook (`PullRequest`, `EventAgain`, late) commits a placeholder row,
posts the pending status (`PendingStatus`, best-effort) and hands out the message (`Publish`);
it may be lost in between (`HookLost`). A request (`OnDemand`) runs in its own process. A worker gates on the target's switch and mode
(`_discard_placeholder_pr_scan` when it is off), reads the head (`Fetch`), clones the
branch (`CloneAndScan`), decides on the net-new findings minus what was approved before
(`Decide`), commits the verdict (`Record`), stores the first `Cap` findings (`Persist`)
and posts the status on the commit it read at the start (`Post`). Each is a step of its
own because each is a commit or a call to GitHub. A decision of a reviewer has the same
grain: the row, the finding of the default branch, then the recompute and its status.
`Crash` and `Redeliver` are the broker's; `FetchFails`, `ScanPartly`, `PostFails` and `Fail` are the
error paths. `granted` and `waived` are history: what a reviewer approved at some time,
and whether there was another reason to be green (override, alert mode, a tool that
failed, no baseline, a decision posted after a push). `crossed` is history too: an approval
landed between the reads and the write of another decision's recompute, or a worker was
lost between a verdict and its rows. `stranded` and `unheard` are the runs that ended, or
were never handed out, with their row as it was, and the commits GitHub hears nothing more
about. A run stores its rows as a copy of its own, and there
is a copy for every run that faults can cause.

### GuardrailDiff, GuardrailComment

An edit is a sequence of kept, added and deleted lines; `PatchOf` produces the hunk and
`AddedLines` is the code's reader of it, line by line (`ReadLine`), so that the property
compares the reader with the edit and not with itself. The import graph is cached under the head that was read
while it is built from the checkout that was cloned: both commits are in the model. The
comment is the list of GitHub comments with the marker, each with its marks and the
count in the header of every group; a writer reads it, patches it and writes it back. A
revocation looks at the merge state first (`CheckMerged`) and leaves a merged pull request
alone; a new request for an approved finding and a rejection of it (`TakeBack`) take the
approval back and never touch the comment. `unsaid` remembers what was taken back that way.

### FixPlan, PipelineRollout

A CVE has at most one open finding, an advisory is a set of package and version pairs,
and versions are numbers in the order of `parse_version`. Raisers are request threads,
the batch task and the sweep: each looks whether the fix was raised, opens the pull
request, then commits its record. A lost worker's batch starts again from its first item,
as the broker's redelivery does. Templates are edited and targets toggled under a rollout in flight.

### Inventory

A job is a request or a task: it reads the rows, merges, and commits. A package has the
type its source gives it (`PackageType`): an upload says pip where the dependency graph
says pypi. The check asks OSV in chunks, whose answers may be lost, short or paged, and
clears what a completed check did not name. What OSV holds is external.

### ToolRuns

A database file is an inode, which the warm directory and the private caches link. A
warmer downloads into a staging directory and publishes it with two renames under the
exclusive lock; either may fail, and so may the rename that puts the old copy back
(`RotateFails`, `PublishFails`, `RollbackFails`). A run links and copies under the shared one, takes fingerprints before
and after the tool, and turns what it saw into a verdict. Time passes in periods, after
which a database is past its grace.

### PriorityScore, SecurityScore

The formulas in integers: points as in the code, weights in halves, the security score in
tenths of a point. `PriorityScore` moves by learning one more signal or storing a weight;
`SecurityScore` by days, scans, findings, triage, rules and the lifecycle of targets.

### GitHubLink

Apps in the order of their registration, installations with the App they are linked to,
targets with the workspace they are in. A sync walks the installations one by one and
commits once, then queues a scan per new target; two syncs overlap. A delivery is a body
signed with the secret of one App that names an installation, of that App, of another or of
none, and a repository: nothing ties the three together but what the code checks. It is
verified against the App of the installation it names, or else against every secret, and its
repository is looked up in the workspace of that installation; where there are several rows
the lookup may return any of them, and only that row's state is looked at. What GitHub
holds, and the people who change it, is external.

## 3. Runs

| Run | Checks | Shows |
|---|---|---|
| SchedulesOverlap | TypeOK, OncePerRun, OneRowPerScope, RunsAdvance, ImplementsLedger | two overlapping passes, three cycles, one edit, one fault; the refinement of `RunLedger` |
| SchedulesLive | DueAfterLastRun, DueIsServed | one pass, two edits, jitter; under fairness a crash, a failing row or a deleted one does not lose a due schedule |
| RunsOverlap | RunsTypeOK, AnnouncedOnce, ReportedIsOnRecord | two scans at once on two workers, two commits between, one fault |
| RunsSettle | ScansSettle, ClearedOnEvidence | two vulnerabilities, partial reports; under fairness every queued scan leaves `running` |
| GuardrailReview | GateHolds, BlockedHasReason, ApprovalsAreHuman | two scans, two decisions, and any two of a mode change, an error and a fault, on one commit |
| GuardrailSettle | GateHolds, ScanSettles, PendingResolved | two scans and any three of a push, a switch, an error and two faults, at every point of the webhook and of the task; under fairness rows settle and a pending status is replaced, but for the histories each property names |
| Scanning | HealthyMeansChecked, SeededWhole, WarmCopyKept; ReportsTheEdit, AllClearIsClear, ExaminesImporters; CommentAgrees; ScoreExplained, LearningNeverLowers; WorseningIsReal, CompositeIsMean | two tool runs over two periods with a fault; every edit of three lines, two pushes, a changed option; two writers, two renders, three decisions or withdrawals, a merge, a refused call; every combination of signals with a stored weight; two targets over two days and four events |
| OnGitHub | PlanIsHonest, OnePrPerFix, BatchAccounts; OnePipelinePr, RolloutAccounts, TemplateIsWritten; SourcesAreKept, ClearedByAnswer; ActsForItsTenant, CoverageScans, ImportedOnce | two raisers, two threads, two jobs, each with requests and faults between their steps; two syncs and every delivery that any secret may sign |

Four runs show where the code does something other than the repository says. Each is a
`finding` of `PROJECT.json` with the line quoted:

| Run | The repository says | The code does |
|---|---|---|
| RunsReopened (HealthyRunClears) | the next healthy run clears what is gone | never a Reopened finding |
| GuardrailCapped (GateHolds) | green after a review means all blocking findings were approved | the recompute counts the stored rows, at most 20; the others are never looked at again |
| ListingLowers (ListingNeverLowers) | no code path lets a signal lower a score (`core/scoring.py` 26) | a KEV listing replaces the EPSS bump by a floor: a High on a target of criticality 5 falls from 960 to 900, with the weights every workspace starts from |
| ImportStalls (GrantedIsImported) | the daily sync imports every granted repository | one installation GitHub no longer knows ends the sync of all, each day anew |

The refinement: a row's `last_run_at`, what the passes still hold (`Owed`) and what was
sent are a ledger. `BeginRun` is a won claim, `HandOut` a dispatch, `Cancel` everything
that makes a pass let go of a row, `Remove` a deleted row. That a lost claim, a
redelivered pass or a claim with an old `now` changes nothing of the ledger is what the
run establishes.

### Where the code is weaker than a reader might assume

These are in the model, found while stating the properties, and bound what the properties
claim; they have no run of their own. A property that does not hold in one of these histories
names it, and holds in all others.

* Scheduling. A new row is committed before its clock, so a pass between the two commits
  of a PUT fires it at once (`PutInsert`, `Claim`). Re-enabling the workspace default does
  not recompute the clocks of rows that inherit the switch. A schedule paused while it
  waits in a pass's list is still claimed: the claim re-tests the due time, not the switch.
* Ingestion. Two ingests that both look a hash up before either stores it insert it twice
  and announce it twice; AnnouncedOnce, which counts over all rows of a hash, excepts those
  hashes (`raced`). The sweep of an older checkout may commit after a newer run read or
  stored a finding, and clear it; ReportedIsOnRecord excepts those (`outrun`). Nothing in
  the code keeps either from happening: no scan of a target excludes another, and nothing
  compares checkouts. The sweep overwrites a triage made between its SELECT and its UPDATE. A
  crash between the commit and the hooks leaves findings unannounced. A redelivered scan
  runs again whatever its row says, so a row that failed may complete. A row whose message
  never reached the broker is settled only when somebody reads it (`MarkStale`); the same
  holds of a batch or rollout whose `.delay` failed.
* Guardrail. Requesting an ignore for an approved finding takes the approval back without
  a recompute, so GateHolds counts what was approved at some time. A decision on the scan
  of an older commit is posted on the current head: with a push in between it can turn an
  unscanned commit green, and GateHolds excepts it. A failed tool or a missing baseline
  lets a commit pass, as the code intends and the comment says. Two decisions on one scan
  can leave it blocked with everything approved: the recompute for a revocation reads the
  rows, a second reviewer approves and sees a scan that is still passed, and the first
  one then writes the block. So can a rerun whose verdict is committed and whose worker is
  lost before its rows are, when the target is switched off before it runs again.
  BlockedHasReason excepts both (`crossed`); without the exception TLC finds the first with
  two reviewers and three decisions.
* Guardrail rows that stay running, and statuses that stay pending. The webhook commits its
  row and posts the pending status before it hands out the message, so a process or a broker
  that fails in between leaves both, a pending check that `api/webhooks.py` 253-259 means to
  rule out. The head is read outside the try block (`core/pr_guardrail_executor.py`
  1931-1932), so that a GitHub that does not answer leaves the row running; a failure
  inside it makes the row an error and posts nothing. An on-demand run is in a process of
  its own. A message handed out again for a target that is switched off meanwhile cannot
  delete a row that findings refer to. Stored rows are settled by a person
  (`MarkStale`, `Retry`), as `api/pr_guardrail.py` 724-729 says. ScanSettles and
  PendingResolved name these histories (`stranded`, `unheard`) and hold in all others: a lost
  worker alone is not among them.
* Comment. Two writers at once lose a mark, or leave two comments (CommentAgrees excepts
  overlap). An approval taken back by a new request or a rejection, or revoked after the
  merge, stays marked as approved on GitHub and in the count of its group's header;
  CommentAgrees lets a mark be one too many there and nowhere else, and never one too few.
  `reject_ignore` says (`api/pr_guardrail.py` 654) that a rejection leaves what the finding
  is blocking as it was; rejecting an approved one takes the approval back, and no recompute
  follows.
* Fixes and pipelines. Two raisers of one package, or a worker lost between the pull
  request and its record, open a second one; a redelivered batch adds to counters it had
  written. The unresolved CVEs of a package are always an empty list: the second pass of
  `_group_by_package` looks for them in a column that only holds fixes.
* Inventory. An upload stores a Python package as pip; an import of the dependency graph
  rewrites it to pypi, which has no ecosystem in the check. The next check does not ask
  about it and clears its open finding as no longer flagged. Two overlapping imports
  insert a row twice.
* Tool runs. A run that outlives the sweep's limit loses its directory; what noseyparker
  or modelscan do not write is read as nothing found. When the new warm copy cannot be
  moved in and the old one cannot be moved back either, the old one is removed with the
  rest (`scanners/runner.py` 1521-1542); WarmCopyKept names that and a worker that dies
  between the two renames.
* Scores. Two requests can insert two default SLA rules.
* GitHub. Overlapping syncs import a repository twice. An installation without a link
  resolves to whichever App is the only one, which may not be the one it is of: deliveries
  signed by that App then count as the installation's (`Entitled` names it, and only
  that). A repository may have several targets in one workspace (`create_target` does not
  ask), of which the webhook takes whichever comes first and looks at its state only: a
  deactivated or disabled one swallows the event while the other counts as covered, against
  `target_has_pr_guardrail_coverage` (`core/github_app.py` 450). CoverageScans excepts a
  target with such a second row. The states of a manifest flow live in one
  process: after a restart the callback is refused and the App is left on GitHub.

### Bounds

Two passes, workers, raisers, writers, jobs or syncs are enough for every race between
two actors, and the claims and commits they race for are pairwise. `MaxTime` 3 with
interval 1 gives a pass that outlives two cycles; intervals {1 shipped, 2 set} let an
edit change the cadence both ways. `MaxRows` 3 leaves a default row, a target row, and
a row deleted and created again. A fault bound of 1 puts one crash, failing call or
duplicate anywhere. In ScanRuns one hash suffices for properties of one vulnerability at
a time, and two commits let it go and come back, so that two checkouts differ either way; ClearedOnEvidence has two, so that a report can be partial and not empty.

In the guardrail two vulnerabilities let one be approved and the other not, and `Cap` is
2 where the cap must not bite and 1 where it must. `MaxMishaps` bounds the sum of pushes,
switches, errors and faults, each bounded too: 3 in GuardrailSettle put, for example, a
lost webhook, a lost worker and a switched-off target into one behaviour. `MaxUnusual` bounds the sum of
requests, changes and faults of the fixes, and of the inventory, to 2, above the bound
of 1 on each kind. `MaxAdmin` bounds what people do on GitHub and here: 2 for safety, 3
to reach the stalled import (install, uninstall on GitHub, grant elsewhere). The sets of
vectors, postures, flaws, lists and advisories in the MC modules hold one member per
case the code tells apart.

Symmetry is used in runs without liveness. `CHECK_DEADLOCK FALSE` outside the schedule
runs: once the bounded number of scans, commits and requests is spent the system is idle,
which is a legal end.

### Fairness

`SchedulesLive`: beat keeps ticking, so an idle pass starts and a started one goes on
(`WF` of `PassStep` per pass), and a request that started ends (`PutStep`). `RunsSettle`
and `GuardrailSettle`: a worker keeps consuming the queue and every step of a task ends,
since clone, tools and calls have timeouts (`WF` of `WorkerStep`); an event GitHub sent
is delivered (`Deliver`) and a decision being recorded is finished (`ReviewStep`).
`ImportStalls`: the daily sync runs, however many syncs deliveries start in between (`SF` of
`StartSync` with every installation), and goes on (`WF` of `SyncStep`). Nothing is assumed of
operators, of the clock, of faults, or of anybody polling a row.

## 4. Proofs

Thirty-eight theorems, in eight modules, for every value of the constants. Each rests on the named
assumption of the module it is about (finite sets, bounds that are natural numbers, model
values apart from each other), which TLC evaluates in every run. One hypothesis goes beyond
that: `Cardinality(Vulns) <= Cap` for the two theorems about
the gate (the run GuardrailCapped shows what happens past it).

Almost none of the properties is inductive. The invariants that make them so were first
checked by TLC, as invariants of small instances.

**Scheduling** (`TypeCorrect`, `InductiveInvariant`, `OncePerRunHolds`,
`DueAfterLastRunHolds`, `RunsAdvanceHolds`, `OneRowPerScopeHolds`,
`DispatcherImplementsLedger`). Nothing in OncePerRun stops a second pass from claiming the
row with the `now` of the first. `IndInv` adds the reason. `PastOnly`: no timestamp is
ahead of the clock. `FreshKeys`: primary keys are not reused, so a row created after a
delete is not confused with the old one. `ClockSet`: a row that ran has a due time, and it
is strictly after the last run; a pass about to claim holds a due time strictly after its
own `now`. `BehindLastRun`: whoever fans a row out, and every entry of `sent`, is at or
behind the row's last run. `OneOwner`: two passes fanning out one row have different `now`.
A claim then succeeds only for a row that is due at `now`, hence with its last run strictly
before `now` (`DueMeansNewRun`), hence with every earlier fan-out and every entry of `sent`
strictly before `now` (`WonClaim`): the conditional UPDATE is a lock. The positive interval
and the forward-only jitter are where the argument rests on the arithmetic of
`compute_next_run_at` (`NextRunAfterAhead`, `NextRunAtAhead`). The refinement adds
`QuietPasses` (a pass that fans out nothing owes nothing) and `InTime`: a won claim is then
`BeginRun`, a dispatch `HandOut`, what makes a pass let go `Cancel`, a delete `Remove`, and
everything else leaves the ledger alone.

**Scans and findings** (`RunsTypeCorrect`, `AnnouncedOnceHolds`, `ClearedOnEvidenceHolds`,
`ReportedIsOnRecordHolds`). `RunsInv`: rows of a hash are numbered without gaps and there
are no more of them than workers; what a worker remembers of a row is a row; no two hold
the same unannounced one (`AnnouncedApart`), which is where the first commit of
`ingest_findings` and the list it leaves behind matter; and a worker past its SELECT has
the evidence for what it is about to clear (`EvidenceKept`). For announcements it adds that a
hash nobody raced for has at most one row, or one run that may still store it (`OneRow`).
`RecordInv` adds, for ReportedIsOnRecord, that checkouts are in order (`CheckoutsInOrder`) and
that what a run newer than all stored ones has looked up has a row that is not cleared or
will get one, unless it was outrun (`AllAccounted`); nothing is assumed of what overlaps.

**The gate** (`ApprovalsAreHumanHolds`, `GateHoldsWithinCap`, `BlockedHasReasonWithinCap`,
`StoredPerDeliveryHolds`).
`HumanInv` says of what runs carry forward and reviewers are recording what the property
says of rows. `GateInv` follows what a scan of the head knows from its clone to its status:
all of the commit is seen, then each blocking vulnerability is excused or new, then a verdict
other than blocked means all are excused; and the stored rows of a scan of the only commit
cover it, so that a recompute that finds all of them approved may turn it green. `BlockInv`
gives a blocked scan one of three reasons: an open row, a run about to store one, or a
reviewer whose recompute is still to come. `DeliveriesInv` counts, for each scan, the copies
of its rows, the runs that may still store one and the message that waits: at most one more
than the faults so far. So the copies the model has never run out, and no run is kept from
storing.

**What a scan says** (`CommentAgreesHolds`; `ReportsTheEditHolds`, `AllClearIsClearHolds`,
`ExaminesImportersHolds`). The comment: between renders at most one writer is at work, what
it read is the comment of before its decision, and patching the cell and the header of the
group turns that one into the comment of after it (`PatchFits`); an approval taken back in
silence leaves a comment that fits with one row more excused (`SilenceFits`), and a patch of
another row of that group keeps that, since its header is excused as well. The report: reading the
patch of an edit gives exactly the numbers of its inserted lines (`AddedIsInserted`), for an
edit of any length, by induction over the lines read.

**Tool runs** (`HealthyMeansCheckedHolds`, `SeededWholeHolds`, `WarmCopyKeptHolds`).
`LockInv`: the lock excludes, and who publishes holds it. `ToolInv` adds that the
generations somebody still knows are whole and apart from what is being staged, what a
private directory holds is what its fingerprint remembers, and a verdict agrees with what
the run saw.

**Inventory** (`SourcesAreKeptHolds`, `ClearedByAnswerHolds`): the rows a job has read are
still there with at least those sources, and a check that reached its sweep has an answer
for every package it asked about.

**Pull requests** (`OnePrPerFixHolds`, `BatchAccountsHolds`, `PlanIsHonestHolds`;
`OnePipelinePrHolds`, `RolloutAccountsHolds`, `TemplateIsWrittenHolds`). Until two threads
cross or a record is lost, each opened pull request is on record or in the hands of one
thread, and what is about to be opened brings news. For the batches: each item is settled
or in the list of the one worker that has it, and the counters count settled items. The
plan is about operators: the version recommended is the maximum over the findings of the
minimum of their fixes.

**GitHub** (`ImportedOnceHolds`, `CoverageScansHolds`, `ActsForItsTenantHolds`). Until syncs
overlap, one is under way and what it remembers are the URLs of the live targets and of
those it is about to insert. The other two rest on `TieInv`: a linked installation is linked to its own App, which was
set up for the workspace it is in or for the platform. CoverageScans then follows the
verification of a delivery by the App of the installation that covers a target, and the lookup
of its repository in that installation's workspace; ActsForItsTenant follows every body any
App may sign: where the installation it names is on record only the App that installation
resolves to verifies it, and where it is not the delivery gets no workspace.

**Scores** (`BreakdownAddsUp`, `UnknownNeverHigher`; `TrailTellsState`, `TrendIsReal`,
`CompositeIsAMean`). The sums of the models are folds over sets, whose order nothing fixes.
`SumCounts` says what such a sum is in any order: the number of its units, pairs of a member
and a number up to its weight; `SumOfMore`, `SumMonotone` and `SumAppend` follow from
cardinalities. A priority is a chain of eight parts, and what goes along it (`Explains`) is
that the parts so far add up to the score, or to the product of severity and criticality
where that was cut off, and that the cut is noted; `ChainMonotone` says that a chain that is offered no less at every part ends no
lower, and forgetting a signal offers no more (`ForgettingOffersLess`), whatever numbers are
stored as weights, since `resolve_weights` brings them into range (`WeightsInRange`). In an
estate the trend rests on `AuditTrail`: the rows of a finding end in its state and hold
nothing of tomorrow. A finding with no row since the window began was then in the state it is
in now (`WholeTrail`), so that if no open finding on a target with a past has changed, what
counts now counted then (`TrailIsReal`) and the sum over it cannot have grown
(`RiskMonotone`). The composite is a rounded mean with weights 85 or 100 of components
that each lie between 0 and 100.

Facts about `Max`, `Min`, enumerations and recursive functions rest on one principle, that
a set of numbers that holds 0 and with each number the next holds all of them
(`EveryNumber`, and `Counting` for the scores, from the well-foundedness of the natural numbers in the library): a form of
induction whose parameter is a set, which the provers can instantiate.

Proving found what the runs could not. Two properties were false outside the bounds of
their runs: BlockedHasReason (the two histories above, which take two reviewers or two
faults), and SeededWhole, whose history variable forgot a write. Two definitions used a
CASE whose guards overlap, for which any of the matching values is allowed: `Fixability` and
`Closing` are now IF chains in the order of the code.

Only model-checked: DueIsServed, ScansSettle, ScanSettles and PendingResolved, since
liveness under fairness is outside the prover's reach; and what the three violation runs
refute. Every safety property that a run shows to hold is a theorem, the two about the
gate under the condition on the cap.

## 5. Not modelled

Read-only routes, rendering, parsing of tool output and rule selection, rewriting of
manifests and lockfiles, command lines and credentials of the tools, AI-written fixes,
new API endpoints in a guardrail scan (they never block), category breakdowns of the
security score, the status page of the GitHub App, tool installation, API discovery,
authentication and rate limits, and the clients. In ScanRuns scores, `last_seen` and the
state log's wording are data no property tells apart; `match_count` of a false-positive
rule is left out, and so is the fallback to a wildcard rule, which no code path creates.
API (DAST) scans differ from native ones only before ingestion.

## 6. Plan

The components worth a state machine are modelled, and every safety property of theirs is
proved. Left:

1. API discovery and tool installation, once either keeps state that two processes write.
2. The category breakdowns of the security score, which restrict the sums that
   `SecurityScore` takes over a scope to the tools of a category.
