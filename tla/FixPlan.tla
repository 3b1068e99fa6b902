------------------------------- MODULE FixPlan -------------------------------
(***************************************************************************)
(* The Fix Plan: advisories looked up once and kept (core/osv.py,          *)
(* core/cve_enrichment.py), open findings grouped into upgrades            *)
(* (core/remediation.py), and the pull requests raised for them, by hand,  *)
(* by a "Raise all" batch and by the sweep (core/remediation_autofix.py,   *)
(* tasks/remediation_tasks.py, api/findings.py).                           *)
(*                                                                         *)
(* One target.  A finding stands for its CVE.  Versions are numbers in the *)
(* order of parse_version; 0 is an affected package with no fix.           *)
(***************************************************************************)
EXTENDS Naturals, Sequences, FiniteSets, FiniteSetsExt

CONSTANTS
  Cves,         \* CVEs, each with at most one open finding
  Packages,     \* package names
  NoName,       \* an advisory or a finding that names no package
  MaxVersion,   \* bound on versions
  OsvAnswers,   \* sets of <<package, fixed>> an advisory may hold
  OwnPackages,  \* packages the scanner may have named for a finding
  Raisers,      \* workers, sweep and request threads
  MaxClicks,    \* bound on requests to raise one package
  MaxRescans,   \* bound on changes of the open findings
  FixFaults     \* bound on failing calls, lost workers and redelivered messages

ASSUME FixPlanAssumption ==
  /\ IsFiniteSet(Cves) /\ IsFiniteSet(Packages) /\ NoName \notin Packages
  /\ OsvAnswers \subseteq SUBSET ((Packages \cup {NoName}) \X (0..MaxVersion))
  /\ OwnPackages \subseteq Packages \cup {NoName}
  /\ {MaxVersion, MaxClicks, MaxRescans, FixFaults} \subseteq Nat

VARIABLES
  osv,       \* what OSV holds about each CVE
  own,       \* Finding.package_name
  opencves,  \* the CVEs with an open finding
  cached,    \* CveEnrichment rows
  record,    \* RemediationFixPr rows
  opened,    \* the pull requests on GitHub, in order
  raiser,    \* what each thread is raising
  batch,     \* the RemediationPrBatch row and its items
  batchMsg,  \* its message is in the queue
  raced,     \* history: raisers overlapped, or one was lost after opening
  rerun,     \* history: the batch was started more than once
  clicks, rescans, fixFaults

fixVars == <<osv, own, opencves, cached, record, opened, raiser, batch, batchMsg, raced, rerun,
             clicks, rescans, fixFaults>>

-----------------------------------------------------------------------------
(* The plan.                                                               *)

NoRow == [found |-> FALSE, looked |-> FALSE, fixes |-> {}]

\* fetch_osv_vuln keeps the events that name a fix, and get_cve_enrichment
\* keeps the row for ever.
Enrichment(answer) == [found |-> TRUE, looked |-> TRUE, fixes |-> {e \in answer : e[2] # 0}]

\* Both sources failed: that is kept too.
NotFound == [NoRow EXCEPT !.looked = TRUE]

\* _fixes_by_package: the advisory's package, or the finding's own.
FixesByPackage(row, mine) ==
  {<<IF e[1] = NoName THEN mine ELSE e[1], e[2]>> : e \in row.fixes} \ {<<NoName, v>> : v \in 0..MaxVersion}

\* fixability_for_enrichment.
Fixability(row) ==
  IF ~row.found THEN "unknown" ELSE IF row.fixes = {} THEN "no_known_fix" ELSE "fixable"

Fixed(rows, p) == {c \in opencves : \E v \in 1..MaxVersion : <<p, v>> \in FixesByPackage(rows[c], own[c])}

\* Mutant: the newest fix of each CVE.
NewestUpgrade(rows, p) ==
  Max({Max({v \in 1..MaxVersion : <<p, v>> \in FixesByPackage(rows[c], own[c])}) : c \in Fixed(rows, p)})

\* The lowest fix of each CVE, and the highest of those.
UpgradeTo(rows, p) ==
  Max({Min({v \in 1..MaxVersion : <<p, v>> \in FixesByPackage(rows[c], own[c])}) : c \in Fixed(rows, p)})

\* group_remediations: the packages some upgrade helps, with their findings.
Planned(rows) == {p \in Packages : Fixed(rows, p) # {}}

PlanOf(rows) == [p \in Planned(rows) |-> Fixed(rows, p)]

\* enrichment_coverage: findings with usable fix data.
WithFixData(rows) == {c \in opencves : FixesByPackage(rows[c], own[c]) # {}}

-----------------------------------------------------------------------------
(* Raising.                                                                *)

IdleRaiser == [pc |-> "idle", kind |-> "none", plan |-> <<>>, todo |-> {}, pkg |-> NoName]

NoBatch == [status |-> "none", item |-> <<>>, succeeded |-> 0, failed |-> 0]

\* _already_raised_finding_ids: everything an earlier pull request covered.
Covered(p) == UNION {r.ids : r \in {x \in record : x.pkg = p}}

\* Mutant: only a pull request for the very same findings counts.
AlreadyRaisedExactly(p, ids) == \E r \in record : r.pkg = p /\ r.ids = ids

AlreadyRaised(p, ids) == (\E r \in record : r.pkg = p) /\ ids \subseteq Covered(p)

Set(t, field) == raiser' = [raiser EXCEPT ![t] = field]

\* The item is done: its status, the batch's counter, the next item.
Outcome(t, p, ok) ==
  /\ batch' = IF raiser[t].kind = "batch"
              THEN [batch EXCEPT !.item[p] = IF ok THEN "succeeded" ELSE "failed",
                                 !.succeeded = @ + (IF ok THEN 1 ELSE 0),
                                 !.failed = @ + (IF ok THEN 0 ELSE 1)]
              ELSE batch
  /\ Set(t, [raiser[t] EXCEPT !.pc = "next", !.todo = @ \ {p}, !.pkg = NoName])

\* raise_package_fix_pr_endpoint: the plan of the moment, one package.
Click(t, p) ==
  /\ clicks < MaxClicks /\ clicks' = clicks + 1
  /\ raiser[t].pc = "idle" /\ p \in Planned(cached)
  /\ Set(t, [IdleRaiser EXCEPT !.pc = "next", !.kind = "click", !.plan = PlanOf(cached), !.todo = {p}])
  /\ UNCHANGED <<osv, own, opencves, cached, record, opened, batch, batchMsg, raced, rerun,
                 rescans, fixFaults>>

\* sweep_auto_raise_prs: every package of the plan of the moment.
Sweep(t) ==
  /\ clicks < MaxClicks /\ clicks' = clicks + 1
  /\ raiser[t].pc = "idle" /\ Planned(cached) # {}
  /\ Set(t, [IdleRaiser EXCEPT !.pc = "next", !.kind = "sweep", !.plan = PlanOf(cached),
                               !.todo = Planned(cached)])
  /\ UNCHANGED <<osv, own, opencves, cached, record, opened, batch, batchMsg, raced, rerun,
                 rescans, fixFaults>>

\* raise_all_remediation_prs_endpoint: the rows, then the message.
RaiseAll(sent) ==
  /\ batch.status = "none" /\ Planned(cached) # {}
  /\ batch' = [NoBatch EXCEPT
                 !.status = IF sent THEN "running" ELSE "completed",
                 !.item = [p \in Planned(cached) |-> IF sent THEN "pending" ELSE "failed"],
                 !.failed = IF sent THEN 0 ELSE Cardinality(Planned(cached))]
  /\ batchMsg' = sent
  /\ fixFaults' = fixFaults + (IF sent THEN 0 ELSE 1) /\ fixFaults' <= FixFaults
  /\ UNCHANGED <<osv, own, opencves, cached, record, opened, raiser, raced, rerun, clicks,
                 rescans>>

\* run_raise_all_batch: the plan is computed again, every item is visited,
\* whatever its status.
StartBatch(t) ==
  /\ batchMsg /\ raiser[t].pc = "idle"
  /\ batchMsg' = FALSE
  /\ Set(t, [IdleRaiser EXCEPT !.pc = "next", !.kind = "batch", !.plan = PlanOf(cached),
                               !.todo = DOMAIN batch.item])
  /\ UNCHANGED <<osv, own, opencves, cached, record, opened, batch, raced, rerun, clicks,
                 rescans, fixFaults>>

\* Mutant: the item is failed, the batch does not count it.
MissingPlanUncounted(t, p) ==
  /\ raiser[t].pc = "next" /\ raiser[t].kind = "batch"
  /\ p \in raiser[t].todo \ DOMAIN raiser[t].plan
  /\ batch' = [batch EXCEPT !.item[p] = "failed"]
  /\ Set(t, [raiser[t] EXCEPT !.todo = @ \ {p}])
  /\ UNCHANGED <<osv, own, opencves, cached, record, opened, batchMsg, raced, rerun, clicks,
                 rescans, fixFaults>>

\* A package that left the plan meanwhile.
MissingPlan(t, p) ==
  /\ raiser[t].pc = "next" /\ raiser[t].kind = "batch"
  /\ p \in raiser[t].todo \ DOMAIN raiser[t].plan
  /\ Outcome(t, p, FALSE)
  /\ UNCHANGED <<osv, own, opencves, cached, record, opened, batchMsg, raced, rerun, clicks,
                 rescans, fixFaults>>

\* The check of raise_package_fix_pr, on the records as they are now; a batch
\* marks its item running first.
Check(t, p) ==
  /\ raiser[t].pc = "next" /\ p \in raiser[t].todo \cap DOMAIN raiser[t].plan
  /\ IF AlreadyRaised(p, raiser[t].plan[p])
     THEN Outcome(t, p, TRUE) /\ UNCHANGED raced
     ELSE /\ Set(t, [raiser[t] EXCEPT !.pc = "open", !.pkg = p])
          /\ batch' = IF raiser[t].kind = "batch" THEN [batch EXCEPT !.item[p] = "running"] ELSE batch
          /\ raced' = (raced \/ \E u \in Raisers \ {t} : raiser[u].pc \in {"open", "record"}
                                                         /\ raiser[u].pkg = p)
  /\ UNCHANGED <<osv, own, opencves, cached, record, opened, batchMsg, rerun, clicks, rescans, fixFaults>>

\* _commit_files_and_open_pr, from the first patch to the pull request.
OpenPr(t) ==
  /\ raiser[t].pc = "open"
  /\ opened' = Append(opened, [pkg |-> raiser[t].pkg, ids |-> raiser[t].plan[raiser[t].pkg]])
  /\ Set(t, [raiser[t] EXCEPT !.pc = "record"])
  /\ UNCHANGED <<osv, own, opencves, cached, record, batch, batchMsg, raced, rerun, clicks,
                 rescans, fixFaults>>

RecordPr(t) ==
  /\ raiser[t].pc = "record"
  /\ record' = record \cup {[pkg |-> raiser[t].pkg, ids |-> raiser[t].plan[raiser[t].pkg]]}
  /\ Set(t, [raiser[t] EXCEPT !.pc = "report"])
  /\ UNCHANGED <<osv, own, opencves, cached, opened, batch, batchMsg, raced, rerun, clicks,
                 rescans, fixFaults>>

Report(t) ==
  /\ raiser[t].pc = "report"
  /\ Outcome(t, raiser[t].pkg, TRUE)
  /\ UNCHANGED <<osv, own, opencves, cached, record, opened, batchMsg, raced, rerun, clicks,
                 rescans, fixFaults>>

\* No manifest to bump, GitHub refuses, or the record's own commit fails.
RaiseFails(t) ==
  /\ fixFaults < FixFaults /\ fixFaults' = fixFaults + 1
  /\ raiser[t].pc \in {"open", "record"}
  /\ Outcome(t, raiser[t].pkg, FALSE)
  /\ raced' = (raced \/ raiser[t].pc = "record")
  /\ UNCHANGED <<osv, own, opencves, cached, record, opened, batchMsg, rerun, clicks, rescans>>

FinishRaise(t) ==
  /\ raiser[t].pc = "next" /\ raiser[t].todo = {}
  /\ Set(t, IdleRaiser)
  /\ batch' = IF raiser[t].kind = "batch" THEN [batch EXCEPT !.status = "completed"] ELSE batch
  /\ UNCHANGED <<osv, own, opencves, cached, record, opened, batchMsg, raced, rerun, clicks,
                 rescans, fixFaults>>

\* A thread is lost; the broker hands a batch out again.
RaiserLost(t) ==
  /\ fixFaults < FixFaults /\ fixFaults' = fixFaults + 1
  /\ raiser[t].pc # "idle"
  /\ batchMsg' = (batchMsg \/ raiser[t].kind = "batch")
  /\ rerun' = (rerun \/ raiser[t].kind = "batch")
  /\ raced' = (raced \/ raiser[t].pc = "record")
  /\ Set(t, IdleRaiser)
  /\ UNCHANGED <<osv, own, opencves, cached, record, opened, batch, clicks, rescans>>

\* The visibility timeout passes during a long batch.
BatchAgain(t) ==
  /\ fixFaults < FixFaults /\ fixFaults' = fixFaults + 1
  /\ raiser[t].kind = "batch" /\ ~batchMsg
  /\ batchMsg' = TRUE /\ rerun' = TRUE
  /\ UNCHANGED <<osv, own, opencves, cached, record, opened, raiser, batch, raced, clicks,
                 rescans>>

\* A poll finds the running batch past the staleness limit.
BatchStale ==
  /\ fixFaults < FixFaults /\ fixFaults' = fixFaults + 1
  /\ batch.status = "running"
  /\ batch' = [batch EXCEPT !.status = "failed"]
  /\ UNCHANGED <<osv, own, opencves, cached, record, opened, raiser, batchMsg, raced, rerun,
                 clicks, rescans>>

\* get_cve_enrichment, on a click or on ingestion: once per CVE.
Enrich(c, row) ==
  /\ ~cached[c].looked
  /\ row \in {Enrichment(osv[c]), NotFound}
  /\ cached' = [cached EXCEPT ![c] = row]
  /\ UNCHANGED <<osv, own, opencves, record, opened, raiser, batch, batchMsg, raced, rerun,
                 clicks, rescans, fixFaults>>

\* A scan opens or closes a finding.
Rescan(c) ==
  /\ rescans < MaxRescans /\ rescans' = rescans + 1
  /\ opencves' = (opencves \ {c}) \cup ({c} \ opencves)
  /\ UNCHANGED <<osv, own, cached, record, opened, raiser, batch, batchMsg, raced, rerun,
                 clicks, fixFaults>>

FixInit ==
  /\ osv \in [Cves -> OsvAnswers]
  /\ own \in [Cves -> OwnPackages]
  /\ opencves = Cves
  /\ cached = [c \in Cves |-> NoRow]
  /\ record = {} /\ opened = <<>>
  /\ raiser = [t \in Raisers |-> IdleRaiser]
  /\ batch = NoBatch /\ batchMsg = FALSE
  /\ raced = FALSE /\ rerun = FALSE
  /\ clicks = 0 /\ rescans = 0 /\ fixFaults = 0

RaiserStep(t) ==
  \/ StartBatch(t)
  \/ \E p \in Packages : MissingPlan(t, p) \/ Check(t, p)
  \/ OpenPr(t)
  \/ RecordPr(t)
  \/ Report(t)
  \/ FinishRaise(t)

FixNext ==
  \/ \E t \in Raisers : RaiserStep(t) \/ RaiseFails(t) \/ RaiserLost(t) \/ BatchAgain(t) \/ Sweep(t)
  \/ \E t \in Raisers, p \in Packages : Click(t, p)
  \/ \E sent \in BOOLEAN : RaiseAll(sent)
  \/ BatchStale
  \/ \E c \in Cves : Rescan(c) \/ \E row \in {Enrichment(osv[c]), NotFound} : Enrich(c, row)

FixSpec == FixInit /\ [][FixNext]_fixVars

-----------------------------------------------------------------------------
(* The recommended version is the least one at or above a published fix of
   every finding it claims to close, an empty plan means that no open finding
   has usable fix data, and a CVE no advisory was found for is never presented
   as having no fix (core/remediation.py 12-31, core/fixability.py 18-25). *)
PlanIsHonest ==
  /\ \A p \in Planned(cached) :
       LET Clears(v) == \A c \in Fixed(cached, p) :
                          \E w \in 1..v : <<p, w>> \in FixesByPackage(cached[c], own[c])
       IN  Clears(UpgradeTo(cached, p)) /\ \A v \in 0..(UpgradeTo(cached, p) - 1) : ~Clears(v)
  /\ Planned(cached) = {} <=> WithFixData(cached) = {}
  /\ \A c \in Cves : Fixability(cached[c]) = "no_known_fix" => \A e \in osv[c] : e[2] = 0

(* However often a package is raised, by hand, by batches started again and by
   the sweep, a pull request brings some finding no earlier one covered, as
   long as two raisers of one package do not overlap and none is lost between
   the pull request and its record (core/remediation_autofix.py 124-137). *)
OnePrPerFix ==
  raced \/ \A j \in DOMAIN opened :
    ~ opened[j].ids \subseteq
        UNION {opened[i].ids : i \in {i \in 1..(j - 1) : opened[i].pkg = opened[j].pkg}}

(* A finished batch nobody works on has an outcome for every item; unless it
   was started again, its counters are those outcomes
   (tasks/remediation_tasks.py 35-151). *)
BatchAccounts ==
  (batch.status = "completed" /\ ~batchMsg /\ \A t \in Raisers : raiser[t].kind # "batch") =>
    LET Done(s) == Cardinality({p \in DOMAIN batch.item : batch.item[p] = s})
    IN  /\ \A p \in DOMAIN batch.item : batch.item[p] \in {"succeeded", "failed"}
        /\ ~rerun => batch.succeeded = Done("succeeded") /\ batch.failed = Done("failed")

=============================================================================
