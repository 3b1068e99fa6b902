------------------------------- MODULE Inventory -------------------------------
(***************************************************************************)
(* The dependency inventory of one target (core/sbom_ingestion.py), filled *)
(* from GitHub's dependency graph and from uploaded SBOMs by requests and  *)
(* tasks that overlap (api/sbom.py, tasks/sbom_tasks.py), and the check of *)
(* it for malicious packages with OSV (core/osv_malware*.py).  A job is    *)
(* one of those requests or tasks; it reads and commits the rows in two    *)
(* steps, and nothing but the index on AI components stops two jobs from   *)
(* inserting the same row.                                                 *)
(***************************************************************************)
EXTENDS Naturals, Sequences, FiniteSets, FiniteSetsExt, SequencesExt

CONSTANTS
  Deps,         \* packages, a pair <<name and version, type in the purl>>
  GraphLists,   \* what GitHub may list, sequences of packages
  UploadLists,  \* what an uploaded document may list
  Jobs,         \* requests and tasks, one operation each
  CHUNK_SIZE,   \* queries sent to OSV at once
  MAX_RETRIES,  \* retries of a clone
  MaxVerdicts,  \* bound on changes of mind of OSV
  MaxRulings,   \* bound on triage decisions
  SbomFaults    \* bound on failures: GitHub, OSV, the clone, the broker

ASSUME InventoryAssumption ==
  /\ \A d \in Deps : Len(d) = 2
  /\ GraphLists \cup UploadLists \subseteq Seq(Deps)
  /\ IsFiniteSet(Jobs) /\ CHUNK_SIZE \in Nat \ {0}
  /\ {MAX_RETRIES, MaxVerdicts, MaxRulings, SbomFaults} \subseteq Nat

VARIABLES
  rows,      \* SbomComponent: package, package_type and sources, as inserted
  aiRow,     \* AiBomComponent: the row of the repository's model is there
  malware,   \* the state of the osv-malware finding of a name and version
  stamp,     \* Target.malware_last_check_status
  syncState, \* Target.dependency_sync_status
  inactive,  \* the target refuses scans
  flaggedByOsv,       \* external: the packages OSV knows as malicious
  job,       \* what each job is doing, and its SbomRun
  told,      \* history: <<package, source>> of every list that was stored
  steady,    \* history: the packages OSV named from the start, without a break
  verdicts, rulings, sbomFaults

invVars == <<rows, aiRow, malware, stamp, syncState, inactive, flaggedByOsv, job, told,
             steady, verdicts, rulings, sbomFaults>>

DepKeys == {d[1] : d \in Deps}

OpenMalware == {"OPEN", "REOPENED"}

NewJob == [op |-> "none", at |-> "idle", status |-> "none", list |-> <<>>, seen |-> <<>>,
           ran |-> FALSE, tries |-> 0, ai |-> FALSE, left |-> {}, asked |-> {}, bad |-> {}]

InvInit ==
  /\ rows = <<>> /\ aiRow = FALSE
  /\ malware = [k \in DepKeys |-> "none"]
  /\ stamp = "none" /\ syncState = "none" /\ inactive = FALSE
  /\ flaggedByOsv \in SUBSET Deps
  /\ job = [j \in Jobs |-> NewJob]
  /\ told = {} /\ steady = flaggedByOsv
  /\ verdicts = 0 /\ rulings = 0 /\ sbomFaults = 0

\* PURL_TYPE_TO_PACKAGE_TYPE, for a CycloneDX upload; parse_spdx_packages keeps
\* the type it finds in the purl.
PackageType(source, ptype) ==
  CASE source = "upload" /\ ptype = "pypi" -> "pip"
    [] source = "upload" /\ ptype = "golang" -> "gomod"
    [] OTHER -> ptype

\* ECOSYSTEM_BY_PACKAGE_TYPE: the types OSV is asked about.
Ecosystems == {"npm", "pip", "gomod"}

SourceOf(op) == IF op = "upload" THEN "upload" ELSE "github"

\* Mutant: the last source to list a package replaces the others.
MergeLast(existing, incoming) == {incoming}

\* _merge_sources
MergeSources(existing, incoming) == existing \cup {incoming}

Goto(j, at) == job' = [job EXCEPT ![j].at = at]

Fault == sbomFaults < SbomFaults /\ sbomFaults' = sbomFaults + 1

--------------------------------------------------------------------------------
(* Starting *)

\* generate_sbom, import_github_sbom, upload_sbom, malware_check: refused with
\* 409 for an inactive target.  A document that lists nothing is refused too.
Request(j, op) ==
  /\ job[j].at = "idle" /\ ~inactive
  /\ \E list \in IF op = "upload" THEN UploadLists \ {<<>>} ELSE {<<>>} :
       job' = [job EXCEPT ![j].op = op, ![j].list = list,
                          ![j].status = IF op = "generate" THEN "running" ELSE "none",
                          ![j].at = CASE op = "generate" -> "queued" [] op = "import" -> "fetch"
                                      [] op = "upload" -> "read" [] op = "check" -> "inventory"]
  /\ UNCHANGED <<rows, aiRow, malware, stamp, syncState, inactive, flaggedByOsv, told,
                 steady, verdicts, rulings, sbomFaults>>

\* queue_dependency_graph_sync: pending is committed before the task is sent.
QueueSync(j) ==
  /\ job[j].at = "idle"
  /\ job' = [job EXCEPT ![j].op = "sync", ![j].at = "queued"]
  /\ syncState' = "pending"
  /\ UNCHANGED <<rows, aiRow, malware, stamp, inactive, flaggedByOsv, told, steady,
                 verdicts, rulings, sbomFaults>>

\* ... and failed when the broker does not take it.
QueueFails(j) ==
  /\ job[j].op = "sync" /\ job[j].at = "queued" /\ Fault
  /\ syncState' = "failed"
  /\ Goto(j, "done")
  /\ UNCHANGED <<rows, aiRow, malware, stamp, inactive, flaggedByOsv, told, steady,
                 verdicts, rulings>>

\* The task asks again whether the target may be scanned.
Receive(j) ==
  /\ job[j].at = "queued"
  /\ IF inactive
     THEN /\ job' = [job EXCEPT ![j].at = "done",
                                ![j].status = IF @ = "none" THEN "none" ELSE "failed"]
          /\ syncState' = IF job[j].op = "sync" THEN "skipped" ELSE syncState
     ELSE Goto(j, "fetch") /\ UNCHANGED syncState
  /\ UNCHANGED <<rows, aiRow, malware, stamp, inactive, flaggedByOsv, told, steady,
                 verdicts, rulings, sbomFaults>>

--------------------------------------------------------------------------------
(* The inventory *)

\* fetch_dependency_graph answers.
FetchGraph(j) ==
  /\ job[j].at = "fetch"
  /\ \E list \in GraphLists : job' = [job EXCEPT ![j].list = list, ![j].at = "read"]
  /\ UNCHANGED <<rows, aiRow, malware, stamp, syncState, inactive, flaggedByOsv, told,
                 steady, verdicts, rulings, sbomFaults>>

\* DependencyGraphUnavailable: a run goes on without it, the request ends with
\* 502, the sync task records it.
GraphUnavailable(j) ==
  /\ job[j].at = "fetch" /\ Fault
  /\ Goto(j, IF job[j].op = "generate" THEN "clone" ELSE "done")
  /\ syncState' = IF job[j].op = "sync" THEN "unavailable" ELSE syncState
  /\ UNCHANGED <<rows, aiRow, malware, stamp, inactive, flaggedByOsv, told, steady,
                 verdicts, rulings>>

\* upsert_components reads the rows there are.
ReadRows(j) ==
  /\ job[j].at = "read"
  /\ job' = [job EXCEPT ![j].seen = rows, ![j].at = "store"]
  /\ UNCHANGED <<rows, aiRow, malware, stamp, syncState, inactive, flaggedByOsv, told,
                 steady, verdicts, rulings, sbomFaults>>

\* The row as the job writes it: a column whose value does not change is not
\* written, so it keeps what another job committed meanwhile.
Updated(row, read, source) ==
  [row EXCEPT !.type = IF PackageType(source, row.dep[2]) = read.type
                       THEN @ ELSE PackageType(source, row.dep[2]),
              !.sources = IF MergeSources(read.sources, source) = read.sources
                          THEN @ ELSE MergeSources(read.sources, source)]

\* upsert_components commits: one of the rows read for a listed package is
\* updated, and every entry without one inserted, twice if listed twice.
StoreRows(j) ==
  LET seen == job[j].seen
      source == SourceOf(job[j].op)
      known == {seen[i].dep : i \in DOMAIN seen}
      listed == ToSet(job[j].list)
      fresh == {i \in DOMAIN job[j].list : job[j].list[i] \notin known}
      insert(d) == [dep |-> d, type |-> PackageType(source, d[2]), sources |-> {source}]
  IN /\ job[j].at = "store"
     /\ \E pick \in [listed \cap known -> DOMAIN seen], nth \in [1..Cardinality(fresh) -> fresh] :
          /\ \A d \in DOMAIN pick : seen[pick[d]].dep = d
          /\ \A i, k \in DOMAIN nth : i < k => nth[i] < nth[k]
          /\ rows' = [i \in DOMAIN rows |->
                        IF \E d \in DOMAIN pick : pick[d] = i
                        THEN Updated(rows[i], seen[i], source) ELSE rows[i]]
                     \o [i \in DOMAIN nth |-> insert(job[j].list[nth[i]])]
     /\ told' = told \cup {<<d, source>> : d \in listed}
     /\ job' = [job EXCEPT ![j].ran = TRUE, ![j].seen = <<>>, ![j].list = <<>>,
                           ![j].at = CASE job[j].op = "generate" -> "clone"
                                       [] job[j].op \in {"import", "upload"} -> "inventory"
                                       [] OTHER -> "done"]
     /\ syncState' = IF job[j].op \in {"import", "sync"} THEN "ok" ELSE syncState
     /\ UNCHANGED <<aiRow, malware, stamp, inactive, flaggedByOsv, steady, verdicts,
                    rulings, sbomFaults>>

--------------------------------------------------------------------------------
(* run_sbom_generation: the clone, the AI components, the verdict on the run *)

\* extract_ai_components from the checkout; upsert_aibom_components reads.
CloneOk(j) ==
  /\ job[j].at = "clone"
  /\ job' = [job EXCEPT ![j].ai = aiRow, ![j].at = "aibom"]
  /\ UNCHANGED <<rows, aiRow, malware, stamp, syncState, inactive, flaggedByOsv, told,
                 steady, verdicts, rulings, sbomFaults>>

\* A git failure is retried from the start; other failures, and the last
\* retry, fail the run.
CloneFails(j) ==
  /\ job[j].at = "clone" /\ Fault
  /\ \E retryable \in BOOLEAN :
       job' = [job EXCEPT ![j] =
                 IF retryable /\ job[j].tries < MAX_RETRIES
                 THEN [job[j] EXCEPT !.tries = job[j].tries + 1, !.ran = FALSE, !.at = "queued"]
                 ELSE [job[j] EXCEPT !.status = "failed", !.at = "done"]]
  /\ UNCHANGED <<rows, aiRow, malware, stamp, syncState, inactive, flaggedByOsv, told,
                 steady, verdicts, rulings>>

\* The unique index stops the second of two inserts.  The session is then of
\* no further use, the handlers' commits included: the run keeps its status.
StoreAi(j) ==
  /\ job[j].at = "aibom"
  /\ aiRow' = TRUE
  /\ Goto(j, IF aiRow /\ ~job[j].ai THEN "done" ELSE "inventory")
  /\ UNCHANGED <<rows, malware, stamp, syncState, inactive, flaggedByOsv, told, steady,
                 verdicts, rulings, sbomFaults>>

\* Completed when a source ran, whatever became of the rest.
FinishRun(j) ==
  /\ job[j].at = "finish"
  /\ job' = [job EXCEPT ![j].status = IF job[j].ran THEN "completed" ELSE "failed", ![j].at = "done"]
  /\ UNCHANGED <<rows, aiRow, malware, stamp, syncState, inactive, flaggedByOsv, told,
                 steady, verdicts, rulings, sbomFaults>>

\* get_sbom_run: mark_stale_if_needed, by a clock the job knows nothing of.
PollRun(j) ==
  /\ job[j].status = "running"
  /\ job' = [job EXCEPT ![j].status = "failed"]
  /\ UNCHANGED <<rows, aiRow, malware, stamp, syncState, inactive, flaggedByOsv, told,
                 steady, verdicts, rulings, sbomFaults>>

--------------------------------------------------------------------------------
(* The malware check *)

\* Where a job is after the check: only a run has something left to do.
Checked(j) == IF job[j].op = "generate" THEN "finish" ELSE "done"

\* run_malware_check, check_packages_for_malware: one query for a name and
\* version, of the first row whose type has an ecosystem.
ReadInventory(j) ==
  LET asks == {i \in DOMAIN rows : rows[i].type \in Ecosystems}
      first == {i \in asks : \A k \in asks : rows[k].dep[1] = rows[i].dep[1] => i <= k}
      queries == {rows[i].dep : i \in first}
  IN /\ job[j].at = "inventory"
     /\ job' = [job EXCEPT ![j].seen = rows, ![j].left = queries, ![j].asked = queries,
                           ![j].at = "ask"]
     /\ UNCHANGED <<rows, aiRow, malware, stamp, syncState, inactive, flaggedByOsv, told,
                    steady, verdicts, rulings, sbomFaults>>

\* _querybatch: what OSV answers at this moment, chunk by chunk.
AskOsv(j) ==
  /\ job[j].at = "ask" /\ job[j].left # {}
  /\ \E chunk \in kSubset(IF Cardinality(job[j].left) < CHUNK_SIZE
                          THEN Cardinality(job[j].left) ELSE CHUNK_SIZE, job[j].left) :
       job' = [job EXCEPT ![j].left = @ \ chunk, ![j].bad = @ \cup (chunk \cap flaggedByOsv)]
  /\ UNCHANGED <<rows, aiRow, malware, stamp, syncState, inactive, flaggedByOsv, told,
                 steady, verdicts, rulings, sbomFaults>>

\* Mutant: a chunk without an answer counts as one without malware.
AskFailsEmpty(j) ==
  /\ job[j].at = "ask" /\ job[j].left # {} /\ Fault
  /\ job' = [job EXCEPT ![j].left = {}]
  /\ UNCHANGED <<rows, aiRow, malware, stamp, syncState, inactive, flaggedByOsv, told,
                 steady, verdicts, rulings>>

\* No answer, a short one or one with more pages: the check failed, and the
\* findings and the stamp stay as they are.
AskFails(j) ==
  /\ job[j].at = "ask" /\ job[j].left # {} /\ Fault
  /\ job' = [job EXCEPT ![j].bad = {}, ![j].asked = {}, ![j].seen = <<>>, ![j].left = {}, ![j].at = Checked(j)]
  /\ UNCHANGED <<rows, aiRow, malware, stamp, syncState, inactive, flaggedByOsv, told,
                 steady, verdicts, rulings>>

\* ingest_malicious_packages, the first commit: what is flagged is created, or
\* reopened when it was mitigated.
RaiseMalware(j) ==
  LET flagged == {d[1] : d \in job[j].bad}
  IN /\ job[j].at = "ask" /\ job[j].left = {}
     /\ malware' = [k \in DepKeys |->
          CASE k \in flagged /\ malware[k] = "none" -> "OPEN"
            [] k \in flagged /\ malware[k] = "MITIGATED" -> "REOPENED"
            [] OTHER -> malware[k]]
     /\ Goto(j, "clear")
     /\ UNCHANGED <<rows, aiRow, stamp, syncState, inactive, flaggedByOsv, told, steady,
                    verdicts, rulings, sbomFaults>>

\* The second commit, after the hooks of the new findings: whatever is open
\* and not flagged is mitigated.
ClearMalware(j) ==
  LET flagged == {d[1] : d \in job[j].bad}
  IN /\ job[j].at = "clear"
     /\ malware' = [k \in DepKeys |->
          IF malware[k] \in OpenMalware /\ k \notin flagged THEN "MITIGATED" ELSE malware[k]]
     /\ Goto(j, "stamp")
     /\ UNCHANGED <<rows, aiRow, stamp, syncState, inactive, flaggedByOsv, told, steady,
                    verdicts, rulings, sbomFaults>>

\* check_and_ingest_malware stamps the target.
StampCheck(j) ==
  /\ job[j].at = "stamp"
  /\ stamp' = IF job[j].bad # {} THEN "found" ELSE "clean"
  /\ job' = [job EXCEPT ![j].bad = {}, ![j].asked = {}, ![j].seen = <<>>, ![j].at = Checked(j)]
  /\ UNCHANGED <<rows, aiRow, malware, syncState, inactive, flaggedByOsv, told, steady,
                 verdicts, rulings, sbomFaults>>

--------------------------------------------------------------------------------
(* Around it *)

\* external: OSV publishes or withdraws a record.
Verdict ==
  /\ verdicts < MaxVerdicts /\ verdicts' = verdicts + 1
  /\ \E d \in Deps : flaggedByOsv' = IF d \in flaggedByOsv THEN flaggedByOsv \ {d} ELSE flaggedByOsv \cup {d}
  /\ steady' = steady \cap flaggedByOsv'
  /\ UNCHANGED <<rows, aiRow, malware, stamp, syncState, inactive, job, told, rulings,
                 sbomFaults>>

\* A malware finding is triaged like any other.
RuleMalware ==
  /\ rulings < MaxRulings /\ rulings' = rulings + 1
  /\ \E k \in DepKeys : malware[k] \in OpenMalware /\ malware' = [malware EXCEPT ![k] = "FALSE_POSITIVE"]
  /\ UNCHANGED <<rows, aiRow, stamp, syncState, inactive, flaggedByOsv, job, told, steady,
                 verdicts, sbomFaults>>

\* The target is deactivated.
RetireTarget ==
  /\ ~inactive /\ inactive' = TRUE
  /\ UNCHANGED <<rows, aiRow, malware, stamp, syncState, flaggedByOsv, job, told, steady,
                 verdicts, rulings, sbomFaults>>

InvNext ==
  \/ \E j \in Jobs :
       \/ \E op \in {"generate", "import", "upload", "check"} : Request(j, op)
       \/ QueueSync(j) \/ QueueFails(j) \/ Receive(j)
       \/ FetchGraph(j) \/ GraphUnavailable(j) \/ ReadRows(j) \/ StoreRows(j)
       \/ CloneOk(j) \/ CloneFails(j) \/ StoreAi(j) \/ FinishRun(j) \/ PollRun(j)
       \/ ReadInventory(j) \/ AskOsv(j) \/ AskFails(j)
       \/ RaiseMalware(j) \/ ClearMalware(j) \/ StampCheck(j)
  \/ Verdict \/ RuleMalware \/ RetireTarget

InvSpec == InvInit /\ [][InvNext]_invVars

--------------------------------------------------------------------------------
(* Properties *)

\* Every source that listed a package is on one of its rows, however the
\* commits of upsert_components interleave: the union of _merge_sources loses
\* nothing, although two jobs may merge with the same value they read.
SourcesAreKept ==
  \A t \in told : \E i \in DOMAIN rows : rows[i].dep = t[1] /\ t[2] \in rows[i].sources

\* A check clears no finding and calls no target clean while OSV, all along,
\* named a package it set out to ask about: an answer that was lost, short or
\* paged clears nothing (core/osv_malware_ingestion.py:328-331).
ClearedByAnswer ==
  [][/\ \A k \in DepKeys : malware[k] # "MITIGATED" /\ malware'[k] = "MITIGATED" =>
          \E j \in Jobs : job[j].at = "clear" /\ job'[j].at = "stamp"
                          /\ \A d \in job[j].asked \cap steady : d[1] # k
     /\ stamp' = "clean" /\ stamp # "clean" =>
          \E j \in Jobs : job[j].at = "stamp" /\ job'[j].at # "stamp" /\ job[j].asked \cap steady = {}
    ]_invVars
================================================================================
