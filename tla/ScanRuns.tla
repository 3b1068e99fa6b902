------------------------------- MODULE ScanRuns -------------------------------
(***************************************************************************)
(* A scan from dispatch to ingestion: the Scan row and its Celery message  *)
(* (api/scans.py, tasks/scan_tasks.py, tasks/api_scan_tasks.py), the run   *)
(* on a worker, ingest_findings (core/ingestion.py) with its five commits, *)
(* the lazy timeout of core/staleness.py, false-positive learning, and the *)
(* people who triage findings and switch the target off meanwhile.         *)
(*                                                                         *)
(* One target, one branch, one tool: ingestion reads and writes findings   *)
(* of one (target, branch, tool) only.  A vulnerability is its dedup hash. *)
(***************************************************************************)
EXTENDS Naturals, FiniteSets

CONSTANTS
  Hashes,       \* the vulnerabilities the tool could report
  Workers,      \* Celery worker slots and API threads running a scan
  Sigs,         \* false-positive signatures: rule, tool, file basename
  Sig,          \* extract_signature, by vulnerability
  MaxRetries,   \* max_retries of run_scan / run_api_scan
  MaxScans,     \* bound on Scan rows
  MaxCommits,   \* bound on changes of the repository
  MaxEdits,     \* bound on triage, rule and target-lifecycle requests
  MaxFaults     \* bound on lost workers, database errors, duplicated messages

ASSUME RunsAssumption ==
  /\ IsFiniteSet(Hashes)
  /\ IsFiniteSet(Workers)
  /\ Sig \in [Hashes -> Sigs]
  /\ MaxRetries \in Nat
  /\ MaxScans \in Nat \ {0}
  /\ MaxCommits \in Nat
  /\ MaxEdits \in Nat
  /\ MaxFaults \in Nat

VARIABLES
  repo,      \* the vulnerabilities on the default branch
  active,    \* scan_refusal_reason(target) is None
  scan,      \* the scan table: status
  queue,     \* messages on the scans queue
  job,       \* the scans being executed, by worker
  finding,   \* the finding table of this (target, branch, tool)
  rules,     \* the FalsePositiveRule of each signature
  told,      \* history: how often each finding was announced
  clones,    \* history: checkouts so far, to order them
  latest,    \* history: the newest checkout ingested, and what it reported
  raced,     \* history: what two runs looked for before either had stored it
  outrun,    \* history: what an older checkout cleared under a newer one
  commits, edits, faults

vars == <<repo, active, scan, queue, job, finding, rules, told, clones, latest,
          raced, outrun, commits, edits, faults>>

ScanId == 1..MaxScans

\* One dedup hash may own several rows: nothing in the schema forbids it.
FindingId == Hashes \X (1..Cardinality(Workers))

FindingState == {"Open", "Accepted Risk", "False Positive", "Won't Fix",
                 "Mitigated", "Reopened"}

NoFinding == [state |-> "none", by |-> "system"]

Message == [scan : ScanId, tries : 0..MaxRetries]

IdleJob == [pc |-> "idle", scan |-> 1, tries |-> 0, pushed |-> FALSE, seq |-> 0,
            tree |-> {}, saw |-> {}, health |-> "unknown", todo |-> {},
            fresh |-> {}, reopen |-> {}, new |-> {}, stale |-> {}]

Rows(h) == {f \in FindingId : f[1] = h /\ finding[f].state # "none"}

\* The row the next insert of h creates.
NextRow(h) == <<h, Cardinality(Rows(h)) + 1>>

Settle(s, status) == scan' = [scan EXCEPT ![s] = status]

\* The task returns or raises; its message is acknowledged only then.
Return(w) ==
  job' = [job EXCEPT ![w] = [IdleJob EXCEPT !.pc = "ack", !.scan = job[w].scan,
                                            !.tries = job[w].tries,
                                            !.pushed = job[w].pushed]]

Fault == faults < MaxFaults /\ faults' = faults + 1

-----------------------------------------------------------------------------
(* Dispatch: POST /api/scans/run, queue_full_scan, queue_api_scan.         *)

NewScan(s) == scan[s] = "none" /\ \A r \in ScanId : r < s => scan[r] # "none"

Dispatch(s) ==
  /\ active
  /\ NewScan(s)
  /\ Settle(s, "running")
  /\ queue' = queue \cup {[scan |-> s, tries |-> 0]}
  /\ UNCHANGED <<repo, active, job, finding, rules, told, clones, latest, raced, outrun,
                 commits, edits, faults>>

\* The row is committed and .delay() never reaches the broker.
DispatchLost(s) ==
  /\ Fault
  /\ active
  /\ NewScan(s)
  /\ Settle(s, "running")
  /\ UNCHANGED <<repo, active, queue, job, finding, rules, told, clones, latest, raced, outrun,
                 commits, edits>>

\* push_ingest: a CI job posts what it found; the request thread ingests it.
Push(w, s, saw, health) ==
  /\ job[w].pc = "idle"
  /\ active
  /\ NewScan(s)
  /\ health = "healthy" => saw = repo
  /\ Settle(s, "running")
  /\ clones' = clones + 1
  /\ job' = [job EXCEPT ![w] =
               [IdleJob EXCEPT !.pc = "look", !.scan = s, !.pushed = TRUE,
                               !.seq = clones + 1, !.tree = repo, !.saw = saw,
                               !.health = health, !.todo = saw]]
  /\ UNCHANGED <<repo, active, queue, finding, rules, told, latest, raced, outrun, commits, edits, faults>>

-----------------------------------------------------------------------------
(* The task: run_scan and run_api_scan.                                    *)

\* A worker takes a message.  The target is checked again; the row's own
\* status is not looked at.
Start(w, m) ==
  /\ job[w].pc = "idle"
  /\ m \in queue
  /\ queue' = queue \ {m}
  /\ job' = [job EXCEPT ![w] = [IdleJob EXCEPT !.pc = IF active THEN "clone" ELSE "refuse",
                                               !.scan = m.scan, !.tries = m.tries]]
  /\ UNCHANGED <<repo, active, scan, finding, rules, told, clones, latest, raced, outrun,
                 commits, edits, faults>>

\* Mutant: a refused task returns and leaves its row running.
RefuseSilently(w) ==
  /\ job[w].pc = "refuse"
  /\ Return(w)
  /\ UNCHANGED <<repo, active, scan, queue, finding, rules, told, clones, latest, raced, outrun,
                 commits, edits, faults>>

\* A deactivated or deleted target: the row is settled with the reason.
Refuse(w) ==
  /\ job[w].pc = "refuse"
  /\ Settle(job[w].scan, "failed")
  /\ Return(w)
  /\ UNCHANGED <<repo, active, queue, finding, rules, told, clones, latest, raced, outrun,
                 commits, edits, faults>>

\* clone_repo: the checkout everything after it is about.
Clone(w) ==
  /\ job[w].pc = "clone"
  /\ clones' = clones + 1
  /\ job' = [job EXCEPT ![w] = [@ EXCEPT !.pc = "tool", !.seq = clones + 1, !.tree = repo]]
  /\ UNCHANGED <<repo, active, scan, queue, finding, rules, told, latest, raced, outrun,
                 commits, edits, faults>>

\* Mutant: one retry too many.
RetryOnceMore(w) ==
  /\ job[w].pc \in {"clone", "tool"}
  /\ IF job[w].tries > MaxRetries
     THEN Settle(job[w].scan, "failed") /\ UNCHANGED queue
     ELSE /\ queue' = queue \cup {[scan |-> job[w].scan, tries |-> job[w].tries + 1]}
          /\ UNCHANGED scan
  /\ Return(w)
  /\ UNCHANGED <<repo, active, finding, rules, told, clones, latest, raced, outrun,
                 commits, edits, faults>>

\* A transient failure (of git clone, or of the probe of an API scan):
\* autoretry_for, until max_retries.
Retry(w) ==
  /\ job[w].pc \in {"clone", "tool"}
  /\ IF job[w].tries >= MaxRetries
     THEN Settle(job[w].scan, "failed") /\ UNCHANGED queue
     ELSE /\ queue' = queue \cup {[scan |-> job[w].scan, tries |-> job[w].tries + 1]}
          /\ UNCHANGED scan
  /\ Return(w)
  /\ UNCHANGED <<repo, active, finding, rules, told, clones, latest, raced, outrun, commits, edits, faults>>

\* Nothing here for this tool: ToolNotApplicable, AI_ONLY_TOOLS.
Skip(w) ==
  /\ job[w].pc = "tool"
  /\ Settle(job[w].scan, "completed")
  /\ Return(w)
  /\ UNCHANGED <<repo, active, queue, finding, rules, told, clones, latest, raced, outrun,
                 commits, edits, faults>>

\* Any other exception.
Fail(w) ==
  /\ job[w].pc \in {"clone", "tool"}
  /\ Settle(job[w].scan, "failed")
  /\ Return(w)
  /\ UNCHANGED <<repo, active, queue, finding, rules, told, clones, latest, raced, outrun,
                 commits, edits, faults>>

\* run_tool_checked: a healthy run reports all there is in its checkout, a
\* degraded one any part of it.
RunTool(w, saw, health) ==
  /\ job[w].pc = "tool"
  /\ saw \subseteq job[w].tree
  /\ health \in {"healthy", "suspect"}
  /\ health = "healthy" => saw = job[w].tree
  /\ job' = [job EXCEPT ![w] = [@ EXCEPT !.pc = "look", !.saw = saw, !.health = health,
                                         !.todo = saw]]
  /\ UNCHANGED <<repo, active, scan, queue, finding, rules, told, clones, latest, raced, outrun,
                 commits, edits, faults>>

-----------------------------------------------------------------------------
(* ingest_findings.                                                        *)

\* The SELECT for one parsed item: .first() of the rows that carry its hash.
Look(w, h) ==
  /\ job[w].pc = "look"
  /\ h \in job[w].todo
  /\ \/ /\ Rows(h) = {}
        /\ job' = [job EXCEPT ![w] = [@ EXCEPT !.todo = job[w].todo \ {h},
                                               !.fresh = job[w].fresh \cup {h}]]
        /\ raced' = IF \E x \in Workers \ {w} : h \in job[x].fresh
                    THEN raced \cup {h} ELSE raced
     \/ /\ \E f \in Rows(h) :
             job' = [job EXCEPT ![w] =
                       [@ EXCEPT !.todo = job[w].todo \ {h},
                                 !.reopen = IF finding[f].state = "Mitigated"
                                            THEN job[w].reopen \cup {f}
                                            ELSE job[w].reopen]]
        /\ UNCHANGED raced
  /\ UNCHANGED <<repo, active, scan, queue, finding, rules, told, clones, latest, outrun,
                 commits, edits, faults>>

\* Mutant: a mitigated finding that reappears stays mitigated.
StoreOnly(w) ==
  /\ job[w].pc = "look"
  /\ job[w].todo = {}
  /\ LET new == {NextRow(h) : h \in job[w].fresh}
     IN  /\ finding' = [f \in FindingId |->
               IF f \in new THEN [state |-> "Open", by |-> "system"] ELSE finding[f]]
         /\ job' = [job EXCEPT ![w] = [@ EXCEPT !.pc = "suppress", !.new = new,
                                                !.fresh = {}, !.reopen = {}]]
  /\ latest' = IF job[w].seq > latest.seq
               THEN [seq |-> job[w].seq, saw |-> job[w].saw] ELSE latest
  /\ UNCHANGED <<repo, active, scan, queue, rules, told, clones, raced, outrun, commits, edits, faults>>

\* The first commit: the new rows, and what reappeared.
Store(w) ==
  /\ job[w].pc = "look"
  /\ job[w].todo = {}
  /\ LET new == {NextRow(h) : h \in job[w].fresh}
     IN  /\ finding' = [f \in FindingId |->
               IF f \in new THEN [state |-> "Open", by |-> "system"]
               ELSE IF f \in job[w].reopen THEN [state |-> "Reopened", by |-> "system"]
               ELSE finding[f]]
         /\ job' = [job EXCEPT ![w] = [@ EXCEPT !.pc = "suppress", !.new = new,
                                                !.fresh = {}, !.reopen = {}]]
  /\ latest' = IF job[w].seq > latest.seq
               THEN [seq |-> job[w].seq, saw |-> job[w].saw] ELSE latest
  /\ UNCHANGED <<repo, active, scan, queue, rules, told, clones, raced, outrun, commits, edits, faults>>

\* find_matching_rule and apply_auto_suppression, for the new rows only.
Suppress(w) ==
  /\ job[w].pc = "suppress"
  /\ finding' = [f \in FindingId |->
                   IF f \in job[w].new /\ rules[Sig[f[1]]] = "active"
                   THEN [state |-> "False Positive", by |-> "system"]
                   ELSE finding[f]]
  /\ job' = [job EXCEPT ![w].pc = "announce"]
  /\ UNCHANGED <<repo, active, scan, queue, rules, told, clones, latest, raced, outrun,
                 commits, edits, faults>>

\* Mutant: any run that reported something may clear the rest.
MitigateIfAny(w) == job[w].health = "healthy" \/ job[w].saw # {}

\* _may_mitigate.
MayMitigate(w) ==
  \/ job[w].health = "healthy"
  \/ job[w].health = "unknown" /\ job[w].saw # {}

\* Mutant: announces every finding of the run, not only the new ones.
AnnounceAll(w) ==
  /\ job[w].pc = "announce"
  /\ told' = [f \in FindingId |->
                IF f[1] \in job[w].saw /\ finding[f].state \in {"Open", "Reopened"}
                THEN told[f] + 1 ELSE told[f]]
  /\ job' = [job EXCEPT ![w].pc = IF MayMitigate(w) THEN "sweep" ELSE "complete"]
  /\ UNCHANGED <<repo, active, scan, queue, finding, rules, clones, latest, raced, outrun,
                 commits, edits, faults>>

\* Jira, SIEM and notifications, for the new rows that are not suppressed.
Announce(w) ==
  /\ job[w].pc = "announce"
  /\ told' = [f \in FindingId |->
                IF f \in job[w].new /\ finding[f].state # "False Positive"
                THEN told[f] + 1 ELSE told[f]]
  /\ job' = [job EXCEPT ![w].pc = IF MayMitigate(w) THEN "sweep" ELSE "complete"]
  /\ UNCHANGED <<repo, active, scan, queue, finding, rules, clones, latest, raced, outrun,
                 commits, edits, faults>>

\* The SELECT of the Open findings this run did not report.
FindStale(w) ==
  /\ job[w].pc = "sweep"
  /\ job' = [job EXCEPT ![w] =
               [@ EXCEPT !.pc = "mitigate",
                         !.stale = {f \in FindingId : /\ finding[f].state = "Open"
                                                      /\ f[1] \notin job[w].saw}]]
  /\ UNCHANGED <<repo, active, scan, queue, finding, rules, told, clones, latest, raced, outrun,
                 commits, edits, faults>>

\* What a checkout newer than that of w has reported, stored or about to be.
NewerReport(w) ==
  {h \in Hashes : \/ latest.seq > job[w].seq /\ h \in latest.saw
                  \/ \E x \in Workers : job[x].seq > job[w].seq /\ h \in job[x].saw}

\* Their transition, committed.
Mitigate(w) ==
  /\ job[w].pc = "mitigate"
  /\ finding' = [f \in FindingId |->
                   IF f \in job[w].stale THEN [state |-> "Mitigated", by |-> "system"]
                                         ELSE finding[f]]
  /\ outrun' = outrun \cup ({f[1] : f \in job[w].stale} \cap NewerReport(w))
  /\ job' = [job EXCEPT ![w].pc = "complete"]
  /\ UNCHANGED <<repo, active, scan, queue, rules, told, clones, latest, raced,
                 commits, edits, faults>>

Complete(w) ==
  /\ job[w].pc = "complete"
  /\ Settle(job[w].scan, "completed")
  /\ Return(w)
  /\ UNCHANGED <<repo, active, queue, finding, rules, told, clones, latest, raced, outrun,
                 commits, edits, faults>>

\* The message is acknowledged, and the slot is free.
Ack(w) ==
  /\ job[w].pc = "ack"
  /\ job' = [job EXCEPT ![w] = IdleJob]
  /\ UNCHANGED <<repo, active, scan, queue, finding, rules, told, clones, latest, raced, outrun,
                 commits, edits, faults>>

\* An exception inside ingest_findings: what is committed stays.  run_scan's
\* handler marks the row failed, unless the exception left the session in
\* need of a rollback: its commit then raises too, and the row stays running.
IngestFails(w) ==
  /\ Fault
  /\ job[w].pc \in {"look", "suppress", "announce", "sweep", "mitigate", "complete"}
  /\ \/ ~job[w].pushed /\ Settle(job[w].scan, "failed")
     \/ UNCHANGED scan
  /\ Return(w)
  /\ UNCHANGED <<repo, active, queue, finding, rules, told, clones, latest, raced, outrun, commits, edits>>

\* What task_acks_late hands out again; a push has no message.
Unacked(w) ==
  IF job[w].pushed THEN {} ELSE {[scan |-> job[w].scan, tries |-> job[w].tries]}

\* The worker dies: task_reject_on_worker_lost puts the message back.
Crash(w) ==
  /\ Fault
  /\ job[w].pc # "idle"
  /\ queue' = queue \cup Unacked(w)
  /\ job' = [job EXCEPT ![w] = IdleJob]
  /\ UNCHANGED <<repo, active, scan, finding, rules, told, clones, latest, raced, outrun,
                 commits, edits>>

\* The broker's visibility timeout: a message still unacknowledged is handed
\* out a second time while its first worker is busy.
Redeliver(w) ==
  /\ Fault
  /\ job[w].pc # "idle"
  /\ queue' = queue \cup Unacked(w)
  /\ UNCHANGED <<repo, active, scan, job, finding, rules, told, clones, latest, raced, outrun,
                 commits, edits>>

-----------------------------------------------------------------------------
(* Everyone else.                                                          *)

\* mark_stale_if_needed, on any read of the row.  Nothing bounds how long a
\* message waits or a scan runs, so the age test may already be true.
MarkStale(s) ==
  /\ scan[s] = "running"
  /\ Settle(s, "failed")
  /\ UNCHANGED <<repo, active, queue, job, finding, rules, told, clones, latest, raced, outrun,
                 commits, edits, faults>>

\* learn_suppression_rule: the rule of the signature is there and active.
LearnSuppressionRule(g) == rules' = [rules EXCEPT ![g] = "active"]

\* apply_triage, to any state; a false positive also teaches a rule.
Triage(f, state) ==
  /\ edits < MaxEdits
  /\ finding[f].state # "none"
  /\ finding' = [finding EXCEPT ![f] = [state |-> state, by |-> "user"]]
  /\ IF state = "False Positive" THEN LearnSuppressionRule(Sig[f[1]]) ELSE UNCHANGED rules
  /\ edits' = edits + 1
  /\ UNCHANGED <<repo, active, scan, queue, job, told, clones, latest, raced, outrun, commits, faults>>

\* update_fp_rule and delete_fp_rule.  One beyond the bound, so that the rule
\* the last triage taught can be edited.
EditRule(g, to) ==
  /\ edits <= MaxEdits
  /\ rules[g] # "none"
  /\ rules' = [rules EXCEPT ![g] = to]
  /\ edits' = edits + 1
  /\ UNCHANGED <<repo, active, scan, queue, job, finding, told, clones, latest, raced, outrun,
                 commits, faults>>

\* deactivate and reactivate.
Toggle ==
  /\ edits < MaxEdits
  /\ active' = ~active
  /\ edits' = edits + 1
  /\ UNCHANGED <<repo, scan, queue, job, finding, rules, told, clones, latest, raced, outrun,
                 commits, faults>>

\* Somebody pushes a commit that adds or removes one vulnerability.
Commit(h) ==
  /\ commits < MaxCommits
  /\ repo' = (repo \cup {h}) \ (repo \cap {h})
  /\ commits' = commits + 1
  /\ UNCHANGED <<active, scan, queue, job, finding, rules, told, clones, latest, raced, outrun,
                 edits, faults>>

-----------------------------------------------------------------------------
Init ==
  /\ repo \in SUBSET Hashes
  /\ active = TRUE
  /\ scan = [s \in ScanId |-> "none"]
  /\ queue = {}
  /\ job = [w \in Workers |-> IdleJob]
  /\ finding = [f \in FindingId |-> NoFinding]
  /\ rules = [g \in Sigs |-> "none"]
  /\ told = [f \in FindingId |-> 0]
  /\ clones = 0
  /\ latest = [seq |-> 0, saw |-> {}]
  /\ raced = {} /\ outrun = {}
  /\ commits = 0 /\ edits = 0 /\ faults = 0

\* What a worker does of its own accord.
WorkerStep(w) ==
  \/ \E m \in queue : Start(w, m)
  \/ Refuse(w) \/ Clone(w) \/ Retry(w) \/ Skip(w) \/ Fail(w)
  \/ \E saw \in SUBSET Hashes, health \in {"healthy", "suspect"} : RunTool(w, saw, health)
  \/ \E h \in Hashes : Look(w, h)
  \/ Store(w) \/ Suppress(w) \/ Announce(w) \/ FindStale(w) \/ Mitigate(w) \/ Complete(w)
  \/ Ack(w)

Environment ==
  \/ \E s \in ScanId : Dispatch(s) \/ DispatchLost(s) \/ MarkStale(s)
  \/ \E w \in Workers : IngestFails(w) \/ Crash(w) \/ Redeliver(w)
  \/ \E w \in Workers, s \in ScanId, saw \in SUBSET repo,
        health \in {"healthy", "suspect", "unknown"} : Push(w, s, saw, health)
  \/ \E f \in FindingId, state \in FindingState : Triage(f, state)
  \/ \E g \in Sigs, to \in {"none", "active", "inactive"} : EditRule(g, to)
  \/ Toggle
  \/ \E h \in Hashes : Commit(h)

Next == Environment \/ \E w \in Workers : WorkerStep(w)

Spec == Init /\ [][Next]_vars

\* Workers keep consuming the queue and every step of a task ends.  Nobody is
\* obliged to poll a scan, to triage or to dispatch.
FairSpec == Spec /\ \A w \in Workers : WF_vars(WorkerStep(w))

-----------------------------------------------------------------------------
(* Properties.                                                             *)

Job == [pc     : {"idle", "refuse", "clone", "tool", "look", "suppress", "announce",
                  "sweep", "mitigate", "complete", "ack"},
        scan   : ScanId,
        tries  : 0..MaxRetries,
        pushed : BOOLEAN,
        seq    : Nat,
        tree   : SUBSET Hashes,
        saw    : SUBSET Hashes,
        health : {"healthy", "suspect", "unknown"},
        todo   : SUBSET Hashes,
        fresh  : SUBSET Hashes,
        reopen : SUBSET FindingId,
        new    : SUBSET FindingId,
        stale  : SUBSET FindingId]

\* Every variable holds a value of its type; retries stay within max_retries
\* and no hash ever needs more rows than there are workers.
RunsTypeOK ==
  /\ repo \subseteq Hashes
  /\ active \in BOOLEAN
  /\ scan \in [ScanId -> {"none", "running", "failed", "completed"}]
  /\ queue \subseteq Message
  /\ job \in [Workers -> Job]
  /\ finding \in [FindingId -> [state : FindingState \cup {"none"}, by : {"system", "user"}]]
  /\ rules \in [Sigs -> {"none", "active", "inactive"}]
  /\ told \in [FindingId -> Nat]
  /\ clones \in Nat
  /\ latest \in [seq : Nat, saw : SUBSET Hashes]
  /\ raced \subseteq Hashes /\ outrun \subseteq Hashes
  /\ commits \in Nat /\ edits \in Nat /\ faults \in Nat

Cleared == [state |-> "Mitigated", by |-> "system"]

(* newly_created: whatever is retried, redelivered or scanned twice at once, a
   vulnerability opens one Jira ticket and pages people once, on whichever row
   of its hash.  The lookup of a hash and the insert that rests on it are two
   steps (core/ingestion.py 267, 338), and nothing makes (target, branch, hash)
   unique: two runs that both looked before either stored insert a row each,
   and announce both. *)
AnnouncedOnce ==
  \A f, g \in FindingId :
    /\ told[f] <= 1
    /\ f[1] = g[1] /\ f # g /\ f[1] \notin raced => told[f] + told[g] <= 1

\* _may_mitigate (#229): a scan clears a finding only if the vulnerability was
\* really absent from the checkout it scanned, however little the tool saw of
\* it; or, with no health signal, on the strength of a report that is not empty.
ClearedOnEvidence ==
  [][\A f \in FindingId :
       finding'[f] = Cleared /\ finding[f] # Cleared =>
         \E w \in Workers :
           /\ job[w].pc = "mitigate"
           /\ \/ f[1] \notin job[w].tree
              \/ job[w].health = "unknown" /\ job[w].saw # {}]_vars

(* ingest_findings: a vulnerability the newest ingested checkout reported is on
   the record, and no scan has it cleared ("not present in latest scan"),
   whatever overlaps, fails, is retried or handed out twice.  One way out: the
   sweep of an older checkout that had not seen it commits after a newer run
   read or stored it; nothing compares the two (core/ingestion.py 374-391). *)
ReportedIsOnRecord ==
  \A h \in latest.saw \ outrun : \E f \in Rows(h) : finding[f] # Cleared

\* run_scan: a scan that reaches the queue leaves "running" without anybody
\* polling it, through refusal, retries, failure, skipping or completion.
ScansSettle == \A s \in ScanId : scan[s] = "running" ~> scan[s] # "running"

-----------------------------------------------------------------------------
(* What the repository says of a scan and the code does not keep.          *)

\* _may_mitigate: what a refused run left is cleared by "the next healthy run
\* of the same tool ... if they really are gone".  The sweep selects Open and
\* not Reopened findings.
HealthyRunClears ==
  [][\A w \in Workers :
       job[w].pc = "complete" /\ job[w].health = "healthy" =>
         \A f \in FindingId :
           finding[f].state \in {"Open", "Reopened"} => f[1] \in job[w].saw]_vars

=============================================================================
