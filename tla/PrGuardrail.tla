----------------------------- MODULE PrGuardrail -----------------------------
(***************************************************************************)
(* The pull-request gate: the webhook that opens a run                     *)
(* (api/webhooks.py), execute_pr_guardrail_scan and                        *)
(* recompute_pr_scan_status (core/pr_guardrail_executor.py), and the       *)
(* reviewers who approve, revoke, reject, override and retry               *)
(* (api/pr_guardrail.py), around one commit status per commit on GitHub.   *)
(*                                                                         *)
(* One target and one pull request.  A vulnerability stands for the        *)
(* (tool, rule, file, line) by which the code matches findings of two      *)
(* scans.  How a scan computes what a pull request introduces is in        *)
(* GuardrailDiff; the text of the comment is in GuardrailComment.          *)
(***************************************************************************)
EXTENDS Naturals, FiniteSets

CONSTANTS
  Vulns,        \* the vulnerabilities the pull request could introduce
  Blocking,     \* those of a blocking severity
  Workers,      \* Celery slots and request threads that execute a scan
  Reviewers,    \* request threads that record a decision
  Cap,          \* MAX_NEW_FINDINGS_IN_RESPONSE
  MaxScans,     \* bound on PRGuardrailScan rows
  MaxCommits,   \* bound on pushes to the branch
  MaxEdits,     \* bound on decisions and requests of people
  MaxSwitches,  \* bound on changes of the enforcement mode or the lifecycle
  MaxErrors,    \* bound on failing clones, GitHub calls and tools
  MaxFaults,    \* bound on lost processes, and on lost or duplicated messages or events
  MaxMishaps    \* bound on pushes, switches, errors and faults together

ASSUME GuardrailAssumption ==
  /\ IsFiniteSet(Vulns) /\ Blocking \subseteq Vulns
  /\ IsFiniteSet(Workers) /\ IsFiniteSet(Reviewers)
  /\ Cap \in Nat /\ MaxScans \in Nat \ {0} /\ MaxCommits \in Nat /\ MaxEdits \in Nat
  /\ MaxSwitches \in Nat /\ MaxErrors \in Nat /\ MaxFaults \in Nat
  /\ MaxMishaps \in Nat

VARIABLES
  head,      \* the head commit of the branch
  tree,      \* what each commit introduces, as the tools would report it
  active,    \* scan_refusal_reason(target) is None
  mode,      \* resolve_enforcement_mode(target)
  baseline,  \* the default branch has a completed scan
  main,      \* state of the same finding on the default branch
  prscan,    \* status of the PRGuardrailScan rows
  row,       \* ignore_status of the PRGuardrailFinding rows
  gh,        \* the commit status on GitHub, by commit
  events,    \* pull_request webhooks under way, by commit
  hooks,     \* webhook requests that have committed their row, and what is left
  queue,     \* messages for run_pr_guardrail_scan_task
  job,       \* scans being executed, by worker
  rev,       \* decisions being recorded, by reviewer
  granted,   \* history: what a reviewer has approved
  waived,    \* history: a run was overridden, lenient, partial, late, or had no baseline
  crossed,   \* history: an approval landed under a recompute, or a verdict lost its rows
  stranded,  \* history: runs that ended, or were never handed out, with their row as it was
  unheard,   \* history: commits a run or a webhook ended on without telling GitHub
  edits, switches, errors, faults

vars == <<head, tree, active, mode, baseline, main, prscan, row, gh, events, hooks, queue,
          job, rev, granted, waived, crossed, stranded, unheard, edits, switches, errors,
          faults>>

Commits == 0..MaxCommits

ScanId == 1..MaxScans

\* A scan executed again adds its rows beside the first ones.
Copies == 1..(MaxFaults + 1)

RowId == ScanId \X Copies \X Vulns

ScanStatus == {"none", "running", "passed", "blocked", "error", "overridden", "deleted"}

IgnoreStatus == {"absent", "none", "requested", "approved", "rejected", "revoked"}

\* A webhook past its commit: the status it has to post, the run to hand out.
Hook == [sha : Commits, scan : ScanId, pc : {"status", "publish"}]

\* A message names the row to reuse, or 0 for a run that creates its own.
Message == 0..MaxScans

IdleJob == [pc |-> "idle", msg |-> 0, web |-> FALSE, scan |-> 0, sha |-> 0, mode |-> "block",
            seen |-> {}, new |-> {}, prior |-> {}, status |-> "none"]

IdleRev == [pc |-> "idle", row |-> <<0, 0, 0>>, kind |-> "none", status |-> "none",
            blocked |-> FALSE]

Stored(s) == {f \in RowId : f[1] = s /\ row[f] # "absent"}

IsNext(s) == prscan[s] = "none" /\ \A r \in ScanId : r < s => prscan[r] # "none"

SetScan(s, status) == prscan' = [prscan EXCEPT ![s] = status]

\* The row of a run that ends here, if it still says running.
LeftRunning(s) == {r \in ScanId : r = s /\ prscan[r] = "running"}

\* The bounds on what the world does.
Room == head + switches + errors + faults < MaxMishaps

Fault == Room /\ faults < MaxFaults /\ faults' = faults + 1

Error == Room /\ errors < MaxErrors /\ errors' = errors + 1

Edit == edits < MaxEdits /\ edits' = edits + 1

\* The task returns; a redelivered message is the worker's last trace.
Return(w) == job' = [job EXCEPT ![w] = [IdleJob EXCEPT !.pc = "ack", !.msg = job[w].msg,
                                                       !.web = job[w].web]]

-----------------------------------------------------------------------------
(* GitHub and the webhook.                                                 *)

\* Somebody pushes; GitHub sends a synchronize event.
PushCommit(vs) ==
  /\ Room /\ head < MaxCommits
  /\ head' = head + 1
  /\ tree' = [tree EXCEPT ![head + 1] = vs]
  /\ events' = events \cup {head + 1}
  /\ UNCHANGED <<active, mode, baseline, main, prscan, row, gh, hooks, queue, job, rev,
                 granted, waived, crossed, stranded, unheard, edits, switches, errors,
                 faults>>

\* _handle_pull_request: a switched-off or disabled target gets nothing;
\* otherwise the placeholder row is committed.
PullRequest(c, s) ==
  /\ c \in events
  /\ events' = events \ {c}
  /\ IF active /\ mode # "disabled"
     THEN /\ IsNext(s)
          /\ SetScan(s, "running")
          /\ hooks' = hooks \cup {[sha |-> c, scan |-> s, pc |-> "status"]}
     ELSE UNCHANGED <<prscan, hooks>>
  /\ UNCHANGED <<head, tree, active, mode, baseline, main, row, gh, queue, job, rev,
                 granted, waived, crossed, stranded, unheard, edits, switches, errors,
                 faults>>

\* The pending status is posted on the commit of the event.
PendingStatus(h) ==
  /\ h \in hooks /\ h.pc = "status"
  /\ gh' = [gh EXCEPT ![h.sha] = "pending"]
  /\ hooks' = (hooks \ {h}) \cup {[h EXCEPT !.pc = "publish"]}
  /\ UNCHANGED <<head, tree, active, mode, baseline, main, prscan, row, events, queue,
                 job, rev, granted, waived, crossed, stranded, unheard, edits, switches,
                 errors, faults>>

\* It is best-effort: the run goes ahead without it.
PendingFails(h) ==
  /\ Error
  /\ h \in hooks /\ h.pc = "status"
  /\ hooks' = (hooks \ {h}) \cup {[h EXCEPT !.pc = "publish"]}
  /\ UNCHANGED <<head, tree, active, mode, baseline, main, prscan, row, gh, events, queue,
                 job, rev, granted, waived, crossed, stranded, unheard, edits, switches,
                 faults>>

\* .delay(): the message names the placeholder.
Publish(h) ==
  /\ h \in hooks /\ h.pc = "publish"
  /\ queue' = queue \cup {h.scan}
  /\ hooks' = hooks \ {h}
  /\ UNCHANGED <<head, tree, active, mode, baseline, main, prscan, row, gh, events, job,
                 rev, granted, waived, crossed, stranded, unheard, edits, switches,
                 errors, faults>>

\* The API process goes away after its commit, or the broker does not answer:
\* the row, and the pending status if it is posted, have no message.
HookLost(h) ==
  /\ Fault
  /\ h \in hooks
  /\ hooks' = hooks \ {h}
  /\ stranded' = stranded \cup LeftRunning(h.scan)
  /\ unheard' = unheard \cup {h.sha}
  /\ UNCHANGED <<head, tree, active, mode, baseline, main, prscan, row, gh, events, queue,
                 job, rev, granted, waived, crossed, edits, switches, errors>>

\* GitHub delivers an event once more, late or out of order.
EventAgain(c) ==
  /\ Fault
  /\ c <= head
  /\ events' = events \cup {c}
  /\ UNCHANGED <<head, tree, active, mode, baseline, main, prscan, row, gh, hooks,
                 queue, job, rev, granted, waived, crossed, stranded, unheard, edits,
                 switches, errors>>

\* The mode or the lifecycle of the target changes.
Switch(on, m) ==
  /\ Room /\ switches < MaxSwitches
  /\ <<on, m>> # <<active, mode>>
  /\ active' = on /\ mode' = m
  /\ switches' = switches + 1
  /\ UNCHANGED <<head, tree, baseline, main, prscan, row, gh, events, hooks, queue, job,
                 rev, granted, waived, crossed, stranded, unheard, edits, errors,
                 faults>>

-----------------------------------------------------------------------------
(* execute_pr_guardrail_scan.                                              *)

\* The two gates at the top, on the target as it is now.
Gate(w, s, web) ==
  job' = [job EXCEPT ![w] =
            [IdleJob EXCEPT !.pc = IF active /\ mode # "disabled" THEN "fetch" ELSE "discard",
                            !.msg = s, !.web = web, !.scan = s, !.mode = mode]]

\* run_pr_guardrail_scan_task.
Start(w, m) ==
  /\ job[w].pc = "idle"
  /\ m \in queue
  /\ queue' = queue \ {m}
  /\ Gate(w, m, FALSE)
  /\ UNCHANGED <<head, tree, active, mode, baseline, main, prscan, row, gh, events,
                 hooks, rev, granted, waived, crossed, stranded, unheard, edits,
                 switches, errors, faults>>

\* POST /scan runs the same function on the request thread.
OnDemand(w) ==
  /\ Edit
  /\ job[w].pc = "idle"
  /\ active
  /\ Gate(w, 0, TRUE)
  /\ UNCHANGED <<head, tree, active, mode, baseline, main, prscan, row, gh, events,
                 hooks, queue, rev, granted, waived, crossed, stranded, unheard,
                 switches, errors, faults>>

\* Mutant: an early exit forgets the placeholder.
DiscardNothing(w) ==
  /\ job[w].pc = "discard"
  /\ Return(w)
  /\ UNCHANGED <<head, tree, active, mode, baseline, main, prscan, row, gh, events,
                 hooks, queue, rev, granted, waived, crossed, stranded, unheard, edits,
                 switches, errors, faults>>

\* _discard_placeholder_pr_scan: the row goes.  One that already has finding
\* rows is held by their foreign key: the delete raises and nothing changes.
Discard(w) ==
  /\ job[w].pc = "discard"
  /\ IF job[w].scan # 0 /\ Stored(job[w].scan) = {}
     THEN SetScan(job[w].scan, "deleted") /\ UNCHANGED stranded
     ELSE UNCHANGED prscan /\ stranded' = stranded \cup LeftRunning(job[w].scan)
  /\ Return(w)
  /\ UNCHANGED <<head, tree, active, mode, baseline, main, row, gh, events, hooks,
                 queue, rev, granted, waived, crossed, unheard, edits,
                 switches, errors, faults>>

\* The head is read from GitHub; the row is reused, or one is created, and
\* committed as running whatever it was.
Fetch(w, s) ==
  /\ job[w].pc = "fetch"
  /\ IF job[w].scan # 0 /\ prscan[job[w].scan] # "deleted"
     THEN s = job[w].scan ELSE IsNext(s)
  /\ SetScan(s, "running")
  /\ job' = [job EXCEPT ![w] = [@ EXCEPT !.pc = "clone", !.scan = s, !.sha = head]]
  /\ UNCHANGED <<head, tree, active, mode, baseline, main, row, gh, events, hooks,
                 queue, rev, granted, waived, crossed, stranded, unheard, edits,
                 switches, errors, faults>>

\* GitHub does not answer: the exception is raised before the try block, and
\* the placeholder stays as it is.
FetchFails(w) ==
  /\ Error
  /\ job[w].pc = "fetch"
  /\ Return(w)
  /\ stranded' = stranded \cup LeftRunning(job[w].scan)
  /\ unheard' = unheard \cup {head}
  /\ UNCHANGED <<head, tree, active, mode, baseline, main, prscan, row, gh, events,
                 hooks, queue, rev, granted, waived, crossed, edits,
                 switches, faults>>

\* clone_repo takes the branch, not the commit read above; then the tools run.
CloneAndScan(w) ==
  /\ job[w].pc = "clone"
  /\ job' = [job EXCEPT ![w] = [@ EXCEPT !.pc = "decide", !.seen = tree[head]]]
  /\ UNCHANGED <<head, tree, active, mode, baseline, main, prscan, row, gh, events,
                 hooks, queue, rev, granted, waived, crossed, stranded, unheard, edits,
                 switches, errors, faults>>

\* Some assigned tool raised: it is recorded as failed and the scan goes on.
ScanPartly(w, seen) ==
  /\ Error
  /\ job[w].pc = "clone"
  /\ seen \subseteq tree[head]
  /\ job' = [job EXCEPT ![w] = [@ EXCEPT !.pc = "decide", !.seen = seen]]
  /\ waived' = TRUE
  /\ UNCHANGED <<head, tree, active, mode, baseline, main, prscan, row, gh, events,
                 hooks, queue, rev, granted, crossed, stranded, unheard, edits,
                 switches, faults>>

\* Mutant: a pending request already counts as an approval.
ApprovedOrAsked(v) == \E f \in RowId : f[3] = v /\ row[f] \in {"approved", "requested"}

\* _carry_forward_approved_ignore: an approved row of any scan of this PR.
Approved(v) == \E f \in RowId : f[3] = v /\ row[f] = "approved"

\* Net-new against the Open findings of the default branch, what was approved
\* before, and the verdict on the rest.
Decide(w) ==
  /\ job[w].pc = "decide"
  /\ LET new   == IF baseline THEN {v \in job[w].seen : main[v] # "Open"} ELSE {}
         prior == {v \in new : Approved(v)}
     IN  job' = [job EXCEPT ![w] =
                   [@ EXCEPT !.pc = "record", !.new = new, !.prior = prior, !.seen = {},
                             !.status = IF (new \ prior) \cap Blocking # {}
                                        THEN "blocked" ELSE "passed"]]
  /\ waived' = (waived \/ ~baseline)
  /\ UNCHANGED <<head, tree, active, mode, baseline, main, prscan, row, gh, events,
                 hooks, queue, rev, granted, crossed, stranded, unheard, edits,
                 switches, errors, faults>>

\* Another worker discarded the row: every write about it raises, also the
\* one that would make it an error.
Gone(w) == prscan[job[w].scan] = "deleted"

\* The verdict is committed.
Record(w) ==
  /\ job[w].pc = "record"
  /\ IF Gone(w)
     THEN Return(w) /\ UNCHANGED prscan
     ELSE /\ SetScan(job[w].scan, job[w].status)
          /\ job' = [job EXCEPT ![w].pc = "persist"]
  /\ UNCHANGED <<head, tree, active, mode, baseline, main, row, gh, events, hooks,
                 queue, rev, granted, waived, crossed, stranded, unheard, edits,
                 switches, errors, faults>>

\* The copies of a scan's rows not yet made; one per run is enough.
Unused(s) == {n \in Copies : \A f \in Stored(s) : f[2] # n}

\* The copy of a scan's rows the next insert makes.
NextCopy(s) == CHOOSE n \in Unused(s) : TRUE

\* _persist_findings: the first Cap of them, approvals stamped.
Persist(w, page) ==
  LET s == job[w].scan
      n == NextCopy(s)
  IN  /\ job[w].pc = "persist"
      /\ Unused(s) # {}
      /\ page \subseteq job[w].new
      /\ Cardinality(page) = (IF Cardinality(job[w].new) > Cap THEN Cap
                              ELSE Cardinality(job[w].new))
      /\ IF Gone(w)
         THEN Return(w) /\ UNCHANGED row
         ELSE /\ row' = [f \in RowId |->
                           IF f[1] = s /\ f[2] = n /\ f[3] \in page
                           THEN IF f[3] \in job[w].prior THEN "approved" ELSE "none"
                           ELSE row[f]]
              /\ job' = [job EXCEPT ![w] = [@ EXCEPT !.pc = "post", !.new = {},
                                                     !.prior = {}]]
      /\ UNCHANGED <<head, tree, active, mode, baseline, main, prscan, gh, events,
                     hooks, queue, rev, granted, waived, crossed, stranded, unheard,
                     edits, switches, errors, faults>>

\* Mutant: every mode lets the merge through.
CommitStateLenient(status, m) == "success"

\* What a verdict is on GitHub: alert mode warns and lets the merge through.
CommitState(status, m) == IF status = "blocked" /\ m # "alert" THEN "failure" ELSE "success"

\* set_commit_status, on the commit read at the start.
Post(w) ==
  /\ job[w].pc = "post"
  /\ gh' = [gh EXCEPT ![job[w].sha] = CommitState(job[w].status, job[w].mode)]
  /\ waived' = (waived \/ job[w].mode = "alert")
  /\ Return(w)
  /\ UNCHANGED <<head, tree, active, mode, baseline, main, prscan, row, events, hooks,
                 queue, rev, granted, crossed, stranded, unheard, edits, switches,
                 errors, faults>>

\* The status does not reach GitHub; the reason is kept on the row.
PostFails(w) ==
  /\ Error
  /\ job[w].pc = "post"
  /\ Return(w)
  /\ unheard' = unheard \cup {job[w].sha}
  /\ UNCHANGED <<head, tree, active, mode, baseline, main, prscan, row, gh, events,
                 hooks, queue, rev, granted, waived, crossed, stranded, edits,
                 switches, faults>>

\* Any exception inside the try block: the row is an error, GitHub hears nothing.
Fail(w) ==
  /\ Error
  /\ job[w].pc \in {"clone", "decide", "record", "persist", "post"}
  /\ IF Gone(w) THEN UNCHANGED prscan ELSE SetScan(job[w].scan, "error")
  /\ Return(w)
  /\ unheard' = unheard \cup {job[w].sha}
  /\ UNCHANGED <<head, tree, active, mode, baseline, main, row, gh, events, hooks,
                 queue, rev, granted, waived, crossed, stranded, edits,
                 switches, faults>>

Ack(w) ==
  /\ job[w].pc = "ack"
  /\ job' = [job EXCEPT ![w] = IdleJob]
  /\ UNCHANGED <<head, tree, active, mode, baseline, main, prscan, row, gh, events,
                 hooks, queue, rev, granted, waived, crossed, stranded, unheard, edits,
                 switches, errors, faults>>

\* Mutant: messages are acknowledged when they are taken.
UnackedEarly(w) == {}

\* task_acks_late: a message in hand is still the broker's.
Unacked(w) == IF job[w].web THEN {} ELSE {job[w].msg}

\* A worker is lost, and its message handed out again.  The row it names is
\* reused; one that the run made for itself is left.
Crash(w) ==
  /\ Fault
  /\ job[w].pc # "idle" /\ ~job[w].web
  /\ queue' = queue \cup Unacked(w)
  /\ job' = [job EXCEPT ![w] = IdleJob]
  /\ stranded' = IF job[w].scan = job[w].msg THEN stranded
                 ELSE stranded \cup LeftRunning(job[w].scan)
  /\ crossed' = (crossed \/ job[w].pc = "persist")
  /\ UNCHANGED <<head, tree, active, mode, baseline, main, prscan, row, gh, events,
                 hooks, rev, granted, waived, unheard, edits, switches,
                 errors>>

\* The broker's visibility timeout passes while the worker is busy.
Redeliver(w) ==
  /\ Fault
  /\ job[w].pc # "idle"
  /\ queue' = queue \cup Unacked(w)
  /\ UNCHANGED <<head, tree, active, mode, baseline, main, prscan, row, gh, events,
                 hooks, job, rev, granted, waived, crossed, stranded, unheard, edits,
                 switches, errors>>

\* The API process goes away under a request: nothing runs it again.
RequestLost(w) ==
  /\ Fault
  /\ job[w].pc # "idle" /\ job[w].web
  /\ job' = [job EXCEPT ![w] = IdleJob]
  /\ stranded' = stranded \cup LeftRunning(job[w].scan)
  /\ crossed' = (crossed \/ job[w].pc = "persist")
  /\ UNCHANGED <<head, tree, active, mode, baseline, main, prscan, row, gh, events,
                 hooks, queue, rev, granted, waived, unheard, edits, switches,
                 errors>>

-----------------------------------------------------------------------------
(* Reviewers.                                                              *)

\* Some recompute of scan s has read its rows and is about to write a block.
AboutToBlock(s) ==
  \E q \in Reviewers : rev[q].pc = "write" /\ rev[q].blocked /\ rev[q].row[1] = s

\* approve_ignore commits the row first.
Approve(r, f) ==
  /\ Edit
  /\ rev[r].pc = "idle" /\ row[f] # "absent"
  /\ row' = [row EXCEPT ![f] = "approved"]
  /\ granted' = granted \cup {f[3]}
  /\ crossed' = (crossed \/ AboutToBlock(f[1]))
  /\ rev' = [rev EXCEPT ![r] = [@ EXCEPT !.pc = "sync", !.row = f, !.kind = "approve"]]
  /\ UNCHANGED <<head, tree, active, mode, baseline, main, prscan, gh, events, hooks,
                 queue, job, waived, stranded, unheard, switches, errors, faults>>

\* revoke_ignore, of an approved finding only.
Revoke(r, f) ==
  /\ Edit
  /\ rev[r].pc = "idle" /\ row[f] = "approved"
  /\ row' = [row EXCEPT ![f] = "revoked"]
  /\ rev' = [rev EXCEPT ![r] = [@ EXCEPT !.pc = "sync", !.row = f, !.kind = "revoke"]]
  /\ UNCHANGED <<head, tree, active, mode, baseline, main, prscan, gh, events, hooks,
                 queue, job, granted, waived, crossed, stranded, unheard, switches,
                 errors, faults>>

\* The two syncs, to the finding on the default branch.
Synced(state, kind) ==
  CASE kind = "approve" /\ state \in {"Open", "Reopened"} -> "Accepted Risk"
    [] kind = "revoke" /\ state = "Accepted Risk"         -> "Reopened"
    [] OTHER                                              -> state

\* Mutant: an approval stops at the finding, as before issue 112.
SyncOnly(r) ==
  /\ rev[r].pc = "sync"
  /\ main' = [main EXCEPT ![rev[r].row[3]] = Synced(@, rev[r].kind)]
  /\ rev' = [rev EXCEPT ![r] = IdleRev]
  /\ UNCHANGED <<head, tree, active, mode, baseline, prscan, row, gh, events, hooks,
                 queue, job, granted, waived, crossed, stranded, unheard, edits,
                 switches, errors, faults>>

\* The sync commits; the scan is then loaded, before the comment is patched
\* and before its findings are read.
Sync(r) ==
  LET f == rev[r].row
  IN  /\ rev[r].pc = "sync"
      /\ main' = [main EXCEPT ![f[3]] = Synced(@, rev[r].kind)]
      /\ rev' = [rev EXCEPT ![r] = [@ EXCEPT !.pc = "recompute", !.status = prscan[f[1]]]]
      /\ UNCHANGED <<head, tree, active, mode, baseline, prscan, row, gh, events, hooks,
                     queue, job, granted, waived, crossed, stranded, unheard, edits,
                     switches, errors, faults>>

StillOpen(s) == {f \in Stored(s) : row[f] # "approved" /\ f[3] \in Blocking}

\* recompute_pr_scan_status: nothing unless blocked or passed, nothing if the
\* unapproved findings already explain it.
RecomputeDecide(r) ==
  LET blocked == StillOpen(rev[r].row[1]) # {}
  IN  /\ rev[r].pc = "recompute"
      /\ rev' = [rev EXCEPT ![r] =
                   IF rev[r].status = (IF blocked THEN "passed" ELSE "blocked")
                   THEN [@ EXCEPT !.pc = "write", !.blocked = blocked]
                   ELSE IdleRev]
      /\ UNCHANGED <<head, tree, active, mode, baseline, main, prscan, row, gh, events,
                     hooks, queue, job, granted, waived, crossed, stranded, unheard,
                     edits, switches, errors, faults>>

\* The new status is written over whatever the row says by now.
RecomputeWrite(r) ==
  /\ rev[r].pc = "write"
  /\ SetScan(rev[r].row[1], IF rev[r].blocked THEN "blocked" ELSE "passed")
  /\ rev' = [rev EXCEPT ![r].pc = "post"]
  /\ UNCHANGED <<head, tree, active, mode, baseline, main, row, gh, events, hooks,
                 queue, job, granted, waived, crossed, stranded, unheard, edits,
                 switches, errors, faults>>

\* The head is read again and the status posted on it, whichever commit the
\* decision was about; nothing if disabled.
RecomputePost(r) ==
  /\ rev[r].pc = "post"
  /\ IF mode = "disabled" THEN UNCHANGED <<gh, waived>>
     ELSE /\ gh' = [gh EXCEPT ![head] =
                      CommitState(IF rev[r].blocked THEN "blocked" ELSE "passed", mode)]
          /\ waived' = (waived \/ mode = "alert" \/ head # 0)
  /\ rev' = [rev EXCEPT ![r] = IdleRev]
  /\ UNCHANGED <<head, tree, active, mode, baseline, main, prscan, row, events, hooks,
                 queue, job, granted, crossed, stranded, unheard, edits, switches,
                 errors, faults>>

\* GitHub refuses, or the request is gone: what was committed stays.
ReviewFails(r) ==
  /\ Error
  /\ rev[r].pc \in {"post", "override"}
  /\ rev' = [rev EXCEPT ![r] = IdleRev]
  /\ UNCHANGED <<head, tree, active, mode, baseline, main, prscan, row, gh, events,
                 hooks, queue, job, granted, waived, crossed, stranded, unheard, edits,
                 switches, faults>>

\* submit_ignore_request: whatever was decided before is forgotten.
SubmitIgnoreRequest(f) == row' = [row EXCEPT ![f] = "requested"]

\* A request, from the product, the signed link or a comment on the pull
\* request; each finding that a comment names is asked for on its own.
Request(f) ==
  /\ Edit
  /\ row[f] # "absent"
  /\ SubmitIgnoreRequest(f)
  /\ UNCHANGED <<head, tree, active, mode, baseline, main, prscan, gh, events, hooks,
                 queue, job, rev, granted, waived, crossed, stranded, unheard, switches,
                 errors, faults>>

\* reject_ignore.
Reject(f) ==
  /\ Edit
  /\ row[f] # "absent"
  /\ row' = [row EXCEPT ![f] = "rejected"]
  /\ UNCHANGED <<head, tree, active, mode, baseline, main, prscan, gh, events, hooks,
                 queue, job, rev, granted, waived, crossed, stranded, unheard, switches,
                 errors, faults>>

\* override_pr_guardrail_scan, from any status.
Override(r, s) ==
  /\ Edit
  /\ rev[r].pc = "idle" /\ prscan[s] \notin {"none", "deleted"}
  /\ SetScan(s, "overridden")
  /\ waived' = TRUE
  /\ rev' = [rev EXCEPT ![r] = [@ EXCEPT !.pc = "override"]]
  /\ UNCHANGED <<head, tree, active, mode, baseline, main, row, gh, events, hooks,
                 queue, job, granted, crossed, stranded, unheard, switches, errors,
                 faults>>

\* ... and success goes to the head of the moment.
OverridePost(r) ==
  /\ rev[r].pc = "override"
  /\ gh' = [gh EXCEPT ![head] = "success"]
  /\ rev' = [rev EXCEPT ![r] = IdleRev]
  /\ UNCHANGED <<head, tree, active, mode, baseline, main, prscan, row, events, hooks,
                 queue, job, granted, waived, crossed, stranded, unheard, edits,
                 switches, errors, faults>>

\* retry_pr_guardrail_scan: a running row only once it is stale, and then as
\* an error; the new run makes its own row.
Retry(s) ==
  /\ Edit
  /\ active
  /\ prscan[s] \notin {"none", "deleted"}
  /\ IF prscan[s] = "running" THEN SetScan(s, "error") ELSE UNCHANGED prscan
  /\ queue' = queue \cup {0}
  /\ UNCHANGED <<head, tree, active, mode, baseline, main, row, gh, events, hooks, job,
                 rev, granted, waived, crossed, stranded, unheard, switches, errors,
                 faults>>

\* active_pr_scans sweeps the running rows that are stale.
MarkStale(s) ==
  /\ Edit
  /\ prscan[s] = "running"
  /\ SetScan(s, "error")
  /\ UNCHANGED <<head, tree, active, mode, baseline, main, row, gh, events, hooks,
                 queue, job, rev, granted, waived, crossed, stranded, unheard, switches,
                 errors, faults>>

-----------------------------------------------------------------------------
Init ==
  /\ head = 0
  /\ tree \in {[c \in Commits |-> IF c = 0 THEN vs ELSE {}] : vs \in SUBSET Vulns}
  /\ active = TRUE /\ mode = "block"
  /\ baseline \in BOOLEAN
  /\ main \in [Vulns -> {"none", "Open"}]
  /\ prscan = [s \in ScanId |-> "none"]
  /\ row = [f \in RowId |-> "absent"]
  /\ gh = [c \in Commits |-> "none"]
  /\ events = {0} /\ hooks = {} /\ queue = {}
  /\ job = [w \in Workers |-> IdleJob]
  /\ rev = [r \in Reviewers |-> IdleRev]
  /\ granted = {} /\ waived = FALSE /\ crossed = FALSE
  /\ stranded = {} /\ unheard = {}
  /\ edits = 0 /\ switches = 0 /\ errors = 0 /\ faults = 0

\* What a worker does by itself.
WorkerStep(w) ==
  \/ \E m \in Message : Start(w, m)
  \/ Discard(w)
  \/ \E s \in ScanId : Fetch(w, s)
  \/ CloneAndScan(w)
  \/ Decide(w)
  \/ Record(w)
  \/ \E page \in SUBSET Vulns : Persist(w, page)
  \/ Post(w)
  \/ Ack(w)

WorkerFault(w) ==
  \/ FetchFails(w)
  \/ \E seen \in SUBSET Vulns : ScanPartly(w, seen)
  \/ PostFails(w)
  \/ Fail(w)
  \/ Crash(w)
  \/ Redeliver(w)
  \/ RequestLost(w)

ReviewStep(r) ==
  \/ Sync(r)
  \/ RecomputeDecide(r)
  \/ RecomputeWrite(r)
  \/ RecomputePost(r)
  \/ OverridePost(r)

People ==
  \/ \E r \in Reviewers, f \in RowId : Approve(r, f) \/ Revoke(r, f)
  \/ \E r \in Reviewers : ReviewFails(r)
  \/ \E r \in Reviewers, s \in ScanId : Override(r, s)
  \/ \E f \in RowId : Request(f) \/ Reject(f)
  \/ \E s \in ScanId : Retry(s) \/ MarkStale(s)
  \/ \E w \in Workers : OnDemand(w)

\* The API serves GitHub's events.
Deliver ==
  \/ \E c \in Commits, s \in ScanId : PullRequest(c, s)
  \/ \E h \in hooks : PendingStatus(h) \/ Publish(h)

HookFault == \E h \in hooks : PendingFails(h) \/ HookLost(h)

Next ==
  \/ \E vs \in SUBSET Vulns : PushCommit(vs)
  \/ Deliver \/ HookFault
  \/ \E c \in Commits : EventAgain(c)
  \/ \E on \in BOOLEAN, m \in {"block", "alert", "disabled"} : Switch(on, m)
  \/ \E w \in Workers : WorkerStep(w) \/ WorkerFault(w)
  \/ \E r \in Reviewers : ReviewStep(r)
  \/ People

Spec == Init /\ [][Next]_vars

\* GitHub delivers, a webhook served goes on to its end, the workers consume
\* their queue, a request in hand ends.
FairSpec ==
  /\ Spec
  /\ WF_vars(Deliver)
  /\ \A w \in Workers : WF_vars(WorkerStep(w))
  /\ \A r \in Reviewers : WF_vars(ReviewStep(r))

-----------------------------------------------------------------------------
(* Properties.                                                             *)

\* Nobody is working on scan s, and no message of it is waiting.
Quiet(s) ==
  /\ s \notin queue
  /\ \A w \in Workers : job[w].scan # s \/ job[w].pc = "idle"
  /\ \A r \in Reviewers : rev[r].pc = "idle" \/ rev[r].row[1] # s

(* A green status on the head of the branch means that each blocking
   vulnerability of that commit was approved by a reviewer or is an open
   finding of the default branch, although the branch is cloned after its head
   was read, events repeat and workers are lost.  An override, alert mode, a
   failed tool, a missing baseline and a decision posted after a push are
   other reasons to be green.  It holds while a pull request introduces no more
   than a scan stores, and fails beyond that: the recompute counts stored rows
   (core/pr_guardrail_executor.py 1929-2266, 2310, 2349). *)
GateHolds ==
  (gh[head] = "success" /\ ~waived) =>
    \A v \in tree[head] \cap Blocking : v \in granted \/ main[v] = "Open"

(* A blocked scan on which nobody works still has a blocking finding nobody
   approved: approving the last one unblocks it
   (recompute_pr_scan_status, issue 112), also while the scan runs again.  Two
   histories leave a block without a reason: a second reviewer approves after
   the recompute for a first one has read the rows and before it writes the
   block (core/pr_guardrail_executor.py 2310-2329), and a worker is lost after
   a rerun recorded its verdict and before it stored its rows. *)
BlockedHasReason ==
  ~crossed =>
    \A s \in ScanId : (prscan[s] = "blocked" /\ Quiet(s)) => StillOpen(s) # {}

(* What the default branch holds as accepted risk, and what a run carries
   forward, goes back to a decision of a reviewer: neither a rerun, nor a
   request, nor an early exit approves anything. *)
ApprovalsAreHuman ==
  /\ \A f \in RowId : row[f] = "approved" => f[3] \in granted
  /\ \A v \in Vulns : main[v] = "Accepted Risk" => v \in granted

(* A row created as running does not stay so by itself: the worker settles it
   or, when the target was switched off, discards it, also when the worker is
   lost and the message handed out again.  Five histories strand it, until a
   person sweeps or retries it (api/pr_guardrail.py 724-729): the webhook is
   lost between its commit and .delay(); GitHub does not answer the read of the
   head, outside the try block (core/pr_guardrail_executor.py 1931-1932); the
   process of an on-demand run goes away; a worker is lost on a row its message
   does not name; and a run handed out again finds the target switched off,
   with finding rows that hold the row. *)
ScanSettles ==
  \A s \in ScanId : prscan[s] = "running" ~> (prscan[s] # "running" \/ s \in stranded)

(* A pending status on the head of the branch is replaced by a verdict, unless
   the head moves on, the target is switched meanwhile, or the run that was to
   replace it never reports: its webhook was lost, it failed, or the verdict
   did not reach GitHub (core/pr_guardrail_executor.py 1931-1932, 2246,
   2267-2283).  A lost worker is no excuse. *)
PendingResolved ==
  \A c \in Commits :
    (head = c /\ gh[c] = "pending")
      ~> (gh[c] # "pending" \/ head # c \/ switches > 0 \/ c \in unheard)
=============================================================================
