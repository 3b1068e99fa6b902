-------------------------- MODULE PrGuardrailProofs --------------------------
(***************************************************************************)
(* The pull-request gate for any number of workers, reviewers, commits,    *)
(* scans and vulnerabilities: nothing is approved but by a reviewer, and,  *)
(* while a scan stores all that a pull request introduces, a green status  *)
(* on the head of the branch covers what that commit introduces and a      *)
(* blocked scan has a reason; and its rows are stored once per delivery.   *)
(***************************************************************************)
EXTENDS PrGuardrail, FiniteSetTheorems, TLAPS

MainState == {"none", "Open", "Accepted Risk", "Reopened"}

Modes == {"block", "alert", "disabled"}

JobRec == [pc     : {"idle", "discard", "fetch", "clone", "decide", "record", "persist",
                     "post", "ack"},
           msg    : Message,
           web    : BOOLEAN,
           scan   : Message,
           sha    : Commits,
           mode   : Modes,
           seen   : SUBSET Vulns,
           new    : SUBSET Vulns,
           prior  : SUBSET Vulns,
           status : {"none", "passed", "blocked"}]

RevRec == [pc      : {"idle", "sync", "recompute", "write", "post", "override"},
           row     : RowId \cup {<<0, 0, 0>>},
           kind    : {"none", "approve", "revoke"},
           status  : ScanStatus,
           blocked : BOOLEAN]

\* Every variable that the argument reads holds a value of its type.
GuardTypes ==
  /\ head \in Commits
  /\ tree \in [Commits -> SUBSET Vulns]
  /\ mode \in Modes
  /\ main \in [Vulns -> MainState]
  /\ prscan \in [ScanId -> ScanStatus]
  /\ row \in [RowId -> IgnoreStatus]
  /\ gh \in [Commits -> {"none", "pending", "success", "failure"}]
  /\ events \subseteq Commits
  /\ hooks \subseteq Hook
  /\ queue \subseteq Message
  /\ job \in [Workers -> JobRec]
  /\ rev \in [Reviewers -> RevRec]
  /\ granted \subseteq Vulns
  /\ waived \in BOOLEAN

\* A reviewer accepted it, or it is the default branch's own problem.
Excused(v) == v \in granted \/ main[v] = "Open"

\* Nothing blocking of the head commit is left to explain.
HeadCovered == \A v \in tree[head] \cap Blocking : Excused(v)

\* Nobody has heard of a commit before it is pushed.
NotAhead ==
  /\ \A c \in Commits : c > head => gh[c] = "none"
  /\ \A c \in events : c <= head
  /\ \A h \in hooks : h.sha <= head
  /\ \A w \in Workers : job[w].sha <= head

\* What a run carries forward, a reviewer has approved.
CarriedIsGranted == \A w \in Workers : job[w].prior \subseteq granted

\* A decision being recorded is about a stored row, and an approval is granted.
DecidesOnRow ==
  \A r \in Reviewers :
    /\ rev[r].pc \in {"sync", "recompute"} => rev[r].row \in RowId /\ row[rev[r].row] # "absent"
    /\ rev[r].pc = "sync" /\ rev[r].kind = "approve" => rev[r].row[3] \in granted

HumanInv == GuardTypes /\ ApprovalsAreHuman /\ CarriedIsGranted /\ DecidesOnRow

\* What a scan of the head commit knows, between its clone and its status.
JobsInv ==
  \A w \in Workers : job[w].sha = head /\ ~waived =>
    /\ job[w].pc = "decide" => tree[head] \subseteq job[w].seen
    /\ job[w].pc \in {"record", "persist"} =>
         \A v \in tree[head] \cap Blocking : Excused(v) \/ v \in job[w].new
    /\ job[w].pc \in {"record", "persist", "post"} /\ job[w].status # "blocked" => HeadCovered

\* The rows of a scan of the only commit cover what it introduces.
StoredAll ==
  head = 0 /\ ~waived =>
    \A s \in ScanId : Stored(s) # {} =>
      \A v \in tree[head] \cap Blocking : Excused(v) \/ \E f \in Stored(s) : f[3] = v

\* A decision about to turn the only commit green has nothing left to explain.
RevsInv ==
  \A r \in Reviewers :
    /\ rev[r].pc \in {"write", "post"} /\ ~rev[r].blocked /\ head = 0 /\ ~waived => HeadCovered
    /\ rev[r].pc = "override" => waived

GateInv == NotAhead /\ JobsInv /\ StoredAll /\ RevsInv /\ GateHolds

-----------------------------------------------------------------------------
(* Type correctness.                                                       *)

\* The locals a worker and a reviewer start from, and go back to.
LEMMA IdleTypes ==
  /\ IdleJob \in JobRec
  /\ IdleRev \in RevRec
  /\ \A q \in JobRec : [IdleJob EXCEPT !.pc = "ack", !.msg = q.msg, !.web = q.web] \in JobRec
<1>1. 0 \in Message /\ 0 \in Commits
  BY GuardrailAssumption DEF Message, Commits
<1>2. IdleJob \in JobRec
  BY <1>1 DEF IdleJob, JobRec, Modes
<1>3. IdleRev \in RevRec
  BY DEF IdleRev, RevRec, ScanStatus
<1>4. \A q \in JobRec : [IdleJob EXCEPT !.pc = "ack", !.msg = q.msg, !.web = q.web] \in JobRec
  BY <1>1 DEF IdleJob, JobRec, Modes
<1> QED BY <1>2, <1>3, <1>4

\* The types hold initially.
LEMMA InitTypes == Init => GuardTypes
<1> SUFFICES ASSUME Init PROVE GuardTypes
  OBVIOUS
<1>1. 0 \in Commits
  BY GuardrailAssumption DEF Commits
<1>2. job \in [Workers -> JobRec] /\ rev \in [Reviewers -> RevRec]
  BY IdleTypes DEF Init
<1>3. tree \in [Commits -> SUBSET Vulns] /\ main \in [Vulns -> MainState]
  BY DEF Init, MainState
<1>4. /\ prscan \in [ScanId -> ScanStatus] /\ row \in [RowId -> IgnoreStatus]
      /\ gh \in [Commits -> {"none", "pending", "success", "failure"}]
  BY DEF Init, ScanStatus, IgnoreStatus
<1> QED BY <1>1, <1>2, <1>3, <1>4 DEF Init, GuardTypes, Modes

\* A write of one scan's status.
LEMMA SetScanType ==
  ASSUME GuardTypes, NEW s, NEW status \in ScanStatus, SetScan(s, status)
  PROVE  prscan' \in [ScanId -> ScanStatus]
BY DEF GuardTypes, SetScan

\* GitHub, the webhook and the switches keep the types.
LEMMA OutsideTypes ==
  ASSUME GuardTypes,
         \/ \E vs \in SUBSET Vulns : PushCommit(vs)
         \/ Deliver \/ HookFault
         \/ \E c \in Commits : EventAgain(c)
         \/ \E on \in BOOLEAN, m \in Modes : Switch(on, m)
  PROVE  GuardTypes'
<1>1. ASSUME NEW vs \in SUBSET Vulns, PushCommit(vs)
      PROVE  GuardTypes'
  <2>1. head + 1 \in Commits
    BY <1>1, GuardrailAssumption DEF PushCommit, GuardTypes, Commits
  <2> QED BY <1>1, <2>1 DEF PushCommit, GuardTypes
<1>2. ASSUME NEW c \in Commits, NEW s \in ScanId, PullRequest(c, s)
      PROVE  GuardTypes'
  <2>1. prscan' \in [ScanId -> ScanStatus]
    <3>1. "running" \in ScanStatus
      BY DEF ScanStatus
    <3> QED BY <1>2, <3>1, SetScanType DEF PullRequest, GuardTypes
  <2>2. hooks' \subseteq Hook /\ events' \subseteq Commits
    BY <1>2 DEF PullRequest, GuardTypes, Hook
  <2> QED BY <1>2, <2>1, <2>2 DEF PullRequest, GuardTypes
<1>3. ASSUME NEW c \in Commits, EventAgain(c)
      PROVE  GuardTypes'
  BY <1>3 DEF EventAgain, GuardTypes
<1>4. ASSUME NEW on \in BOOLEAN, NEW m \in Modes, Switch(on, m)
      PROVE  GuardTypes'
  BY <1>4 DEF Switch, GuardTypes
<1>5. ASSUME NEW h \in hooks
      PROVE  /\ h.sha \in Commits /\ h.scan \in Message
             /\ [h EXCEPT !.pc = "publish"] \in Hook
  BY GuardrailAssumption DEF GuardTypes, Hook, ScanId, Message
<1>6. ASSUME NEW h \in hooks, PendingStatus(h)
      PROVE  GuardTypes'
  <2>1. gh' \in [Commits -> {"none", "pending", "success", "failure"}]
    BY <1>6 DEF PendingStatus, GuardTypes
  <2>2. hooks' \subseteq Hook
    BY <1>5, <1>6 DEF PendingStatus, GuardTypes
  <2> QED BY <1>6, <2>1, <2>2 DEF PendingStatus, GuardTypes
<1>7. ASSUME NEW h \in hooks, PendingFails(h)
      PROVE  GuardTypes'
  BY <1>5, <1>7 DEF PendingFails, GuardTypes
<1>8. ASSUME NEW h \in hooks, Publish(h)
      PROVE  GuardTypes'
  BY <1>5, <1>8 DEF Publish, GuardTypes
<1>9. ASSUME NEW h \in hooks, HookLost(h)
      PROVE  GuardTypes'
  BY <1>9 DEF HookLost, GuardTypes
<1> QED BY <1>1, <1>2, <1>3, <1>4, <1>6, <1>7, <1>8, <1>9 DEF Deliver, HookFault

\* So does every step of a worker.
LEMMA WorkerTypes ==
  ASSUME GuardTypes, NEW w \in Workers, WorkerStep(w) \/ WorkerFault(w) \/ OnDemand(w)
  PROVE  GuardTypes'
<1> USE DEF GuardTypes
<1>0. job[w] \in JobRec /\ job[w].msg \in Message
  BY DEF JobRec
<1>1. {"running", "deleted", "error", "none", "passed", "blocked"} \subseteq ScanStatus
  BY DEF ScanStatus
<1>2. ASSUME NEW s \in Message, NEW web \in BOOLEAN, Gate(w, s, web)
      PROVE  job' \in [Workers -> JobRec]
  <2>1. [IdleJob EXCEPT !.pc = IF active /\ mode # "disabled" THEN "fetch" ELSE "discard",
                        !.msg = s, !.web = web, !.scan = s, !.mode = mode] \in JobRec
    BY <1>2, IdleTypes, ZenonT(60) DEF JobRec, Modes
  <2> QED BY <1>2, <2>1 DEF Gate
<1>3. Return(w) => job' \in [Workers -> JobRec]
  BY <1>0, IdleTypes DEF Return
<1>4. ASSUME NEW m \in Message, Start(w, m)
      PROVE  GuardTypes'
  BY <1>2, <1>4 DEF Start
<1>5. CASE OnDemand(w)
  <2>1. 0 \in Message
    BY GuardrailAssumption DEF Message
  <2> QED BY <1>2, <1>5, <2>1 DEF OnDemand
<1>6. CASE Discard(w)
  BY <1>1, <1>3, <1>6, SetScanType DEF Discard
<1>7. ASSUME NEW s \in ScanId, Fetch(w, s)
      PROVE  GuardTypes'
  <2>1. s \in Message
    BY GuardrailAssumption DEF ScanId, Message
  <2>2. [job[w] EXCEPT !.pc = "clone", !.scan = s, !.sha = head] \in JobRec
    BY <1>0, <2>1 DEF JobRec
  <2>3. prscan' \in [ScanId -> ScanStatus]
    BY <1>1, <1>7, SetScanType DEF Fetch
  <2> QED BY <1>7, <2>2, <2>3 DEF Fetch
<1>8. CASE FetchFails(w)
  BY <1>3, <1>8 DEF FetchFails
<1>9. CASE CloneAndScan(w)
  <2>1. [job[w] EXCEPT !.pc = "decide", !.seen = tree[head]] \in JobRec
    BY <1>0 DEF JobRec
  <2> QED BY <1>9, <2>1 DEF CloneAndScan
<1>10. ASSUME NEW seen \in SUBSET Vulns, ScanPartly(w, seen)
       PROVE  GuardTypes'
  <2>1. [job[w] EXCEPT !.pc = "decide", !.seen = seen] \in JobRec
    BY <1>0 DEF JobRec
  <2> QED BY <1>10, <2>1 DEF ScanPartly
<1>11. CASE Decide(w)
  <2> DEFINE new   == IF baseline THEN {v \in job[w].seen : main[v] # "Open"} ELSE {}
             prior == {v \in new : Approved(v)}
             st    == IF (new \ prior) \cap Blocking # {} THEN "blocked" ELSE "passed"
  <2>1. new \in SUBSET Vulns /\ prior \in SUBSET Vulns /\ st \in {"none", "passed", "blocked"}
    BY <1>0 DEF JobRec
  <2>2. job' = [job EXCEPT ![w] = [@ EXCEPT !.pc = "record", !.new = new, !.prior = prior,
                                            !.seen = {}, !.status = st]]
    BY <1>11 DEF Decide
  <2> HIDE DEF new, prior, st
  <2>3. [job[w] EXCEPT !.pc = "record", !.new = new, !.prior = prior, !.seen = {},
                       !.status = st] \in JobRec
    BY <1>0, <2>1 DEF JobRec
  <2>4. waived' \in BOOLEAN
    BY <1>11, Zenon DEF Decide
  <2> QED BY <1>11, <2>2, <2>3, <2>4 DEF Decide
<1>12. CASE Record(w)
  <2>1. job[w].status \in ScanStatus /\ [job[w] EXCEPT !.pc = "persist"] \in JobRec
    BY <1>0, <1>1 DEF JobRec
  <2>2. prscan' \in [ScanId -> ScanStatus]
    BY <1>12, <2>1, SetScanType DEF Record
  <2>3. job' \in [Workers -> JobRec]
    BY <1>3, <1>12, <2>1 DEF Record
  <2> QED BY <1>12, <2>2, <2>3 DEF Record
<1>13. ASSUME NEW page \in SUBSET Vulns, Persist(w, page)
       PROVE  GuardTypes'
  <2>1. [job[w] EXCEPT !.pc = "post", !.new = {}, !.prior = {}] \in JobRec
    BY <1>0 DEF JobRec
  <2>2. row' \in [RowId -> IgnoreStatus]
    BY <1>13 DEF Persist, IgnoreStatus
  <2>3. job' \in [Workers -> JobRec]
    BY <1>3, <1>13, <2>1 DEF Persist
  <2> QED BY <1>13, <2>2, <2>3 DEF Persist
<1>14. CASE Post(w)
  <2>1. gh' \in [Commits -> {"none", "pending", "success", "failure"}]
    BY <1>14 DEF Post, CommitState
  <2>2. waived' \in BOOLEAN
    BY <1>14, Zenon DEF Post
  <2> QED BY <1>3, <1>14, <2>1, <2>2 DEF Post
<1>15. CASE PostFails(w)
  BY <1>3, <1>15 DEF PostFails
<1>16. CASE Fail(w)
  BY <1>1, <1>3, <1>16, SetScanType DEF Fail
<1>17. CASE Ack(w)
  BY <1>17, IdleTypes DEF Ack
<1>18. CASE Crash(w) \/ Redeliver(w) \/ RequestLost(w)
  BY <1>0, <1>18, IdleTypes DEF Crash, Redeliver, RequestLost, Unacked
<1> QED
  BY <1>4, <1>5, <1>6, <1>7, <1>8, <1>9, <1>10, <1>11, <1>12, <1>13, <1>14, <1>15, <1>16,
     <1>17, <1>18 DEF WorkerStep, WorkerFault

\* So does every step of a reviewer.
LEMMA ReviewTypes ==
  ASSUME GuardTypes, DecidesOnRow, NEW r \in Reviewers,
         \/ ReviewStep(r) \/ ReviewFails(r)
         \/ \E f \in RowId : Approve(r, f) \/ Revoke(r, f)
         \/ \E s \in ScanId : Override(r, s)
  PROVE  GuardTypes'
<1> USE DEF GuardTypes
<1>0. rev[r] \in RevRec
  OBVIOUS
<1>1. {"overridden", "passed", "blocked"} \subseteq ScanStatus
  BY DEF ScanStatus
<1>2. ASSUME NEW f \in RowId, Approve(r, f)
      PROVE  GuardTypes'
  <2>1. [rev[r] EXCEPT !.pc = "sync", !.row = f, !.kind = "approve"] \in RevRec
    BY <1>0 DEF RevRec
  <2>2. row' \in [RowId -> IgnoreStatus] /\ f[3] \in Vulns
    BY <1>2 DEF Approve, IgnoreStatus, RowId
  <2> QED BY <1>2, <2>1, <2>2 DEF Approve
<1>3. ASSUME NEW f \in RowId, Revoke(r, f)
      PROVE  GuardTypes'
  <2>1. [rev[r] EXCEPT !.pc = "sync", !.row = f, !.kind = "revoke"] \in RevRec
    BY <1>0 DEF RevRec
  <2>2. row' \in [RowId -> IgnoreStatus]
    BY <1>3 DEF Revoke, IgnoreStatus
  <2> QED BY <1>3, <2>1, <2>2 DEF Revoke
<1>4. CASE Sync(r)
  <2>1. \A state \in MainState : \A kind : Synced(state, kind) \in MainState
    BY DEF Synced, MainState
  <2>2. main' \in [Vulns -> MainState]
    BY <1>4, <2>1 DEF Sync
  <2>3. rev' \in [Reviewers -> RevRec]
    <3>1. rev[r].row \in RowId
      BY <1>4 DEF Sync, DecidesOnRow
    <3>2. prscan[rev[r].row[1]] \in ScanStatus
      BY <3>1 DEF RowId
    <3>3. [rev[r] EXCEPT !.pc = "recompute", !.status = prscan[rev[r].row[1]]] \in RevRec
      BY <1>0, <3>2 DEF RevRec
    <3> QED BY <1>4, <3>3 DEF Sync
  <2> QED BY <1>4, <2>2, <2>3 DEF Sync
<1>5. CASE RecomputeDecide(r)
  <2>1. (StillOpen(rev[r].row[1]) # {}) \in BOOLEAN
    OBVIOUS
  <2>2. [rev[r] EXCEPT !.pc = "write", !.blocked = StillOpen(rev[r].row[1]) # {}] \in RevRec
    BY <1>0, <2>1, Zenon DEF RevRec
  <2> QED BY <1>5, <2>2, IdleTypes DEF RecomputeDecide
<1>6. CASE RecomputeWrite(r)
  <2>1. [rev[r] EXCEPT !.pc = "post"] \in RevRec
    BY <1>0 DEF RevRec
  <2>2. prscan' \in [ScanId -> ScanStatus]
    BY <1>1, <1>6, SetScanType DEF RecomputeWrite
  <2> QED BY <1>6, <2>1, <2>2 DEF RecomputeWrite
<1>7. CASE RecomputePost(r)
  <2>1. gh' \in [Commits -> {"none", "pending", "success", "failure"}]
    BY <1>7 DEF RecomputePost, CommitState
  <2>2. waived' \in BOOLEAN
    BY <1>7, Zenon DEF RecomputePost
  <2> QED BY <1>7, <2>1, <2>2, IdleTypes DEF RecomputePost
<1>8. CASE OverridePost(r)
  BY <1>8, IdleTypes DEF OverridePost
<1>9. CASE ReviewFails(r)
  BY <1>9, IdleTypes DEF ReviewFails
<1>10. ASSUME NEW s \in ScanId, Override(r, s)
       PROVE  GuardTypes'
  <2>1. [rev[r] EXCEPT !.pc = "override"] \in RevRec
    BY <1>0 DEF RevRec
  <2>2. prscan' \in [ScanId -> ScanStatus]
    BY <1>1, <1>10, SetScanType DEF Override
  <2> QED BY <1>10, <2>1, <2>2 DEF Override
<1> QED
  BY <1>2, <1>3, <1>4, <1>5, <1>6, <1>7, <1>8, <1>9, <1>10 DEF ReviewStep

\* So do requests, rejections, retries and the stale sweep.
LEMMA RequestTypes ==
  ASSUME GuardTypes,
         \/ \E f \in RowId : Request(f) \/ Reject(f)
         \/ \E s \in ScanId : Retry(s) \/ MarkStale(s)
  PROVE  GuardTypes'
<1> USE DEF GuardTypes
<1>1. ASSUME NEW f \in RowId, Request(f) \/ Reject(f)
      PROVE  GuardTypes'
  <2>1. row' \in [RowId -> IgnoreStatus]
    BY <1>1 DEF Request, Reject, SubmitIgnoreRequest, IgnoreStatus
  <2> QED BY <1>1, <2>1 DEF Request, Reject
<1>2. ASSUME NEW s \in ScanId, Retry(s) \/ MarkStale(s)
      PROVE  GuardTypes'
  <2>1. "error" \in ScanStatus /\ 0 \in Message
    BY GuardrailAssumption DEF ScanStatus, Message
  <2>2. prscan' \in [ScanId -> ScanStatus]
    BY <1>2, <2>1, SetScanType DEF Retry, MarkStale
  <2> QED BY <1>2, <2>1, <2>2 DEF Retry, MarkStale
<1> QED BY <1>1, <1>2

\* Every step keeps the types.
LEMMA StepTypes ==
  ASSUME GuardTypes, DecidesOnRow, [Next]_vars
  PROVE  GuardTypes'
<1>1. CASE UNCHANGED vars
  BY <1>1 DEF vars, GuardTypes
<1>2. CASE People
  BY <1>2, WorkerTypes, ReviewTypes, RequestTypes DEF People
<1>3. CASE Next /\ ~People
  BY <1>3, OutsideTypes, WorkerTypes, ReviewTypes DEF Next, Modes
<1> QED BY <1>1, <1>2, <1>3

-----------------------------------------------------------------------------
(* Approvals go back to a reviewer.                                        *)

\* What the verdict step of a run writes.
NewOf(w) == IF baseline THEN {v \in job[w].seen : main[v] # "Open"} ELSE {}

PriorOf(w) == {v \in NewOf(w) : Approved(v)}

\* Workers keep it: what a run stamps as approved was approved before.
LEMMA WorkerHuman ==
  ASSUME HumanInv, GuardTypes', NEW w \in Workers,
         WorkerStep(w) \/ WorkerFault(w) \/ OnDemand(w)
  PROVE  HumanInv'
<1>0. job \in [Workers -> JobRec] /\ job[w] \in JobRec /\ row \in [RowId -> IgnoreStatus]
  BY DEF HumanInv, GuardTypes
<1>1. ASSUME NEW q, job' = [job EXCEPT ![w] = q], q.prior \subseteq granted,
             UNCHANGED <<main, row, rev, granted>>
      PROVE  HumanInv'
  <2>1. CarriedIsGranted'
    BY <1>0, <1>1 DEF HumanInv, CarriedIsGranted
  <2> QED BY <1>1, <2>1 DEF HumanInv, ApprovalsAreHuman, DecidesOnRow
<1>2. IdleJob.prior = {} /\ \A m, b : [IdleJob EXCEPT !.pc = "ack", !.msg = m, !.web = b].prior = {}
  BY DEF IdleJob
<1>3. job[w].prior \subseteq granted
  BY DEF HumanInv, CarriedIsGranted
<1>4. ASSUME NEW m, NEW b, Gate(w, m, b), UNCHANGED <<main, row, rev, granted>>
      PROVE  HumanInv'
  <2> DEFINE q == [IdleJob EXCEPT !.pc = IF active /\ mode # "disabled" THEN "fetch"
                                         ELSE "discard",
                                  !.msg = m, !.web = b, !.scan = m, !.mode = mode]
  <2>1. q.prior = {}
    BY DEF IdleJob
  <2>2. job' = [job EXCEPT ![w] = q]
    BY <1>4 DEF Gate
  <2> HIDE DEF q
  <2> QED BY <1>1, <1>4, <2>1, <2>2
<1>5. ASSUME Return(w), UNCHANGED <<main, row, rev, granted>>
      PROVE  HumanInv'
  BY <1>1, <1>2, <1>5 DEF Return
<1>6. ASSUME NEW m, Start(w, m)
      PROVE  HumanInv'
  BY <1>4, <1>6 DEF Start
<1>7. CASE OnDemand(w)
  BY <1>4, <1>7 DEF OnDemand
<1>8. CASE Discard(w) \/ FetchFails(w) \/ Post(w) \/ PostFails(w) \/ Fail(w)
  BY <1>5, <1>8 DEF Discard, FetchFails, Post, PostFails, Fail
<1>9. ASSUME NEW s, Fetch(w, s)
      PROVE  HumanInv'
  <2>1. [job[w] EXCEPT !.pc = "clone", !.scan = s, !.sha = head].prior = job[w].prior
    BY <1>0 DEF JobRec
  <2> QED BY <1>1, <1>3, <1>9, <2>1 DEF Fetch
<1>10. ASSUME NEW seen, \/ CloneAndScan(w) /\ seen = tree[head]
                        \/ ScanPartly(w, seen)
       PROVE  HumanInv'
  <2>1. [job[w] EXCEPT !.pc = "decide", !.seen = seen].prior = job[w].prior
    BY <1>0 DEF JobRec
  <2> QED BY <1>1, <1>3, <1>10, <2>1 DEF CloneAndScan, ScanPartly
<1>11. CASE Decide(w)
  <2> DEFINE st == IF (NewOf(w) \ PriorOf(w)) \cap Blocking # {} THEN "blocked" ELSE "passed"
             q  == [job[w] EXCEPT !.pc = "record", !.new = NewOf(w), !.prior = PriorOf(w),
                                  !.seen = {}, !.status = st]
  <2>1. job' = [job EXCEPT ![w] = q]
    BY <1>11 DEF Decide, NewOf, PriorOf
  <2>2. q.prior = PriorOf(w)
    BY <1>0 DEF JobRec
  <2>3. PriorOf(w) \subseteq granted
    BY DEF PriorOf, Approved, HumanInv, ApprovalsAreHuman
  <2> HIDE DEF q
  <2> QED BY <1>1, <1>11, <2>1, <2>2, <2>3, ZenonT(60) DEF Decide
<1>12. CASE Record(w)
  <2>1. [job[w] EXCEPT !.pc = "persist"].prior = job[w].prior
    BY <1>0 DEF JobRec
  <2>2. CASE Return(w)
    BY <1>5, <1>12, <2>2 DEF Record
  <2>3. CASE job' = [job EXCEPT ![w].pc = "persist"]
    BY <1>1, <1>3, <1>12, <2>1, <2>3 DEF Record
  <2> QED BY <1>12, <2>2, <2>3 DEF Record
<1>13. ASSUME NEW page, Persist(w, page)
       PROVE  HumanInv'
  <2>0. CASE Gone(w)
    BY <1>5, <1>13, <2>0 DEF Persist
  <2> SUFFICES ASSUME ~Gone(w) PROVE HumanInv'
    BY <2>0
  <2>1. [job[w] EXCEPT !.pc = "post", !.new = {}, !.prior = {}].prior = {}
    BY <1>0 DEF JobRec
  <2>2. CarriedIsGranted'
    BY <1>0, <1>13, <2>1 DEF Persist, HumanInv, CarriedIsGranted
  <2>3. \A f \in RowId : /\ row'[f] = "approved" => row[f] = "approved" \/ f[3] \in job[w].prior
                         /\ row'[f] = "absent" => row[f] = "absent"
    BY <1>0, <1>13 DEF Persist
  <2>4. ApprovalsAreHuman'
    BY <1>3, <1>13, <2>3 DEF Persist, HumanInv, ApprovalsAreHuman
  <2>5. DecidesOnRow'
    BY <1>13, <2>3 DEF Persist, HumanInv, DecidesOnRow
  <2> QED BY <2>2, <2>4, <2>5 DEF HumanInv
<1>14. CASE Ack(w) \/ Crash(w) \/ RequestLost(w)
  BY <1>1, <1>2, <1>14 DEF Ack, Crash, RequestLost
<1>15. CASE Redeliver(w)
  BY <1>15 DEF Redeliver, HumanInv, ApprovalsAreHuman, CarriedIsGranted, DecidesOnRow
<1> QED
  BY <1>6, <1>7, <1>8, <1>9, <1>10, <1>11, <1>12, <1>13, <1>14, <1>15
     DEF WorkerStep, WorkerFault

\* Reviewers keep it: only an approval makes a finding an accepted risk.
LEMMA ReviewHuman ==
  ASSUME HumanInv, GuardTypes', NEW r \in Reviewers,
         \/ ReviewStep(r) \/ ReviewFails(r)
         \/ \E f \in RowId : Approve(r, f) \/ Revoke(r, f)
         \/ \E s \in ScanId : Override(r, s)
  PROVE  HumanInv'
<1>0. /\ rev \in [Reviewers -> RevRec] /\ rev[r] \in RevRec /\ row \in [RowId -> IgnoreStatus]
      /\ main \in [Vulns -> MainState]
  BY DEF HumanInv, GuardTypes
<1>1. ASSUME NEW q, rev' = [rev EXCEPT ![r] = q], q.pc \notin {"sync", "recompute"},
             UNCHANGED <<main, row, job, granted>>
      PROVE  HumanInv'
  <2>1. DecidesOnRow'
    BY <1>0, <1>1 DEF HumanInv, DecidesOnRow
  <2> QED BY <1>1, <2>1 DEF HumanInv, ApprovalsAreHuman, CarriedIsGranted
<1>2. IdleRev.pc = "idle"
  BY DEF IdleRev
<1>3. ASSUME NEW f \in RowId, Approve(r, f)
      PROVE  HumanInv'
  <2>1. /\ rev'[r].pc = "sync" /\ rev'[r].row = f
        /\ \A x \in Reviewers : x # r => rev'[x] = rev[x]
        /\ row' = [row EXCEPT ![f] = "approved"] /\ granted' = granted \cup {f[3]}
        /\ UNCHANGED <<main, job>>
    BY <1>0, <1>3 DEF Approve, RevRec
  <2>2. ApprovalsAreHuman'
    BY <1>0, <2>1 DEF HumanInv, ApprovalsAreHuman
  <2>3. DecidesOnRow'
    BY <1>0, <2>1 DEF HumanInv, DecidesOnRow
  <2>4. CarriedIsGranted'
    BY <2>1 DEF HumanInv, CarriedIsGranted
  <2> QED BY <2>2, <2>3, <2>4 DEF HumanInv
<1>4. ASSUME NEW f \in RowId, Revoke(r, f)
      PROVE  HumanInv'
  <2>1. /\ rev'[r].pc = "sync" /\ rev'[r].row = f /\ rev'[r].kind = "revoke"
        /\ \A x \in Reviewers : x # r => rev'[x] = rev[x]
        /\ row' = [row EXCEPT ![f] = "revoked"] /\ UNCHANGED <<main, job, granted>>
    BY <1>0, <1>4 DEF Revoke, RevRec
  <2>2. ApprovalsAreHuman'
    BY <1>0, <2>1 DEF HumanInv, ApprovalsAreHuman
  <2>3. DecidesOnRow'
    BY <1>0, <2>1 DEF HumanInv, DecidesOnRow
  <2>4. CarriedIsGranted'
    BY <2>1 DEF HumanInv, CarriedIsGranted
  <2> QED BY <2>2, <2>3, <2>4 DEF HumanInv
<1>5. CASE Sync(r)
  <2> DEFINE v == rev[r].row[3]
  <2>1. /\ rev'[r].pc = "recompute" /\ rev'[r].row = rev[r].row /\ rev[r].pc = "sync"
        /\ \A x \in Reviewers : x # r => rev'[x] = rev[x]
        /\ main' = [main EXCEPT ![v] = Synced(main[v], rev[r].kind)]
        /\ UNCHANGED <<row, job, granted>>
    BY <1>0, <1>5 DEF Sync, RevRec
  <2>2. Synced(main[v], rev[r].kind) = "Accepted Risk" =>
          rev[r].kind = "approve" \/ main[v] = "Accepted Risk"
    BY DEF Synced
  <2>3. rev[r].kind = "approve" => v \in granted
    BY <2>1 DEF HumanInv, DecidesOnRow
  <2> HIDE DEF v
  <2>4. ApprovalsAreHuman'
    BY <1>0, <2>1, <2>2, <2>3 DEF HumanInv, ApprovalsAreHuman
  <2>5. DecidesOnRow'
    BY <2>1 DEF HumanInv, DecidesOnRow
  <2>6. CarriedIsGranted'
    BY <2>1 DEF HumanInv, CarriedIsGranted
  <2> QED BY <2>4, <2>5, <2>6 DEF HumanInv
<1>6. CASE RecomputeDecide(r)
  <2>1. [rev[r] EXCEPT !.pc = "write", !.blocked = StillOpen(rev[r].row[1]) # {}].pc = "write"
    BY <1>0 DEF RevRec
  <2> QED BY <1>1, <1>2, <1>6, <2>1 DEF RecomputeDecide
<1>7. CASE RecomputeWrite(r)
  <2>1. [rev[r] EXCEPT !.pc = "post"].pc = "post"
    BY <1>0 DEF RevRec
  <2> QED BY <1>1, <1>7, <2>1 DEF RecomputeWrite
<1>8. CASE RecomputePost(r) \/ OverridePost(r) \/ ReviewFails(r)
  BY <1>1, <1>2, <1>8 DEF RecomputePost, OverridePost, ReviewFails
<1>9. ASSUME NEW s, Override(r, s)
      PROVE  HumanInv'
  <2>1. [rev[r] EXCEPT !.pc = "override"].pc = "override"
    BY <1>0 DEF RevRec
  <2> QED BY <1>1, <1>9, <2>1 DEF Override
<1> QED
  BY <1>3, <1>4, <1>5, <1>6, <1>7, <1>8, <1>9 DEF ReviewStep

\* So do all the others: a request or a rejection approves nothing.
LEMMA OthersHuman ==
  ASSUME HumanInv, GuardTypes',
         \/ \E vs : PushCommit(vs)
         \/ Deliver \/ HookFault
         \/ \E c : EventAgain(c)
         \/ \E on, m : Switch(on, m)
         \/ \E f \in RowId : Request(f) \/ Reject(f)
         \/ \E s : Retry(s) \/ MarkStale(s)
  PROVE  HumanInv'
<1>1. ASSUME NEW f \in RowId, Request(f) \/ Reject(f)
      PROVE  HumanInv'
  <2>1. /\ row' = [row EXCEPT ![f] = "requested"] \/ row' = [row EXCEPT ![f] = "rejected"]
        /\ UNCHANGED <<main, job, rev, granted>>
    BY <1>1 DEF Request, Reject, SubmitIgnoreRequest
  <2>2. row \in [RowId -> IgnoreStatus]
    BY DEF HumanInv, GuardTypes
  <2>3. \A x \in RowId : /\ row'[x] = "approved" => row[x] = "approved"
                         /\ row'[x] = "absent" => row[x] = "absent"
    BY <2>1, <2>2
  <2> QED BY <2>1, <2>3 DEF HumanInv, ApprovalsAreHuman, CarriedIsGranted, DecidesOnRow
<1>2. ASSUME UNCHANGED <<main, row, job, rev, granted>>
      PROVE  HumanInv'
  BY <1>2 DEF HumanInv, ApprovalsAreHuman, CarriedIsGranted, DecidesOnRow
<1>3. Deliver \/ HookFault => UNCHANGED <<main, row, job, rev, granted>>
  BY DEF Deliver, HookFault, PullRequest, PendingStatus, PendingFails, Publish, HookLost
<1> QED
  BY <1>1, <1>2, <1>3 DEF PushCommit, EventAgain, Switch, Retry, MarkStale

\* The invariant is inductive.
LEMMA StepHuman == HumanInv /\ [Next]_vars => HumanInv'
<1> SUFFICES ASSUME HumanInv, [Next]_vars PROVE HumanInv'
  OBVIOUS
<1>0. GuardTypes'
  BY StepTypes DEF HumanInv
<1>1. CASE UNCHANGED vars
  BY <1>0, <1>1 DEF vars, HumanInv, ApprovalsAreHuman, CarriedIsGranted, DecidesOnRow
<1>2. CASE People
  BY <1>0, <1>2, WorkerHuman, ReviewHuman, OthersHuman DEF People
<1>3. CASE Next /\ ~People
  BY <1>0, <1>3, WorkerHuman, ReviewHuman, OthersHuman DEF Next
<1> QED BY <1>1, <1>2, <1>3

\* Every variable keeps its type and every approval its author.
LEMMA HumanInvariant == Spec => []HumanInv
<1>1. Init => HumanInv
  <2> SUFFICES ASSUME Init PROVE HumanInv
    OBVIOUS
  <2>1. IdleJob.prior = {} /\ IdleRev.pc = "idle"
    BY DEF IdleJob, IdleRev
  <2> QED
    BY <2>1, InitTypes
       DEF Init, HumanInv, ApprovalsAreHuman, CarriedIsGranted, DecidesOnRow
<1> QED BY <1>1, StepHuman, PTL DEF Spec

\* No rerun, request, crash or early exit of the gate approves a finding: what
\* is approved or accepted as a risk, a reviewer approved.
THEOREM ApprovalsAreHumanHolds == Spec => []ApprovalsAreHuman
<1>1. HumanInv => ApprovalsAreHuman
  BY DEF HumanInv
<1> QED BY <1>1, HumanInvariant, PTL

-----------------------------------------------------------------------------
(* The gate.                                                               *)

\* Nothing that excuses a vulnerability is ever taken back: an approval of an
\* open finding turns it into an accepted risk and grants it.
LEMMA ExcuseLasts ==
  ASSUME HumanInv, [Next]_vars, NEW v \in Vulns, Excused(v)
  PROVE  Excused(v)' /\ granted \subseteq granted'
<1>1. CASE UNCHANGED <<main, granted>>
  BY <1>1 DEF Excused
<1>2. ASSUME NEW r \in Reviewers, NEW f \in RowId, Approve(r, f)
      PROVE  Excused(v)' /\ granted \subseteq granted'
  BY <1>2 DEF Approve, Excused
<1>3. ASSUME NEW r \in Reviewers, Sync(r)
      PROVE  Excused(v)' /\ granted \subseteq granted'
  <2> DEFINE u == rev[r].row[3]
  <2>1. /\ main' = [main EXCEPT ![u] = Synced(main[u], rev[r].kind)]
        /\ granted' = granted /\ rev[r].pc = "sync"
    BY <1>3 DEF Sync
  <2>2. main[u] = "Open" => rev[r].kind = "approve" \/ Synced(main[u], rev[r].kind) = "Open"
    BY DEF Synced
  <2>3. rev[r].kind = "approve" => u \in granted
    BY <2>1 DEF HumanInv, DecidesOnRow
  <2>4. main \in [Vulns -> MainState]
    BY DEF HumanInv, GuardTypes
  <2> HIDE DEF u
  <2> QED BY <2>1, <2>2, <2>3, <2>4 DEF Excused
<1>4. ASSUME NEW w \in Workers, WorkerStep(w) \/ WorkerFault(w) \/ OnDemand(w)
      PROVE  UNCHANGED <<main, granted>>
  BY <1>4 DEF WorkerStep, WorkerFault, Start, OnDemand, Discard, Fetch, FetchFails,
              CloneAndScan, ScanPartly, Decide, Record, Persist, Post, PostFails, Fail, Ack,
              Crash, Redeliver, RequestLost
<1>5. ASSUME NEW r \in Reviewers,
             \/ RecomputeDecide(r) \/ RecomputeWrite(r) \/ RecomputePost(r) \/ OverridePost(r)
             \/ ReviewFails(r) \/ (\E f \in RowId : Revoke(r, f))
             \/ \E s \in ScanId : Override(r, s)
      PROVE  UNCHANGED <<main, granted>>
  BY <1>5 DEF RecomputeDecide, RecomputeWrite, RecomputePost, OverridePost, ReviewFails,
              Revoke, Override
<1>6. ASSUME \/ \E vs \in SUBSET Vulns : PushCommit(vs)
             \/ Deliver \/ HookFault
             \/ \E c \in Commits : EventAgain(c)
             \/ \E on \in BOOLEAN, m \in {"block", "alert", "disabled"} : Switch(on, m)
             \/ \E f \in RowId : Request(f) \/ Reject(f)
             \/ \E s \in ScanId : Retry(s) \/ MarkStale(s)
      PROVE  UNCHANGED <<main, granted>>
  <2>1. Deliver \/ HookFault => UNCHANGED <<main, granted>>
    BY DEF Deliver, HookFault, PullRequest, PendingStatus, PendingFails, Publish, HookLost
  <2> QED BY <1>6, <2>1 DEF PushCommit, EventAgain, Switch, Request, Reject, Retry, MarkStale
<1>7. UNCHANGED vars => UNCHANGED <<main, granted>>
  BY DEF vars
<1> QED BY <1>1, <1>2, <1>3, <1>4, <1>5, <1>6, <1>7 DEF Next, People, ReviewStep

\* A step that leaves the branch alone keeps what the jobs it leaves alone know.
LEMMA JobsKept ==
  ASSUME HumanInv, HumanInv', JobsInv, [Next]_vars, UNCHANGED <<head, tree>>, waived => waived',
         \A x \in Workers :
           \/ job'[x] = job[x]
           \/ job'[x].sha = head /\ ~waived' =>
                /\ job'[x].pc = "decide" => tree[head] \subseteq job'[x].seen
                /\ job'[x].pc \in {"record", "persist"} =>
                     \A v \in tree[head] \cap Blocking : Excused(v) \/ v \in job'[x].new
                /\ job'[x].pc \in {"record", "persist", "post"} /\ job'[x].status # "blocked"
                     => HeadCovered
  PROVE  JobsInv'
<1>1. \A v \in tree[head] : v \in Vulns
  BY DEF HumanInv, GuardTypes
<1>2. \A v \in tree[head] \cap Blocking : Excused(v) => Excused(v)'
  BY <1>1, ExcuseLasts
<1>3. HeadCovered => HeadCovered'
  BY <1>2 DEF HeadCovered
<1> QED BY <1>2, <1>3 DEF JobsInv

\* ... what the rows cover, when none of them goes,
LEMMA RowsKept ==
  ASSUME HumanInv, HumanInv', StoredAll, [Next]_vars, UNCHANGED <<head, tree>>,
         waived => waived', \A f \in RowId : row'[f] = "absent" <=> row[f] = "absent"
  PROVE  StoredAll'
<1>1. \A v \in tree[head] : v \in Vulns
  BY DEF HumanInv, GuardTypes
<1>2. \A v \in tree[head] \cap Blocking : Excused(v) => Excused(v)'
  BY <1>1, ExcuseLasts
<1>3. \A s \in ScanId : Stored(s)' = Stored(s)
  BY DEF Stored
<1> QED BY <1>2, <1>3 DEF StoredAll

\* ... what the decisions rest on,
LEMMA RevsKept ==
  ASSUME HumanInv, HumanInv', RevsInv, [Next]_vars, UNCHANGED <<head, tree>>, waived => waived',
         \A x \in Reviewers :
           \/ rev'[x] = rev[x]
           \/ /\ rev'[x].pc \in {"write", "post"} /\ ~rev'[x].blocked /\ head = 0 /\ ~waived'
                   => HeadCovered
              /\ rev'[x].pc = "override" => waived'
  PROVE  RevsInv'
<1>1. \A v \in tree[head] : v \in Vulns
  BY DEF HumanInv, GuardTypes
<1>2. HeadCovered => HeadCovered'
  BY <1>1, ExcuseLasts DEF HeadCovered
<1> QED BY <1>2 DEF RevsInv

\* ... and what the status of the head commit says.
LEMMA StatusKept ==
  ASSUME HumanInv, HumanInv', GateHolds, [Next]_vars, UNCHANGED <<head, tree>>,
         waived => waived',
         \/ gh'[head] = gh[head]
         \/ gh'[head] = "success" /\ ~waived' => HeadCovered
  PROVE  GateHolds'
<1>1. \A v \in tree[head] : v \in Vulns
  BY DEF HumanInv, GuardTypes
<1>2. HeadCovered => HeadCovered'
  BY <1>1, ExcuseLasts DEF HeadCovered
<1>3. GateHolds <=> (gh[head] = "success" /\ ~waived => HeadCovered)
  BY DEF GateHolds, HeadCovered, Excused
<1>4. GateHolds' <=> (gh'[head'] = "success" /\ ~waived' => HeadCovered')
  BY DEF GateHolds, HeadCovered, Excused
<1> QED BY <1>2, <1>3, <1>4

\* A push makes the head a commit nobody has scanned; events come and go.
LEMMA OutsideGate ==
  ASSUME HumanInv, HumanInv', GateInv, [Next]_vars,
         \/ \E vs \in SUBSET Vulns : PushCommit(vs)
         \/ Deliver \/ HookFault
         \/ \E c \in Commits : EventAgain(c)
         \/ \E on, m : Switch(on, m)
  PROVE  GateInv'
<1>0. /\ head \in Nat /\ \A w \in Workers : job[w].sha \in Nat
      /\ gh \in [Commits -> {"none", "pending", "success", "failure"}]
      /\ \A c \in Commits : c \in Nat
  BY GuardrailAssumption DEF HumanInv, GuardTypes, JobRec, Commits
<1>5. \A h \in hooks : /\ h.sha \in Nat /\ h.sha \in Commits /\ h.sha <= head
                      /\ [h EXCEPT !.pc = "publish"].sha = h.sha
  BY <1>0 DEF HumanInv, GuardTypes, Hook, GateInv, NotAhead
<1>6. head \in Commits
  BY DEF HumanInv, GuardTypes
<1>1. ASSUME NEW vs \in SUBSET Vulns, PushCommit(vs)
      PROVE  GateInv'
  <2>1. /\ head' = head + 1 /\ head + 1 \in Commits /\ events' = events \cup {head + 1}
        /\ UNCHANGED <<gh, hooks, job, rev, row, waived>>
    BY <1>0, <1>1, GuardrailAssumption DEF PushCommit, Commits
  <2>2. NotAhead'
    <3>1. \A c \in Commits : c > head' => c > head
      BY <1>0, <2>1
    <3>2. \A c \in events' : c <= head'
      BY <1>0, <2>1 DEF GateInv, NotAhead, HumanInv, GuardTypes
    <3>3. \A w \in Workers : job'[w].sha <= head'
      BY <1>0, <2>1 DEF GateInv, NotAhead
    <3>4. \A h \in hooks' : h.sha <= head'
      BY <1>0, <1>5, <2>1 DEF GateInv, NotAhead
    <3> QED BY <2>1, <3>1, <3>2, <3>3, <3>4 DEF GateInv, NotAhead
  <2>3. JobsInv'
    <3>1. \A w \in Workers : job'[w].sha # head'
      BY <1>0, <2>1 DEF GateInv, NotAhead
    <3> QED BY <3>1 DEF JobsInv
  <2>4. StoredAll' /\ RevsInv'
    BY <1>0, <2>1 DEF StoredAll, RevsInv, GateInv
  <2>5. GateHolds'
    <3>1. gh[head + 1] = "none"
      BY <1>0, <2>1 DEF GateInv, NotAhead
    <3> QED BY <2>1, <3>1 DEF GateHolds
  <2> QED BY <2>2, <2>3, <2>4, <2>5 DEF GateInv
<1>2. ASSUME NEW c \in Commits, NEW s \in ScanId, PullRequest(c, s)
      PROVE  GateInv'
  <2>1. /\ c \in events /\ events' \subseteq events
        /\ \A h \in hooks' : h \in hooks \/ h.sha = c
        /\ UNCHANGED <<head, tree, gh, job, rev, row, waived>>
    BY <1>2 DEF PullRequest
  <2>2. NotAhead'
    BY <2>1 DEF GateInv, NotAhead
  <2> QED BY <2>1, <2>2, JobsKept, RowsKept, RevsKept, StatusKept DEF GateInv
<1>3. ASSUME NEW c \in Commits, EventAgain(c)
      PROVE  GateInv'
  <2>1. /\ c <= head /\ events' = events \cup {c}
        /\ UNCHANGED <<head, tree, gh, hooks, job, rev, row, waived>>
    BY <1>3 DEF EventAgain
  <2>2. NotAhead'
    BY <2>1 DEF GateInv, NotAhead
  <2> QED
    BY <2>1, <2>2, JobsKept, RowsKept, RevsKept, StatusKept DEF GateInv
<1>4. ASSUME NEW on, NEW m, Switch(on, m)
      PROVE  GateInv'
  <2>1. UNCHANGED <<head, tree, gh, events, hooks, job, rev, row, waived>>
    BY <1>4 DEF Switch
  <2>2. NotAhead'
    BY <2>1 DEF GateInv, NotAhead
  <2> QED
    BY <2>1, <2>2, JobsKept, RowsKept, RevsKept, StatusKept DEF GateInv
<1>7. ASSUME NEW h \in hooks, PendingStatus(h)
      PROVE  GateInv'
  <2>1. /\ gh' = [gh EXCEPT ![h.sha] = "pending"]
        /\ \A k \in hooks' : k.sha <= head
        /\ UNCHANGED <<head, tree, events, job, rev, row, waived>>
    BY <1>5, <1>7 DEF PendingStatus
  <2>2. \A d \in Commits : d > head => d # h.sha
    BY <1>0, <1>5
  <2>3. \A d \in Commits : d > head => gh'[d] = "none"
    BY <1>0, <2>1, <2>2 DEF GateInv, NotAhead
  <2>4. NotAhead'
    BY <2>1, <2>3 DEF GateInv, NotAhead
  <2>5. gh'[head] = gh[head] \/ gh'[head] = "pending"
    BY <1>0, <1>6, <2>1
  <2> QED BY <2>1, <2>4, <2>5, JobsKept, RowsKept, RevsKept, StatusKept DEF GateInv
<1>8. ASSUME NEW h \in hooks, PendingFails(h) \/ Publish(h) \/ HookLost(h)
      PROVE  GateInv'
  <2>1. /\ \A k \in hooks' : k.sha <= head
        /\ UNCHANGED <<head, tree, gh, events, job, rev, row, waived>>
    BY <1>5, <1>8 DEF PendingFails, Publish, HookLost
  <2>2. NotAhead'
    BY <2>1 DEF GateInv, NotAhead
  <2> QED BY <2>1, <2>2, JobsKept, RowsKept, RevsKept, StatusKept DEF GateInv
<1> QED BY <1>1, <1>2, <1>3, <1>4, <1>7, <1>8 DEF Deliver, HookFault

\* A worker's step between its steps that decide something.
LEMMA JobRests ==
  ASSUME HumanInv, HumanInv', GateInv, [Next]_vars, NEW w \in Workers, NEW q,
         job' = [job EXCEPT ![w] = q], q.pc \notin {"decide", "record", "persist", "post"},
         q.sha <= head, waived => waived',
         UNCHANGED <<head, tree, row, gh, events, hooks, rev>>
  PROVE  GateInv'
<1>1. job'[w] = q /\ \A x \in Workers : x # w => job'[x] = job[x]
  BY DEF HumanInv, GuardTypes
<1>2. NotAhead'
  BY <1>1 DEF GateInv, NotAhead
<1>3. JobsInv'
  BY <1>1, JobsKept DEF GateInv
<1> QED BY <1>2, <1>3, RowsKept, RevsKept, StatusKept DEF GateInv

\* The verdict: what is left after the default branch and earlier approvals.
LEMMA DecideGate ==
  ASSUME HumanInv, HumanInv', GateInv, [Next]_vars, NEW w \in Workers, Decide(w)
  PROVE  GateInv'
<1> DEFINE st == IF (NewOf(w) \ PriorOf(w)) \cap Blocking # {} THEN "blocked" ELSE "passed"
           q  == [job[w] EXCEPT !.pc = "record", !.new = NewOf(w), !.prior = PriorOf(w),
                                !.seen = {}, !.status = st]
<1>0. job \in [Workers -> JobRec] /\ job[w] \in JobRec
  BY DEF HumanInv, GuardTypes
<1>1. /\ job' = [job EXCEPT ![w] = q] /\ job[w].pc = "decide"
      /\ UNCHANGED <<head, tree, row, gh, events, hooks, rev>>
  BY DEF Decide, NewOf, PriorOf
<1>2. ~waived' => baseline /\ ~waived
  BY DEF Decide
<1>3. q.pc = "record" /\ q.new = NewOf(w) /\ q.sha = job[w].sha /\ q.status = st
  BY <1>0 DEF JobRec
<1>4. job'[w] = q /\ \A x \in Workers : x # w => job'[x] = job[x]
  BY <1>0, <1>1
<1>5. ASSUME job[w].sha = head, ~waived', NEW v \in tree[head] \cap Blocking
      PROVE  Excused(v) \/ v \in NewOf(w)
  <2>1. v \in job[w].seen
    BY <1>1, <1>2, <1>5 DEF GateInv, JobsInv
  <2> QED BY <1>2, <1>5, <2>1 DEF NewOf, Excused
<1>6. \A v \in PriorOf(w) : Excused(v)
  BY DEF PriorOf, Approved, HumanInv, ApprovalsAreHuman, Excused
<1>7. ASSUME job[w].sha = head, ~waived', st # "blocked"
      PROVE  HeadCovered
  <2>1. (NewOf(w) \ PriorOf(w)) \cap Blocking = {}
    BY <1>7
  <2> QED BY <1>5, <1>6, <1>7, <2>1 DEF HeadCovered
<1> HIDE DEF q, st
<1>8. NotAhead'
  BY <1>1, <1>3, <1>4 DEF GateInv, NotAhead
<1>9. waived => waived'
  BY <1>2
<1>10. JobsInv'
  BY <1>1, <1>3, <1>4, <1>5, <1>7, <1>9, JobsKept DEF GateInv
<1> QED BY <1>1, <1>8, <1>9, <1>10, RowsKept, RevsKept, StatusKept DEF GateInv

\* The rows: with a cap that is not reached, the page is all of it.
LEMMA PersistGate ==
  ASSUME Cardinality(Vulns) <= Cap, HumanInv, HumanInv', GateInv, [Next]_vars,
         NEW w \in Workers, NEW page \in SUBSET Vulns, Persist(w, page), ~Gone(w)
  PROVE  GateInv'
<1> DEFINE q == [job[w] EXCEPT !.pc = "post", !.new = {}, !.prior = {}]
           s == job[w].scan
           n == NextCopy(s)
<1>0. /\ job \in [Workers -> JobRec] /\ job[w] \in JobRec /\ job[w].new \subseteq Vulns
      /\ row \in [RowId -> IgnoreStatus]
  BY DEF HumanInv, GuardTypes, JobRec
<1>1. /\ job' = [job EXCEPT ![w] = q] /\ job[w].pc = "persist" /\ page \subseteq job[w].new
      /\ Cardinality(page) = (IF Cardinality(job[w].new) > Cap THEN Cap
                              ELSE Cardinality(job[w].new))
      /\ row' = [f \in RowId |->
                   IF f[1] = s /\ f[2] = n /\ f[3] \in page
                   THEN IF f[3] \in job[w].prior THEN "approved" ELSE "none"
                   ELSE row[f]]
      /\ UNCHANGED <<head, tree, gh, events, hooks, rev, waived>>
  BY DEF Persist
<1>2. page = job[w].new
  <2>1. IsFiniteSet(job[w].new) /\ Cardinality(job[w].new) <= Cardinality(Vulns)
    BY <1>0, FS_Subset, GuardrailAssumption
  <2>2. Cardinality(Vulns) \in Nat /\ Cardinality(job[w].new) \in Nat
    BY <2>1, FS_CardinalityType, GuardrailAssumption
  <2>3. Cardinality(page) = Cardinality(job[w].new)
    BY <1>1, <2>1, <2>2, GuardrailAssumption
  <2> QED BY <1>1, <2>1, <2>3, FS_Subset
<1>3. q.pc = "post" /\ q.sha = job[w].sha /\ q.status = job[w].status
  BY <1>0 DEF JobRec
<1>4. job'[w] = q /\ \A x \in Workers : x # w => job'[x] = job[x]
  BY <1>0, <1>1
<1> HIDE DEF q, s, n
<1>5. NotAhead'
  BY <1>1, <1>3, <1>4 DEF GateInv, NotAhead
<1>6. JobsInv'
  BY <1>1, <1>3, <1>4, JobsKept DEF GateInv, JobsInv
<1>7. StoredAll'
  <2> SUFFICES ASSUME head = 0, ~waived, NEW z \in ScanId, Stored(z)' # {},
                      NEW v \in tree[head] \cap Blocking
               PROVE  Excused(v)' \/ \E f \in Stored(z)' : f[3] = v
    BY <1>1 DEF StoredAll
  <2>1. v \in Vulns
    BY DEF HumanInv, GuardTypes
  <2>2. Excused(v) => Excused(v)'
    BY <2>1, ExcuseLasts
  <2>3. Stored(z) \subseteq Stored(z)'
    BY <1>0, <1>1 DEF Stored
  <2>4. CASE Stored(z) # {}
    BY <2>2, <2>3, <2>4 DEF GateInv, StoredAll
  <2>5. CASE Stored(z) = {}
    <3>1. PICK f \in RowId : f[1] = z /\ row'[f] # "absent"
      BY DEF Stored
    <3>2. f \notin Stored(z)
      BY <2>5
    <3>3. f[1] = s /\ f[2] = n /\ f[3] \in page
      BY <1>0, <1>1, <3>1, <3>2 DEF Stored
    <3>4. f \in ScanId \X Copies \X Vulns
      BY DEF RowId
    <3>5. s = z /\ n \in Copies
      BY <3>1, <3>3, <3>4
    <3>6. job[w].sha = head
      <4>1. job[w].sha \in Nat /\ job[w].sha <= 0
        BY <1>0 DEF JobRec, Commits, GateInv, NotAhead
      <4> QED BY <4>1
    <3>7. Excused(v) \/ v \in page
      BY <1>1, <1>2, <3>6 DEF GateInv, JobsInv
    <3>8. v \in page => <<z, n, v>> \in Stored(z)'
      <4> SUFFICES ASSUME v \in page PROVE <<z, n, v>> \in Stored(z)'
        OBVIOUS
      <4>1. <<z, n, v>> \in RowId
        BY <2>1, <3>5 DEF RowId
      <4>2. row'[<<z, n, v>>] # "absent"
        BY <1>1, <3>5, <4>1
      <4> QED BY <4>1, <4>2 DEF Stored
    <3>9. <<z, n, v>>[3] = v
      OBVIOUS
    <3> QED BY <2>2, <3>7, <3>8, <3>9
  <2> QED BY <2>4, <2>5
<1> QED BY <1>1, <1>5, <1>6, <1>7, RevsKept, StatusKept DEF GateInv

\* Every other step of a worker keeps the gate.
LEMMA WorkerGate ==
  ASSUME Cardinality(Vulns) <= Cap, HumanInv, HumanInv', GateInv, [Next]_vars,
         NEW w \in Workers, WorkerStep(w) \/ WorkerFault(w) \/ OnDemand(w)
  PROVE  GateInv'
<1>0. /\ job \in [Workers -> JobRec] /\ job[w] \in JobRec /\ head \in Nat /\ head \in Commits
      /\ job[w].sha \in Commits /\ job[w].sha <= head
      /\ gh \in [Commits -> {"none", "pending", "success", "failure"}]
  BY GuardrailAssumption DEF HumanInv, GuardTypes, JobRec, Commits, GateInv, NotAhead
<1>1. /\ IdleJob.pc = "idle" /\ IdleJob.sha <= head
      /\ \A m, b : /\ [IdleJob EXCEPT !.pc = "ack", !.msg = m, !.web = b].pc = "ack"
                   /\ [IdleJob EXCEPT !.pc = "ack", !.msg = m, !.web = b].sha <= head
  BY <1>0 DEF IdleJob
<1>2. ASSUME NEW m, NEW b, Gate(w, m, b),
             UNCHANGED <<head, tree, row, gh, events, hooks, rev, waived>>
      PROVE  GateInv'
  <2> DEFINE q == [IdleJob EXCEPT !.pc = IF active /\ mode # "disabled" THEN "fetch"
                                         ELSE "discard",
                                  !.msg = m, !.web = b, !.scan = m, !.mode = mode]
  <2>1. q.pc \in {"fetch", "discard"} /\ q.sha <= head
    BY <1>0 DEF IdleJob
  <2>2. job' = [job EXCEPT ![w] = q]
    BY <1>2 DEF Gate
  <2> HIDE DEF q
  <2> QED BY <1>2, <2>1, <2>2, JobRests
<1>3. ASSUME Return(w), UNCHANGED <<head, tree, row, gh, events, hooks, rev, waived>>
      PROVE  GateInv'
  BY <1>1, <1>3, JobRests DEF Return
<1>4. ASSUME NEW m, Start(w, m)
      PROVE  GateInv'
  BY <1>2, <1>4 DEF Start
<1>5. CASE OnDemand(w)
  BY <1>2, <1>5 DEF OnDemand
<1>6. CASE Discard(w) \/ FetchFails(w) \/ PostFails(w) \/ Fail(w)
  BY <1>3, <1>6 DEF Discard, FetchFails, PostFails, Fail
<1>7. ASSUME NEW s, Fetch(w, s)
      PROVE  GateInv'
  <2>1. /\ [job[w] EXCEPT !.pc = "clone", !.scan = s, !.sha = head].pc = "clone"
        /\ [job[w] EXCEPT !.pc = "clone", !.scan = s, !.sha = head].sha <= head
    BY <1>0 DEF JobRec
  <2> QED BY <1>7, <2>1, JobRests DEF Fetch
<1>8. ASSUME NEW seen, \/ CloneAndScan(w) /\ seen = tree[head]
                       \/ ScanPartly(w, seen)
      PROVE  GateInv'
  <2> DEFINE q == [job[w] EXCEPT !.pc = "decide", !.seen = seen]
  <2>1. /\ job' = [job EXCEPT ![w] = q]
        /\ waived => waived'
        /\ ~waived' => seen = tree[head]
        /\ UNCHANGED <<head, tree, row, gh, events, hooks, rev>>
    <3>1. CASE CloneAndScan(w) /\ seen = tree[head]
      BY <3>1 DEF CloneAndScan
    <3>2. CASE ScanPartly(w, seen)
      BY <3>2 DEF ScanPartly
    <3> QED BY <1>8, <3>1, <3>2
  <2>2. q.pc = "decide" /\ q.sha = job[w].sha /\ q.seen = seen
    BY <1>0 DEF JobRec
  <2> HIDE DEF q
  <2>3. job'[w] = q /\ \A x \in Workers : x # w => job'[x] = job[x]
    BY <1>0, <2>1
  <2>4. NotAhead'
    BY <1>0, <2>1, <2>2, <2>3 DEF GateInv, NotAhead
  <2>5. JobsInv'
    BY <2>1, <2>2, <2>3, JobsKept DEF GateInv
  <2> QED BY <2>1, <2>4, <2>5, RowsKept, RevsKept, StatusKept DEF GateInv
<1>9. CASE Decide(w)
  BY <1>9, DecideGate
<1>10. CASE Record(w)
  <2> DEFINE q == [job[w] EXCEPT !.pc = "persist"]
  <2>0. CASE Gone(w)
    BY <1>3, <1>10, <2>0 DEF Record
  <2> SUFFICES ASSUME ~Gone(w) PROVE GateInv'
    BY <2>0
  <2>1. /\ job' = [job EXCEPT ![w] = q] /\ job[w].pc = "record"
        /\ UNCHANGED <<head, tree, row, gh, events, hooks, rev, waived>>
    BY <1>10 DEF Record
  <2>2. q.pc = "persist" /\ q.sha = job[w].sha /\ q.new = job[w].new /\ q.status = job[w].status
    BY <1>0 DEF JobRec
  <2> HIDE DEF q
  <2>3. job'[w] = q /\ \A x \in Workers : x # w => job'[x] = job[x]
    BY <1>0, <2>1
  <2>4. NotAhead'
    BY <1>0, <2>1, <2>2, <2>3 DEF GateInv, NotAhead
  <2>5. JobsInv'
    BY <2>1, <2>2, <2>3, JobsKept DEF GateInv, JobsInv
  <2> QED BY <2>1, <2>4, <2>5, RowsKept, RevsKept, StatusKept DEF GateInv
<1>11. ASSUME NEW page \in SUBSET Vulns, Persist(w, page)
       PROVE  GateInv'
  <2>1. CASE Gone(w)
    BY <1>3, <1>11, <2>1 DEF Persist
  <2> QED BY <1>11, <2>1, PersistGate
<1>12. CASE Post(w)
  <2> DEFINE q == [IdleJob EXCEPT !.pc = "ack", !.msg = job[w].msg, !.web = job[w].web]
             sha == job[w].sha
  <2>1. /\ job[w].pc = "post" /\ job' = [job EXCEPT ![w] = q]
        /\ gh' = [gh EXCEPT ![sha] = CommitState(job[w].status, job[w].mode)]
        /\ UNCHANGED <<head, tree, row, events, hooks, rev>>
    BY <1>12 DEF Post, Return
  <2>2. ~waived' => ~waived /\ job[w].mode # "alert"
    BY <1>12 DEF Post
  <2>3. q.pc = "ack" /\ q.sha <= head
    BY <1>1
  <2>4. sha = head /\ ~waived' /\ CommitState(job[w].status, job[w].mode) = "success"
          => HeadCovered
    BY <2>1, <2>2 DEF CommitState, GateInv, JobsInv
  <2>5. sha \in Commits /\ sha <= head
    BY <1>0
  <2> HIDE DEF q, sha
  <2>6. job'[w] = q /\ \A x \in Workers : x # w => job'[x] = job[x]
    BY <1>0, <2>1
  <2>7. NotAhead'
    <3>1. \A d \in Commits : d > head => d # sha
      BY <1>0, <2>5, GuardrailAssumption DEF Commits
    <3>2. \A d \in Commits : d > head => gh'[d] = "none"
      BY <1>0, <2>1, <3>1 DEF GateInv, NotAhead
    <3> QED BY <2>1, <2>3, <2>6, <3>2 DEF GateInv, NotAhead
  <2>8. waived => waived'
    BY <2>2
  <2>9. JobsInv'
    BY <2>1, <2>3, <2>6, <2>8, JobsKept DEF GateInv
  <2>10. \/ gh'[head] = gh[head]
         \/ gh'[head] = "success" /\ ~waived' => HeadCovered
    BY <1>0, <2>1, <2>4
  <2> QED BY <2>1, <2>7, <2>8, <2>9, <2>10, RowsKept, RevsKept, StatusKept DEF GateInv
<1>13. CASE Ack(w) \/ Crash(w) \/ RequestLost(w)
  BY <1>1, <1>13, JobRests DEF Ack, Crash, RequestLost
<1>14. CASE Redeliver(w)
  <2>1. UNCHANGED <<head, tree, gh, events, hooks, job, rev, row, waived>>
    BY <1>14 DEF Redeliver
  <2>2. NotAhead'
    BY <2>1 DEF GateInv, NotAhead
  <2> QED
    BY <2>1, <2>2, JobsKept, RowsKept, RevsKept, StatusKept DEF GateInv
<1> QED
  BY <1>4, <1>5, <1>6, <1>7, <1>8, <1>9, <1>10, <1>11, <1>12, <1>13, <1>14
     DEF WorkerStep, WorkerFault

\* A reviewer's step keeps the gate: a decision turns the commit green only
\* when every stored blocking row is approved, and the rows are all there is.
LEMMA ReviewGate ==
  ASSUME HumanInv, HumanInv', GateInv, [Next]_vars, NEW r \in Reviewers,
         \/ ReviewStep(r) \/ ReviewFails(r)
         \/ \E f \in RowId : Approve(r, f) \/ Revoke(r, f)
         \/ \E s \in ScanId : Override(r, s)
  PROVE  GateInv'
<1>0. /\ rev \in [Reviewers -> RevRec] /\ rev[r] \in RevRec /\ row \in [RowId -> IgnoreStatus]
      /\ gh \in [Commits -> {"none", "pending", "success", "failure"}] /\ head \in Commits
  BY DEF HumanInv, GuardTypes
<1>1. IdleRev.pc = "idle"
  BY DEF IdleRev
<1>2. ASSUME NEW q, rev' = [rev EXCEPT ![r] = q],
             /\ q.pc \in {"write", "post"} /\ ~q.blocked /\ head = 0 /\ ~waived' => HeadCovered
             /\ q.pc = "override" => waived',
             UNCHANGED <<head, tree, events, hooks, job>>, waived => waived',
             \A f \in RowId : row'[f] = "absent" <=> row[f] = "absent",
             \A c \in Commits : c # head => gh'[c] = gh[c],
             \/ gh'[head] = gh[head]
             \/ gh'[head] = "success" /\ ~waived' => HeadCovered
      PROVE  GateInv'
  <2>1. rev'[r] = q /\ \A x \in Reviewers : x # r => rev'[x] = rev[x]
    BY <1>0, <1>2
  <2>2. RevsInv'
    BY <1>2, <2>1, RevsKept DEF GateInv
  <2>3. NotAhead'
    <3>1. ~(head > head)
      BY <1>0, GuardrailAssumption DEF Commits
    <3> QED BY <1>2, <3>1 DEF GateInv, NotAhead
  <2> QED BY <1>2, <2>2, <2>3, JobsKept, RowsKept, StatusKept DEF GateInv
<1>3. ASSUME NEW f \in RowId, Approve(r, f)
      PROVE  GateInv'
  <2>1. [rev[r] EXCEPT !.pc = "sync", !.row = f, !.kind = "approve"].pc = "sync"
    BY <1>0 DEF RevRec
  <2>2. \A x \in RowId : row'[x] = "absent" <=> row[x] = "absent"
    BY <1>0, <1>3 DEF Approve
  <2> QED BY <1>2, <1>3, <2>1, <2>2 DEF Approve
<1>4. ASSUME NEW f \in RowId, Revoke(r, f)
      PROVE  GateInv'
  <2>1. [rev[r] EXCEPT !.pc = "sync", !.row = f, !.kind = "revoke"].pc = "sync"
    BY <1>0 DEF RevRec
  <2>2. \A x \in RowId : row'[x] = "absent" <=> row[x] = "absent"
    BY <1>0, <1>4 DEF Revoke
  <2> QED BY <1>2, <1>4, <2>1, <2>2 DEF Revoke
<1>5. CASE Sync(r)
  <2>1. [rev[r] EXCEPT !.pc = "recompute", !.status = prscan[rev[r].row[1]]].pc = "recompute"
    BY <1>0 DEF RevRec
  <2> QED BY <1>2, <1>5, <2>1 DEF Sync
<1>6. CASE RecomputeDecide(r)
  <2> DEFINE s == rev[r].row[1]
             b == StillOpen(s) # {}
             q == [rev[r] EXCEPT !.pc = "write", !.blocked = b]
  <2>1. /\ rev' = [rev EXCEPT ![r] = q] \/ rev' = [rev EXCEPT ![r] = IdleRev]
        /\ UNCHANGED <<head, tree, events, hooks, job, row, gh, waived>>
        /\ rev[r].pc = "recompute"
    BY <1>6 DEF RecomputeDecide
  <2>2. q.pc = "write"
    BY <1>0 DEF RevRec
  <2>3. q.blocked = b
    BY <1>0, Zenon DEF RevRec
  <2>4. rev[r].row \in Stored(s) /\ s \in ScanId
    <3>1. rev[r].row \in RowId /\ row[rev[r].row] # "absent"
      BY <2>1 DEF HumanInv, DecidesOnRow
    <3> QED BY <3>1 DEF Stored, RowId
  <2>5. ASSUME ~b, head = 0, ~waived
        PROVE  HeadCovered
    <3>1. \A f \in Stored(s) : f[3] \in Blocking => f[3] \in granted
      BY <2>5 DEF StillOpen, Stored, HumanInv, ApprovalsAreHuman
    <3>2. \A v \in tree[head] \cap Blocking : Excused(v) \/ \E f \in Stored(s) : f[3] = v
      BY <2>4, <2>5 DEF GateInv, StoredAll
    <3> QED BY <3>1, <3>2 DEF HeadCovered, Excused
  <2> HIDE DEF q, b
  <2> QED BY <1>1, <1>2, <2>1, <2>2, <2>3, <2>5
<1>7. CASE RecomputeWrite(r)
  <2>1. /\ [rev[r] EXCEPT !.pc = "post"].pc = "post"
        /\ [rev[r] EXCEPT !.pc = "post"].blocked = rev[r].blocked
    BY <1>0 DEF RevRec
  <2>2. ~rev[r].blocked /\ head = 0 /\ ~waived => HeadCovered
    BY <1>7 DEF RecomputeWrite, GateInv, RevsInv
  <2> QED BY <1>2, <1>7, <2>1, <2>2 DEF RecomputeWrite
<1>8. CASE RecomputePost(r)
  <2>1. /\ rev[r].pc = "post" /\ rev' = [rev EXCEPT ![r] = IdleRev]
        /\ UNCHANGED <<head, tree, events, hooks, job, row>>
    BY <1>8 DEF RecomputePost
  <2>2. CASE mode = "disabled"
    <3>1. UNCHANGED <<gh, waived>>
      BY <1>8, <2>2 DEF RecomputePost
    <3> QED BY <1>1, <1>2, <2>1, <3>1
  <2>3. CASE mode # "disabled"
    <3> DEFINE st == CommitState(IF rev[r].blocked THEN "blocked" ELSE "passed", mode)
    <3>1. gh' = [gh EXCEPT ![head] = st]
      BY <1>8, <2>3 DEF RecomputePost
    <3>2. ~waived' => ~waived /\ mode # "alert" /\ head = 0
      BY <1>8, <2>3 DEF RecomputePost
    <3>3. st = "success" /\ ~waived' => HeadCovered
      BY <2>1, <3>2 DEF CommitState, GateInv, RevsInv
    <3>4. gh'[head] = st /\ \A c \in Commits : c # head => gh'[c] = gh[c]
      BY <1>0, <3>1
    <3> HIDE DEF st
    <3>5. waived => waived'
      BY <3>2
    <3> QED BY <1>1, <1>2, <2>1, <3>3, <3>4, <3>5
  <2> QED BY <2>2, <2>3
<1>9. CASE OverridePost(r)
  <2>1. waived /\ waived'
    BY <1>9 DEF OverridePost, GateInv, RevsInv
  <2> QED BY <1>0, <1>1, <1>2, <1>9, <2>1 DEF OverridePost
<1>10. CASE ReviewFails(r)
  BY <1>1, <1>2, <1>10 DEF ReviewFails
<1>11. ASSUME NEW s, Override(r, s)
       PROVE  GateInv'
  <2>1. [rev[r] EXCEPT !.pc = "override"].pc = "override"
    BY <1>0 DEF RevRec
  <2> QED BY <1>2, <1>11, <2>1 DEF Override
<1> QED
  BY <1>3, <1>4, <1>5, <1>6, <1>7, <1>8, <1>9, <1>10, <1>11 DEF ReviewStep

\* Requests, rejections, retries and the stale sweep post nothing.
LEMMA RequestGate ==
  ASSUME HumanInv, HumanInv', GateInv, [Next]_vars,
         \/ \E f \in RowId : Request(f) \/ Reject(f)
         \/ \E s : Retry(s) \/ MarkStale(s)
         \/ UNCHANGED vars
  PROVE  GateInv'
<1>1. /\ UNCHANGED <<head, tree, gh, events, hooks, job, rev, waived>>
      /\ \A x \in RowId : row'[x] = "absent" <=> row[x] = "absent"
  BY DEF Request, Reject, SubmitIgnoreRequest, Retry, MarkStale, vars, HumanInv, GuardTypes
<1>2. NotAhead'
  BY <1>1 DEF GateInv, NotAhead
<1> QED BY <1>1, <1>2, JobsKept, RowsKept, RevsKept, StatusKept DEF GateInv

\* With a cap that is not reached, the gate's invariant is inductive.
LEMMA StepGate ==
  ASSUME Cardinality(Vulns) <= Cap
  PROVE  HumanInv /\ GateInv /\ [Next]_vars => GateInv'
<1> SUFFICES ASSUME HumanInv, GateInv, [Next]_vars PROVE GateInv'
  OBVIOUS
<1>0. HumanInv'
  BY StepHuman
<1>1. CASE UNCHANGED vars
  BY <1>0, <1>1, RequestGate
<1>2. CASE People
  BY <1>0, <1>2, WorkerGate, ReviewGate, RequestGate DEF People
<1>3. CASE Next /\ ~People
  BY <1>0, <1>3, WorkerGate, ReviewGate, OutsideGate DEF Next
<1> QED BY <1>1, <1>2, <1>3

\* While a pull request introduces no more than a scan stores, a green status
\* on the head of the branch covers what that commit introduces: each of its
\* blocking vulnerabilities was approved by a reviewer or is an open finding
\* of the default branch.  Beyond the cap the run GuardrailCapped refutes it.
THEOREM GateHoldsWithinCap ==
  ASSUME Cardinality(Vulns) <= Cap
  PROVE  Spec => []GateHolds
<1>1. Init => GateInv
  <2> SUFFICES ASSUME Init PROVE GateInv
    OBVIOUS
  <2>1. /\ head = 0 /\ events = {0} /\ hooks = {} /\ \A c \in Commits : gh[c] = "none"
        /\ \A w \in Workers : job[w].pc = "idle" /\ job[w].sha = 0
        /\ \A r \in Reviewers : rev[r].pc = "idle"
        /\ \A f \in RowId : row[f] = "absent"
    BY DEF Init, IdleJob, IdleRev
  <2>2. head \in Commits
    BY <2>1, GuardrailAssumption DEF Commits
  <2>3. \A s \in ScanId : Stored(s) = {}
    BY <2>1 DEF Stored
  <2> QED
    BY <2>1, <2>2, <2>3 DEF GateInv, NotAhead, JobsInv, StoredAll, RevsInv, GateHolds
<1>2. HumanInv /\ GateInv /\ [Next]_vars => GateInv'
  BY StepGate
<1>3. GateInv => GateHolds
  BY DEF GateInv
<1> QED BY <1>1, <1>2, <1>3, HumanInvariant, PTL DEF Spec
-----------------------------------------------------------------------------
(* A block has a reason.                                                   *)

\* A run that recorded a block has something to store that explains it.
JobBlocks ==
  \A w \in Workers : job[w].pc \in {"record", "persist"} /\ job[w].status = "blocked" =>
    (job[w].new \ job[w].prior) \cap Blocking # {}

\* A recompute about to write a block has seen a reason, which is still there.
WriteSees ==
  \A r \in Reviewers : rev[r].pc = "write" /\ rev[r].blocked => StillOpen(rev[r].row[1]) # {}

\* A run has recorded the block of scan s and is about to store its rows.
Storing(s) ==
  \E w \in Workers : job[w].pc = "persist" /\ job[w].scan = s /\ job[w].status = "blocked"

\* A reviewer with locals x will look at scan s, or has seen nothing open in it.
Unblocks(x, s) ==
  /\ x.row[1] = s
  /\ \/ x.pc = "sync"
     \/ x.pc = "recompute" /\ x.status = "blocked"
     \/ x.pc = "write" /\ ~x.blocked

\* A blocked scan has an unapproved blocking row, will have one, or will be
\* looked at by the recompute that an approval started.
Explained ==
  \A s \in ScanId : prscan[s] = "blocked" =>
    StillOpen(s) # {} \/ Storing(s) \/ \E r \in Reviewers : Unblocks(rev[r], s)

BlockInv == JobBlocks /\ (~crossed => WriteSees /\ Explained)

\* A worker's step that touches no row: the scan it leaves unstored is no
\* longer blocked, or the loss is on record.
LEMMA JobMoves ==
  ASSUME HumanInv, BlockInv, NEW w \in Workers, NEW q, job' = [job EXCEPT ![w] = q],
         UNCHANGED <<row, rev>>, crossed => crossed',
         q.pc \in {"record", "persist"} /\ q.status = "blocked" =>
           (q.new \ q.prior) \cap Blocking # {},
         \A s \in ScanId : prscan'[s] = "blocked" /\ ~crossed' =>
           \/ prscan[s] = "blocked" /\ ~(job[w].pc = "persist" /\ job[w].scan = s)
           \/ q.pc = "persist" /\ q.scan = s /\ q.status = "blocked"
  PROVE  BlockInv'
<1>1. job'[w] = q /\ \A x \in Workers : x # w => job'[x] = job[x]
  BY DEF HumanInv, GuardTypes
<1>2. JobBlocks'
  BY <1>1 DEF BlockInv, JobBlocks
<1>3. \A s : StillOpen(s)' = StillOpen(s)
  BY DEF StillOpen, Stored
<1>4. ASSUME ~crossed'
      PROVE  WriteSees'
  BY <1>3, <1>4 DEF BlockInv, WriteSees
<1>5. ASSUME ~crossed', NEW s \in ScanId, prscan'[s] = "blocked"
      PROVE  StillOpen(s)' # {} \/ Storing(s)' \/ \E r \in Reviewers : Unblocks(rev[r], s)'
  <2>1. CASE q.pc = "persist" /\ q.scan = s /\ q.status = "blocked"
    BY <1>1, <2>1 DEF Storing
  <2>2. CASE prscan[s] = "blocked" /\ ~(job[w].pc = "persist" /\ job[w].scan = s)
    <3>1. Storing(s) => Storing(s)'
      BY <1>1, <2>2 DEF Storing
    <3>2. \A r \in Reviewers : Unblocks(rev[r], s)' <=> Unblocks(rev[r], s)
      BY DEF Unblocks
    <3> QED BY <1>3, <1>5, <2>2, <3>1, <3>2 DEF BlockInv, Explained
  <2> QED BY <1>5, <2>1, <2>2
<1> QED BY <1>2, <1>4, <1>5 DEF BlockInv, Explained

\* Storing the rows of a block puts its reason on record, and overwrites none.
LEMMA PersistBlock ==
  ASSUME Cardinality(Vulns) <= Cap, HumanInv, BlockInv, NEW w \in Workers,
         NEW page \in SUBSET Vulns, Persist(w, page), ~Gone(w)
  PROVE  BlockInv'
<1>s. PICK s : s = job[w].scan
  OBVIOUS
<1> DEFINE n == NextCopy(s)
           q == [job[w] EXCEPT !.pc = "post", !.new = {}, !.prior = {}]
<1>0. /\ job \in [Workers -> JobRec] /\ job[w] \in JobRec
      /\ row \in [RowId -> IgnoreStatus] /\ job[w].new \in SUBSET Vulns
  BY DEF HumanInv, GuardTypes, JobRec
<1>1. /\ job[w].pc = "persist" /\ page \subseteq job[w].new
      /\ Cardinality(page) = (IF Cardinality(job[w].new) > Cap THEN Cap
                              ELSE Cardinality(job[w].new))
      /\ job' = [job EXCEPT ![w] = q] /\ UNCHANGED <<prscan, rev, crossed>>
      /\ Unused(s) # {}
      /\ row' = [f \in RowId |-> IF f[1] = s /\ f[2] = n /\ f[3] \in page
                                 THEN IF f[3] \in job[w].prior THEN "approved" ELSE "none"
                                 ELSE row[f]]
  BY <1>s DEF Persist
<1>2. page = job[w].new
  <2>1. IsFiniteSet(job[w].new) /\ Cardinality(job[w].new) <= Cardinality(Vulns)
    BY <1>0, GuardrailAssumption, FS_Subset
  <2>2. Cardinality(job[w].new) \in Nat /\ Cardinality(Vulns) \in Nat /\ Cap \in Nat
    BY <2>1, GuardrailAssumption, FS_CardinalityType
  <2>3. Cardinality(page) = Cardinality(job[w].new)
    BY <1>1, <2>1, <2>2
  <2> QED BY <1>1, <2>1, <2>3, FS_Subset
<1>3. q.pc = "post"
  BY <1>0 DEF JobRec
<1>4. n \in Copies /\ \A f \in Stored(s) : f[2] # n
  BY <1>1 DEF NextCopy, Unused
<1> HIDE DEF n, q
<1>5. job'[w] = q /\ \A x \in Workers : x # w => job'[x] = job[x]
  BY <1>0, <1>1
<1>6. JobBlocks'
  BY <1>3, <1>5 DEF BlockInv, JobBlocks
<1>7. \A z : StillOpen(z) \subseteq StillOpen(z)'
  <2> SUFFICES ASSUME NEW z, NEW f \in StillOpen(z) PROVE f \in StillOpen(z)'
    OBVIOUS
  <2>1. f \in RowId /\ f[1] = z /\ row[f] \notin {"absent", "approved"} /\ f[3] \in Blocking
    BY DEF StillOpen, Stored
  <2>2. ~(f[1] = s /\ f[2] = n)
    BY <1>4, <2>1 DEF Stored
  <2>3. row'[f] = row[f]
    BY <1>1, <2>1, <2>2
  <2> QED BY <2>1, <2>3 DEF StillOpen, Stored
<1>8. ASSUME job[w].status = "blocked", s \in ScanId
      PROVE  StillOpen(s)' # {}
  <2>1. PICK v : v \in job[w].new /\ v \notin job[w].prior /\ v \in Blocking
    BY <1>1, <1>8 DEF BlockInv, JobBlocks
  <2>2. v \in page /\ v \in Vulns
    BY <1>0, <1>2, <2>1
  <2>3. <<s, n, v>> \in RowId
    BY <1>4, <1>8, <2>2 DEF RowId
  <2>4. row'[<<s, n, v>>] = "none"
    BY <1>1, <2>1, <2>2, <2>3
  <2> QED BY <2>1, <2>3, <2>4 DEF StillOpen, Stored
<1>9. ASSUME ~crossed
      PROVE  WriteSees'
  <2> SUFFICES ASSUME NEW r \in Reviewers, rev[r].pc = "write", rev[r].blocked
               PROVE  StillOpen(rev[r].row[1])' # {}
    BY <1>1 DEF WriteSees
  <2>1. PICK z : z = rev[r].row[1]
    OBVIOUS
  <2>2. StillOpen(z)' # {}
    BY <1>7, <1>9, <2>1 DEF BlockInv, WriteSees
  <2> QED BY <1>1, <2>1, <2>2 DEF StillOpen, Stored
<1>10. ASSUME ~crossed, NEW z \in ScanId, prscan[z] = "blocked"
       PROVE  StillOpen(z)' # {} \/ Storing(z)' \/ \E r \in Reviewers : Unblocks(rev[r], z)'
  <2>1. \A r \in Reviewers : Unblocks(rev[r], z)' <=> Unblocks(rev[r], z)
    BY <1>1 DEF Unblocks
  <2>2. CASE s = z /\ job[w].status = "blocked"
    BY <1>s, <1>8, <1>10, <2>2
  <2>3. CASE ~(s = z /\ job[w].status = "blocked")
    <3>1. Storing(z) => Storing(z)'
      BY <1>s, <1>3, <1>5, <2>3 DEF Storing
    <3> QED BY <1>7, <1>10, <2>1, <3>1 DEF BlockInv, Explained
  <2> QED BY <2>2, <2>3
<1> QED BY <1>1, <1>6, <1>9, <1>10 DEF BlockInv, Explained

\* Every other step of a worker keeps the reasons.
LEMMA WorkerBlock ==
  ASSUME Cardinality(Vulns) <= Cap, HumanInv, BlockInv,
         NEW w \in Workers, WorkerStep(w) \/ WorkerFault(w) \/ OnDemand(w)
  PROVE  BlockInv'
<1>0. /\ job \in [Workers -> JobRec] /\ job[w] \in JobRec
      /\ prscan \in [ScanId -> ScanStatus]
  BY DEF HumanInv, GuardTypes
<1>1. /\ IdleJob.pc = "idle"
      /\ \A m, b : [IdleJob EXCEPT !.pc = "ack", !.msg = m, !.web = b].pc = "ack"
  BY DEF IdleJob
<1>2. \A z, st : SetScan(z, st) /\ st # "blocked" =>
        \A s \in ScanId : prscan'[s] = "blocked" => prscan[s] = "blocked" /\ s # z
  BY <1>0 DEF SetScan
<1>3. ASSUME NEW m, NEW b, Gate(w, m, b), job[w].pc = "idle", UNCHANGED <<prscan, row, rev, crossed>>
      PROVE  BlockInv'
  <2> DEFINE q == [IdleJob EXCEPT !.pc = IF active /\ mode # "disabled" THEN "fetch"
                                         ELSE "discard",
                                  !.msg = m, !.web = b, !.scan = m, !.mode = mode]
  <2>1. q.pc \in {"fetch", "discard"}
    BY DEF IdleJob
  <2>2. job' = [job EXCEPT ![w] = q]
    BY <1>3 DEF Gate
  <2> HIDE DEF q
  <2> QED BY <1>3, <2>1, <2>2, JobMoves
<1>4. ASSUME Return(w), UNCHANGED <<row, rev, crossed>>,
             \A s \in ScanId : prscan'[s] = "blocked" =>
               prscan[s] = "blocked" /\ ~(job[w].pc = "persist" /\ job[w].scan = s)
      PROVE  BlockInv'
  BY <1>1, <1>4, JobMoves DEF Return
<1>5. ASSUME NEW m, Start(w, m)
      PROVE  BlockInv'
  BY <1>3, <1>5 DEF Start
<1>6. CASE OnDemand(w)
  BY <1>3, <1>6 DEF OnDemand
<1>7. CASE Discard(w)
  BY <1>2, <1>4, <1>7 DEF Discard
<1>8. CASE FetchFails(w) \/ Post(w) \/ PostFails(w)
  BY <1>4, <1>8 DEF FetchFails, Post, PostFails
<1>9. CASE Fail(w)
  <2>1. /\ Return(w) /\ UNCHANGED <<row, rev, crossed>>
        /\ \/ SetScan(job[w].scan, "error")
           \/ prscan' = prscan /\ prscan[job[w].scan] = "deleted"
    BY <1>9 DEF Fail, Gone
  <2>2. \A s \in ScanId : prscan'[s] = "blocked" => prscan[s] = "blocked" /\ s # job[w].scan
    BY <1>2, <2>1
  <2> QED BY <1>4, <2>1, <2>2
<1>10. ASSUME NEW s, Fetch(w, s)
       PROVE  BlockInv'
  <2> DEFINE q == [job[w] EXCEPT !.pc = "clone", !.scan = s, !.sha = head]
  <2>1. /\ job[w].pc = "fetch" /\ SetScan(s, "running") /\ UNCHANGED <<row, rev, crossed>>
        /\ job' = [job EXCEPT ![w] = q]
    BY <1>10 DEF Fetch
  <2>2. q.pc = "clone"
    BY <1>0 DEF JobRec
  <2> HIDE DEF q
  <2>3. \A z \in ScanId : prscan'[z] = "blocked" => prscan[z] = "blocked"
    BY <1>2, <2>1
  <2> QED BY <2>1, <2>2, <2>3, JobMoves
<1>11. ASSUME NEW seen, \/ CloneAndScan(w) /\ seen = tree[head]
                        \/ ScanPartly(w, seen)
       PROVE  BlockInv'
  <2> DEFINE q == [job[w] EXCEPT !.pc = "decide", !.seen = seen]
  <2>1. /\ job[w].pc = "clone" /\ UNCHANGED <<prscan, row, rev, crossed>>
        /\ job' = [job EXCEPT ![w] = q]
    BY <1>11 DEF CloneAndScan, ScanPartly
  <2>2. q.pc = "decide"
    BY <1>0 DEF JobRec
  <2> HIDE DEF q
  <2> QED BY <2>1, <2>2, JobMoves
<1>12. CASE Decide(w)
  <2> DEFINE st == IF (NewOf(w) \ PriorOf(w)) \cap Blocking # {} THEN "blocked" ELSE "passed"
             q  == [job[w] EXCEPT !.pc = "record", !.new = NewOf(w), !.prior = PriorOf(w),
                                  !.seen = {}, !.status = st]
  <2>1. /\ job[w].pc = "decide" /\ UNCHANGED <<prscan, row, rev, crossed>>
        /\ job' = [job EXCEPT ![w] = q]
    BY <1>12 DEF Decide, NewOf, PriorOf
  <2>2. q.pc = "record" /\ q.new = NewOf(w) /\ q.prior = PriorOf(w) /\ q.status = st
    BY <1>0 DEF JobRec
  <2>3. st = "blocked" => (NewOf(w) \ PriorOf(w)) \cap Blocking # {}
    OBVIOUS
  <2> HIDE DEF q, st
  <2> QED BY <2>1, <2>2, <2>3, JobMoves
<1>13. CASE Record(w)
  <2> DEFINE q == [job[w] EXCEPT !.pc = "persist"]
  <2>0. CASE Gone(w)
    BY <1>4, <1>13, <2>0 DEF Record
  <2> SUFFICES ASSUME ~Gone(w) PROVE BlockInv'
    BY <2>0
  <2>1. /\ job[w].pc = "record" /\ SetScan(job[w].scan, job[w].status)
        /\ UNCHANGED <<row, rev, crossed>> /\ job' = [job EXCEPT ![w] = q]
    BY <1>13 DEF Record
  <2>2. /\ q.pc = "persist" /\ q.scan = job[w].scan /\ q.status = job[w].status
        /\ q.new = job[w].new /\ q.prior = job[w].prior
    BY <1>0 DEF JobRec
  <2> HIDE DEF q
  <2>3. \A s \in ScanId : prscan'[s] = "blocked" =>
          prscan[s] = "blocked" \/ (s = job[w].scan /\ job[w].status = "blocked")
    BY <1>0, <2>1 DEF SetScan
  <2>4. q.status = "blocked" => (q.new \ q.prior) \cap Blocking # {}
    BY <2>1, <2>2 DEF BlockInv, JobBlocks
  <2> QED BY <2>1, <2>2, <2>3, <2>4, JobMoves, ZenonT(60)
<1>14. ASSUME NEW page \in SUBSET Vulns, Persist(w, page)
       PROVE  BlockInv'
  <2>1. CASE Gone(w)
    <3>1. \A s \in ScanId : prscan[s] = "blocked" => s # job[w].scan
      BY <2>1 DEF Gone
    <3> QED BY <1>4, <1>14, <2>1, <3>1 DEF Persist
  <2> QED BY <1>14, <2>1, PersistBlock
<1>15. CASE Ack(w)
  BY <1>1, <1>15, JobMoves DEF Ack
<1>16. CASE Crash(w) \/ RequestLost(w)
  <2>1. /\ job' = [job EXCEPT ![w] = IdleJob] /\ UNCHANGED <<prscan, row, rev>>
        /\ crossed => crossed'
        /\ job[w].pc = "persist" => crossed'
    BY <1>16 DEF Crash, RequestLost
  <2> QED BY <1>1, <2>1, JobMoves
<1>17. CASE Redeliver(w)
  <2>1. UNCHANGED <<job, prscan, row, rev, crossed>>
    BY <1>17 DEF Redeliver
  <2> QED BY <2>1 DEF BlockInv, JobBlocks, WriteSees, Explained, Storing, Unblocks, StillOpen, Stored
<1> QED
  BY <1>5, <1>6, <1>7, <1>8, <1>9, <1>10, <1>11, <1>12, <1>13, <1>14, <1>15, <1>16, <1>17
     DEF WorkerStep, WorkerFault

\* A reviewer's step that touches no row: what it would have looked at, it has
\* found a reason for or is about to unblock.
LEMMA RevMoves ==
  ASSUME HumanInv, BlockInv, NEW r \in Reviewers, NEW q, rev' = [rev EXCEPT ![r] = q],
         UNCHANGED <<row, job, crossed>>,
         ~crossed /\ q.pc = "write" /\ q.blocked => StillOpen(q.row[1]) # {},
         \A s \in ScanId : prscan'[s] = "blocked" /\ ~crossed =>
           \/ StillOpen(s) # {}
           \/ prscan[s] = "blocked" /\ (Unblocks(rev[r], s) => Unblocks(q, s))
  PROVE  BlockInv'
<1>1. rev'[r] = q /\ \A x \in Reviewers : x # r => rev'[x] = rev[x]
  BY DEF HumanInv, GuardTypes
<1>2. JobBlocks' /\ \A s : StillOpen(s)' = StillOpen(s) /\ (Storing(s)' <=> Storing(s))
  BY DEF BlockInv, JobBlocks, StillOpen, Stored, Storing
<1>3. ASSUME ~crossed
      PROVE  WriteSees'
  <2>1. \A x \in Reviewers : rev'[x].pc = "write" /\ rev'[x].blocked =>
                               StillOpen(rev'[x].row[1]) # {}
    BY <1>1, <1>3 DEF BlockInv, WriteSees
  <2> QED BY <2>1 DEF WriteSees, StillOpen, Stored
<1>4. ASSUME ~crossed, NEW s \in ScanId, prscan'[s] = "blocked"
      PROVE  StillOpen(s)' # {} \/ Storing(s)' \/ \E x \in Reviewers : Unblocks(rev[x], s)'
  <2>1. \A x \in Reviewers : Unblocks(rev[x], s)' <=> Unblocks(rev'[x], s)
    BY DEF Unblocks
  <2>2. CASE StillOpen(s) # {}
    BY <1>2, <2>2
  <2>3. CASE prscan[s] = "blocked" /\ (Unblocks(rev[r], s) => Unblocks(q, s))
    BY <1>1, <1>2, <1>4, <2>1, <2>3 DEF BlockInv, Explained
  <2> QED BY <1>4, <2>2, <2>3
<1> QED BY <1>2, <1>3, <1>4 DEF BlockInv, Explained

\* A decision about one row, and a request or rejection, keep the reasons: only
\* an approval takes one away, and its own recompute is then to come.
LEMMA RowMoves ==
  ASSUME HumanInv, BlockInv, NEW f \in RowId, NEW st \in IgnoreStatus, row[f] # "absent",
         row' = [row EXCEPT ![f] = st], st # "absent", UNCHANGED <<job, prscan>>,
         crossed => crossed',
         \/ st # "approved"
         \/ ~crossed' => ~AboutToBlock(f[1]),
         \/ UNCHANGED rev /\ st # "approved"
         \/ \E r \in Reviewers : \E k : rev[r].pc = "idle" /\
              rev' = [rev EXCEPT ![r] = [@ EXCEPT !.pc = "sync", !.row = f, !.kind = k]]
  PROVE  BlockInv'
<1>0. /\ row \in [RowId -> IgnoreStatus] /\ rev \in [Reviewers -> RevRec]
  BY DEF HumanInv, GuardTypes
<1>1. JobBlocks' /\ \A s : (Storing(s)' <=> Storing(s))
  BY DEF BlockInv, JobBlocks, Storing
<1>2. \A s : (s # f[1] \/ st # "approved") => StillOpen(s) \subseteq StillOpen(s)'
  BY <1>0 DEF StillOpen, Stored
<1>3. \A x \in Reviewers : \/ rev'[x] = rev[x]
                           \/ rev'[x].pc = "sync" /\ rev'[x].row = f /\ rev[x].pc = "idle"
  BY <1>0, ZenonT(60) DEF RevRec
<1>4. st = "approved" => \E x \in Reviewers : rev'[x].pc = "sync" /\ rev'[x].row = f
  BY <1>0 DEF RevRec
<1>5. ASSUME ~crossed', NEW x \in Reviewers, rev'[x].pc = "write", rev'[x].blocked
      PROVE  StillOpen(rev[x].row[1])' # {}
  <2>1. rev'[x] = rev[x]
    BY <1>3, <1>5
  <2>2. PICK z : z = rev[x].row[1]
    OBVIOUS
  <2>3. StillOpen(z) # {}
    BY <1>5, <2>1, <2>2 DEF BlockInv, WriteSees
  <2>4. z # f[1] \/ st # "approved"
    BY <1>5, <2>1, <2>2 DEF AboutToBlock
  <2>5. StillOpen(z)' # {}
    BY <1>2, <2>3, <2>4
  <2> QED BY <2>1, <2>2, <2>5 DEF StillOpen, Stored
<1>6. ASSUME ~crossed'
      PROVE  WriteSees'
  BY <1>5, <1>6 DEF WriteSees
<1>7. ASSUME ~crossed', NEW s \in ScanId, prscan[s] = "blocked"
      PROVE  StillOpen(s)' # {} \/ Storing(s)' \/ \E x \in Reviewers : Unblocks(rev[x], s)'
  <2>1. CASE s = f[1] /\ st = "approved"
    BY <1>4, <2>1 DEF Unblocks
  <2>2. CASE s # f[1] \/ st # "approved"
    <3>1. \A x \in Reviewers : Unblocks(rev[x], s) => Unblocks(rev[x], s)'
      BY <1>3 DEF Unblocks
    <3> QED BY <1>1, <1>2, <1>7, <2>2, <3>1 DEF BlockInv, Explained
  <2> QED BY <2>1, <2>2
<1> QED BY <1>1, <1>6, <1>7 DEF BlockInv, Explained

\* Every step of a reviewer keeps the reasons.
LEMMA ReviewBlock ==
  ASSUME HumanInv, BlockInv, NEW r \in Reviewers,
         \/ ReviewStep(r) \/ ReviewFails(r)
         \/ \E f \in RowId : Approve(r, f) \/ Revoke(r, f)
         \/ \E s \in ScanId : Override(r, s)
  PROVE  BlockInv'
<1>0. /\ rev \in [Reviewers -> RevRec] /\ rev[r] \in RevRec
      /\ prscan \in [ScanId -> ScanStatus]
  BY DEF HumanInv, GuardTypes
<1>1. IdleRev.pc = "idle"
  BY DEF IdleRev
<1>2. ASSUME NEW f \in RowId, Approve(r, f)
      PROVE  BlockInv'
  <2>1. /\ rev[r].pc = "idle" /\ row[f] # "absent" /\ row' = [row EXCEPT ![f] = "approved"]
        /\ rev' = [rev EXCEPT ![r] = [@ EXCEPT !.pc = "sync", !.row = f, !.kind = "approve"]]
        /\ crossed' = (crossed \/ AboutToBlock(f[1]))
        /\ UNCHANGED <<job, prscan>>
    BY <1>2 DEF Approve
  <2>2. "approved" \in IgnoreStatus
    BY DEF IgnoreStatus
  <2> QED BY <2>1, <2>2, RowMoves
<1>3. ASSUME NEW f \in RowId, Revoke(r, f)
      PROVE  BlockInv'
  <2>1. /\ rev[r].pc = "idle" /\ row[f] # "absent" /\ row' = [row EXCEPT ![f] = "revoked"]
        /\ rev' = [rev EXCEPT ![r] = [@ EXCEPT !.pc = "sync", !.row = f, !.kind = "revoke"]]
        /\ UNCHANGED <<job, prscan, crossed>>
    BY <1>3 DEF Revoke
  <2>2. "revoked" \in IgnoreStatus
    BY DEF IgnoreStatus
  <2> QED BY <2>1, <2>2, RowMoves
<1>4. CASE Sync(r)
  <2> DEFINE q == [rev[r] EXCEPT !.pc = "recompute", !.status = prscan[rev[r].row[1]]]
  <2>1. /\ rev[r].pc = "sync" /\ rev' = [rev EXCEPT ![r] = q]
        /\ UNCHANGED <<row, job, prscan, crossed>>
    BY <1>4 DEF Sync
  <2>2. q.pc = "recompute" /\ q.row = rev[r].row /\ q.status = prscan[rev[r].row[1]]
    BY <1>0 DEF RevRec
  <2> HIDE DEF q
  <2>3. \A s \in ScanId : prscan[s] = "blocked" /\ Unblocks(rev[r], s) => Unblocks(q, s)
    BY <2>2 DEF Unblocks
  <2> QED BY <2>1, <2>2, <2>3, RevMoves
<1>5. CASE RecomputeDecide(r)
  <2> DEFINE b == StillOpen(rev[r].row[1]) # {}
             q == [rev[r] EXCEPT !.pc = "write", !.blocked = b]
  <2>1. /\ rev[r].pc = "recompute" /\ UNCHANGED <<row, job, prscan, crossed>>
        /\ rev' = [rev EXCEPT ![r] = IF rev[r].status = (IF b THEN "passed" ELSE "blocked")
                                     THEN q ELSE IdleRev]
    BY <1>5 DEF RecomputeDecide
  <2>2. q.pc = "write" /\ q.row = rev[r].row
    BY <1>0 DEF RevRec
  <2>3. q.blocked = b
    BY <1>0, Zenon DEF RevRec
  <2>4. \A s : Unblocks(rev[r], s) => rev[r].row[1] = s /\ rev[r].status = "blocked"
    BY <2>1 DEF Unblocks
  <2>5. \A s : b \/ ~Unblocks(rev[r], s) => StillOpen(s) # {} \/ ~Unblocks(rev[r], s)
    BY <2>4
  <2>6. \A s : ~b /\ Unblocks(rev[r], s) => Unblocks(q, s)
    <3> SUFFICES ASSUME NEW s, ~b, Unblocks(rev[r], s) PROVE Unblocks(q, s)
      OBVIOUS
    <3>1. ~q.blocked
      BY <2>3
    <3> QED BY <2>2, <2>4, <3>1 DEF Unblocks
  <2>7. q.blocked => StillOpen(q.row[1]) # {}
    BY <2>2, <2>3
  <2> HIDE DEF q, b
  <2>8. CASE rev[r].status = (IF b THEN "passed" ELSE "blocked")
    <3>1. rev' = [rev EXCEPT ![r] = q]
      BY <2>1, <2>8
    <3> QED BY <2>1, <2>5, <2>6, <2>7, <3>1, RevMoves
  <2>9. CASE ~(rev[r].status = (IF b THEN "passed" ELSE "blocked"))
    <3>1. rev' = [rev EXCEPT ![r] = IdleRev]
      BY <2>1, <2>9
    <3>2. \A s : StillOpen(s) # {} \/ ~Unblocks(rev[r], s)
      BY <2>4, <2>5, <2>9
    <3> QED BY <1>1, <2>1, <3>1, <3>2, RevMoves
  <2> QED BY <2>8, <2>9
<1>6. CASE RecomputeWrite(r)
  <2> DEFINE q == [rev[r] EXCEPT !.pc = "post"]
  <2>1. /\ rev[r].pc = "write" /\ rev' = [rev EXCEPT ![r] = q]
        /\ SetScan(rev[r].row[1], IF rev[r].blocked THEN "blocked" ELSE "passed")
        /\ UNCHANGED <<row, job, crossed>>
    BY <1>6 DEF RecomputeWrite
  <2>2. q.pc = "post"
    BY <1>0 DEF RevRec
  <2> HIDE DEF q
  <2>3. ASSUME NEW s \in ScanId, prscan'[s] = "blocked", ~crossed
        PROVE  StillOpen(s) # {} \/ (prscan[s] = "blocked" /\ ~Unblocks(rev[r], s))
    <3>1. CASE s = rev[r].row[1]
      <4>1. rev[r].blocked
        BY <1>0, <2>1, <2>3, <3>1 DEF SetScan
      <4> QED BY <2>1, <2>3, <3>1, <4>1 DEF BlockInv, WriteSees
    <3>2. CASE s # rev[r].row[1]
      BY <1>0, <2>1, <2>3, <3>2 DEF SetScan, Unblocks
    <3> QED BY <3>1, <3>2
  <2> QED BY <2>1, <2>2, <2>3, RevMoves
<1>7. CASE RecomputePost(r) \/ OverridePost(r) \/ ReviewFails(r)
  <2>1. /\ rev[r].pc \in {"post", "override"} /\ rev' = [rev EXCEPT ![r] = IdleRev]
        /\ UNCHANGED <<row, job, prscan, crossed>>
    BY <1>7 DEF RecomputePost, OverridePost, ReviewFails
  <2>2. \A s : ~Unblocks(rev[r], s)
    BY <2>1 DEF Unblocks
  <2> QED BY <1>1, <2>1, <2>2, RevMoves
<1>8. ASSUME NEW s, Override(r, s)
      PROVE  BlockInv'
  <2> DEFINE q == [rev[r] EXCEPT !.pc = "override"]
  <2>1. /\ rev[r].pc = "idle" /\ rev' = [rev EXCEPT ![r] = q]
        /\ prscan' = [prscan EXCEPT ![s] = "overridden"] /\ UNCHANGED <<row, job, crossed>>
    BY <1>8 DEF Override, SetScan
  <2>2. q.pc = "override"
    BY <1>0 DEF RevRec
  <2> HIDE DEF q
  <2>3. \A z : ~Unblocks(rev[r], z)
    BY <2>1 DEF Unblocks
  <2>4. \A z \in ScanId : prscan'[z] = "blocked" => prscan[z] = "blocked"
    BY <1>0, <2>1
  <2> QED BY <2>1, <2>2, <2>3, <2>4, RevMoves
<1> QED BY <1>2, <1>3, <1>4, <1>5, <1>6, <1>7, <1>8 DEF ReviewStep

\* So do the webhook, the switches, requests, rejections, retries and the
\* stale sweep.
LEMMA OthersBlock ==
  ASSUME HumanInv, BlockInv,
         \/ \E vs \in SUBSET Vulns : PushCommit(vs)
         \/ Deliver \/ HookFault
         \/ \E c \in Commits : EventAgain(c)
         \/ \E on \in BOOLEAN, m \in Modes : Switch(on, m)
         \/ \E f \in RowId : Request(f) \/ Reject(f)
         \/ \E s \in ScanId : Retry(s) \/ MarkStale(s)
         \/ UNCHANGED vars
  PROVE  BlockInv'
<1>1. ASSUME NEW f \in RowId, Request(f) \/ Reject(f)
      PROVE  BlockInv'
  <2>1. PICK st \in {"requested", "rejected"} : row' = [row EXCEPT ![f] = st]
    BY <1>1 DEF Request, Reject, SubmitIgnoreRequest
  <2>2. /\ row[f] # "absent" /\ UNCHANGED <<job, prscan, rev, crossed>>
    BY <1>1 DEF Request, Reject
  <2>3. st \in IgnoreStatus /\ st # "approved" /\ st # "absent"
    BY DEF IgnoreStatus
  <2> QED BY <2>1, <2>2, <2>3, RowMoves
<1>2. ASSUME UNCHANGED <<row, job, rev, crossed>>,
             \A s \in ScanId : prscan'[s] = "blocked" => prscan[s] = "blocked"
      PROVE  BlockInv'
  <2>1. /\ JobBlocks' /\ (WriteSees' <=> WriteSees)
        /\ \A s : /\ StillOpen(s)' = StillOpen(s) /\ (Storing(s)' <=> Storing(s))
                  /\ \A x \in Reviewers : Unblocks(rev[x], s)' <=> Unblocks(rev[x], s)
    BY <1>2 DEF BlockInv, JobBlocks, WriteSees, StillOpen, Stored, Storing, Unblocks
  <2> QED BY <1>2, <2>1 DEF BlockInv, Explained
<1>3. prscan \in [ScanId -> ScanStatus]
  BY DEF HumanInv, GuardTypes
<1>4. ASSUME NEW s, NEW st, SetScan(s, st), st # "blocked"
      PROVE  \A z \in ScanId : prscan'[z] = "blocked" => prscan[z] = "blocked"
  BY <1>3, <1>4 DEF SetScan
<1>5. ASSUME NEW c, NEW s, PullRequest(c, s)
      PROVE  BlockInv'
  BY <1>2, <1>4, <1>5 DEF PullRequest
<1>6. ASSUME NEW s, Retry(s) \/ MarkStale(s)
      PROVE  BlockInv'
  BY <1>2, <1>4, <1>6 DEF Retry, MarkStale
<1>7. ASSUME NEW vs, NEW c, NEW on, NEW m,
             PushCommit(vs) \/ EventAgain(c) \/ Switch(on, m) \/ UNCHANGED vars
      PROVE  BlockInv'
  BY <1>2, <1>7 DEF PushCommit, EventAgain, Switch, vars
<1>8. ASSUME NEW h, PendingStatus(h) \/ PendingFails(h) \/ Publish(h) \/ HookLost(h)
      PROVE  BlockInv'
  BY <1>2, <1>8 DEF PendingStatus, PendingFails, Publish, HookLost
<1> QED BY <1>1, <1>5, <1>6, <1>7, <1>8 DEF Deliver, HookFault

\* While a pull request introduces no more than a scan stores, a blocked scan
\* on which nobody works has a blocking finding nobody approved, unless an
\* approval crossed another decision's write, or a worker was lost between the
\* verdict and the rows of its scan.
THEOREM BlockedHasReasonWithinCap ==
  ASSUME Cardinality(Vulns) <= Cap
  PROVE  Spec => []BlockedHasReason
<1>1. Init => BlockInv
  <2> SUFFICES ASSUME Init PROVE BlockInv
    OBVIOUS
  <2>1. /\ \A w \in Workers : job[w].pc = "idle"
        /\ \A r \in Reviewers : rev[r].pc = "idle"
        /\ \A s \in ScanId : prscan[s] = "none"
    BY DEF Init, IdleJob, IdleRev
  <2> QED BY <2>1 DEF BlockInv, JobBlocks, WriteSees, Explained
<1>2. HumanInv /\ BlockInv /\ [Next]_vars => BlockInv'
  <2> SUFFICES ASSUME HumanInv, BlockInv, [Next]_vars PROVE BlockInv'
    OBVIOUS
  <2>1. CASE UNCHANGED vars
    BY <2>1, OthersBlock
  <2>2. CASE People
    BY <2>2, WorkerBlock, ReviewBlock, OthersBlock DEF People
  <2>3. CASE Next /\ ~People
    BY <2>3, WorkerBlock, ReviewBlock, OthersBlock DEF Next, Modes
  <2> QED BY <2>1, <2>2, <2>3
<1>3. BlockInv => BlockedHasReason
  <2> SUFFICES ASSUME BlockInv, ~crossed, NEW s \in ScanId, prscan[s] = "blocked", Quiet(s)
               PROVE  StillOpen(s) # {}
    BY DEF BlockedHasReason
  <2>1. ~Storing(s)
    BY DEF Quiet, Storing
  <2>2. \A r \in Reviewers : ~Unblocks(rev[r], s)
    BY DEF Quiet, Unblocks
  <2> QED BY <2>1, <2>2 DEF BlockInv, Explained
<1> QED BY <1>1, <1>2, <1>3, HumanInvariant, PTL DEF Spec


-----------------------------------------------------------------------------
(* A scan stores its rows once per delivery.                               *)

\* The copies of a scan's rows that were made.
CopiesOf(s) == {n \in Copies : \E f \in Stored(s) : f[2] = n}

Running == {"clone", "decide", "record", "persist"}

\* The workers that may still store the rows of scan s.
Storers(s) == {w \in Workers : job[w].scan = s /\ job[w].pc \in Running \cup {"fetch"}}

\* The rows of a scan that were stored or are still to come.
Deliveries(s) ==
  Cardinality(CopiesOf(s)) + Cardinality(Storers(s)) + (IF s \in queue THEN 1 ELSE 0)

\* Nobody knows of a scan that has no row yet, or whose webhook has not handed
\* it out.
Unheard(s) ==
  (prscan[s] = "none" \/ \E h \in hooks : h.scan = s) =>
    /\ Stored(s) = {} /\ s \notin queue
    /\ \A w \in Workers : job[w].scan # s /\ job[w].msg # s

\* A webhook past its commit has a row, of its own.
HooksApart ==
  \A h \in hooks : prscan[h.scan] # "none" /\ \A k \in hooks : k.scan = h.scan => k = h

DeliveriesInv ==
  /\ faults \in 0..MaxFaults
  /\ HooksApart
  /\ \A w \in Workers : /\ job[w].pc \in Running => job[w].scan # 0
                        /\ job[w].pc = "record" => job[w].status # "none"
  /\ \A s \in ScanId : Unheard(s) /\ Deliveries(s) <= faults + 1

(* The rows of one scan are stored at most once, and once more for each worker
   lost and each message handed out again, whatever retries, events and pushes
   there are; a run that has a verdict finds room to store its rows
   (_persist_findings adds rows and never looks for those of before). *)
StoredPerDelivery ==
  /\ \A s \in ScanId : Cardinality(CopiesOf(s)) <= faults + 1
  /\ \A w \in Workers : job[w].pc = "persist" => Unused(job[w].scan) # {}

LEMMA CountsType ==
  ASSUME NEW s
  PROVE  /\ IsFiniteSet(CopiesOf(s)) /\ Cardinality(CopiesOf(s)) \in Nat
         /\ IsFiniteSet(Storers(s)) /\ Cardinality(Storers(s)) \in Nat
<1>1. IsFiniteSet(Copies)
  <2>1. 1 \in Int /\ MaxFaults + 1 \in Int
    BY GuardrailAssumption
  <2> QED BY <2>1, FS_Interval DEF Copies
<1>2. CopiesOf(s) \in SUBSET Copies /\ Storers(s) \in SUBSET Workers
  BY DEF CopiesOf, Storers
<1>3. IsFiniteSet(CopiesOf(s))
  BY <1>1, <1>2, FS_Subset
<1>4. IsFiniteSet(Storers(s))
  BY <1>2, FS_Subset, GuardrailAssumption
<1> QED BY <1>3, <1>4, FS_CardinalityType

\* A finite set with at most one member more, and with one less.
LEMMA OneMore ==
  ASSUME NEW S, IsFiniteSet(S), NEW x, NEW T, T \subseteq S \cup {x}
  PROVE  Cardinality(T) <= Cardinality(S) + 1
<1>1. IsFiniteSet(S \cup {x}) /\ Cardinality(S \cup {x}) = IF x \in S THEN Cardinality(S) ELSE Cardinality(S) + 1
  BY FS_AddElement
<1>2. Cardinality(T) <= Cardinality(S \cup {x}) /\ IsFiniteSet(T)
  BY <1>1, FS_Subset
<1>3. Cardinality(S) \in Nat /\ Cardinality(T) \in Nat
  BY <1>2, FS_CardinalityType
<1> QED BY <1>1, <1>2, <1>3

LEMMA OneLess ==
  ASSUME NEW S, IsFiniteSet(S), NEW x \in S, NEW T, T \subseteq S \ {x}
  PROVE  Cardinality(T) + 1 <= Cardinality(S)
<1>1. IsFiniteSet(S \ {x}) /\ Cardinality(S \ {x}) = Cardinality(S) - 1
  BY FS_RemoveElement
<1>2. Cardinality(T) <= Cardinality(S \ {x}) /\ IsFiniteSet(T)
  BY <1>1, FS_Subset
<1>3. Cardinality(S) \in Nat /\ Cardinality(T) \in Nat
  BY <1>2, FS_CardinalityType
<1> QED BY <1>1, <1>2, <1>3

\* A row that was created is never uncreated.
LEMMA RowStays ==
  ASSUME GuardTypes, NEW s, NEW status, SetScan(s, status), status # "none"
  PROVE  \A z \in ScanId : prscan'[z] = "none" => prscan[z] = "none" /\ z # s
BY DEF GuardTypes, SetScan

\* Fewer copies and fewer runs, and a message only for a fault.
LEMMA DeliveriesKept ==
  ASSUME DeliveriesInv, NEW s \in ScanId, faults' \in 0..MaxFaults, faults <= faults',
         Stored(s)' \subseteq Stored(s), Storers(s)' \subseteq Storers(s),
         s \in queue' => s \in queue \/ faults < faults'
  PROVE  Deliveries(s)' <= faults' + 1
<1>1. CopiesOf(s)' \subseteq CopiesOf(s)
  BY DEF CopiesOf
<1>2. PICK c, c1 \in Nat : c = Cardinality(CopiesOf(s)) /\ c1 = Cardinality(CopiesOf(s)') /\ c1 <= c
  BY <1>1, CountsType, FS_Subset, FS_CardinalityType
<1>3. PICK r, r1 \in Nat : r = Cardinality(Storers(s)) /\ r1 = Cardinality(Storers(s)') /\ r1 <= r
  BY CountsType, FS_Subset, FS_CardinalityType
<1>4. c + r + (IF s \in queue THEN 1 ELSE 0) <= faults + 1
  BY <1>2, <1>3 DEF DeliveriesInv, Deliveries
<1>5. Deliveries(s)' = c1 + r1 + (IF s \in queue' THEN 1 ELSE 0)
  BY <1>2, <1>3 DEF Deliveries
<1>6. faults \in Nat /\ faults' \in Nat
  BY DEF DeliveriesInv
<1> QED BY <1>2, <1>3, <1>4, <1>5, <1>6

\* The webhooks are told apart as long as no row is uncreated.
LEMMA ApartKept ==
  ASSUME GuardTypes, HooksApart, UNCHANGED hooks,
         \A s \in ScanId : prscan'[s] = "none" => prscan[s] = "none"
  PROVE  HooksApart'
<1>1. \A h \in hooks : h.scan \in ScanId
  BY DEF GuardTypes, Hook
<1> QED BY <1>1 DEF HooksApart

\* A step that starts no run and stores nothing.
LEMMA QuietDeliveries ==
  ASSUME GuardTypes, DeliveriesInv, UNCHANGED <<job, hooks>>,
         \A s : Stored(s)' = Stored(s),
         \A s \in ScanId : prscan'[s] = "none" => prscan[s] = "none",
         queue' \subseteq queue \cup {0}, faults' \in 0..MaxFaults, faults <= faults'
  PROVE  DeliveriesInv'
<1>1. \A s : Storers(s)' = Storers(s)
  BY DEF Storers
<1>2. \A s \in ScanId : s \in queue' => s \in queue
  BY DEF ScanId
<1>3. \A s \in ScanId : Unheard(s)'
  BY <1>2 DEF DeliveriesInv, Unheard
<1>4. \A s \in ScanId : Deliveries(s)' <= faults' + 1
  BY <1>1, <1>2, DeliveriesKept
<1>5. HooksApart'
  BY ApartKept DEF DeliveriesInv
<1> QED BY <1>3, <1>4, <1>5 DEF DeliveriesInv

\* A step of a run that starts none, or a fault that brings its message back.
LEMMA JobDeliveries ==
  ASSUME GuardTypes, DeliveriesInv, NEW w \in Workers, NEW q, job' = [job EXCEPT ![w] = q],
         UNCHANGED <<row, hooks>>,
         \A s \in ScanId : prscan'[s] = "none" => prscan[s] = "none",
         q.msg \in {0, job[w].msg}, q.scan \in {0, job[w].scan},
         q.pc \in Running => q.scan # 0,
         q.pc = "record" => q.status # "none",
         q.pc \in Running \cup {"fetch"} => job[w].pc \in Running \cup {"fetch"},
         \/ UNCHANGED <<queue, faults>>
         \/ Fault /\ queue' \subseteq queue \cup {job[w].msg}
  PROVE  DeliveriesInv'
<1>1. job'[w] = q /\ \A x \in Workers : x # w => job'[x] = job[x]
  BY DEF GuardTypes
<1>2. faults \in 0..MaxFaults /\ faults' \in 0..MaxFaults /\ faults <= faults'
      /\ (queue' # queue => faults < faults')
  BY GuardrailAssumption DEF DeliveriesInv, Fault
<1>3. \A s : s \in queue' => s \in queue \/ s = job[w].msg
  OBVIOUS
<1>4. \A s \in ScanId : Stored(s)' = Stored(s)
  BY DEF Stored
<1>5. ASSUME NEW s \in ScanId
      PROVE  Unheard(s)'
  <2> SUFFICES ASSUME prscan'[s] = "none" \/ \E h \in hooks : h.scan = s
               PROVE  /\ Stored(s)' = {} /\ s \notin queue'
                      /\ \A x \in Workers : job'[x].scan # s /\ job'[x].msg # s
    BY DEF Unheard
  <2>1. Stored(s) = {} /\ s \notin queue /\ \A x \in Workers : job[x].scan # s /\ job[x].msg # s
    BY DEF DeliveriesInv, Unheard
  <2>2. s # 0
    BY DEF ScanId
  <2> QED BY <1>1, <1>3, <1>4, <2>1, <2>2
<1>6. ASSUME NEW s \in ScanId
      PROVE  Deliveries(s)' <= faults' + 1
  <2>1. s # 0
    BY DEF ScanId
  <2>2. Storers(s)' \subseteq Storers(s)
    BY <1>1, <2>1 DEF Storers
  <2>3. s \in queue' => s \in queue \/ faults < faults'
    BY <1>2
  <2> QED BY <1>2, <1>4, <2>2, <2>3, DeliveriesKept
<1>7. \A x \in Workers : /\ job'[x].pc \in Running => job'[x].scan # 0
                         /\ job'[x].pc = "record" => job'[x].status # "none"
  BY <1>1 DEF DeliveriesInv
<1>8. HooksApart'
  BY ApartKept DEF DeliveriesInv
<1> QED BY <1>2, <1>5, <1>6, <1>7, <1>8 DEF DeliveriesInv

\* A run starts: its message is no longer waiting.
LEMMA GateDeliveries ==
  ASSUME GuardTypes, DeliveriesInv, NEW w \in Workers, NEW m \in Message, NEW web,
         Gate(w, m, web), job[w].pc = "idle",
         m # 0 => m \in queue /\ m \notin queue', queue' \subseteq queue,
         UNCHANGED <<row, prscan, hooks, faults>>
  PROVE  DeliveriesInv'
<1> DEFINE pc == IF active /\ mode # "disabled" THEN "fetch" ELSE "discard"
           q == [IdleJob EXCEPT !.pc = pc, !.msg = m, !.web = web, !.scan = m, !.mode = mode]
<1>1. q.pc = pc /\ q.msg = m /\ q.scan = m
  BY DEF IdleJob
<1>2. job' = [job EXCEPT ![w] = q]
  BY DEF Gate
<1> HIDE DEF q
<1>3. job'[w] = q /\ \A x \in Workers : x # w => job'[x] = job[x]
  BY <1>2 DEF GuardTypes
<1>4. pc \notin Running
  BY DEF Running
<1>5. \A s \in ScanId : Stored(s)' = Stored(s)
  BY DEF Stored
<1>6. ASSUME NEW s \in ScanId
      PROVE  Unheard(s)'
  <2>1. s # 0
    BY DEF ScanId
  <2> QED BY <1>1, <1>3, <1>5, <2>1 DEF DeliveriesInv, Unheard
<1>7. ASSUME NEW s \in ScanId
      PROVE  Deliveries(s)' <= faults' + 1
  <2>0. s # 0 /\ faults \in 0..MaxFaults
    BY DEF ScanId, DeliveriesInv
  <2>1. CASE s # m
    <3>1. Storers(s)' \subseteq Storers(s)
      BY <1>1, <1>3, <2>1 DEF Storers
    <3> QED BY <1>5, <2>0, <3>1, DeliveriesKept
  <2>2. CASE s = m
    <3>1. Storers(s)' \subseteq Storers(s) \cup {w}
      BY <1>3 DEF Storers
    <3>2. PICK r, r1 \in Nat : r = Cardinality(Storers(s)) /\ r1 = Cardinality(Storers(s)') /\ r1 <= r + 1
      <4>1. Storers(s)' \subseteq Workers
        BY DEF Storers
      <4>2. IsFiniteSet(Storers(s)')
        BY <4>1, FS_Subset, GuardrailAssumption
      <4> QED BY <3>1, <4>2, CountsType, OneMore, FS_CardinalityType
    <3>3. CopiesOf(s)' = CopiesOf(s)
      BY <1>5 DEF CopiesOf
    <3>4. PICK c \in Nat : c = Cardinality(CopiesOf(s))
      BY CountsType
    <3>5. c + r + 1 <= faults + 1
      BY <2>0, <2>2, <3>2, <3>4 DEF DeliveriesInv, Deliveries
    <3>6. Deliveries(s)' = c + r1 + 0
      BY <2>0, <2>2, <3>2, <3>3, <3>4 DEF Deliveries
    <3> QED BY <2>0, <3>2, <3>5, <3>6
  <2> QED BY <2>1, <2>2
<1>8. \A x \in Workers : /\ job'[x].pc \in Running => job'[x].scan # 0
                         /\ job'[x].pc = "record" => job'[x].status # "none"
  BY <1>1, <1>3, <1>4 DEF DeliveriesInv, Running
<1>9. HooksApart'
  BY ApartKept DEF DeliveriesInv
<1> QED BY <1>6, <1>7, <1>8, <1>9 DEF DeliveriesInv

\* A run takes its row, or makes one that nobody has heard of.
LEMMA FetchDeliveries ==
  ASSUME GuardTypes, DeliveriesInv, NEW w \in Workers, NEW z \in ScanId, Fetch(w, z)
  PROVE  DeliveriesInv'
<1> DEFINE q == [job[w] EXCEPT !.pc = "clone", !.scan = z, !.sha = head]
<1>1. /\ job[w].pc = "fetch" /\ SetScan(z, "running")
      /\ job' = [job EXCEPT ![w] = q] /\ UNCHANGED <<row, queue, hooks, faults>>
      /\ z = job[w].scan \/ prscan[z] = "none"
  BY DEF Fetch, IsNext
<1>2. q.pc = "clone" /\ q.scan = z /\ q.msg = job[w].msg
  BY DEF GuardTypes, JobRec
<1> HIDE DEF q
<1>3. job'[w] = q /\ \A x \in Workers : x # w => job'[x] = job[x]
  BY <1>1 DEF GuardTypes
<1>4. \A s \in ScanId : prscan'[s] = "none" => prscan[s] = "none" /\ s # z
  BY <1>1, RowStays
<1>5. \A s \in ScanId : Stored(s)' = Stored(s)
  BY <1>1 DEF Stored
<1>6. ASSUME NEW s \in ScanId
      PROVE  Unheard(s)'
  <2> SUFFICES ASSUME prscan'[s] = "none" \/ \E h \in hooks : h.scan = s
               PROVE  /\ Stored(s)' = {} /\ s \notin queue'
                      /\ \A x \in Workers : job'[x].scan # s /\ job'[x].msg # s
    BY <1>1 DEF Unheard
  <2>1. prscan[s] = "none" \/ \E h \in hooks : h.scan = s
    BY <1>4
  <2>2. Stored(s) = {} /\ s \notin queue /\ \A x \in Workers : job[x].scan # s /\ job[x].msg # s
    BY <2>1 DEF DeliveriesInv, Unheard
  <2>3. s # z
    <3>1. CASE prscan'[s] = "none"
      BY <1>4, <3>1
    <3>2. CASE \E h \in hooks : h.scan = s
      BY <1>1, <2>2, <3>2 DEF DeliveriesInv, HooksApart
    <3> QED BY <3>1, <3>2
  <2> QED BY <1>1, <1>2, <1>3, <1>5, <2>2, <2>3
<1>7. ASSUME NEW s \in ScanId
      PROVE  Deliveries(s)' <= faults' + 1
  <2>1. CASE s # z \/ z = job[w].scan
    <3>1. Storers(s)' \subseteq Storers(s)
      BY <1>1, <1>2, <1>3, <2>1 DEF Storers
    <3>2. faults' \in 0..MaxFaults /\ faults <= faults'
      BY <1>1 DEF DeliveriesInv
    <3> QED BY <1>1, <1>5, <3>1, <3>2, DeliveriesKept
  <2>2. CASE s = z /\ prscan[z] = "none"
    <3>1. Stored(s) = {} /\ s \notin queue /\ Storers(s) = {}
      BY <2>2 DEF DeliveriesInv, Unheard, Storers
    <3>2. Storers(s)' \subseteq {} \cup {w}
      BY <1>3, <3>1 DEF Storers
    <3>3. PICK r \in Nat : r = Cardinality(Storers(s)') /\ r <= 1
      <4>1. Storers(s)' \subseteq Workers
        BY DEF Storers
      <4>2. IsFiniteSet(Storers(s)')
        BY <4>1, FS_Subset, GuardrailAssumption
      <4>3. Cardinality({}) = 0 /\ IsFiniteSet({})
        BY FS_EmptySet
      <4>4. Cardinality(Storers(s)') <= Cardinality({}) + 1
        BY <3>2, <4>3, OneMore
      <4> QED BY <4>2, <4>3, <4>4, FS_CardinalityType
    <3>4. CopiesOf(s)' = {}
      BY <1>5, <3>1 DEF CopiesOf
    <3>5. Cardinality(CopiesOf(s)') = 0
      BY <3>4, FS_EmptySet
    <3>6. s \notin queue'
      BY <1>1, <3>1
    <3>7. Deliveries(s)' = 0 + r + 0
      BY <3>3, <3>5, <3>6 DEF Deliveries
    <3>8. faults \in Nat /\ faults' = faults
      BY <1>1 DEF DeliveriesInv
    <3> QED BY <3>3, <3>7, <3>8
  <2> QED BY <1>1, <2>1, <2>2
<1>8. \A x \in Workers : /\ job'[x].pc \in Running => job'[x].scan # 0
                         /\ job'[x].pc = "record" => job'[x].status # "none"
  BY <1>2, <1>3 DEF DeliveriesInv, ScanId
<1>9. HooksApart'
  BY <1>1, <1>4, ApartKept DEF DeliveriesInv
<1> QED BY <1>1, <1>6, <1>7, <1>8, <1>9 DEF DeliveriesInv

\* Storing turns a run that may store into a copy.
LEMMA PersistDeliveries ==
  ASSUME GuardTypes, DeliveriesInv, NEW w \in Workers, NEW page, Persist(w, page), ~Gone(w)
  PROVE  DeliveriesInv'
<1>s. PICK z : z = job[w].scan
  OBVIOUS
<1> DEFINE n == NextCopy(z)
           q == [job[w] EXCEPT !.pc = "post", !.new = {}, !.prior = {}]
<1>1. /\ job[w].pc = "persist" /\ job' = [job EXCEPT ![w] = q]
      /\ UNCHANGED <<prscan, queue, hooks, faults>>
      /\ row' = [f \in RowId |-> IF f[1] = z /\ f[2] = n /\ f[3] \in page
                                 THEN IF f[3] \in job[w].prior THEN "approved" ELSE "none"
                                 ELSE row[f]]
  BY <1>s DEF Persist
<1>2. q.pc = "post" /\ q.scan = z /\ q.msg = job[w].msg
  BY <1>s DEF GuardTypes, JobRec
<1> HIDE DEF q, n
<1>3. job'[w] = q /\ \A x \in Workers : x # w => job'[x] = job[x]
  BY <1>1 DEF GuardTypes
<1>4. \A s : s # z => Stored(s)' \subseteq Stored(s)
  BY <1>1 DEF Stored
<1>5. \A f \in Stored(z)' : f \in Stored(z) \/ f[2] = n
  BY <1>1 DEF Stored
<1>6. z \in ScanId /\ prscan[z] # "none" /\ ~\E h \in hooks : h.scan = z
  <2>1. z # 0 /\ z \in Message
    BY <1>1, <1>s DEF GuardTypes, JobRec, DeliveriesInv, Running
  <2>2. z \in ScanId
    BY <2>1, GuardrailAssumption DEF Message, ScanId
  <2> QED BY <1>s, <2>2 DEF DeliveriesInv, Unheard
<1>7. ASSUME NEW s \in ScanId
      PROVE  Unheard(s)'
  BY <1>1, <1>2, <1>3, <1>4, <1>6, <1>s DEF DeliveriesInv, Unheard
<1>8. ASSUME NEW s \in ScanId
      PROVE  Deliveries(s)' <= faults' + 1
  <2>1. faults' \in 0..MaxFaults /\ faults' = faults /\ faults \in Nat
    BY <1>1 DEF DeliveriesInv
  <2>2. CASE s # z
    <3>1. Storers(s)' \subseteq Storers(s)
      BY <1>2, <1>3, <2>2 DEF Storers
    <3> QED BY <1>1, <1>4, <2>1, <2>2, <3>1, DeliveriesKept
  <2>3. CASE s = z
    <3>1. w \in Storers(s) /\ Storers(s)' \subseteq Storers(s) \ {w}
      BY <1>1, <1>2, <1>3, <1>s, <2>3 DEF Storers, Running
    <3>2. CopiesOf(s)' \subseteq CopiesOf(s) \cup {n}
      BY <1>5, <2>3 DEF CopiesOf
    <3>3. PICK r, r1 \in Nat : r = Cardinality(Storers(s)) /\ r1 = Cardinality(Storers(s)') /\ r1 + 1 <= r
      <4>1. Cardinality(Storers(s)') + 1 <= Cardinality(Storers(s))
        BY <3>1, CountsType, OneLess
      <4>2. IsFiniteSet(Storers(s)')
        BY <3>1, CountsType, FS_Subset
      <4> QED BY <4>1, <4>2, CountsType, FS_CardinalityType
    <3>4. PICK c, c1 \in Nat : c = Cardinality(CopiesOf(s)) /\ c1 = Cardinality(CopiesOf(s)') /\ c1 <= c + 1
      <4>1. Cardinality(CopiesOf(s)') <= Cardinality(CopiesOf(s)) + 1
        BY <3>2, CountsType, OneMore
      <4>2. IsFiniteSet(CopiesOf(s) \cup {n})
        BY CountsType, FS_AddElement
      <4>3. IsFiniteSet(CopiesOf(s)')
        BY <3>2, <4>2, FS_Subset
      <4> QED BY <4>1, <4>3, CountsType, FS_CardinalityType
    <3>5. c + r + (IF s \in queue THEN 1 ELSE 0) <= faults + 1
      BY <3>3, <3>4 DEF DeliveriesInv, Deliveries
    <3>6. Deliveries(s)' = c1 + r1 + (IF s \in queue THEN 1 ELSE 0)
      BY <1>1, <3>3, <3>4 DEF Deliveries
    <3> QED BY <2>1, <3>3, <3>4, <3>5, <3>6
  <2> QED BY <2>2, <2>3
<1>9. \A x \in Workers : /\ job'[x].pc \in Running => job'[x].scan # 0
                         /\ job'[x].pc = "record" => job'[x].status # "none"
  BY <1>2, <1>3 DEF DeliveriesInv, Running
<1>10. HooksApart'
  BY <1>1, ApartKept DEF DeliveriesInv
<1> QED BY <1>1, <1>7, <1>8, <1>9, <1>10 DEF DeliveriesInv

\* Every other step of a worker.
LEMMA WorkerDeliveries ==
  ASSUME GuardTypes, DeliveriesInv, NEW w \in Workers, WorkerStep(w) \/ WorkerFault(w) \/ OnDemand(w)
  PROVE  DeliveriesInv'
<1>0. job[w] \in JobRec /\ job \in [Workers -> JobRec]
  BY DEF GuardTypes
<1>1. [IdleJob EXCEPT !.pc = "ack", !.msg = job[w].msg, !.web = job[w].web].pc = "ack"
      /\ [IdleJob EXCEPT !.pc = "ack", !.msg = job[w].msg, !.web = job[w].web].msg = job[w].msg
      /\ [IdleJob EXCEPT !.pc = "ack", !.msg = job[w].msg, !.web = job[w].web].scan = 0
      /\ IdleJob.pc = "idle" /\ IdleJob.msg = 0 /\ IdleJob.scan = 0
  BY DEF IdleJob
<1>2. "ack" \notin Running \cup {"fetch"} /\ "idle" \notin Running \cup {"fetch"}
      /\ "post" \notin Running \cup {"fetch"}
  BY DEF Running
<1>3. ASSUME Return(w), UNCHANGED <<row, queue, hooks, faults>>,
             \A s \in ScanId : prscan'[s] = "none" => prscan[s] = "none"
      PROVE  DeliveriesInv'
  <2> DEFINE q == [IdleJob EXCEPT !.pc = "ack", !.msg = job[w].msg, !.web = job[w].web]
  <2>1. job' = [job EXCEPT ![w] = q]
    BY <1>3 DEF Return
  <2>2. q.pc = "ack" /\ q.msg = job[w].msg /\ q.scan = 0
    BY <1>1
  <2> HIDE DEF q
  <2> QED BY <1>2, <1>3, <2>1, <2>2, JobDeliveries
<1>4. ASSUME NEW s, NEW st, SetScan(s, st), st # "none"
      PROVE  \A z \in ScanId : prscan'[z] = "none" => prscan[z] = "none"
  BY <1>4, RowStays
<1>5. ASSUME NEW m \in Message, Start(w, m) PROVE DeliveriesInv'
  <2>1. /\ Gate(w, m, FALSE) /\ job[w].pc = "idle" /\ m \in queue /\ m \notin queue'
        /\ queue' \subseteq queue /\ UNCHANGED <<row, prscan, hooks, faults>>
    BY <1>5 DEF Start
  <2> QED BY <2>1, GateDeliveries
<1>6. CASE OnDemand(w)
  <2>1. 0 \in Message
    BY GuardrailAssumption DEF Message
  <2>2. /\ Gate(w, 0, TRUE) /\ job[w].pc = "idle" /\ queue' \subseteq queue
        /\ UNCHANGED <<row, prscan, hooks, faults>>
    BY <1>6 DEF OnDemand
  <2> QED BY <2>1, <2>2, GateDeliveries
<1>7. CASE Discard(w)
  <2>1. Return(w) /\ UNCHANGED <<row, queue, hooks, faults>>
    BY <1>7 DEF Discard
  <2>2. SetScan(job[w].scan, "deleted") \/ UNCHANGED prscan
    BY <1>7 DEF Discard
  <2> QED BY <1>3, <1>4, <2>1, <2>2
<1>8. ASSUME NEW s \in ScanId, Fetch(w, s) PROVE DeliveriesInv'
  BY <1>8, FetchDeliveries
<1>9. ASSUME NEW seen, job[w].pc = "clone",
             job' = [job EXCEPT ![w] = [@ EXCEPT !.pc = "decide", !.seen = seen]],
             UNCHANGED <<row, queue, hooks, faults, prscan>>
      PROVE  DeliveriesInv'
  <2> DEFINE q == [job[w] EXCEPT !.pc = "decide", !.seen = seen]
  <2>1. job' = [job EXCEPT ![w] = q]
    BY <1>9
  <2>2. q.pc = "decide" /\ q.msg = job[w].msg /\ q.scan = job[w].scan
    BY <1>0 DEF JobRec
  <2>3. job[w].pc \in Running /\ job[w].scan # 0
    BY <1>9 DEF Running, DeliveriesInv
  <2> HIDE DEF q
  <2> QED BY <1>9, <2>1, <2>2, <2>3, JobDeliveries
<1>10. CASE Decide(w)
  <2> DEFINE new == NewOf(w)
             q == [job[w] EXCEPT !.pc = "record", !.new = NewOf(w), !.prior = PriorOf(w), !.seen = {},
                                 !.status = IF (NewOf(w) \ PriorOf(w)) \cap Blocking # {}
                                            THEN "blocked" ELSE "passed"]
  <2>1. /\ job' = [job EXCEPT ![w] = q] /\ job[w].pc = "decide"
        /\ UNCHANGED <<row, queue, hooks, faults, prscan>>
    BY <1>10 DEF Decide, NewOf, PriorOf
  <2>2. q.pc = "record" /\ q.msg = job[w].msg /\ q.scan = job[w].scan /\ q.status # "none"
    BY <1>0 DEF JobRec
  <2>3. job[w].pc \in Running /\ job[w].scan # 0
    BY <2>1 DEF Running, DeliveriesInv
  <2> HIDE DEF q
  <2> QED BY <2>1, <2>2, <2>3, JobDeliveries
<1>11. CASE Record(w)
  <2> DEFINE q == [job[w] EXCEPT !.pc = "persist"]
  <2>0. CASE Gone(w)
    BY <1>3, <1>11, <2>0 DEF Record
  <2> SUFFICES ASSUME ~Gone(w) PROVE DeliveriesInv'
    BY <2>0
  <2>1. /\ job' = [job EXCEPT ![w] = q] /\ job[w].pc = "record"
        /\ UNCHANGED <<row, queue, hooks, faults>>
    BY <1>11 DEF Record
  <2>2. q.pc = "persist" /\ q.msg = job[w].msg /\ q.scan = job[w].scan
    BY <1>0 DEF JobRec
  <2>3. job[w].pc \in Running /\ job[w].scan # 0 /\ job[w].status # "none"
    BY <2>1 DEF Running, DeliveriesInv
  <2>4. \A s \in ScanId : prscan'[s] = "none" => prscan[s] = "none"
    BY <1>4, <1>11, <2>3 DEF Record
  <2> HIDE DEF q
  <2> QED BY <2>1, <2>2, <2>3, <2>4, JobDeliveries
<1>12. CASE Post(w) \/ PostFails(w) \/ FetchFails(w)
  BY <1>3, <1>12 DEF Post, PostFails, FetchFails
<1>13. CASE Fail(w)
  <2>1. \A s \in ScanId : prscan'[s] = "none" => prscan[s] = "none"
    BY <1>4, <1>13 DEF Fail
  <2> QED BY <1>3, <1>13, <2>1 DEF Fail
<1>14. CASE Ack(w)
  <2>1. job' = [job EXCEPT ![w] = IdleJob] /\ UNCHANGED <<row, queue, hooks, faults, prscan>>
    BY <1>14 DEF Ack
  <2> QED BY <1>1, <1>2, <2>1, JobDeliveries
<1>15. CASE Crash(w) \/ RequestLost(w)
  <2>1. job' = [job EXCEPT ![w] = IdleJob] /\ UNCHANGED <<row, hooks, prscan>> /\ Fault
    BY <1>15 DEF Crash, RequestLost
  <2>2. queue' \subseteq queue \cup {job[w].msg}
    BY <1>15 DEF Crash, RequestLost, Unacked
  <2> QED BY <1>1, <1>2, <2>1, <2>2, JobDeliveries
<1>16. CASE Redeliver(w)
  <2>1. job' = [job EXCEPT ![w] = job[w]] /\ UNCHANGED <<row, hooks, prscan>> /\ Fault
    BY <1>0, <1>16 DEF Redeliver
  <2>2. queue' \subseteq queue \cup {job[w].msg}
    BY <1>16 DEF Redeliver, Unacked
  <2>3. /\ job[w].pc \in Running => job[w].scan # 0
        /\ job[w].pc = "record" => job[w].status # "none"
    BY DEF DeliveriesInv
  <2> QED BY <2>1, <2>2, <2>3, JobDeliveries
<1>17. CASE CloneAndScan(w)
  BY <1>9, <1>17 DEF CloneAndScan
<1>18. ASSUME NEW seen, ScanPartly(w, seen) PROVE DeliveriesInv'
  BY <1>9, <1>18 DEF ScanPartly
<1>19. ASSUME NEW page, Persist(w, page) PROVE DeliveriesInv'
  <2>1. CASE Gone(w)
    BY <1>3, <1>19, <2>1 DEF Persist
  <2> QED BY <1>19, <2>1, PersistDeliveries
<1> QED BY <1>5, <1>6, <1>7, <1>8, <1>10, <1>11, <1>12, <1>13, <1>14, <1>15, <1>16, <1>17, <1>18, <1>19
        DEF WorkerStep, WorkerFault

\* A webhook that creates a row hands it out to nobody yet.
LEMMA HookRow ==
  ASSUME GuardTypes, DeliveriesInv, NEW c, NEW z \in ScanId, PullRequest(c, z)
  PROVE  DeliveriesInv'
<1> DEFINE k == [sha |-> c, scan |-> z, pc |-> "status"]
<1>1. UNCHANGED <<job, row, queue, faults>> /\ faults \in 0..MaxFaults
  BY DEF PullRequest, DeliveriesInv
<1>2. CASE UNCHANGED <<prscan, hooks>>
  BY <1>1, <1>2, QuietDeliveries DEF Stored
<1>3. CASE IsNext(z) /\ SetScan(z, "running") /\ hooks' = hooks \cup {k}
  <2>0. prscan[z] = "none" /\ prscan'[z] # "none" /\ \A s \in ScanId : s # z => prscan'[s] = prscan[s]
    BY <1>3 DEF IsNext, SetScan, GuardTypes
  <2>1. \A s : Stored(s)' = Stored(s) /\ Storers(s)' = Storers(s)
    BY <1>1 DEF Stored, Storers
  <2>2. k.scan = z
    OBVIOUS
  <2> HIDE DEF k
  <2>3. ASSUME NEW s \in ScanId PROVE Unheard(s)'
    <3> SUFFICES ASSUME prscan'[s] = "none" \/ \E h \in hooks' : h.scan = s
                 PROVE  /\ Stored(s)' = {} /\ s \notin queue'
                        /\ \A x \in Workers : job'[x].scan # s /\ job'[x].msg # s
      BY DEF Unheard
    <3>1. prscan[s] = "none" \/ \E h \in hooks : h.scan = s
      BY <1>3, <2>0, <2>2
    <3> QED BY <1>1, <2>1, <3>1 DEF DeliveriesInv, Unheard
  <2>4. ASSUME NEW s \in ScanId PROVE Deliveries(s)' <= faults' + 1
    BY <1>1, <2>1, DeliveriesKept
  <2>5. HooksApart'
    <3>1. \A h \in hooks : h.scan \in ScanId /\ prscan[h.scan] # "none"
      BY DEF GuardTypes, Hook, DeliveriesInv, HooksApart
    <3>2. \A h \in hooks : h.scan # z /\ prscan'[h.scan] # "none"
      BY <2>0, <3>1
    <3> QED BY <1>3, <2>0, <2>2, <3>2 DEF DeliveriesInv, HooksApart
  <2> QED BY <1>1, <2>3, <2>4, <2>5 DEF DeliveriesInv
<1> QED BY <1>2, <1>3 DEF PullRequest

\* ... posts its status, or not,
LEMMA HookStatus ==
  ASSUME GuardTypes, DeliveriesInv, NEW h \in hooks,
         hooks' = (hooks \ {h}) \cup {[h EXCEPT !.pc = "publish"]},
         UNCHANGED <<job, row, prscan, queue, faults>>
  PROVE  DeliveriesInv'
<1>1. PICK k : k = [h EXCEPT !.pc = "publish"]
  OBVIOUS
<1>2. k.scan = h.scan
  BY <1>1 DEF GuardTypes, Hook
<1>3. \A x \in hooks' : \E y \in hooks : y.scan = x.scan
  BY <1>1, <1>2
<1>4. \A s : Stored(s)' = Stored(s) /\ Storers(s)' = Storers(s)
  BY DEF Stored, Storers
<1>5. ASSUME NEW s \in ScanId PROVE Unheard(s)'
  BY <1>3, <1>4 DEF DeliveriesInv, Unheard
<1>6. ASSUME NEW s \in ScanId PROVE Deliveries(s)' <= faults' + 1
  BY <1>4, DeliveriesKept DEF DeliveriesInv
<1>7. HooksApart'
  <2>1. hooks' = (hooks \ {h}) \cup {k} /\ prscan' = prscan
    BY <1>1
  <2>2. \A x \in hooks : /\ prscan[x.scan] # "none"
                         /\ \A y \in hooks : y.scan = x.scan => y = x
    BY DEF DeliveriesInv, HooksApart
  <2>3. \A x \in hooks \ {h} : x.scan # k.scan
    BY <1>2, <2>2
  <2>4. prscan[k.scan] # "none"
    BY <1>2, <2>2
  <2> QED BY <2>1, <2>2, <2>3, <2>4, Zenon DEF HooksApart
<1> QED BY <1>5, <1>6, <1>7 DEF DeliveriesInv

\* ... and puts its one message into the queue.
LEMMA HookPublishes ==
  ASSUME GuardTypes, DeliveriesInv, NEW h \in hooks, Publish(h)
  PROVE  DeliveriesInv'
<1>1. /\ queue' = queue \cup {h.scan} /\ hooks' = hooks \ {h}
      /\ UNCHANGED <<job, row, prscan, faults>> /\ faults \in 0..MaxFaults
  BY DEF Publish, DeliveriesInv
<1>2. \A s : Stored(s)' = Stored(s) /\ Storers(s)' = Storers(s)
  BY <1>1 DEF Stored, Storers
<1>3. prscan[h.scan] # "none" /\ \A k \in hooks' : k.scan # h.scan
  BY <1>1 DEF DeliveriesInv, HooksApart
<1>4. ASSUME NEW s \in ScanId PROVE Unheard(s)'
  BY <1>1, <1>2, <1>3 DEF DeliveriesInv, Unheard
<1>5. ASSUME NEW s \in ScanId, s # h.scan PROVE Deliveries(s)' <= faults' + 1
  BY <1>1, <1>2, <1>5, DeliveriesKept
<1>6. ASSUME NEW s \in ScanId, s = h.scan PROVE Deliveries(s)' <= faults' + 1
  <2>1. Stored(s) = {} /\ Storers(s) = {}
    BY <1>6 DEF DeliveriesInv, Unheard, Storers
  <2>2. CopiesOf(s)' = {} /\ Storers(s)' = {}
    BY <1>2, <2>1 DEF CopiesOf
  <2>3. Cardinality(CopiesOf(s)') = 0 /\ Cardinality(Storers(s)') = 0 /\ s \in queue'
    BY <1>1, <1>6, <2>2, FS_EmptySet
  <2>4. Deliveries(s)' = 0 + 0 + 1
    BY <2>3 DEF Deliveries
  <2> QED BY <1>1, <2>4
<1>7. HooksApart'
  BY <1>1 DEF DeliveriesInv, HooksApart
<1> QED BY <1>1, <1>4, <1>5, <1>6, <1>7 DEF DeliveriesInv

\* The webhook, as a whole.
LEMMA HookDeliveries ==
  ASSUME GuardTypes, DeliveriesInv, Deliver \/ HookFault
  PROVE  DeliveriesInv'
<1>1. ASSUME NEW h \in hooks, HookLost(h) PROVE DeliveriesInv'
  <2>1. /\ hooks' = hooks \ {h} /\ UNCHANGED <<job, row, prscan, queue>>
        /\ faults' \in 0..MaxFaults /\ faults <= faults'
    BY <1>1, GuardrailAssumption DEF HookLost, Fault, DeliveriesInv
  <2>2. \A s : Stored(s)' = Stored(s) /\ Storers(s)' = Storers(s)
    BY <2>1 DEF Stored, Storers
  <2>3. ASSUME NEW s \in ScanId PROVE Unheard(s)'
    BY <2>1, <2>2 DEF DeliveriesInv, Unheard
  <2>4. ASSUME NEW s \in ScanId PROVE Deliveries(s)' <= faults' + 1
    BY <2>1, <2>2, DeliveriesKept
  <2>5. HooksApart'
    BY <2>1 DEF DeliveriesInv, HooksApart
  <2> QED BY <2>1, <2>3, <2>4, <2>5 DEF DeliveriesInv
<1>2. ASSUME NEW h \in hooks, PendingStatus(h) \/ PendingFails(h) PROVE DeliveriesInv'
  BY <1>2, HookStatus DEF PendingStatus, PendingFails
<1> QED BY <1>1, <1>2, HookRow, HookPublishes DEF Deliver, HookFault

\* GitHub, the switches, and people.
LEMMA OthersDeliveries ==
  ASSUME HumanInv, DeliveriesInv,
         \/ \E vs \in SUBSET Vulns : PushCommit(vs)
         \/ \E c \in Commits : EventAgain(c)
         \/ \E on \in BOOLEAN, m \in Modes : Switch(on, m)
         \/ \E r \in Reviewers : ReviewStep(r) \/ ReviewFails(r)
         \/ \E r \in Reviewers, f \in RowId : Approve(r, f) \/ Revoke(r, f)
         \/ \E r \in Reviewers, s \in ScanId : Override(r, s)
         \/ \E f \in RowId : Request(f) \/ Reject(f)
         \/ \E s \in ScanId : Retry(s) \/ MarkStale(s)
         \/ UNCHANGED vars
  PROVE  DeliveriesInv'
<1>0. GuardTypes /\ faults \in 0..MaxFaults
  BY DEF HumanInv, DeliveriesInv
<1>1. ASSUME UNCHANGED <<job, row, hooks, queue>>, UNCHANGED faults \/ Fault,
             \A s \in ScanId : prscan'[s] = "none" => prscan[s] = "none"
      PROVE  DeliveriesInv'
  <2>1. \A s : Stored(s)' = Stored(s)
    BY <1>1 DEF Stored
  <2>2. faults' \in 0..MaxFaults /\ faults <= faults'
    BY <1>0, <1>1, GuardrailAssumption DEF Fault
  <2> QED BY <1>0, <1>1, <2>1, <2>2, QuietDeliveries
<1>2. ASSUME NEW f \in RowId, row[f] # "absent",
             NEW st \in IgnoreStatus \ {"absent"}, row' = [row EXCEPT ![f] = st],
             UNCHANGED <<job, prscan, hooks, queue, faults>>
      PROVE  DeliveriesInv'
  <2>1. \A s : Stored(s)' = Stored(s)
    BY <1>0, <1>2 DEF Stored, GuardTypes
  <2> QED BY <1>0, <1>2, <2>1, QuietDeliveries
<1>3. ASSUME NEW s, NEW st, SetScan(s, st), st # "none"
      PROVE  \A z \in ScanId : prscan'[z] = "none" => prscan[z] = "none"
  BY <1>0, <1>3, RowStays
<1>5. ASSUME NEW z \in ScanId, Retry(z)
      PROVE  DeliveriesInv'
  <2>1. UNCHANGED <<job, row, hooks, faults>> /\ queue' \subseteq queue \cup {0}
    BY <1>5 DEF Retry
  <2>2. SetScan(z, "error") \/ UNCHANGED prscan
    BY <1>5 DEF Retry
  <2>3. \A s \in ScanId : prscan'[s] = "none" => prscan[s] = "none"
    BY <1>3, <2>2
  <2>4. \A s : Stored(s)' = Stored(s)
    BY <2>1 DEF Stored
  <2> QED BY <1>0, <2>1, <2>3, <2>4, QuietDeliveries
<1>6. ASSUME NEW z \in ScanId, MarkStale(z)
      PROVE  DeliveriesInv'
  BY <1>1, <1>3, <1>6 DEF MarkStale
<1>7. ASSUME NEW r \in Reviewers, NEW f \in RowId,
             Approve(r, f) \/ Revoke(r, f) \/ Request(f) \/ Reject(f)
      PROVE  DeliveriesInv'
  <2>1. PICK st \in IgnoreStatus \ {"absent"} : row' = [row EXCEPT ![f] = st]
    BY <1>7 DEF Approve, Revoke, Request, Reject, SubmitIgnoreRequest, IgnoreStatus
  <2>2. row[f] # "absent" /\ UNCHANGED <<job, prscan, hooks, queue, faults>>
    BY <1>7 DEF Approve, Revoke, Request, Reject
  <2> QED BY <1>2, <2>1, <2>2
<1>8. ASSUME NEW f \in RowId, Request(f) \/ Reject(f)
      PROVE  DeliveriesInv'
  <2>1. PICK st \in IgnoreStatus \ {"absent"} : row' = [row EXCEPT ![f] = st]
    BY <1>8 DEF Request, Reject, SubmitIgnoreRequest, IgnoreStatus
  <2>2. row[f] # "absent" /\ UNCHANGED <<job, prscan, hooks, queue, faults>>
    BY <1>8 DEF Request, Reject
  <2> QED BY <1>2, <2>1, <2>2
<1>9. ASSUME NEW r \in Reviewers, ReviewStep(r) \/ ReviewFails(r)
      PROVE  DeliveriesInv'
  <2>1. UNCHANGED <<job, row, hooks, queue, faults>>
    BY <1>9 DEF ReviewStep, ReviewFails, Sync, RecomputeDecide, RecomputeWrite, RecomputePost, OverridePost
  <2>2. \/ SetScan(rev[r].row[1], IF rev[r].blocked THEN "blocked" ELSE "passed")
        \/ UNCHANGED prscan
    BY <1>9 DEF ReviewStep, ReviewFails, Sync, RecomputeDecide, RecomputeWrite, RecomputePost, OverridePost
  <2>3. \A s \in ScanId : prscan'[s] = "none" => prscan[s] = "none"
    BY <1>3, <2>2
  <2> QED BY <1>1, <2>1, <2>3
<1>10. ASSUME NEW r \in Reviewers, NEW z \in ScanId, Override(r, z)
       PROVE  DeliveriesInv'
  BY <1>1, <1>3, <1>10 DEF Override
<1>11. ASSUME NEW vs, NEW c, NEW on, NEW m,
              PushCommit(vs) \/ EventAgain(c) \/ Switch(on, m) \/ UNCHANGED vars
       PROVE  DeliveriesInv'
  BY <1>1, <1>11 DEF PushCommit, EventAgain, Switch, vars
<1> QED BY <1>5, <1>6, <1>7, <1>8, <1>9, <1>10, <1>11

LEMMA RoomToStore == GuardTypes /\ DeliveriesInv => StoredPerDelivery
<1> SUFFICES ASSUME GuardTypes, DeliveriesInv PROVE StoredPerDelivery
  OBVIOUS
<1>1. ASSUME NEW s \in ScanId
      PROVE  Cardinality(CopiesOf(s)) + Cardinality(Storers(s)) <= faults + 1
  <2>1. PICK c, r \in Nat : c = Cardinality(CopiesOf(s)) /\ r = Cardinality(Storers(s))
    BY CountsType
  <2>2. c + r + (IF s \in queue THEN 1 ELSE 0) <= faults + 1 /\ faults \in Nat
    BY <2>1 DEF DeliveriesInv, Deliveries
  <2> QED BY <2>1, <2>2
<1>2. \A s \in ScanId : Cardinality(CopiesOf(s)) <= faults + 1
  <2> SUFFICES ASSUME NEW s \in ScanId PROVE Cardinality(CopiesOf(s)) <= faults + 1
    OBVIOUS
  <2>1. PICK c, r \in Nat : c = Cardinality(CopiesOf(s)) /\ r = Cardinality(Storers(s))
    BY CountsType
  <2>2. c + r <= faults + 1 /\ faults \in Nat
    BY <1>1, <2>1 DEF DeliveriesInv
  <2> QED BY <2>1, <2>2
<1>3. ASSUME NEW w \in Workers, job[w].pc = "persist"
      PROVE  Unused(job[w].scan) # {}
  <2>1. PICK s : s = job[w].scan
    OBVIOUS
  <2>2. s \in ScanId
    <3>1. s # 0 /\ s \in Message
      BY <1>3, <2>1 DEF GuardTypes, JobRec, DeliveriesInv, Running
    <3> QED BY <3>1, GuardrailAssumption DEF Message, ScanId
  <2>3. w \in Storers(s)
    BY <1>3, <2>1 DEF Storers, Running
  <2>4. PICK c, r \in Nat : c = Cardinality(CopiesOf(s)) /\ r = Cardinality(Storers(s))
    BY CountsType
  <2>5. r >= 1
    <3>1. Storers(s) # {}
      BY <2>3
    <3>2. r # 0
      BY <2>4, <3>1, CountsType, FS_EmptySet
    <3> QED BY <3>2
  <2>6. c < Cardinality(Copies)
    <3>1. Cardinality(Copies) = MaxFaults + 1
      <4>1. 1 \in Int /\ MaxFaults + 1 \in Int /\ MaxFaults \in Nat
        BY GuardrailAssumption
      <4>2. Cardinality(1..(MaxFaults + 1)) = IF 1 > MaxFaults + 1 THEN 0 ELSE (MaxFaults + 1) - 1 + 1
        BY <4>1, FS_Interval
      <4> QED BY <4>1, <4>2 DEF Copies
    <3>2. c + r <= faults + 1 /\ faults \in Nat /\ faults <= MaxFaults /\ MaxFaults \in Nat
      BY <1>1, <2>2, <2>4, GuardrailAssumption DEF DeliveriesInv
    <3> QED BY <2>5, <3>1, <3>2
  <2>7. CopiesOf(s) # Copies
    BY <2>4, <2>6
  <2>8. PICK n \in Copies : n \notin CopiesOf(s)
    BY <2>7 DEF CopiesOf
  <2>9. n \in Unused(s)
    BY <2>8 DEF Unused, CopiesOf
  <2> QED BY <2>1, <2>9
<1> QED BY <1>2, <1>3 DEF StoredPerDelivery

(* A scan's rows are stored at most once, and once more for each lost worker
   and each message handed out again; a run with a verdict always finds room
   for its rows, so that no bound of the model but those its guards name keeps
   a run from going on. *)
THEOREM StoredPerDeliveryHolds == Spec => []StoredPerDelivery
<1>1. Init => DeliveriesInv
  <2> SUFFICES ASSUME Init PROVE DeliveriesInv
    OBVIOUS
  <2>1. \A w \in Workers : job[w].pc = "idle" /\ job[w].scan = 0 /\ job[w].msg = 0
    BY DEF Init, IdleJob
  <2>2. \A s \in ScanId : s # 0 /\ s \notin queue /\ Stored(s) = {} /\ Storers(s) = {}
    BY <2>1 DEF Init, ScanId, Stored, Storers
  <2>3. faults = 0 /\ 0 \in 0..MaxFaults
    BY GuardrailAssumption DEF Init
  <2>4. ASSUME NEW s \in ScanId PROVE Unheard(s) /\ Deliveries(s) <= faults + 1
    <3>1. CopiesOf(s) = {} /\ Storers(s) = {} /\ s \notin queue
      BY <2>2, <2>4 DEF CopiesOf
    <3>2. Cardinality(CopiesOf(s)) = 0 /\ Cardinality(Storers(s)) = 0
      BY <3>1, FS_EmptySet
    <3>3. Deliveries(s) = 0 + 0 + 0
      BY <3>1, <3>2 DEF Deliveries
    <3>4. hooks = {}
      BY DEF Init
    <3> QED BY <2>1, <2>2, <2>3, <3>3, <3>4 DEF Unheard
  <2>5. hooks = {} /\ HooksApart
    BY DEF Init, HooksApart
  <2> QED BY <2>1, <2>3, <2>4, <2>5 DEF DeliveriesInv, Running
<1>2. HumanInv /\ DeliveriesInv /\ [Next]_vars => DeliveriesInv'
  <2> SUFFICES ASSUME HumanInv, DeliveriesInv, [Next]_vars PROVE DeliveriesInv'
    OBVIOUS
  <2>0. GuardTypes
    BY DEF HumanInv
  <2>1. CASE UNCHANGED vars
    BY <2>1, OthersDeliveries
  <2>2. CASE People
    BY <2>0, <2>2, WorkerDeliveries, OthersDeliveries DEF People
  <2>3. CASE Next /\ ~People
    BY <2>0, <2>3, WorkerDeliveries, HookDeliveries, OthersDeliveries DEF Next, Modes
  <2> QED BY <2>1, <2>2, <2>3
<1>3. HumanInv /\ DeliveriesInv => StoredPerDelivery
  BY RoomToStore DEF HumanInv
<1> QED BY <1>1, <1>2, <1>3, HumanInvariant, PTL DEF Spec
=============================================================================
