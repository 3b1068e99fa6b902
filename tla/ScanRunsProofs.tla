--------------------------- MODULE ScanRunsProofs ---------------------------
(***************************************************************************)
(* What holds of ScanRuns for every number of vulnerabilities, workers,    *)
(* scans, retries, edits and faults.                                       *)
(***************************************************************************)
EXTENDS ScanRuns, FiniteSetTheorems, TLAPS

\* The rows there are.
Stored == {f \in FindingId : finding[f].state # "none"}

\* The workers that looked h up, found nothing and will insert it.
FreshFor(h) == {w \in Workers : h \in job[w].fresh}

\* Ingestion has the tool's report in hand.
Ingesting == {"look", "suppress", "announce", "sweep", "mitigate", "complete"}

\* What a run inserted and has not announced.
Pending(j) == IF j.pc \in {"suppress", "announce"} THEN j.new ELSE {}

\* A healthy report is the whole checkout; only _may_mitigate leads to the
\* sweep; the sweep holds nothing the run reported.
Evidence(j) ==
  /\ j.pc \in Ingesting /\ j.health = "healthy" => j.saw = j.tree
  /\ j.pc \in {"sweep", "mitigate"} =>
       j.health = "healthy" \/ (j.health = "unknown" /\ j.saw # {})
  /\ j.pc = "mitigate" => \A f \in j.stale : f[1] \notin j.saw

-----------------------------------------------------------------------------
(* The inductive invariant, by parts.                                      *)

\* The rows of a hash are numbered without a gap, so the next number is free.
RowsInOrder ==
  \A h \in Hashes : Rows(h) = {<<h, i>> : i \in 1..Cardinality(Rows(h))}

\* The rows a hash has and those still on their way to it: one per worker.
RowsFit ==
  \A h \in Hashes :
    Cardinality(Rows(h)) + Cardinality(FreshFor(h)) <= Cardinality(Workers)

\* What a run remembers of the finding table is there.
KnownRows ==
  \A w \in Workers : /\ job[w].reopen \subseteq Stored
                     /\ job[w].new \subseteq Stored
                     /\ job[w].stale \subseteq Stored

\* Nothing is announced before it is stored, and one run announces it.
AnnouncedApart ==
  /\ \A f \in FindingId : told[f] <= 1
  /\ \A f \in FindingId : finding[f].state = "none" => told[f] = 0
  /\ \A w \in Workers : \A f \in Pending(job[w]) : told[f] = 0
  /\ \A w, x \in Workers : w # x => Pending(job[w]) \cap Pending(job[x]) = {}

\* Two rows of a hash, or an insert beside a row, come of a race for it.
OneRow ==
  \A h \in Hashes \ raced :
    /\ \A f, g \in Rows(h) : f = g
    /\ FreshFor(h) # {} => Rows(h) = {}
    /\ \A w, x \in FreshFor(h) : w = x

\* Every sweep rests on the evidence of its run.
EvidenceKept == \A w \in Workers : Evidence(job[w])

RunsInv ==
  /\ RunsTypeOK /\ RowsInOrder /\ RowsFit /\ KnownRows /\ AnnouncedApart
  /\ OneRow /\ EvidenceKept

\* The place of a run's checkout among those ingested: one that is stored is
\* not newer than the newest, one that is not is another.
InOrder(j) ==
  /\ j.pc \notin Ingesting \cup {"tool"} => j.seq = 0
  /\ j.pc \in {"tool", "look"} => j.seq # latest.seq
  /\ j.pc \in Ingesting \ {"look"} =>
       j.seq <= latest.seq /\ (j.seq = latest.seq => latest.saw = j.saw)

\* Every checkout in hand is another one, and the clock counts them all.
CheckoutsInOrder ==
  /\ latest.seq <= clones
  /\ \A w \in Workers : job[w].seq <= clones /\ InOrder(job[w])
  /\ \A w, x \in Workers : w # x /\ job[w].seq = job[x].seq => job[w].seq = 0

\* What a run newer than all those stored has looked up has a row that is not
\* cleared, or one that Store will write, unless it was outrun.
Accounted(j) ==
  j.pc = "look" /\ j.seq > latest.seq =>
    \A h \in (j.saw \ j.todo) \ outrun :
      \/ h \in j.fresh
      \/ \E f \in Rows(h) : f \in j.reopen \/ finding[f] # Cleared

AllAccounted == \A w \in Workers : Accounted(job[w])

RecordInv == RunsInv /\ CheckoutsInOrder /\ AllAccounted /\ ReportedIsOnRecord

-----------------------------------------------------------------------------
(* The finding table.                                                      *)

\* The rows of a hash are finitely many, and there are as many ids as workers.
LEMMA RowsFinite ==
  ASSUME NEW h \in Hashes
  PROVE  /\ IsFiniteSet(Rows(h))
         /\ Cardinality(Rows(h)) \in Nat
         /\ IsFiniteSet(FreshFor(h))
         /\ Cardinality(FreshFor(h)) \in Nat
         /\ Cardinality(FreshFor(h)) <= Cardinality(Workers)
         /\ Cardinality(Workers) \in Nat
<1>1. IsFiniteSet(Workers) /\ Cardinality(Workers) \in Nat
  BY RunsAssumption, FS_CardinalityType
<1>2. IsFiniteSet(FindingId)
  <2>1. IsFiniteSet(1..Cardinality(Workers))
    BY <1>1, FS_Interval
  <2> QED BY <2>1, RunsAssumption, FS_Product DEF FindingId
<1>3. Rows(h) \in SUBSET FindingId /\ FreshFor(h) \in SUBSET Workers
  BY DEF Rows, FreshFor
<1>4. IsFiniteSet(Rows(h))
  BY <1>2, <1>3, FS_Subset
<1>5. IsFiniteSet(FreshFor(h)) /\ Cardinality(FreshFor(h)) <= Cardinality(Workers)
  BY <1>1, <1>3, FS_Subset
<1> QED BY <1>1, <1>4, <1>5, FS_CardinalityType

\* ingest_findings: the row an insert creates is a new one, within the bound.
LEMMA NextRowIsFree ==
  ASSUME RowsInOrder, RowsFit, NEW w \in Workers, NEW h \in job[w].fresh, h \in Hashes
  PROVE  /\ NextRow(h) \in FindingId
         /\ NextRow(h) \notin Rows(h)
         /\ finding[NextRow(h)].state = "none"
<1> DEFINE c == Cardinality(Rows(h))
<1>1. c \in Nat /\ IsFiniteSet(FreshFor(h)) /\ Cardinality(FreshFor(h)) \in Nat
      /\ Cardinality(Workers) \in Nat
  BY RowsFinite
<1>2. FreshFor(h) # {}
  BY DEF FreshFor
<1>3. Cardinality(FreshFor(h)) # 0
  BY <1>1, <1>2, FS_EmptySet
<1>4. c + Cardinality(FreshFor(h)) <= Cardinality(Workers)
  BY DEF RowsFit
<1>5. c + 1 \in 1..Cardinality(Workers)
  <2> HIDE DEF c
  <2> QED BY <1>1, <1>3, <1>4
<1>6. NextRow(h) \in FindingId
  BY <1>5 DEF NextRow, FindingId
<1>7. Rows(h) = {<<h, i>> : i \in 1..c}
  BY DEF RowsInOrder
<1>8. NextRow(h) = <<h, c + 1>>
  BY DEF NextRow
<1>9. NextRow(h) \notin Rows(h)
  <2> HIDE DEF c
  <2> SUFFICES ASSUME NextRow(h) \in Rows(h) PROVE FALSE
    OBVIOUS
  <2>1. PICK i \in 1..c : <<h, c + 1>> = <<h, i>>
    BY <1>7, <1>8
  <2> QED BY <2>1, <1>1
<1> QED BY <1>6, <1>8, <1>9 DEF Rows

\* A step that neither inserts nor deletes a row keeps every hash's rows.
LEMMA RowsKept ==
  ASSUME \A f \in FindingId : finding'[f].state = "none" <=> finding[f].state = "none"
  PROVE  /\ \A h \in Hashes : Rows(h)' = Rows(h)
         /\ Stored' = Stored
         /\ RowsInOrder => RowsInOrder'
<1>1. ASSUME NEW h \in Hashes PROVE Rows(h)' = Rows(h)
  BY DEF Rows
<1>2. Stored' = Stored
  BY DEF Stored
<1>3. RowsInOrder => RowsInOrder'
  BY <1>1 DEF RowsInOrder
<1> QED BY <1>1, <1>2, <1>3

\* Rows that stay and inserts that only go away still fit.
LEMMA FitKept ==
  ASSUME RowsFit, \A h \in Hashes : Rows(h)' = Rows(h),
         \A w \in Workers : job'[w].fresh \subseteq job[w].fresh
  PROVE  RowsFit'
<1> SUFFICES ASSUME NEW h \in Hashes
    PROVE Cardinality(Rows(h)') + Cardinality(FreshFor(h)') <= Cardinality(Workers)
  BY DEF RowsFit
<1>1. FreshFor(h)' \in SUBSET FreshFor(h)
  BY DEF FreshFor
<1>2. Cardinality(FreshFor(h)') <= Cardinality(FreshFor(h)) /\ IsFiniteSet(FreshFor(h)')
  BY <1>1, RowsFinite, FS_Subset
<1>3. Cardinality(FreshFor(h)') \in Nat
  BY <1>2, FS_CardinalityType
<1>4. Cardinality(Rows(h)) + Cardinality(FreshFor(h)) <= Cardinality(Workers)
  BY DEF RowsFit
<1>5. Cardinality(Rows(h)') = Cardinality(Rows(h))
  OBVIOUS
<1> QED BY <1>2, <1>3, <1>4, <1>5, RowsFinite

\* Neither do they make a second row.
LEMMA OneRowKept ==
  ASSUME OneRow, \A h \in Hashes : Rows(h)' = Rows(h), raced' = raced,
         \A w \in Workers : job'[w].fresh \subseteq job[w].fresh
  PROVE  OneRow'
<1> SUFFICES ASSUME NEW h \in Hashes \ raced
    PROVE  /\ \A f, g \in Rows(h)' : f = g
           /\ FreshFor(h)' # {} => Rows(h)' = {}
           /\ \A w, x \in FreshFor(h)' : w = x
  BY DEF OneRow
<1>1. FreshFor(h)' \subseteq FreshFor(h) /\ Rows(h)' = Rows(h)
  BY DEF FreshFor
<1> QED BY <1>1 DEF OneRow

-----------------------------------------------------------------------------
(* Steps of one run that leave the finding table alone.                    *)

\* What such a step has to keep of the run it moves.
LEMMA JobMoves ==
  ASSUME RunsInv, NEW w \in Workers, NEW j \in Job,
         job' = [job EXCEPT ![w] = j], UNCHANGED <<finding, told>>,
         j.reopen \subseteq Stored, j.new \subseteq Stored, j.stale \subseteq Stored,
         Pending(j) \subseteq Pending(job[w]), Evidence(j)
  PROVE  /\ RowsInOrder' /\ KnownRows' /\ AnnouncedApart' /\ EvidenceKept'
         /\ j.fresh \subseteq job[w].fresh => RowsFit'
         /\ j.fresh \subseteq job[w].fresh /\ raced' = raced => OneRow'
<1> USE DEF RunsInv
<1>1. job \in [Workers -> Job]
  BY DEF RunsTypeOK
<1>2. job'[w] = j /\ \A x \in Workers \ {w} : job'[x] = job[x]
  BY <1>1
<1>3. (\A h \in Hashes : Rows(h)' = Rows(h)) /\ Stored' = Stored /\ RowsInOrder'
  BY RowsKept
<1>4. KnownRows'
  BY <1>2, <1>3 DEF KnownRows
<1>5. \A x \in Workers : Pending(job'[x]) \subseteq Pending(job[x])
  BY <1>2
<1>6. AnnouncedApart'
  BY <1>5 DEF AnnouncedApart
<1>7. EvidenceKept'
  BY <1>2 DEF EvidenceKept
<1>8. j.fresh \subseteq job[w].fresh => RowsFit'
  <2> SUFFICES ASSUME j.fresh \subseteq job[w].fresh PROVE RowsFit'
    OBVIOUS
  <2>1. \A x \in Workers : job'[x].fresh \subseteq job[x].fresh
    BY <1>2
  <2> QED BY <2>1, <1>3, FitKept
<1>9. j.fresh \subseteq job[w].fresh /\ raced' = raced => OneRow'
  <2> SUFFICES ASSUME j.fresh \subseteq job[w].fresh, raced' = raced PROVE OneRow'
    OBVIOUS
  <2>1. \A x \in Workers : job'[x].fresh \subseteq job[x].fresh
    BY <1>2
  <2> QED BY <2>1, <1>3, OneRowKept
<1> QED BY <1>3, <1>4, <1>6, <1>7, <1>8, <1>9

\* A slot outside the run: everything ingestion remembers is gone.
LEMMA JobLeaves ==
  ASSUME RunsInv, NEW w \in Workers, NEW j \in Job,
         job' = [job EXCEPT ![w] = j], UNCHANGED <<finding, told, raced>>,
         j.pc \notin Ingesting, j.fresh = {}, j.reopen = {}, j.new = {}, j.stale = {}
  PROVE  /\ RowsInOrder' /\ RowsFit' /\ KnownRows' /\ AnnouncedApart' /\ OneRow'
         /\ EvidenceKept'
<1>1. Pending(j) = {}
  BY DEF Pending, Ingesting
<1>2. Evidence(j)
  BY DEF Evidence, Ingesting
<1> QED BY <1>1, <1>2, JobMoves

\* The idle slot is a job.
LEMMA IdleJobType == IdleJob \in Job
BY RunsAssumption DEF IdleJob, Job, ScanId

\* The task returns: the slot is of its type and holds nothing of the run.
LEMMA ReturnLeaves ==
  ASSUME RunsInv, NEW w \in Workers, Return(w), UNCHANGED <<finding, told, raced>>
  PROVE  /\ job' \in [Workers -> Job]
         /\ RowsInOrder' /\ RowsFit' /\ KnownRows' /\ AnnouncedApart' /\ OneRow' /\ EvidenceKept'
<1> DEFINE j == [IdleJob EXCEPT !.pc = "ack", !.scan = job[w].scan,
                                !.tries = job[w].tries, !.pushed = job[w].pushed]
<1>1. job \in [Workers -> Job]
  BY DEF RunsInv, RunsTypeOK
<1>2. job[w] \in Job
  BY <1>1
<1>3. j \in Job
  BY <1>2, IdleJobType DEF Job
<1>4. /\ j.pc \notin Ingesting
      /\ j.fresh = {} /\ j.reopen = {} /\ j.new = {} /\ j.stale = {}
  BY DEF IdleJob, Ingesting
<1>5. job' = [job EXCEPT ![w] = j]
  BY DEF Return
<1> HIDE DEF j
<1>6. job' \in [Workers -> Job]
  BY <1>1, <1>3, <1>5
<1> QED BY <1>3, <1>4, <1>5, <1>6, JobLeaves

\* The steps of a run that end it, and those that only move the scan row.
LEMMA EndSteps ==
  ASSUME RunsInv, NEW w \in Workers,
         Refuse(w) \/ Retry(w) \/ Skip(w) \/ Fail(w) \/ Complete(w) \/ IngestFails(w)
  PROVE  RunsInv'
<1>1. RunsTypeOK
  BY DEF RunsInv
<1>2. Return(w) /\ UNCHANGED <<finding, told, raced>>
  BY DEF Refuse, Retry, Skip, Fail, Complete, IngestFails
<1>3. /\ job' \in [Workers -> Job]
      /\ RowsInOrder' /\ RowsFit' /\ KnownRows' /\ AnnouncedApart' /\ OneRow' /\ EvidenceKept'
  BY <1>2, ReturnLeaves
<1>4. job[w] \in Job
  BY <1>1 DEF RunsTypeOK
<1>5. job[w].scan \in ScanId /\ job[w].tries \in 0..MaxRetries
  BY <1>4 DEF Job
<1>6. scan' \in [ScanId -> {"none", "running", "failed", "completed"}]
  BY <1>1, <1>5 DEF Refuse, Retry, Skip, Fail, Complete, IngestFails, Settle, RunsTypeOK
<1>7. queue' \subseteq Message
  <2>1. CASE Retry(w) /\ queue' # queue
    <3>1. job[w].tries + 1 \in 0..MaxRetries
      BY <2>1, <1>5, RunsAssumption DEF Retry
    <3>2. [scan |-> job[w].scan, tries |-> job[w].tries + 1] \in Message
      BY <3>1, <1>5 DEF Message
    <3> QED BY <3>2, <2>1, <1>1 DEF Retry, RunsTypeOK
  <2>2. CASE queue' = queue
    BY <2>2, <1>1 DEF RunsTypeOK
  <2>3. ~Retry(w) => queue' = queue
    BY DEF Refuse, Skip, Fail, Complete, IngestFails
  <2> QED BY <2>1, <2>2, <2>3
<1>8. faults' \in Nat
  BY <1>1 DEF Refuse, Retry, Skip, Fail, Complete, IngestFails, Fault, RunsTypeOK
<1>9. UNCHANGED <<repo, active, finding, rules, told, clones, latest, raced, outrun, commits, edits>>
  BY DEF Refuse, Retry, Skip, Fail, Complete, IngestFails
<1> QED BY <1>1, <1>3, <1>6, <1>7, <1>8, <1>9 DEF RunsInv, RunsTypeOK

\* The steps that move no run and leave the finding table alone.
LEMMA QuietSteps ==
  ASSUME RunsInv, UNCHANGED <<job, finding, told, raced>>, RunsTypeOK'
  PROVE  RunsInv'
<1> USE DEF RunsInv
<1>1. (\A h \in Hashes : Rows(h)' = Rows(h)) /\ Stored' = Stored /\ RowsInOrder'
  BY RowsKept
<1>2. RowsFit'
  BY <1>1, FitKept
<1>3. KnownRows'
  BY <1>1 DEF KnownRows
<1>4. AnnouncedApart'
  BY DEF AnnouncedApart
<1>5. EvidenceKept'
  BY DEF EvidenceKept
<1>6. OneRow'
  BY <1>1, OneRowKept
<1> QED BY <1>1, <1>2, <1>3, <1>4, <1>5, <1>6

\* A message a worker holds is a message.
LEMMA UnackedType ==
  ASSUME RunsTypeOK, NEW w \in Workers
  PROVE  Unacked(w) \subseteq Message
BY DEF RunsTypeOK, Unacked, Job, Message

\* Dispatch, staleness, redelivery, rules, the target's switch and commits.
LEMMA OutsideSteps ==
  ASSUME RunsInv,
         \/ \E s \in ScanId : Dispatch(s) \/ DispatchLost(s) \/ MarkStale(s)
         \/ \E w \in Workers : Redeliver(w)
         \/ \E g \in Sigs, to \in {"none", "active", "inactive"} : EditRule(g, to)
         \/ Toggle
         \/ \E h \in Hashes : Commit(h)
  PROVE  RunsInv'
<1>1. RunsTypeOK
  BY DEF RunsInv
<1>2. ASSUME NEW s \in ScanId, Dispatch(s) PROVE RunsInv'
  <2>1. [scan |-> s, tries |-> 0] \in Message
    BY RunsAssumption DEF Message
  <2>2. RunsTypeOK'
    BY <1>1, <1>2, <2>1 DEF Dispatch, Settle, RunsTypeOK
  <2> QED BY <1>2, <2>2, QuietSteps DEF Dispatch
<1>3. ASSUME NEW s \in ScanId, DispatchLost(s) PROVE RunsInv'
  <2>1. RunsTypeOK'
    BY <1>1, <1>3 DEF DispatchLost, Settle, Fault, RunsTypeOK
  <2> QED BY <1>3, <2>1, QuietSteps DEF DispatchLost
<1>4. ASSUME NEW s \in ScanId, MarkStale(s) PROVE RunsInv'
  <2>1. RunsTypeOK'
    BY <1>1, <1>4 DEF MarkStale, Settle, RunsTypeOK
  <2> QED BY <1>4, <2>1, QuietSteps DEF MarkStale
<1>5. ASSUME NEW w \in Workers, Redeliver(w) PROVE RunsInv'
  <2>1. RunsTypeOK'
    BY <1>1, <1>5, UnackedType DEF Redeliver, Fault, RunsTypeOK
  <2> QED BY <1>5, <2>1, QuietSteps DEF Redeliver
<1>6. ASSUME NEW g \in Sigs, NEW to \in {"none", "active", "inactive"}, EditRule(g, to)
      PROVE RunsInv'
  <2>1. RunsTypeOK'
    BY <1>1, <1>6 DEF EditRule, RunsTypeOK
  <2> QED BY <1>6, <2>1, QuietSteps DEF EditRule
<1>7. ASSUME Toggle PROVE RunsInv'
  <2>1. active' \in BOOLEAN /\ edits' \in Nat
    BY <1>1, <1>7 DEF Toggle, RunsTypeOK
  <2>2. RunsTypeOK'
    BY <1>1, <1>7, <2>1 DEF Toggle, RunsTypeOK
  <2> QED BY <1>7, <2>2, QuietSteps DEF Toggle
<1>8. ASSUME NEW h \in Hashes, Commit(h) PROVE RunsInv'
  <2>1. RunsTypeOK'
    BY <1>1, <1>8 DEF Commit, RunsTypeOK
  <2> QED BY <1>8, <2>1, QuietSteps DEF Commit
<1> QED BY <1>2, <1>3, <1>4, <1>5, <1>6, <1>7, <1>8

\* A slot taken or let go: a message started, acknowledged or lost, a checkout.
LEMMA SlotSteps ==
  ASSUME RunsInv, NEW w \in Workers,
         \/ \E m \in queue : Start(w, m)
         \/ Clone(w) \/ Ack(w) \/ Crash(w)
  PROVE  RunsInv'
<1>1. RunsTypeOK /\ job[w] \in Job
  BY DEF RunsInv, RunsTypeOK
<1>2. ASSUME NEW j \in Job, job' = [job EXCEPT ![w] = j], UNCHANGED <<finding, told>>,
             j.pc \notin Ingesting, j.fresh = {}, j.reopen = {}, j.new = {}, j.stale = {},
             queue' \subseteq Message, clones' \in Nat, faults' \in Nat,
             UNCHANGED <<repo, active, scan, rules, latest, raced, outrun, commits, edits>>
      PROVE  RunsInv'
  <2>1. RowsInOrder' /\ RowsFit' /\ KnownRows' /\ AnnouncedApart' /\ OneRow' /\ EvidenceKept'
    BY <1>2, JobLeaves
  <2>2. job' \in [Workers -> Job]
    BY <1>1, <1>2 DEF RunsTypeOK
  <2> QED BY <1>1, <1>2, <2>1, <2>2 DEF RunsInv, RunsTypeOK
<1>3. ASSUME NEW m \in queue, Start(w, m) PROVE RunsInv'
  <2> DEFINE j == [IdleJob EXCEPT !.pc = IF active THEN "clone" ELSE "refuse",
                                  !.scan = m.scan, !.tries = m.tries]
  <2>1. m \in Message
    BY <1>1 DEF RunsTypeOK
  <2>2. j \in Job
    BY <2>1, IdleJobType DEF Job, Message
  <2>3. /\ j.pc \notin Ingesting
        /\ j.fresh = {} /\ j.reopen = {} /\ j.new = {} /\ j.stale = {}
    BY DEF IdleJob, Ingesting
  <2>4. job' = [job EXCEPT ![w] = j] /\ queue' = queue \ {m}
        /\ UNCHANGED <<repo, active, scan, finding, rules, told, clones, latest, raced, outrun,
                       commits, edits, faults>>
    BY <1>3 DEF Start
  <2> HIDE DEF j
  <2> QED BY <1>1, <1>2, <2>2, <2>3, <2>4 DEF RunsTypeOK
<1>4. ASSUME Clone(w) PROVE RunsInv'
  <2> DEFINE j == [job[w] EXCEPT !.pc = "tool", !.seq = clones + 1, !.tree = repo]
  <2>1. clones + 1 \in Nat /\ repo \subseteq Hashes
    BY <1>1 DEF RunsTypeOK
  <2>2. j \in Job
    BY <1>1, <2>1 DEF Job
  <2>3. /\ j.pc \notin Ingesting
        /\ Pending(j) = {} /\ Evidence(j)
    BY <1>1 DEF Ingesting, Pending, Evidence, Job
  <2>4. /\ j.fresh = job[w].fresh /\ j.reopen = job[w].reopen
        /\ j.new = job[w].new /\ j.stale = job[w].stale
    BY <1>1 DEF Job
  <2>5. job' = [job EXCEPT ![w] = j]
    BY <1>4 DEF Clone
  <2>6. UNCHANGED <<repo, active, scan, queue, finding, rules, told, latest, raced, outrun,
                    commits, edits, faults>> /\ clones' = clones + 1
    BY <1>4 DEF Clone
  <2> HIDE DEF j
  <2>7. job[w].reopen \subseteq Stored /\ job[w].new \subseteq Stored /\ job[w].stale \subseteq Stored
    BY DEF RunsInv, KnownRows
  <2>8. RowsInOrder' /\ RowsFit' /\ KnownRows' /\ AnnouncedApart' /\ OneRow' /\ EvidenceKept'
    BY <2>2, <2>3, <2>4, <2>5, <2>6, <2>7, JobMoves
  <2>9. job' \in [Workers -> Job]
    BY <1>1, <2>2, <2>5 DEF RunsTypeOK
  <2> QED BY <1>1, <2>1, <2>6, <2>8, <2>9 DEF RunsInv, RunsTypeOK
<1>5. /\ IdleJob.pc \notin Ingesting
      /\ IdleJob.fresh = {} /\ IdleJob.reopen = {} /\ IdleJob.new = {} /\ IdleJob.stale = {}
  BY DEF IdleJob, Ingesting
<1>6. ASSUME Ack(w) PROVE RunsInv'
  <2>1. job' = [job EXCEPT ![w] = IdleJob]
        /\ UNCHANGED <<repo, active, scan, queue, finding, rules, told, clones, latest, raced, outrun,
                       commits, edits, faults>>
    BY <1>6 DEF Ack
  <2> QED BY <1>1, <1>2, <1>5, <2>1, IdleJobType DEF RunsTypeOK
<1>7. ASSUME Crash(w) PROVE RunsInv'
  <2>1. job' = [job EXCEPT ![w] = IdleJob] /\ queue' = queue \cup Unacked(w)
        /\ UNCHANGED <<repo, active, scan, finding, rules, told, clones, latest, raced, outrun,
                       commits, edits>>
    BY <1>7 DEF Crash
  <2>2. faults' \in Nat
    BY <1>1, <1>7 DEF Crash, Fault, RunsTypeOK
  <2>3. queue' \subseteq Message /\ clones' \in Nat
    BY <1>1, <2>1, UnackedType DEF RunsTypeOK
  <2> QED BY <1>2, <1>5, <2>1, <2>2, <2>3, IdleJobType
<1> QED BY <1>3, <1>4, <1>6, <1>7

-----------------------------------------------------------------------------
(* The tool's report, and ingestion.                                       *)

\* A run that moves on with a sound record, nothing else of the state moving.
LEMMA RunMoves ==
  ASSUME RunsInv, NEW w \in Workers, NEW j \in Job,
         job' = [job EXCEPT ![w] = j],
         UNCHANGED <<repo, active, queue, finding, rules, told, latest, outrun, commits, edits,
                     faults>>,
         raced' \subseteq Hashes,
         scan' \in [ScanId -> {"none", "running", "failed", "completed"}], clones' \in Nat,
         j.reopen \subseteq Stored, j.new \subseteq Stored, j.stale \subseteq Stored,
         Pending(j) \subseteq Pending(job[w]), Evidence(j)
  PROVE  \/ j.fresh \subseteq job[w].fresh /\ raced' = raced
         \/ RowsFit' /\ OneRow'
         => RunsInv'
<1>1. /\ RowsInOrder' /\ KnownRows' /\ AnnouncedApart' /\ EvidenceKept'
      /\ j.fresh \subseteq job[w].fresh => RowsFit'
      /\ j.fresh \subseteq job[w].fresh /\ raced' = raced => OneRow'
  BY JobMoves
<1>2. job' \in [Workers -> Job]
  BY DEF RunsInv, RunsTypeOK
<1> QED BY <1>1, <1>2 DEF RunsInv, RunsTypeOK

\* push_ingest: a posted report, whole if it is said to be healthy.
LEMMA PushStep ==
  ASSUME RunsInv, NEW w \in Workers, NEW s \in ScanId, NEW saw \in SUBSET repo,
         NEW health \in {"healthy", "suspect", "unknown"}, Push(w, s, saw, health)
  PROVE  RunsInv'
<1> DEFINE j == [IdleJob EXCEPT !.pc = "look", !.scan = s, !.pushed = TRUE,
                                !.seq = clones + 1, !.tree = repo, !.saw = saw,
                                !.health = health, !.todo = saw]
<1>1. RunsTypeOK
  BY DEF RunsInv
<1>2. clones + 1 \in Nat /\ repo \subseteq Hashes /\ saw \subseteq Hashes
  BY <1>1 DEF RunsTypeOK
<1>3. j \in Job
  BY <1>2, IdleJobType DEF Job
<1>4. /\ j.fresh = {} /\ j.reopen = {} /\ j.new = {} /\ j.stale = {}
      /\ j.pc = "look" /\ j.health = health /\ j.saw = saw /\ j.tree = repo
  BY DEF IdleJob
<1>5. /\ job' = [job EXCEPT ![w] = j]
      /\ UNCHANGED <<repo, active, queue, finding, rules, told, latest, raced, outrun, commits, edits, faults>>
      /\ clones' = clones + 1
      /\ health = "healthy" => saw = repo
  BY DEF Push
<1>6. scan' \in [ScanId -> {"none", "running", "failed", "completed"}]
  BY <1>1 DEF Push, Settle, RunsTypeOK
<1> HIDE DEF j
<1>7. Pending(j) = {} /\ Evidence(j)
  BY <1>4, <1>5 DEF Pending, Evidence
<1>8. raced' = raced /\ raced' \subseteq Hashes
  BY <1>1, <1>5 DEF RunsTypeOK
<1> QED BY <1>2, <1>3, <1>4, <1>5, <1>6, <1>7, <1>8, RunMoves

\* run_tool_checked: a healthy run reports its whole checkout.
LEMMA RunToolStep ==
  ASSUME RunsInv, NEW w \in Workers, NEW saw \in SUBSET Hashes,
         NEW health \in {"healthy", "suspect"}, RunTool(w, saw, health)
  PROVE  RunsInv'
<1> DEFINE j == [job[w] EXCEPT !.pc = "look", !.saw = saw, !.health = health, !.todo = saw]
<1>1. RunsTypeOK /\ job[w] \in Job
  BY DEF RunsInv, RunsTypeOK
<1>2. j \in Job
  BY <1>1 DEF Job
<1>3. /\ j.fresh = job[w].fresh /\ j.reopen = job[w].reopen
      /\ j.new = job[w].new /\ j.stale = job[w].stale
      /\ j.pc = "look" /\ j.health = health /\ j.saw = saw /\ j.tree = job[w].tree
  BY <1>1 DEF Job
<1>4. /\ job' = [job EXCEPT ![w] = j]
      /\ UNCHANGED <<repo, active, scan, queue, finding, rules, told, clones, latest, raced, outrun,
                     commits, edits, faults>>
      /\ health = "healthy" => saw = job[w].tree
  BY DEF RunTool
<1> HIDE DEF j
<1>5. Pending(j) = {} /\ Evidence(j)
  BY <1>3, <1>4 DEF Pending, Evidence
<1>6. job[w].reopen \subseteq Stored /\ job[w].new \subseteq Stored /\ job[w].stale \subseteq Stored
  BY DEF RunsInv, KnownRows
<1> QED BY <1>1, <1>2, <1>3, <1>4, <1>5, <1>6, RunMoves DEF RunsTypeOK

\* The SELECT for one item: a hash without a row is one the worker will insert.
LEMMA LookStep ==
  ASSUME RunsInv, NEW w \in Workers, NEW h \in Hashes, Look(w, h)
  PROVE  RunsInv'
<1>1. RunsTypeOK /\ job[w] \in Job /\ job \in [Workers -> Job]
  BY DEF RunsInv, RunsTypeOK
<1>2. /\ job[w].reopen \subseteq Stored
      /\ job[w].new \subseteq Stored
      /\ job[w].stale \subseteq Stored
      /\ Evidence(job[w])
  BY DEF RunsInv, KnownRows, EvidenceKept
<1>3. /\ job[w].pc = "look"
      /\ UNCHANGED <<repo, active, scan, queue, finding, rules, told, clones, latest, outrun,
                     commits, edits, faults>>
  BY DEF Look
<1>4. ASSUME Rows(h) = {},
             job' = [job EXCEPT ![w] = [@ EXCEPT !.todo = job[w].todo \ {h},
                                                 !.fresh = job[w].fresh \cup {h}]],
             raced' = IF \E x \in Workers \ {w} : h \in job[x].fresh
                      THEN raced \cup {h} ELSE raced
      PROVE  RunsInv'
  <2> DEFINE j == [job[w] EXCEPT !.todo = job[w].todo \ {h}, !.fresh = job[w].fresh \cup {h}]
  <2>1. j \in Job
    BY <1>1 DEF Job
  <2>2. /\ j.reopen = job[w].reopen /\ j.new = job[w].new /\ j.stale = job[w].stale
        /\ j.fresh = job[w].fresh \cup {h}
        /\ j.pc = job[w].pc /\ j.health = job[w].health
        /\ j.saw = job[w].saw /\ j.tree = job[w].tree
    BY <1>1 DEF Job
  <2>3. job' = [job EXCEPT ![w] = j]
    BY <1>4
  <2> HIDE DEF j
  <2>4. Pending(j) = Pending(job[w]) /\ Evidence(j)
    BY <1>2, <2>2 DEF Pending, Evidence
  <2>5. RowsFit'
    <3> SUFFICES ASSUME NEW k \in Hashes
        PROVE Cardinality(Rows(k)') + Cardinality(FreshFor(k)') <= Cardinality(Workers)
      BY DEF RowsFit
    <3>1. Rows(k)' = Rows(k)
      BY <1>3 DEF Rows
    <3>2. CASE k = h
      <4>1. Cardinality(Rows(k)') = 0
        BY <1>4, <3>1, <3>2, FS_EmptySet
      <4>2. FreshFor(k)' \in SUBSET Workers
        BY DEF FreshFor
      <4>3. IsFiniteSet(Workers)
        BY RunsAssumption
      <4>4. /\ IsFiniteSet(FreshFor(k)')
            /\ Cardinality(FreshFor(k)') <= Cardinality(Workers)
        BY <4>2, <4>3, FS_Subset
      <4>5. Cardinality(FreshFor(k)') \in Nat /\ Cardinality(Workers) \in Nat
        BY <4>3, <4>4, FS_CardinalityType
      <4> QED BY <4>1, <4>4, <4>5
    <3>3. CASE k # h
      <4>1. FreshFor(k)' = FreshFor(k)
        BY <1>1, <2>2, <2>3, <3>3 DEF FreshFor
      <4> QED BY <3>1, <4>1 DEF RunsInv, RowsFit
    <3> QED BY <3>2, <3>3
  <2>6. OneRow'
    <3> SUFFICES ASSUME NEW k \in Hashes \ raced'
        PROVE  /\ \A f, g \in Rows(k)' : f = g
               /\ FreshFor(k)' # {} => Rows(k)' = {}
               /\ \A x, y \in FreshFor(k)' : x = y
      BY DEF OneRow
    <3>1. Rows(k)' = Rows(k) /\ k \in Hashes \ raced
      BY <1>3, <1>4 DEF Rows
    <3>2. /\ \A f, g \in Rows(k) : f = g
          /\ FreshFor(k) # {} => Rows(k) = {}
          /\ \A x, y \in FreshFor(k) : x = y
      BY <3>1 DEF RunsInv, OneRow
    <3>3. CASE k = h
      <4>1. \A x \in Workers \ {w} : h \notin job[x].fresh
        BY <1>4, <3>3
      <4>2. FreshFor(k)' \subseteq {w}
        BY <1>1, <2>3, <3>3, <4>1 DEF FreshFor
      <4> QED BY <1>4, <3>1, <3>3, <4>2
    <3>4. CASE k # h
      <4>1. FreshFor(k)' = FreshFor(k)
        BY <1>1, <2>2, <2>3, <3>4 DEF FreshFor
      <4> QED BY <3>1, <3>2, <4>1
    <3> QED BY <3>3, <3>4
  <2>7. raced' \subseteq Hashes
    BY <1>1, <1>4 DEF RunsTypeOK
  <2> QED BY <1>1, <1>2, <1>3, <2>1, <2>2, <2>3, <2>4, <2>5, <2>6, <2>7, RunMoves DEF RunsTypeOK
<1>5. ASSUME NEW f \in Rows(h),
             job' = [job EXCEPT ![w] =
                       [@ EXCEPT !.todo = job[w].todo \ {h},
                                 !.reopen = IF finding[f].state = "Mitigated"
                                            THEN job[w].reopen \cup {f}
                                            ELSE job[w].reopen]],
             raced' = raced
      PROVE  RunsInv'
  <2> DEFINE R == IF finding[f].state = "Mitigated" THEN job[w].reopen \cup {f}
                                                    ELSE job[w].reopen
             j == [job[w] EXCEPT !.todo = job[w].todo \ {h}, !.reopen = R]
  <2>1. f \in FindingId /\ f \in Stored
    BY DEF Rows, Stored
  <2>2. R \subseteq Stored /\ R \subseteq FindingId
    BY <1>1, <1>2, <2>1 DEF Job
  <2>3. job' = [job EXCEPT ![w] = j]
    BY <1>5
  <2> HIDE DEF R
  <2>4. j \in Job
    BY <1>1, <2>2 DEF Job
  <2>5. /\ j.reopen = R /\ j.new = job[w].new /\ j.stale = job[w].stale
        /\ j.fresh = job[w].fresh
        /\ j.pc = job[w].pc /\ j.health = job[w].health
        /\ j.saw = job[w].saw /\ j.tree = job[w].tree
    BY <1>1 DEF Job
  <2> HIDE DEF j
  <2>6. Pending(j) = Pending(job[w]) /\ Evidence(j)
    BY <1>2, <2>5 DEF Pending, Evidence
  <2>7. raced' = raced /\ raced' \subseteq Hashes
    BY <1>1, <1>5 DEF RunsTypeOK
  <2>8. UNCHANGED <<repo, active, queue, finding, rules, told, latest, outrun, commits, edits,
                    faults>>
        /\ scan' \in [ScanId -> {"none", "running", "failed", "completed"}] /\ clones' \in Nat
    BY <1>1, <1>3 DEF RunsTypeOK
  <2> QED BY <1>2, <2>2, <2>3, <2>4, <2>5, <2>6, <2>7, <2>8, RunMoves
<1> QED BY <1>4, <1>5 DEF Look

\* The SELECT of the sweep.
LEMMA FindStaleStep ==
  ASSUME RunsInv, NEW w \in Workers, FindStale(w)
  PROVE  RunsInv'
<1> DEFINE S == {f \in FindingId : finding[f].state = "Open" /\ f[1] \notin job[w].saw}
           j == [job[w] EXCEPT !.pc = "mitigate", !.stale = S]
<1>1. RunsTypeOK /\ job[w] \in Job
  BY DEF RunsInv, RunsTypeOK
<1>2. S \subseteq Stored /\ S \subseteq FindingId /\ \A f \in S : f[1] \notin job[w].saw
  BY DEF Stored
<1>3. /\ job' = [job EXCEPT ![w] = j]
      /\ job[w].pc = "sweep"
      /\ UNCHANGED <<repo, active, scan, queue, finding, rules, told, clones, latest, raced, outrun,
                     commits, edits, faults>>
  BY DEF FindStale
<1> HIDE DEF S
<1>4. j \in Job
  BY <1>1, <1>2 DEF Job
<1>5. /\ j.fresh = job[w].fresh /\ j.reopen = job[w].reopen
      /\ j.new = job[w].new /\ j.stale = S
      /\ j.pc = "mitigate" /\ j.health = job[w].health
      /\ j.saw = job[w].saw /\ j.tree = job[w].tree
  BY <1>1 DEF Job
<1> HIDE DEF j
<1>6. Evidence(job[w])
  BY DEF RunsInv, EvidenceKept
<1>7. Pending(j) = {} /\ Evidence(j)
  BY <1>2, <1>3, <1>5, <1>6 DEF Pending, Evidence, Ingesting
<1>8. job[w].reopen \subseteq Stored /\ job[w].new \subseteq Stored
  BY DEF RunsInv, KnownRows
<1> QED BY <1>1, <1>2, <1>3, <1>4, <1>5, <1>7, <1>8, RunMoves DEF RunsTypeOK

-----------------------------------------------------------------------------
(* The steps that write findings.                                          *)

\* Store: each fresh hash gains exactly one row, its next; no other changes.
LEMMA StoreRows ==
  ASSUME RunsInv, NEW w \in Workers, Store(w)
  PROVE  /\ \A h \in Hashes : h \notin job[w].fresh => Rows(h)' = Rows(h)
         /\ \A h \in job[w].fresh : Rows(h)' = Rows(h) \cup {NextRow(h)}
         /\ \A f \in FindingId : f \in Stored => f \in Stored'
<1> DEFINE new == {NextRow(h) : h \in job[w].fresh}
<1>1. job[w] \in Job
  BY DEF RunsInv, RunsTypeOK
<1>2. job[w].fresh \subseteq Hashes
  BY <1>1 DEF Job
<1>3. job[w].reopen \subseteq Stored
  BY DEF RunsInv, KnownRows
<1>4. \A f \in FindingId :
        finding'[f] = IF f \in new THEN [state |-> "Open", by |-> "system"]
                      ELSE IF f \in job[w].reopen THEN [state |-> "Reopened", by |-> "system"]
                      ELSE finding[f]
  BY DEF Store
<1>5. \A f \in FindingId : finding'[f].state # "none" <=> f \in new \/ finding[f].state # "none"
  <2> HIDE DEF new
  <2> QED BY <1>3, <1>4 DEF Stored
<1>6. \A h \in job[w].fresh : NextRow(h) \in FindingId /\ NextRow(h)[1] = h
  BY <1>2, NextRowIsFree DEF RunsInv, NextRow
<1>7. \A f \in new : f[1] \in job[w].fresh /\ f = NextRow(f[1])
  BY DEF NextRow
<1>8. ASSUME NEW h \in Hashes, h \notin job[w].fresh PROVE Rows(h)' = Rows(h)
  <2> HIDE DEF new
  <2> QED BY <1>5, <1>7, <1>8 DEF Rows
<1>9. ASSUME NEW h \in job[w].fresh PROVE Rows(h)' = Rows(h) \cup {NextRow(h)}
  <2>1. NextRow(h) \in new
    OBVIOUS
  <2> DEFINE n == NextRow(h)
  <2>2. n \in new /\ n \in FindingId /\ n[1] = h
    BY <2>1, <1>6
  <2>3. \A f \in new : f[1] = h => f = n
    BY <1>7
  <2> HIDE DEF new, n
  <2>4. Rows(h)' = Rows(h) \cup {n}
    BY <1>5, <2>2, <2>3 DEF Rows
  <2> QED BY <2>4 DEF n
<1>10. \A f \in FindingId : f \in Stored => f \in Stored'
  <2> HIDE DEF new
  <2> QED BY <1>5 DEF Stored
<1> QED BY <1>8, <1>9, <1>10

\* The first commit of ingest_findings.
LEMMA StoreStep ==
  ASSUME RunsInv, NEW w \in Workers, Store(w)
  PROVE  RunsInv'
<1> DEFINE new == {NextRow(h) : h \in job[w].fresh}
           j == [job[w] EXCEPT !.pc = "suppress", !.new = new, !.fresh = {}, !.reopen = {}]
<1>1. RunsTypeOK /\ job[w] \in Job /\ job \in [Workers -> Job]
  BY DEF RunsInv, RunsTypeOK
<1>2. job[w].fresh \subseteq Hashes /\ job[w].saw \subseteq Hashes /\ job[w].seq \in Nat
  BY <1>1 DEF Job
<1>3. \A f \in new : f \in FindingId /\ finding[f].state = "none"
  BY <1>2, NextRowIsFree DEF RunsInv
<1>4. \A f \in FindingId :
        finding'[f] = IF f \in new THEN [state |-> "Open", by |-> "system"]
                      ELSE IF f \in job[w].reopen THEN [state |-> "Reopened", by |-> "system"]
                      ELSE finding[f]
  BY DEF Store
<1>5. \A f \in new : f \in Stored'
  <2> HIDE DEF new
  <2> QED BY <1>3, <1>4 DEF Stored
<1>6. new \subseteq FindingId
  BY <1>3
<1>7. /\ job' = [job EXCEPT ![w] = j]
      /\ job[w].pc = "look"
      /\ UNCHANGED <<repo, active, scan, queue, rules, told, clones, raced, outrun,
                     commits, edits, faults>>
  BY DEF Store
<1>8. finding' \in [FindingId -> [state : FindingState \cup {"none"}, by : {"system", "user"}]]
  <2>1. finding' = [f \in FindingId |->
               IF f \in new THEN [state |-> "Open", by |-> "system"]
               ELSE IF f \in job[w].reopen THEN [state |-> "Reopened", by |-> "system"]
               ELSE finding[f]]
    BY DEF Store
  <2> HIDE DEF new
  <2> QED BY <1>1, <2>1 DEF RunsTypeOK, FindingState
<1>9. latest' \in [seq : Nat, saw : SUBSET Hashes]
  BY <1>1, <1>2 DEF Store, RunsTypeOK
<1> HIDE DEF new
<1>10. j \in Job
  BY <1>1, <1>6 DEF Job
<1>11. /\ j.fresh = {} /\ j.reopen = {} /\ j.new = new /\ j.stale = job[w].stale
       /\ j.pc = "suppress" /\ j.health = job[w].health
       /\ j.saw = job[w].saw /\ j.tree = job[w].tree
  BY <1>1 DEF Job
<1> HIDE DEF j
<1>12. job'[w] = j /\ \A x \in Workers \ {w} : job'[x] = job[x]
  BY <1>1, <1>7
<1>13. RunsTypeOK'
  <2>1. job' \in [Workers -> Job]
    BY <1>1, <1>7, <1>10
  <2> QED BY <1>1, <1>7, <1>8, <1>9, <2>1 DEF RunsTypeOK
<1>14. RowsInOrder' /\ RowsFit'
  <2> SUFFICES ASSUME NEW h \in Hashes
      PROVE /\ Rows(h)' = {<<h, i>> : i \in 1..Cardinality(Rows(h)')}
            /\ Cardinality(Rows(h)') + Cardinality(FreshFor(h)') <= Cardinality(Workers)
    BY DEF RowsInOrder, RowsFit
  <2>1. /\ Rows(h) = {<<h, i>> : i \in 1..Cardinality(Rows(h))}
        /\ Cardinality(Rows(h)) + Cardinality(FreshFor(h)) <= Cardinality(Workers)
    BY DEF RunsInv, RowsInOrder, RowsFit
  <2>2. CASE h \notin job[w].fresh
    <3>1. Rows(h)' = Rows(h)
      BY <2>2, StoreRows
    <3>2. FreshFor(h)' = FreshFor(h)
      BY <2>2, <1>11, <1>12 DEF FreshFor
    <3> QED BY <2>1, <3>1, <3>2
  <2>3. CASE h \in job[w].fresh
    <3> DEFINE c == Cardinality(Rows(h))
               d == Cardinality(FreshFor(h))
    <3>1. Rows(h)' = Rows(h) \cup {NextRow(h)} /\ NextRow(h) \notin Rows(h)
      BY <2>3, StoreRows, NextRowIsFree DEF RunsInv
    <3>2. c \in Nat /\ d \in Nat /\ Cardinality(Workers) \in Nat
          /\ IsFiniteSet(Rows(h)) /\ IsFiniteSet(FreshFor(h))
      BY RowsFinite
    <3>3. Cardinality(Rows(h)') = c + 1
      BY <3>1, <3>2, FS_AddElement
    <3>4. FreshFor(h)' = FreshFor(h) \ {w} /\ w \in FreshFor(h)
      BY <2>3, <1>11, <1>12 DEF FreshFor
    <3>5. Cardinality(FreshFor(h)') = d - 1
      BY <3>2, <3>4, FS_RemoveElement
    <3>6. NextRow(h) = <<h, c + 1>>
      BY DEF NextRow
    <3>7. c + d <= Cardinality(Workers) /\ Rows(h) = {<<h, i>> : i \in 1..c}
      BY <2>1
    <3> HIDE DEF c, d
    <3>8. 1..(c + 1) = (1..c) \cup {c + 1}
      BY <3>2
    <3>9. Rows(h)' = {<<h, i>> : i \in 1..(c + 1)}
      BY <3>1, <3>6, <3>7, <3>8
    <3> QED BY <3>2, <3>3, <3>5, <3>7, <3>9
  <2> QED BY <2>2, <2>3
<1>15. KnownRows'
  <2>1. \A f \in Stored : f \in Stored'
    BY StoreRows DEF Stored
  <2>2. \A x \in Workers : /\ job[x].reopen \subseteq Stored
                           /\ job[x].new \subseteq Stored
                           /\ job[x].stale \subseteq Stored
    BY DEF RunsInv, KnownRows
  <2> QED BY <1>5, <1>11, <1>12, <2>1, <2>2 DEF KnownRows
<1>16. AnnouncedApart'
  <2>1. AnnouncedApart
    BY DEF RunsInv
  <2>2. Pending(j) = new /\ \A x \in Workers \ {w} : Pending(job'[x]) = Pending(job[x])
    BY <1>11, <1>12 DEF Pending
  <2>3. \A x \in Workers : \A f \in Pending(job[x]) : f \in Stored
    BY DEF RunsInv, KnownRows, Pending
  <2>4. \A f \in new : f \notin Stored /\ told[f] = 0
    BY <1>3, <2>1 DEF Stored, AnnouncedApart
  <2>5. \A f \in FindingId : finding'[f].state = "none" => told[f] = 0
    BY <2>1, StoreRows DEF AnnouncedApart, Stored
  <2>6. \A x \in Workers : \A f \in Pending(job'[x]) : told[f] = 0
    BY <1>12, <2>1, <2>2, <2>4 DEF AnnouncedApart
  <2>7. \A x, y \in Workers : x # y => Pending(job'[x]) \cap Pending(job'[y]) = {}
    <3> SUFFICES ASSUME NEW x \in Workers, NEW y \in Workers, x # y,
                        NEW f \in Pending(job'[x]), f \in Pending(job'[y])
                 PROVE  FALSE
      OBVIOUS
    <3>1. CASE x = w
      BY <3>1, <1>12, <2>2, <2>3, <2>4
    <3>2. CASE y = w
      BY <3>2, <1>12, <2>2, <2>3, <2>4
    <3>3. CASE x # w /\ y # w
      BY <3>3, <2>1, <2>2 DEF AnnouncedApart
    <3> QED BY <3>1, <3>2, <3>3
  <2>8. told' = told
    BY <1>7
  <2> QED BY <2>1, <2>5, <2>6, <2>7, <2>8 DEF AnnouncedApart
<1>17. EvidenceKept'
  <2>1. Evidence(job[w])
    BY DEF RunsInv, EvidenceKept
  <2>2. Evidence(j)
    BY <2>1, <1>7, <1>11 DEF Evidence, Ingesting
  <2> QED BY <2>2, <1>12 DEF RunsInv, EvidenceKept
<1>18. OneRow'
  <2> SUFFICES ASSUME NEW h \in Hashes \ raced
      PROVE  /\ \A f, g \in Rows(h)' : f = g
             /\ FreshFor(h)' # {} => Rows(h)' = {}
             /\ \A x, y \in FreshFor(h)' : x = y
    BY <1>7 DEF OneRow
  <2>1. /\ \A f, g \in Rows(h) : f = g
        /\ FreshFor(h) # {} => Rows(h) = {}
        /\ \A x, y \in FreshFor(h) : x = y
    BY DEF RunsInv, OneRow
  <2>2. CASE h \notin job[w].fresh
    <3>1. Rows(h)' = Rows(h)
      BY <2>2, StoreRows
    <3>2. FreshFor(h)' = FreshFor(h)
      BY <2>2, <1>11, <1>12 DEF FreshFor
    <3> QED BY <2>1, <3>1, <3>2
  <2>3. CASE h \in job[w].fresh
    <3>1. w \in FreshFor(h)
      BY <2>3 DEF FreshFor
    <3>2. Rows(h) = {} /\ FreshFor(h) = {w}
      BY <2>1, <3>1
    <3>3. Rows(h)' = {NextRow(h)}
      BY <2>3, <3>2, StoreRows
    <3>4. FreshFor(h)' = {}
      BY <1>11, <1>12, <3>2 DEF FreshFor
    <3> QED BY <3>3, <3>4
  <2> QED BY <2>2, <2>3
<1> QED BY <1>13, <1>14, <1>15, <1>16, <1>17, <1>18 DEF RunsInv

\* The writes that insert no row and announce nothing: suppression, the
\* sweep's commit, a person's triage.
LEMMA WritesKept ==
  ASSUME RunsInv, RunsTypeOK', UNCHANGED <<told, raced>>,
         \A f \in FindingId : finding'[f].state = "none" <=> finding[f].state = "none",
         \A x \in Workers : /\ job'[x].fresh = job[x].fresh
                            /\ job'[x].reopen = job[x].reopen
                            /\ job'[x].new = job[x].new
                            /\ job'[x].stale = job[x].stale
                            /\ Pending(job'[x]) \subseteq Pending(job[x])
                            /\ Evidence(job'[x])
  PROVE  RunsInv'
<1> USE DEF RunsInv
<1>1. (\A h \in Hashes : Rows(h)' = Rows(h)) /\ Stored' = Stored /\ RowsInOrder'
  BY RowsKept
<1>2. RowsFit'
  BY <1>1, FitKept
<1>3. KnownRows'
  BY <1>1 DEF KnownRows
<1>4. AnnouncedApart'
  BY DEF AnnouncedApart
<1>5. EvidenceKept'
  BY DEF EvidenceKept
<1>6. OneRow'
  BY <1>1, OneRowKept
<1> QED BY <1>1, <1>2, <1>3, <1>4, <1>5, <1>6

\* Only the program counter of a run moves.
LEMMA PcMoves ==
  ASSUME RunsInv, NEW w \in Workers,
         NEW to \in {"announce", "sweep", "complete"}, job' = [job EXCEPT ![w].pc = to],
         to \in {"announce"} => job[w].pc = "suppress",
         to = "sweep" => MayMitigate(w),
         job[w].pc \in Ingesting
  PROVE  /\ job' \in [Workers -> Job]
         /\ \A x \in Workers : /\ job'[x].fresh = job[x].fresh
                               /\ job'[x].reopen = job[x].reopen
                               /\ job'[x].new = job[x].new
                               /\ job'[x].stale = job[x].stale
                               /\ Pending(job'[x]) \subseteq Pending(job[x])
                               /\ Evidence(job'[x])
<1> DEFINE j == [job[w] EXCEPT !.pc = to]
<1>1. job \in [Workers -> Job] /\ job[w] \in Job
  BY DEF RunsInv, RunsTypeOK
<1>2. j \in Job
  BY <1>1 DEF Job
<1>3. /\ j.fresh = job[w].fresh /\ j.reopen = job[w].reopen
      /\ j.new = job[w].new /\ j.stale = job[w].stale
      /\ j.pc = to /\ j.health = job[w].health
      /\ j.saw = job[w].saw /\ j.tree = job[w].tree
  BY <1>1 DEF Job
<1>4. job' = [job EXCEPT ![w] = j]
  BY <1>1
<1> HIDE DEF j
<1>5. \A x \in Workers : Evidence(job[x])
  BY DEF RunsInv, EvidenceKept
<1>6. Evidence(j)
  BY <1>3, <1>5 DEF Evidence, Ingesting, MayMitigate
<1>7. Pending(j) \subseteq Pending(job[w])
  BY <1>3 DEF Pending
<1>8. job'[w] = j /\ \A x \in Workers \ {w} : job'[x] = job[x]
  BY <1>1, <1>4
<1> QED BY <1>1, <1>2, <1>3, <1>4, <1>5, <1>6, <1>7, <1>8

\* apply_auto_suppression.
LEMMA SuppressStep ==
  ASSUME RunsInv, NEW w \in Workers, Suppress(w)
  PROVE  RunsInv'
<1>1. RunsTypeOK
  BY DEF RunsInv
<1>2. /\ job[w].pc = "suppress" /\ job' = [job EXCEPT ![w].pc = "announce"]
      /\ UNCHANGED <<repo, active, scan, queue, rules, told, clones, latest, raced, outrun,
                     commits, edits, faults>>
      /\ finding' = [f \in FindingId |->
                   IF f \in job[w].new /\ rules[Sig[f[1]]] = "active"
                   THEN [state |-> "False Positive", by |-> "system"]
                   ELSE finding[f]]
  BY DEF Suppress
<1>3. /\ job' \in [Workers -> Job]
      /\ \A x \in Workers : /\ job'[x].fresh = job[x].fresh
                            /\ job'[x].reopen = job[x].reopen
                            /\ job'[x].new = job[x].new
                            /\ job'[x].stale = job[x].stale
                            /\ Pending(job'[x]) \subseteq Pending(job[x])
                            /\ Evidence(job'[x])
  BY <1>2, PcMoves DEF Ingesting
<1>4. finding' \in [FindingId -> [state : FindingState \cup {"none"}, by : {"system", "user"}]]
  BY <1>1, <1>2 DEF RunsTypeOK, FindingState
<1>5. RunsTypeOK'
  BY <1>1, <1>2, <1>3, <1>4 DEF RunsTypeOK
<1>6. job[w].new \subseteq Stored
  BY DEF RunsInv, KnownRows
<1>7. \A f \in FindingId : finding'[f].state = "none" <=> finding[f].state = "none"
  BY <1>2, <1>6 DEF Stored
<1> QED BY <1>2, <1>3, <1>5, <1>7, WritesKept

\* The sweep's commit.
LEMMA MitigateStep ==
  ASSUME RunsInv, NEW w \in Workers, Mitigate(w)
  PROVE  RunsInv'
<1>1. RunsTypeOK
  BY DEF RunsInv
<1>2. /\ job[w].pc = "mitigate" /\ job' = [job EXCEPT ![w].pc = "complete"]
      /\ UNCHANGED <<repo, active, scan, queue, rules, told, clones, latest, raced,
                     commits, edits, faults>>
      /\ finding' = [f \in FindingId |->
                   IF f \in job[w].stale THEN [state |-> "Mitigated", by |-> "system"]
                                         ELSE finding[f]]
      /\ outrun' \subseteq Hashes
  BY <1>1 DEF Mitigate, NewerReport, RunsTypeOK
<1>3. /\ job' \in [Workers -> Job]
      /\ \A x \in Workers : /\ job'[x].fresh = job[x].fresh
                            /\ job'[x].reopen = job[x].reopen
                            /\ job'[x].new = job[x].new
                            /\ job'[x].stale = job[x].stale
                            /\ Pending(job'[x]) \subseteq Pending(job[x])
                            /\ Evidence(job'[x])
  BY <1>2, PcMoves DEF Ingesting
<1>4. finding' \in [FindingId -> [state : FindingState \cup {"none"}, by : {"system", "user"}]]
  BY <1>1, <1>2 DEF RunsTypeOK, FindingState
<1>5. RunsTypeOK'
  BY <1>1, <1>2, <1>3, <1>4 DEF RunsTypeOK
<1>6. job[w].stale \subseteq Stored
  BY DEF RunsInv, KnownRows
<1>7. \A f \in FindingId : finding'[f].state = "none" <=> finding[f].state = "none"
  BY <1>2, <1>6 DEF Stored
<1> QED BY <1>2, <1>3, <1>5, <1>7, WritesKept

\* apply_triage.
LEMMA TriageStep ==
  ASSUME RunsInv, NEW g \in FindingId, NEW state \in FindingState, Triage(g, state)
  PROVE  RunsInv'
<1>1. RunsTypeOK
  BY DEF RunsInv
<1>2. finding' \in [FindingId -> [state : FindingState \cup {"none"}, by : {"system", "user"}]]
  BY <1>1 DEF Triage, RunsTypeOK
<1>3. g[1] \in Hashes /\ Sig[g[1]] \in Sigs
  BY RunsAssumption DEF FindingId
<1>4. rules' \in [Sigs -> {"none", "active", "inactive"}]
  BY <1>1, <1>3 DEF Triage, LearnSuppressionRule, RunsTypeOK
<1>5. RunsTypeOK'
  <2>1. /\ edits' = edits + 1
        /\ UNCHANGED <<repo, active, scan, queue, job, told, clones, latest, raced, outrun, commits, faults>>
    BY DEF Triage
  <2> QED BY <1>1, <1>2, <1>4, <2>1 DEF RunsTypeOK
<1>6. \A f \in FindingId : finding'[f].state = "none" <=> finding[f].state = "none"
  BY <1>1 DEF Triage, RunsTypeOK, FindingState
<1>7. job' = job /\ UNCHANGED <<told, raced>> /\ \A x \in Workers : Evidence(job[x])
  BY DEF Triage, RunsInv, EvidenceKept
<1> QED BY <1>5, <1>6, <1>7, WritesKept

\* Jira, SIEM and notifications: told moves for what only this run holds.
LEMMA AnnounceStep ==
  ASSUME RunsInv, NEW w \in Workers, Announce(w)
  PROVE  RunsInv'
<1> DEFINE to == IF MayMitigate(w) THEN "sweep" ELSE "complete"
<1>1. RunsTypeOK /\ AnnouncedApart
  BY DEF RunsInv
<1>2. /\ job[w].pc = "announce" /\ job' = [job EXCEPT ![w].pc = to]
      /\ UNCHANGED <<repo, active, scan, queue, finding, rules, clones, latest, raced, outrun,
                     commits, edits, faults>>
      /\ told' = [f \in FindingId |->
                IF f \in job[w].new /\ finding[f].state # "False Positive"
                THEN told[f] + 1 ELSE told[f]]
  BY DEF Announce
<1>3. /\ job' \in [Workers -> Job]
      /\ \A x \in Workers : /\ job'[x].fresh = job[x].fresh
                            /\ job'[x].reopen = job[x].reopen
                            /\ job'[x].new = job[x].new
                            /\ job'[x].stale = job[x].stale
                            /\ Pending(job'[x]) \subseteq Pending(job[x])
                            /\ Evidence(job'[x])
  BY <1>2, PcMoves DEF Ingesting
<1>4. told' \in [FindingId -> Nat] /\ told \in [FindingId -> Nat]
  <2>1. told \in [FindingId -> Nat]
    BY <1>1 DEF RunsTypeOK
  <2>2. told' = [f \in FindingId |->
                IF f \in job[w].new /\ finding[f].state # "False Positive"
                THEN told[f] + 1 ELSE told[f]]
    BY DEF Announce
  <2>3. \A f \in FindingId : told[f] \in Nat /\ told[f] + 1 \in Nat
    BY <2>1
  <2> QED BY <2>1, <2>2, <2>3
<1>5. RunsTypeOK'
  BY <1>1, <1>2, <1>3, <1>4 DEF RunsTypeOK
<1>6. Pending(job[w]) = job[w].new /\ job[w].new \subseteq Stored
  BY <1>2 DEF Pending, RunsInv, KnownRows
<1>7. job'[w].pc = to /\ Pending(job'[w]) = {}
  <2>1. job'[w] = [job[w] EXCEPT !.pc = to] /\ job[w] \in Job
    BY <1>1, <1>2 DEF RunsTypeOK
  <2>2. job'[w].pc = to
    BY <2>1 DEF Job
  <2> QED BY <2>2 DEF Pending
<1>8. \A x \in Workers \ {w} : Pending(job'[x]) \cap job[w].new = {}
  BY <1>1, <1>3, <1>6 DEF AnnouncedApart
<1>9. AnnouncedApart'
  <2>1. \A f \in FindingId : told'[f] <= 1
    <3>1. \A f \in job[w].new : told[f] = 0
      BY <1>1, <1>6 DEF AnnouncedApart
    <3>2. \A f \in FindingId : told[f] <= 1
      BY <1>1 DEF AnnouncedApart
    <3>3. \A f \in FindingId :
            \/ told'[f] = told[f]
            \/ f \in job[w].new /\ told'[f] = told[f] + 1
      BY DEF Announce
    <3> QED BY <1>4, <3>1, <3>2, <3>3
  <2>2. \A f \in FindingId : finding'[f].state = "none" => told'[f] = 0
    BY <1>1, <1>2, <1>6 DEF AnnouncedApart, Stored
  <2>3. \A x \in Workers : \A f \in Pending(job'[x]) : told'[f] = 0
    <3> SUFFICES ASSUME NEW x \in Workers \ {w}, NEW f \in Pending(job'[x])
                 PROVE  told'[f] = 0
      BY <1>7
    <3>1. f \notin job[w].new /\ told[f] = 0
      BY <1>1, <1>3, <1>8 DEF AnnouncedApart
    <3>2. f \in FindingId
      <4>1. job[x] \in Job
        BY <1>1 DEF RunsTypeOK
      <4> QED BY <4>1, <1>3 DEF Pending, Job
    <3> QED BY <3>1, <3>2, <1>2
  <2>4. \A x, y \in Workers : x # y => Pending(job'[x]) \cap Pending(job'[y]) = {}
    BY <1>1, <1>3 DEF AnnouncedApart
  <2> QED BY <2>1, <2>2, <2>3, <2>4 DEF AnnouncedApart
<1>10. (\A h \in Hashes : Rows(h)' = Rows(h)) /\ Stored' = Stored /\ RowsInOrder'
  BY <1>2, RowsKept DEF RunsInv
<1>11. RowsFit'
  BY <1>3, <1>10, FitKept DEF RunsInv
<1>12. KnownRows'
  BY <1>3, <1>10 DEF RunsInv, KnownRows
<1>13. EvidenceKept'
  BY <1>3 DEF EvidenceKept
<1>14. OneRow'
  BY <1>2, <1>3, <1>10, OneRowKept DEF RunsInv
<1> QED BY <1>5, <1>9, <1>10, <1>11, <1>12, <1>13, <1>14 DEF RunsInv

-----------------------------------------------------------------------------
(* The theorems that hold however many workers there are.                  *)

\* RunsInv is inductive.
LEMMA RunsInvStep == RunsInv /\ [Next]_vars => RunsInv'
<1> SUFFICES ASSUME RunsInv, [Next]_vars PROVE RunsInv'
  OBVIOUS
<1>1. CASE UNCHANGED vars
  <2>1. RunsTypeOK' /\ UNCHANGED <<job, finding, told, raced>>
    BY <1>1 DEF vars, RunsInv, RunsTypeOK
  <2> QED BY <2>1, QuietSteps
<1>2. CASE Environment
  BY <1>2, OutsideSteps, EndSteps, SlotSteps, PushStep, TriageStep DEF Environment
<1>3. ASSUME NEW w \in Workers, WorkerStep(w) PROVE RunsInv'
  BY <1>3, SlotSteps, EndSteps, RunToolStep, LookStep, StoreStep, SuppressStep,
     AnnounceStep, FindStaleStep, MitigateStep DEF WorkerStep
<1> QED BY <1>1, <1>2, <1>3 DEF Next

\* RunsInv holds of an empty table and idle workers.
LEMMA RunsInvInit == Init => RunsInv
<1> SUFFICES ASSUME Init PROVE RunsInv
  OBVIOUS
<1>1. RunsTypeOK
  BY RunsAssumption, IdleJobType DEF Init, RunsTypeOK, NoFinding
<1>2. ASSUME NEW h \in Hashes
      PROVE  /\ Rows(h) = {} /\ FreshFor(h) = {}
             /\ Cardinality(Rows(h)) = 0 /\ Cardinality(FreshFor(h)) = 0
  <2>1. Rows(h) = {} /\ FreshFor(h) = {}
    BY DEF Init, Rows, FreshFor, NoFinding, IdleJob
  <2> QED BY <2>1, FS_EmptySet
<1>3. RowsInOrder
  BY <1>2 DEF RowsInOrder
<1>4. RowsFit
  BY <1>2, RowsFinite DEF RowsFit
<1>5. KnownRows
  BY DEF Init, KnownRows, IdleJob
<1>6. AnnouncedApart
  BY DEF Init, AnnouncedApart, Pending, IdleJob
<1>7. EvidenceKept
  BY DEF Init, EvidenceKept, Evidence, Ingesting, IdleJob
<1>8. OneRow
  BY <1>2 DEF OneRow
<1> QED BY <1>1, <1>3, <1>4, <1>5, <1>6, <1>7, <1>8 DEF RunsInv

\* The inductive invariant holds of every reachable state.
LEMMA RunsInvariant == Spec => []RunsInv
BY RunsInvInit, RunsInvStep, PTL DEF Spec

\* Every variable keeps its type; in particular retries stay within
\* max_retries and a hash never has more rows than there are workers.
THEOREM RunsTypeCorrect == Spec => []RunsTypeOK
<1>1. RunsInv => RunsTypeOK
  BY DEF RunsInv
<1> QED BY <1>1, RunsInvariant, PTL

\* newly_created: however scans overlap, are retried or are redelivered, a
\* vulnerability is announced once, unless two runs looked for it before
\* either had stored it; and each of its rows once even then.
THEOREM AnnouncedOnceHolds == Spec => []AnnouncedOnce
<1>1. RunsInv => AnnouncedOnce
  <2> SUFFICES ASSUME RunsInv, NEW f \in FindingId, NEW g \in FindingId
      PROVE  /\ told[f] <= 1
             /\ f[1] = g[1] /\ f # g /\ f[1] \notin raced => told[f] + told[g] <= 1
    BY DEF AnnouncedOnce
  <2>1. /\ told[f] <= 1 /\ told[g] <= 1
        /\ finding[f].state = "none" => told[f] = 0
        /\ finding[g].state = "none" => told[g] = 0
    BY DEF RunsInv, AnnouncedApart
  <2>2. told[f] \in Nat /\ told[g] \in Nat
    BY DEF RunsInv, RunsTypeOK
  <2>3. ASSUME f[1] = g[1], f # g, f[1] \notin raced PROVE told[f] = 0 \/ told[g] = 0
    <3>1. f[1] \in Hashes \ raced
      BY <2>3 DEF FindingId
    <3>2. ~(f \in Rows(f[1]) /\ g \in Rows(f[1]))
      BY <2>3, <3>1 DEF RunsInv, OneRow
    <3> QED BY <2>1, <2>3, <3>2 DEF Rows
  <2> QED BY <2>1, <2>2, <2>3
<1> QED BY <1>1, RunsInvariant, PTL

\* Of all steps, only the sweep's commit clears a finding.
LEMMA OnlyTheSweepClears ==
  ASSUME RunsTypeOK, [Next]_vars, NEW f \in FindingId,
         finding'[f] = Cleared, finding[f] # Cleared
  PROVE  \E w \in Workers : Mitigate(w) /\ f \in job[w].stale
<1>1. finding' # finding
  OBVIOUS
<1>2. CASE \E w \in Workers : Store(w)
  BY <1>2 DEF Store, Cleared
<1>3. CASE \E w \in Workers : Suppress(w)
  <2>1. PICK w \in Workers : Suppress(w)
    BY <1>3
  <2>2. finding'[f].state = "False Positive" \/ finding'[f] = finding[f]
    BY <2>1 DEF Suppress
  <2>3. finding'[f].state = "Mitigated"
    BY DEF Cleared
  <2>4. "False Positive" # "Mitigated"
    OBVIOUS
  <2> QED BY <2>2, <2>3, <2>4
<1>4. CASE \E g \in FindingId, state \in FindingState : Triage(g, state)
  <2>1. PICK g \in FindingId, state \in FindingState : Triage(g, state)
    BY <1>4
  <2>2. finding'[f] = [state |-> state, by |-> "user"] \/ finding'[f] = finding[f]
    BY <2>1 DEF Triage, RunsTypeOK
  <2> QED BY <2>2 DEF Cleared
<1>5. CASE \E w \in Workers : Mitigate(w)
  BY <1>5 DEF Mitigate
<1>6. Environment => \E g \in FindingId, state \in FindingState : Triage(g, state)
  BY <1>1 DEF Environment, Dispatch, DispatchLost, MarkStale, IngestFails, Crash, Redeliver,
              Push, EditRule, Toggle, Commit
<1>7. ASSUME NEW w \in Workers, WorkerStep(w)
      PROVE  Store(w) \/ Suppress(w) \/ Mitigate(w)
  BY <1>1, <1>7 DEF WorkerStep, Start, Refuse, Clone, Retry, Skip, Fail, RunTool, Look,
                    Announce, FindStale, Complete, Ack
<1>8. ~UNCHANGED vars
  BY <1>1 DEF vars
<1> QED BY <1>2, <1>3, <1>4, <1>5, <1>6, <1>7, <1>8 DEF Next

\* _may_mitigate (#229): a scan clears a finding only if the vulnerability is
\* absent from the checkout it scanned or, without a health signal, on the
\* strength of a report that is not empty.
THEOREM ClearedOnEvidenceHolds == Spec => ClearedOnEvidence
<1>1. RunsInv /\ [Next]_vars =>
        [\A f \in FindingId :
           finding'[f] = Cleared /\ finding[f] # Cleared =>
             \E w \in Workers :
               /\ job[w].pc = "mitigate"
               /\ \/ f[1] \notin job[w].tree
                  \/ job[w].health = "unknown" /\ job[w].saw # {}]_vars
  <2> SUFFICES ASSUME RunsInv, [Next]_vars, NEW f \in FindingId,
                      finding'[f] = Cleared, finding[f] # Cleared
               PROVE  \E w \in Workers :
                        /\ job[w].pc = "mitigate"
                        /\ \/ f[1] \notin job[w].tree
                           \/ job[w].health = "unknown" /\ job[w].saw # {}
    OBVIOUS
  <2>1. PICK w \in Workers : Mitigate(w) /\ f \in job[w].stale
    BY OnlyTheSweepClears DEF RunsInv
  <2>2. job[w].pc = "mitigate" /\ Evidence(job[w])
    BY <2>1 DEF Mitigate, RunsInv, EvidenceKept
  <2>3. f[1] \notin job[w].saw
    BY <2>1, <2>2 DEF Evidence
  <2> QED BY <2>2, <2>3 DEF Evidence, Ingesting
<1> QED BY <1>1, RunsInvariant, PTL DEF Spec, ClearedOnEvidence

-----------------------------------------------------------------------------
(* The record, however scans overlap.                                      *)

\* What is kept of the record while the newest ingested checkout stays: rows
\* do not go, and none of a hash it reported is cleared but those outrun.
LEMMA RecordKept ==
  ASSUME ReportedIsOnRecord, latest' = latest, latest.saw \subseteq Hashes,
         outrun \subseteq outrun',
         \A f \in FindingId : finding[f].state # "none" => finding'[f].state # "none",
         \A f \in FindingId :
           f[1] \in latest.saw \ outrun' /\ finding[f] # Cleared => finding'[f] # Cleared
  PROVE  ReportedIsOnRecord'
<1> SUFFICES ASSUME NEW h \in latest.saw \ outrun'
             PROVE  \E f \in Rows(h)' : finding'[f] # Cleared
  BY DEF ReportedIsOnRecord, Cleared
<1>1. PICK f \in Rows(h) : finding[f] # Cleared
  BY DEF ReportedIsOnRecord
<1>2. f \in FindingId /\ f[1] = h /\ finding[f].state # "none"
  BY DEF Rows
<1>3. f \in Rows(h)'
  BY <1>2 DEF Rows
<1> QED BY <1>1, <1>2, <1>3

\* The same of a lookup that another step overtakes.
LEMMA AccountKept ==
  ASSUME NEW x \in Workers, Accounted(job[x]), job'[x] = job[x], latest' = latest,
         outrun \subseteq outrun',
         \A f \in FindingId : finding[f].state # "none" => finding'[f].state # "none",
         \A f \in FindingId :
           job[x].seq > latest.seq /\ f[1] \in job[x].saw \ outrun' /\ finding[f] # Cleared
             => finding'[f] # Cleared
  PROVE  Accounted(job[x])'
<1> SUFFICES ASSUME job[x].pc = "look", job[x].seq > latest.seq,
                    NEW h \in (job[x].saw \ job[x].todo) \ outrun', h \notin job[x].fresh
             PROVE  \E f \in Rows(h)' : f \in job[x].reopen \/ finding'[f] # Cleared
  BY DEF Accounted, Cleared
<1>1. PICK f \in Rows(h) : f \in job[x].reopen \/ finding[f] # Cleared
  BY DEF Accounted
<1>2. f \in FindingId /\ f[1] = h /\ finding[f].state # "none"
  BY DEF Rows
<1>3. f \in Rows(h)'
  BY <1>2 DEF Rows
<1> QED BY <1>1, <1>2, <1>3

\* A step that moves one run and writes no finding: its checkout is the one it
\* had, none, or the newest of all.
LEMMA JobRecord ==
  ASSUME RecordInv, NEW w \in Workers, NEW j,
         job' = [job EXCEPT ![w] = j], UNCHANGED <<finding, latest, outrun>>,
         \/ clones' = clones /\ j.seq \in {0, job[w].seq}
         \/ clones' = clones + 1 /\ j.seq = clones + 1,
         InOrder(j), Accounted(j)
  PROVE  CheckoutsInOrder' /\ AllAccounted' /\ ReportedIsOnRecord'
<1>1. /\ job \in [Workers -> Job] /\ clones \in Nat /\ latest.seq \in Nat
      /\ latest.saw \subseteq Hashes
      /\ \A x \in Workers : job[x].seq \in Nat
  BY DEF RecordInv, RunsInv, RunsTypeOK, Job
<1>2. job'[w] = j /\ \A x \in Workers \ {w} : job'[x] = job[x]
  BY <1>1
<1>3. /\ latest.seq <= clones
      /\ \A x \in Workers : job[x].seq <= clones /\ InOrder(job[x])
      /\ \A x, y \in Workers : x # y /\ job[x].seq = job[y].seq => job[x].seq = 0
  BY DEF RecordInv, CheckoutsInOrder
<1>4. CheckoutsInOrder'
  <2>1. latest'.seq <= clones' /\ j.seq <= clones'
    BY <1>1, <1>3
  <2>2. \A x \in Workers \ {w} : job[x].seq <= clones'
    BY <1>1, <1>3
  <2>3. \A x \in Workers : job'[x].seq <= clones'
    BY <1>2, <2>1, <2>2
  <2>4. \A x \in Workers : InOrder(job[x])'
    BY <1>2, <1>3 DEF InOrder, Ingesting
  <2>5. \A x \in Workers \ {w} : j.seq = job[x].seq => j.seq = 0
    BY <1>1, <1>3
  <2>6. \A x, y \in Workers : x # y /\ job'[x].seq = job'[y].seq => job'[x].seq = 0
    BY <1>2, <1>3, <2>5
  <2> QED BY <2>1, <2>3, <2>4, <2>6 DEF CheckoutsInOrder
<1>5. AllAccounted'
  <2>1. \A k : Rows(k)' = Rows(k)
    BY DEF Rows
  <2>2. Accounted(job[w])'
    BY <1>2, <2>1 DEF Accounted, Cleared
  <2>3. \A x \in Workers \ {w} : Accounted(job[x])'
    BY <1>2, AccountKept DEF RecordInv, AllAccounted
  <2> QED BY <2>2, <2>3 DEF AllAccounted
<1>6. ReportedIsOnRecord'
  BY <1>1, RecordKept DEF RecordInv
<1> QED BY <1>4, <1>5, <1>6

\* A slot outside the run has no checkout in hand.
LEMMA SlotRecord ==
  ASSUME RecordInv, NEW w \in Workers, NEW j,
         job' = [job EXCEPT ![w] = j], UNCHANGED <<finding, latest, clones, outrun>>,
         j.pc \notin Ingesting \cup {"tool"}, j.seq = 0
  PROVE  CheckoutsInOrder' /\ AllAccounted' /\ ReportedIsOnRecord'
<1>1. InOrder(j) /\ Accounted(j)
  BY DEF InOrder, Accounted, Ingesting
<1> QED BY <1>1, JobRecord

\* The returned slot.
LEMMA ReturnRecord ==
  ASSUME RecordInv, NEW w \in Workers, Return(w), UNCHANGED <<finding, latest, clones, outrun>>
  PROVE  CheckoutsInOrder' /\ AllAccounted' /\ ReportedIsOnRecord'
<1> DEFINE j == [IdleJob EXCEPT !.pc = "ack", !.scan = job[w].scan,
                                !.tries = job[w].tries, !.pushed = job[w].pushed]
<1>1. job' = [job EXCEPT ![w] = j]
  BY DEF Return
<1>2. j.pc \notin Ingesting \cup {"tool"} /\ j.seq = 0
  BY DEF IdleJob, Ingesting
<1> HIDE DEF j
<1> QED BY <1>1, <1>2, SlotRecord

\* The steps of a run up to the report, and its end.
LEMMA RunRecord ==
  ASSUME RecordInv, NEW w \in Workers, WorkerStep(w)
  PROVE  \/ CheckoutsInOrder' /\ AllAccounted' /\ ReportedIsOnRecord'
         \/ \E h \in Hashes : Look(w, h)
         \/ Store(w) \/ Suppress(w) \/ Announce(w) \/ FindStale(w) \/ Mitigate(w)
<1> DEFINE Kept == CheckoutsInOrder' /\ AllAccounted' /\ ReportedIsOnRecord'
<1>1. /\ job \in [Workers -> Job] /\ job[w] \in Job /\ InOrder(job[w])
      /\ clones \in Nat /\ latest.seq \in Nat /\ latest.seq <= clones
  BY DEF RecordInv, RunsInv, RunsTypeOK, CheckoutsInOrder
<1>2. ASSUME NEW m \in queue, Start(w, m) PROVE Kept
  <2> DEFINE j == [IdleJob EXCEPT !.pc = IF active THEN "clone" ELSE "refuse",
                                  !.scan = m.scan, !.tries = m.tries]
  <2>1. job' = [job EXCEPT ![w] = j] /\ UNCHANGED <<finding, latest, clones, outrun>>
    BY <1>2 DEF Start
  <2>2. j.pc \notin Ingesting \cup {"tool"} /\ j.seq = 0
    BY DEF IdleJob, Ingesting
  <2> HIDE DEF j
  <2> QED BY <2>1, <2>2, SlotRecord
<1>3. CASE Refuse(w) \/ Retry(w) \/ Skip(w) \/ Fail(w) \/ Complete(w)
  <2>1. Return(w) /\ UNCHANGED <<finding, latest, clones, outrun>>
    BY <1>3 DEF Refuse, Retry, Skip, Fail, Complete
  <2> QED BY <2>1, ReturnRecord
<1>4. CASE Ack(w)
  <2>1. job' = [job EXCEPT ![w] = IdleJob] /\ UNCHANGED <<finding, latest, clones, outrun>>
    BY <1>4 DEF Ack
  <2>2. IdleJob.pc \notin Ingesting \cup {"tool"} /\ IdleJob.seq = 0
    BY DEF IdleJob, Ingesting
  <2> QED BY <2>1, <2>2, SlotRecord
<1>5. CASE Clone(w)
  <2> DEFINE j == [job[w] EXCEPT !.pc = "tool", !.seq = clones + 1, !.tree = repo]
  <2>1. /\ job' = [job EXCEPT ![w] = j] /\ clones' = clones + 1
        /\ UNCHANGED <<finding, latest, outrun>>
    BY <1>5 DEF Clone
  <2>2. j.pc = "tool" /\ j.seq = clones + 1
    BY <1>1 DEF Job
  <2> HIDE DEF j
  <2>3. InOrder(j) /\ Accounted(j)
    BY <1>1, <2>2 DEF InOrder, Accounted, Ingesting
  <2> QED BY <2>1, <2>2, <2>3, JobRecord
<1>6. ASSUME NEW saw \in SUBSET Hashes, NEW health \in {"healthy", "suspect"},
             RunTool(w, saw, health)
      PROVE  Kept
  <2> DEFINE j == [job[w] EXCEPT !.pc = "look", !.saw = saw, !.health = health, !.todo = saw]
  <2>1. /\ job' = [job EXCEPT ![w] = j] /\ job[w].pc = "tool"
        /\ UNCHANGED <<finding, latest, clones, outrun>>
    BY <1>6 DEF RunTool
  <2>2. j.pc = "look" /\ j.seq = job[w].seq /\ j.saw = saw /\ j.todo = saw
    BY <1>1 DEF Job
  <2> HIDE DEF j
  <2>3. InOrder(j) /\ Accounted(j)
    BY <1>1, <2>1, <2>2 DEF InOrder, Accounted, Ingesting
  <2> QED BY <2>1, <2>2, <2>3, JobRecord
<1> QED BY <1>2, <1>3, <1>4, <1>5, <1>6 DEF WorkerStep

\* Each item looked up has a row to keep or to reopen, or will get one.
LEMMA LookRecord ==
  ASSUME RecordInv, NEW w \in Workers, NEW h \in Hashes, Look(w, h)
  PROVE  CheckoutsInOrder' /\ AllAccounted' /\ ReportedIsOnRecord'
<1>1. /\ job \in [Workers -> Job] /\ job[w] \in Job
      /\ InOrder(job[w]) /\ Accounted(job[w])
  BY DEF RecordInv, RunsInv, RunsTypeOK, CheckoutsInOrder, AllAccounted
<1>2. job[w].pc = "look" /\ UNCHANGED <<finding, latest, clones, outrun>>
  BY DEF Look
<1> DEFINE Moves(j) ==
      /\ job' = [job EXCEPT ![w] = j]
      /\ j.pc = "look" /\ j.seq = job[w].seq /\ j.saw = job[w].saw
      /\ j.todo = job[w].todo \ {h}
      /\ job[w].fresh \subseteq j.fresh /\ job[w].reopen \subseteq j.reopen
      /\ \/ h \in j.fresh
         \/ \E f \in Rows(h) : f \in j.reopen \/ finding[f].state # "Mitigated"
<1>3. \E j : Moves(j)
  <2>1. CASE /\ Rows(h) = {}
             /\ job' = [job EXCEPT ![w] = [@ EXCEPT !.todo = job[w].todo \ {h},
                                                    !.fresh = job[w].fresh \cup {h}]]
    <3> DEFINE j == [job[w] EXCEPT !.todo = job[w].todo \ {h}, !.fresh = job[w].fresh \cup {h}]
    <3>1. job' = [job EXCEPT ![w] = j]
      BY <2>1
    <3>2. /\ j.pc = "look" /\ j.seq = job[w].seq /\ j.saw = job[w].saw
          /\ j.todo = job[w].todo \ {h}
          /\ j.fresh = job[w].fresh \cup {h} /\ j.reopen = job[w].reopen
      BY <1>1, <1>2 DEF Job
    <3> HIDE DEF j
    <3> QED BY <3>1, <3>2
  <2>2. ASSUME NEW f \in Rows(h),
               job' = [job EXCEPT ![w] =
                         [@ EXCEPT !.todo = job[w].todo \ {h},
                                   !.reopen = IF finding[f].state = "Mitigated"
                                              THEN job[w].reopen \cup {f}
                                              ELSE job[w].reopen]]
        PROVE  \E j : Moves(j)
    <3> DEFINE R == IF finding[f].state = "Mitigated" THEN job[w].reopen \cup {f}
                                                      ELSE job[w].reopen
               j == [job[w] EXCEPT !.todo = job[w].todo \ {h}, !.reopen = R]
    <3>1. job' = [job EXCEPT ![w] = j]
      BY <2>2
    <3>2. /\ j.pc = "look" /\ j.seq = job[w].seq /\ j.saw = job[w].saw
          /\ j.todo = job[w].todo \ {h}
          /\ j.fresh = job[w].fresh /\ j.reopen = R
      <4> HIDE DEF R
      <4> QED BY <1>1, <1>2 DEF Job
    <3> HIDE DEF j
    <3> QED BY <2>2, <3>1, <3>2
  <2> QED BY <2>1, <2>2 DEF Look
<1>4. PICK j : Moves(j)
  BY <1>3
<1>5. InOrder(j)
  BY <1>1, <1>2, <1>4 DEF InOrder, Ingesting
<1>6. Accounted(j)
  <2> SUFFICES ASSUME j.seq > latest.seq, NEW k \in (j.saw \ j.todo) \ outrun, k \notin j.fresh
               PROVE  \E f \in Rows(k) : f \in j.reopen \/ finding[f] # Cleared
    BY <1>4 DEF Accounted
  <2>1. \A f : finding[f].state # "Mitigated" => finding[f] # Cleared
    BY DEF Cleared
  <2>2. CASE k = h
    BY <1>4, <2>1, <2>2
  <2>3. CASE k # h
    <3>1. k \in (job[w].saw \ job[w].todo) \ outrun /\ k \notin job[w].fresh
      BY <1>4, <2>3
    <3>2. \E f \in Rows(k) : f \in job[w].reopen \/ finding[f] # Cleared
      BY <1>1, <1>2, <1>4, <3>1 DEF Accounted
    <3> QED BY <1>4, <3>2
  <2> QED BY <2>2, <2>3
<1> QED BY <1>2, <1>4, <1>5, <1>6, JobRecord

\* The first commit: what the run reported is on the record and not cleared,
\* and it is the newest ingested checkout unless a newer one came before it.
LEMMA StoreRecord ==
  ASSUME RecordInv, NEW w \in Workers, Store(w)
  PROVE  CheckoutsInOrder' /\ AllAccounted' /\ ReportedIsOnRecord'
<1> DEFINE new == {NextRow(h) : h \in job[w].fresh}
<1>1. /\ job \in [Workers -> Job] /\ job[w] \in Job /\ RunsInv /\ Accounted(job[w])
      /\ clones \in Nat /\ latest.seq \in Nat /\ latest.saw \subseteq Hashes
      /\ job[w].saw \subseteq Hashes /\ job[w].fresh \subseteq Hashes
      /\ \A x \in Workers : job[x].seq \in Nat
  BY DEF RecordInv, RunsInv, RunsTypeOK, AllAccounted, Job
<1>2. /\ job[w].pc = "look" /\ job[w].todo = {} /\ UNCHANGED <<clones, outrun>>
      /\ \A f \in FindingId :
           finding'[f] = IF f \in new THEN [state |-> "Open", by |-> "system"]
                         ELSE IF f \in job[w].reopen THEN [state |-> "Reopened", by |-> "system"]
                         ELSE finding[f]
      /\ latest' = IF job[w].seq > latest.seq
                   THEN [seq |-> job[w].seq, saw |-> job[w].saw] ELSE latest
  BY DEF Store
<1>3. /\ latest.seq <= clones
      /\ \A x \in Workers : job[x].seq <= clones /\ InOrder(job[x])
      /\ \A x, y \in Workers : x # y /\ job[x].seq = job[y].seq => job[x].seq = 0
  BY DEF RecordInv, CheckoutsInOrder
<1>4. /\ job'[w].pc = "suppress" /\ job'[w].seq = job[w].seq /\ job'[w].saw = job[w].saw
      /\ \A x \in Workers \ {w} : job'[x] = job[x]
  <2>1. job' = [job EXCEPT ![w] = [@ EXCEPT !.pc = "suppress", !.new = new,
                                            !.fresh = {}, !.reopen = {}]]
    BY DEF Store
  <2> HIDE DEF new
  <2> QED BY <1>1, <2>1 DEF Job
<1>5. \A f \in FindingId : f \in new \/ f \in job[w].reopen => finding'[f] # Cleared
  <2> HIDE DEF new
  <2> QED BY <1>2 DEF Cleared
<1>6. \A f \in FindingId : finding[f] # Cleared => finding'[f] # Cleared
  <2> HIDE DEF new
  <2> QED BY <1>2 DEF Cleared
<1>7. \A f \in FindingId : finding[f].state # "none" => finding'[f].state # "none"
  <2> HIDE DEF new
  <2> QED BY <1>2
<1>8. job[w].seq # latest.seq
  BY <1>2, <1>3 DEF InOrder
<1>9. /\ latest'.seq <= clones /\ latest'.seq \in Nat
      /\ latest.seq <= latest'.seq /\ job[w].seq <= latest'.seq
      /\ job[w].seq = latest'.seq => latest' = [seq |-> job[w].seq, saw |-> job[w].saw]
      /\ \/ latest' = latest
         \/ latest'.seq = job[w].seq /\ job[w].seq > latest.seq
  <2>1. job[w].seq \in Nat /\ job[w].seq <= clones
    BY <1>1, <1>3
  <2>2. CASE job[w].seq > latest.seq
    <3>1. latest' = [seq |-> job[w].seq, saw |-> job[w].saw]
      BY <1>2, <2>2
    <3>2. latest'.seq = job[w].seq
      BY <3>1
    <3> QED BY <1>1, <2>1, <2>2, <3>1, <3>2
  <2>3. CASE job[w].seq < latest.seq
    <3>1. latest' = latest
      BY <1>1, <1>2, <2>1, <2>3
    <3>2. /\ latest'.seq = latest.seq /\ latest.seq \in Nat /\ latest.seq <= clones
      BY <1>1, <1>3, <3>1
    <3>3. job[w].seq # latest.seq /\ job[w].seq <= latest.seq /\ latest.seq <= latest.seq
      BY <2>1, <2>3, <3>2
    <3>4. /\ latest'.seq <= clones /\ latest'.seq \in Nat
          /\ latest.seq <= latest'.seq /\ job[w].seq <= latest'.seq
          /\ job[w].seq # latest'.seq
      BY <3>2, <3>3
    <3> QED BY <3>1, <3>4
  <2> QED BY <1>1, <1>8, <2>1, <2>2, <2>3
<1>10. CheckoutsInOrder'
  <2>1. InOrder(job[w])'
    BY <1>4, <1>9 DEF InOrder, Ingesting
  <2>2. ASSUME NEW x \in Workers \ {w} PROVE InOrder(job[x])'
    <3>1. InOrder(job[x]) /\ job'[x] = job[x] /\ job[x].seq \in Nat
      BY <1>1, <1>3, <1>4
    <3>2. job[x].seq = job[w].seq => job[x].seq = 0
      BY <1>3
    <3>3. job[x].pc \in {"tool", "look"} => job[x].seq # latest'.seq
      BY <1>1, <1>9, <3>1, <3>2 DEF InOrder
    <3>4. job[x].pc \in Ingesting \ {"look"} =>
            job[x].seq <= latest'.seq /\ (job[x].seq = latest'.seq => latest'.saw = job[x].saw)
      <4>1. CASE latest' = latest
        BY <3>1, <4>1 DEF InOrder
      <4>2. CASE latest'.seq = job[w].seq /\ job[w].seq > latest.seq
        BY <1>1, <1>9, <3>1, <4>2 DEF InOrder
      <4> QED BY <1>9, <4>1, <4>2
    <3> QED BY <3>1, <3>3, <3>4 DEF InOrder, Ingesting
  <2>3. \A x \in Workers : job'[x].seq = job[x].seq
    BY <1>4
  <2> QED BY <1>2, <1>3, <1>9, <2>1, <2>2, <2>3 DEF CheckoutsInOrder
<1>11. AllAccounted'
  <2>1. Accounted(job[w])'
    BY <1>4 DEF Accounted
  <2>2. ASSUME NEW x \in Workers \ {w} PROVE Accounted(job[x])'
    <3> SUFFICES ASSUME job[x].pc = "look", job[x].seq > latest'.seq,
                        NEW h \in (job[x].saw \ job[x].todo) \ outrun, h \notin job[x].fresh
                 PROVE  \E f \in Rows(h)' : f \in job[x].reopen \/ finding'[f] # Cleared
      BY <1>2, <1>4 DEF Accounted, Cleared
    <3>1. job[x].seq > latest.seq
      BY <1>1, <1>9
    <3>2. Accounted(job[x])
      BY DEF RecordInv, AllAccounted
    <3>3. PICK f \in Rows(h) : f \in job[x].reopen \/ finding[f] # Cleared
      BY <3>1, <3>2 DEF Accounted
    <3>4. f \in FindingId /\ f[1] = h /\ finding[f].state # "none"
      BY DEF Rows
    <3>5. f \in Rows(h)'
      BY <1>7, <3>4 DEF Rows
    <3> QED BY <1>6, <3>3, <3>4, <3>5
  <2> QED BY <2>1, <2>2 DEF AllAccounted
<1>12. ReportedIsOnRecord'
  <2>1. CASE latest' = latest
    BY <1>1, <1>2, <1>6, <1>7, <2>1, RecordKept DEF RecordInv
  <2>2. CASE latest'.seq = job[w].seq /\ job[w].seq > latest.seq
    <3> SUFFICES ASSUME NEW h \in job[w].saw \ outrun
                 PROVE  \E f \in Rows(h)' : finding'[f] # Cleared
      BY <1>2, <2>2 DEF ReportedIsOnRecord, Cleared
    <3>1. CASE h \in job[w].fresh
      <4>1. NextRow(h) \in FindingId /\ NextRow(h) \in new
        BY <1>1, <3>1, NextRowIsFree DEF RunsInv
      <4>2. NextRow(h) \in Rows(h)'
        BY <1>1, <3>1, StoreRows
      <4> QED BY <1>5, <4>1, <4>2
    <3>2. CASE h \notin job[w].fresh
      <4>1. PICK f \in Rows(h) : f \in job[w].reopen \/ finding[f] # Cleared
        BY <1>1, <1>2, <2>2, <3>2 DEF Accounted
      <4>2. f \in FindingId /\ h \in Hashes
        BY <1>1 DEF Rows
      <4>3. Rows(h)' = Rows(h)
        BY <1>1, <3>2, <4>2, StoreRows
      <4> QED BY <1>5, <1>6, <4>1, <4>2, <4>3
    <3> QED BY <3>1, <3>2
  <2> QED BY <1>9, <2>1, <2>2
<1> QED BY <1>10, <1>11, <1>12

\* The later steps of a run keep its checkout and its report.
LEMMA LaterOrder ==
  ASSUME RecordInv, NEW w \in Workers,
         Suppress(w) \/ Announce(w) \/ FindStale(w) \/ Mitigate(w)
  PROVE  /\ CheckoutsInOrder'
         /\ Accounted(job[w])'
         /\ \A x \in Workers \ {w} : job'[x] = job[x]
<1>1. /\ job \in [Workers -> Job] /\ job[w] \in Job
      /\ job[w].pc \in Ingesting \ {"look"} /\ UNCHANGED <<latest, clones>>
  BY DEF RecordInv, RunsInv, RunsTypeOK, Suppress, Announce, FindStale, Mitigate, Ingesting
<1>2. /\ job'[w].pc \in Ingesting \ {"look"}
      /\ job'[w].seq = job[w].seq /\ job'[w].saw = job[w].saw
      /\ \A x \in Workers \ {w} : job'[x] = job[x]
  <2>1. CASE Suppress(w)
    BY <1>1, <2>1 DEF Suppress, Ingesting, Job
  <2>2. CASE Announce(w)
    BY <1>1, <2>2 DEF Announce, Ingesting, Job
  <2>3. CASE FindStale(w)
    BY <1>1, <2>3 DEF FindStale, Ingesting, Job
  <2>4. CASE Mitigate(w)
    BY <1>1, <2>4 DEF Mitigate, Ingesting, Job
  <2> QED BY <2>1, <2>2, <2>3, <2>4
<1>3. /\ latest.seq <= clones
      /\ \A x \in Workers : job[x].seq <= clones /\ InOrder(job[x])
      /\ \A x, y \in Workers : x # y /\ job[x].seq = job[y].seq => job[x].seq = 0
  BY DEF RecordInv, CheckoutsInOrder
<1>4. \A x \in Workers : job'[x].seq = job[x].seq
  BY <1>2
<1>5. \A x \in Workers : InOrder(job[x])'
  BY <1>1, <1>2, <1>3 DEF InOrder, Ingesting
<1>6. CheckoutsInOrder'
  BY <1>1, <1>3, <1>4, <1>5 DEF CheckoutsInOrder
<1>7. Accounted(job[w])'
  BY <1>2 DEF Accounted, Ingesting
<1> QED BY <1>2, <1>6, <1>7

\* The sweep clears nothing its own checkout reported, and nothing a newer one
\* did but what it records as outrun.
LEMMA LaterRecord ==
  ASSUME RecordInv, NEW w \in Workers,
         Suppress(w) \/ Announce(w) \/ FindStale(w) \/ Mitigate(w)
  PROVE  CheckoutsInOrder' /\ AllAccounted' /\ ReportedIsOnRecord'
<1>1. /\ RunsInv /\ InOrder(job[w]) /\ latest.saw \subseteq Hashes /\ latest.seq \in Nat
      /\ \A x \in Workers : job[x].seq \in Nat /\ job[x].saw \subseteq Hashes
  BY DEF RecordInv, RunsInv, RunsTypeOK, CheckoutsInOrder, Job
<1>2. /\ latest' = latest /\ outrun \subseteq outrun'
  BY DEF Suppress, Announce, FindStale, Mitigate
<1>3. /\ job[w].new \subseteq Stored
      /\ job[w].stale \subseteq Stored
      /\ Evidence(job[w])
  BY <1>1 DEF RunsInv, KnownRows, EvidenceKept
<1>4. \A f \in FindingId : finding[f].state # "none" => finding'[f].state # "none"
  <2>1. CASE Suppress(w)
    BY <2>1 DEF Suppress
  <2>2. CASE Mitigate(w)
    BY <2>2 DEF Mitigate
  <2>3. CASE Announce(w) \/ FindStale(w)
    BY <2>3 DEF Announce, FindStale
  <2> QED BY <2>1, <2>2, <2>3
<1>5. ASSUME Mitigate(w), NEW f \in job[w].stale, f \in FindingId
      PROVE  /\ f[1] \in latest.saw => f[1] \in outrun'
             /\ \A x \in Workers : job[x].seq > latest.seq /\ f[1] \in job[x].saw
                  => f[1] \in outrun'
  <2>1. /\ job[w].pc = "mitigate"
        /\ outrun' = outrun \cup ({g[1] : g \in job[w].stale} \cap NewerReport(w))
    BY <1>5 DEF Mitigate
  <2>2. f[1] \in NewerReport(w) => f[1] \in outrun'
    BY <2>1
  <2>3. /\ f[1] \notin job[w].saw /\ job[w].seq <= latest.seq
        /\ job[w].seq = latest.seq => latest.saw = job[w].saw
    BY <1>1, <1>3, <2>1 DEF Evidence, InOrder, Ingesting
  <2>4. f[1] \in latest.saw => f[1] \in NewerReport(w)
    <3> SUFFICES ASSUME f[1] \in latest.saw PROVE f[1] \in NewerReport(w)
      OBVIOUS
    <3>1. job[w].seq # latest.seq /\ f[1] \in Hashes
      BY <1>1, <2>3
    <3>2. latest.seq > job[w].seq
      BY <1>1, <2>3, <3>1
    <3> QED BY <3>1, <3>2 DEF NewerReport
  <2>5. ASSUME NEW x \in Workers, job[x].seq > latest.seq, f[1] \in job[x].saw
        PROVE  f[1] \in NewerReport(w)
    <3>1. job[x].seq > job[w].seq
      BY <1>1, <2>3, <2>5
    <3>2. f[1] \in Hashes
      BY <1>1, <2>5
    <3> QED BY <2>5, <3>1, <3>2 DEF NewerReport
  <2> QED BY <2>2, <2>4, <2>5
<1>6. \A f \in FindingId :
        \/ finding[f] # Cleared => finding'[f] # Cleared
        \/ Mitigate(w) /\ f \in job[w].stale
  <2>1. CASE Suppress(w)
    BY <2>1 DEF Suppress, Cleared
  <2>2. CASE Mitigate(w)
    BY <2>2 DEF Mitigate
  <2>3. CASE Announce(w) \/ FindStale(w)
    BY <2>3 DEF Announce, FindStale
  <2> QED BY <2>1, <2>2, <2>3
<1>7. ReportedIsOnRecord'
  BY <1>1, <1>2, <1>4, <1>5, <1>6, RecordKept DEF RecordInv
<1>8. ASSUME NEW x \in Workers \ {w} PROVE Accounted(job[x])'
  <2>1. job'[x] = job[x] /\ Accounted(job[x])
    BY LaterOrder DEF RecordInv, AllAccounted
  <2>2. \A f \in FindingId :
          job[x].seq > latest.seq /\ f[1] \in job[x].saw \ outrun' /\ finding[f] # Cleared
            => finding'[f] # Cleared
    BY <1>5, <1>6
  <2> QED BY <1>2, <1>4, <2>1, <2>2, AccountKept
<1> QED BY <1>7, <1>8, LaterOrder DEF AllAccounted

\* Everyone else: a person's decision is not a clearing.
LEMMA EnvironmentRecord ==
  ASSUME RecordInv, Environment
  PROVE  CheckoutsInOrder' /\ AllAccounted' /\ ReportedIsOnRecord'
<1> DEFINE Kept == CheckoutsInOrder' /\ AllAccounted' /\ ReportedIsOnRecord'
<1>1. /\ job \in [Workers -> Job] /\ clones \in Nat /\ latest.saw \subseteq Hashes
      /\ latest.seq \in Nat /\ latest.seq <= clones
      /\ CheckoutsInOrder /\ ReportedIsOnRecord
  BY DEF RecordInv, RunsInv, RunsTypeOK, CheckoutsInOrder
<1>2. ASSUME UNCHANGED <<job, latest, clones, outrun>>,
             \A f \in FindingId : finding[f].state # "none" => finding'[f].state # "none",
             \A f \in FindingId : finding[f] # Cleared => finding'[f] # Cleared
      PROVE  Kept
  <2>1. CheckoutsInOrder'
    BY <1>1, <1>2 DEF CheckoutsInOrder, InOrder, Ingesting
  <2>2. ReportedIsOnRecord'
    BY <1>1, <1>2, RecordKept
  <2>3. \A x \in Workers : Accounted(job[x])'
    BY <1>2, AccountKept DEF RecordInv, AllAccounted
  <2> QED BY <2>1, <2>2, <2>3 DEF AllAccounted
<1>3. ASSUME NEW w \in Workers, IngestFails(w) PROVE Kept
  BY <1>3, ReturnRecord DEF IngestFails
<1>4. ASSUME NEW w \in Workers, Crash(w) PROVE Kept
  <2>1. job' = [job EXCEPT ![w] = IdleJob] /\ UNCHANGED <<finding, latest, clones, outrun>>
    BY <1>4 DEF Crash
  <2>2. IdleJob.pc \notin Ingesting \cup {"tool"} /\ IdleJob.seq = 0
    BY DEF IdleJob, Ingesting
  <2> QED BY <2>1, <2>2, SlotRecord
<1>5. ASSUME NEW w \in Workers, NEW s \in ScanId, NEW saw \in SUBSET repo,
             NEW health \in {"healthy", "suspect", "unknown"}, Push(w, s, saw, health)
      PROVE  Kept
  <2> DEFINE j == [IdleJob EXCEPT !.pc = "look", !.scan = s, !.pushed = TRUE,
                                  !.seq = clones + 1, !.tree = repo, !.saw = saw,
                                  !.health = health, !.todo = saw]
  <2>1. /\ job' = [job EXCEPT ![w] = j] /\ clones' = clones + 1
        /\ UNCHANGED <<finding, latest, outrun>>
    BY <1>5 DEF Push
  <2>2. j.pc = "look" /\ j.seq = clones + 1 /\ j.saw = saw /\ j.todo = saw
    BY DEF IdleJob
  <2> HIDE DEF j
  <2>3. InOrder(j) /\ Accounted(j)
    BY <1>1, <2>2 DEF InOrder, Accounted, Ingesting
  <2> QED BY <2>1, <2>2, <2>3, JobRecord
<1>6. ASSUME NEW g \in FindingId, NEW state \in FindingState, Triage(g, state) PROVE Kept
  <2>1. UNCHANGED <<job, latest, clones, outrun>>
    BY <1>6 DEF Triage
  <2>2. \A f \in FindingId : finding[f].state # "none" => finding'[f].state # "none"
    BY <1>6 DEF Triage, FindingState, RecordInv, RunsInv, RunsTypeOK
  <2>3. \A f \in FindingId : finding[f] # Cleared => finding'[f] # Cleared
    BY <1>6 DEF Triage, Cleared, RecordInv, RunsInv, RunsTypeOK
  <2> QED BY <1>2, <2>1, <2>2, <2>3
<1>7. \/ UNCHANGED <<job, finding, latest, clones, outrun>>
      \/ \E w \in Workers : IngestFails(w) \/ Crash(w)
      \/ \E w \in Workers, s \in ScanId, saw \in SUBSET repo,
            health \in {"healthy", "suspect", "unknown"} : Push(w, s, saw, health)
      \/ \E f \in FindingId, state \in FindingState : Triage(f, state)
  BY DEF Environment, Dispatch, DispatchLost, MarkStale, Redeliver, EditRule, Toggle, Commit
<1>8. CASE UNCHANGED <<job, finding, latest, clones, outrun>>
  BY <1>2, <1>8
<1> QED BY <1>3, <1>4, <1>5, <1>6, <1>7, <1>8

\* ingest_findings: whatever the newest ingested checkout reported is on the
\* record and no scan has it cleared, through overlaps, crashes, retries,
\* redeliveries, degraded runs and triage, but for what the sweep of an older
\* checkout cleared under it.
THEOREM ReportedIsOnRecordHolds == Spec => []ReportedIsOnRecord
<1>1. Init => RecordInv
  <2> SUFFICES ASSUME Init PROVE RecordInv
    OBVIOUS
  <2>1. RunsInv
    BY RunsInvInit
  <2>2. CheckoutsInOrder
    BY DEF Init, CheckoutsInOrder, InOrder, IdleJob, Ingesting
  <2>3. AllAccounted
    BY DEF Init, AllAccounted, Accounted, IdleJob
  <2>4. ReportedIsOnRecord
    BY DEF Init, ReportedIsOnRecord
  <2> QED BY <2>1, <2>2, <2>3, <2>4 DEF RecordInv
<1>2. RecordInv /\ [Next]_vars => RecordInv'
  <2> SUFFICES ASSUME RecordInv, [Next]_vars PROVE RecordInv'
    OBVIOUS
  <2>1. RunsInv'
    BY RunsInvStep DEF RecordInv
  <2>2. CASE Environment
    BY <2>1, <2>2, EnvironmentRecord DEF RecordInv
  <2>3. ASSUME NEW w \in Workers, WorkerStep(w) PROVE RecordInv'
    BY <2>1, <2>3, RunRecord, LookRecord, StoreRecord, LaterRecord DEF RecordInv
  <2>4. CASE UNCHANGED vars
    <3>1. \A k : Rows(k)' = Rows(k)
      BY <2>4 DEF Rows, vars
    <3>2. CheckoutsInOrder'
      BY <2>4 DEF vars, RecordInv, CheckoutsInOrder, InOrder, Ingesting
    <3>3. AllAccounted' /\ ReportedIsOnRecord'
      BY <2>4, <3>1 DEF vars, RecordInv, AllAccounted, Accounted, ReportedIsOnRecord, Cleared
    <3> QED BY <2>1, <3>2, <3>3 DEF RecordInv
  <2> QED BY <2>2, <2>3, <2>4 DEF Next
<1>3. RecordInv => ReportedIsOnRecord
  BY DEF RecordInv
<1> QED BY <1>1, <1>2, <1>3, PTL DEF Spec

=============================================================================
