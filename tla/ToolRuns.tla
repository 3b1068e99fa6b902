------------------------------ MODULE ToolRuns ------------------------------
(***************************************************************************)
(* One tool over one checkout, and many of them at once                    *)
(* (scanners/runner.py, core/scan_health.py): the warm copy of the         *)
(* vulnerability database, the private cache each run links from it, the   *)
(* sweep of what killed workers left, and the evidence that decides        *)
(* whether an empty report may be believed.                                *)
(*                                                                         *)
(* A database file is an inode: several directories may link it.  Its      *)
(* version is the period it was published in; a later period is past the   *)
(* grace of its NextUpdate.                                                *)
(***************************************************************************)
EXTENDS Naturals, Sequences, FiniteSets

CONSTANTS
  Runs,       \* tool runs
  RunTools,   \* tools run
  Diffs,      \* changed-file lists, as sets of file kinds
  Checkout,   \* file kinds of the repository
  MaxPeriod,  \* bound on the time that passes
  MaxFiles,   \* bound on database files
  RunFaults   \* bound on failing downloads and file operations, kills, long runs

ASSUME ToolRunsAssumption ==
  /\ IsFiniteSet(Runs) /\ RunTools \subseteq {"trivy", "trivy-license", "gosec", "tfsec", "semgrep", "gitleaks"}
  /\ Diffs \subseteq SUBSET Checkout
  /\ {MaxPeriod, MaxFiles, RunFaults} \subseteq Nat

VARIABLES
  period,   \* the clock
  dbFile,   \* database files, by inode
  warmCopy, \* the published generation: inode and metadata
  locked,   \* how each run holds trivy-warm.lock
  run,      \* the runs
  kept,     \* history: a warm copy was published
  written,  \* history: a file of some warm copy was written through a link
  midway,   \* history: a worker died between the renames, or the rename back failed
  runFaults

runVars == <<period, dbFile, warmCopy, locked, run, kept, written, midway, runFaults>>

NoDb == [inode |-> 0, meta |-> 0]

\* ScanRunContext, with what a run has learned and (fact) what really happened.
NewRun == [pc |-> "idle", tool |-> "trivy", diff |-> Checkout, full |-> TRUE, staged |-> 0, old |-> NoDb,
           dir |-> NoDb, seeded |-> FALSE, print |-> <<>>, saw |-> <<>>, reasons |-> {}, aged |-> FALSE,
           fact |-> FALSE, verdict |-> "none"]

UsesDb(tool) == tool = "trivy"

Seeds(tool) == tool \in {"trivy", "trivy-license"}

\* Tools whose report is a file: an empty one is an empty report.
ReportsToFile(tool) == tool = "gitleaks"

Isolated(tool) == tool \in {"trivy", "trivy-license", "semgrep"}

\* trivy_db_state: a file of a plausible size, and metadata within its grace.
DbState(d) == d.inode # 0 /\ dbFile[d.inode].size = "full" /\ d.meta = period

\* _trivy_db_fingerprint.
Fingerprint(d) == IF d.inode = 0 THEN <<>> ELSE <<d.inode, dbFile[d.inode], d.meta>>

\* TOOL_EXTENSIONS, TOOL_SCOPING and the guards of a whole-repository run: the
\* files a tool is given, none of them meaning that it does not apply.
PathsFor(tool, changed, full) ==
  CASE tool \in {"trivy", "trivy-license"} -> IF full \/ "manifest" \in changed THEN Checkout ELSE {}
    [] tool = "gosec"                      -> changed \cap {"go"}
    [] tool = "tfsec"                      -> changed \cap {"terraform"}
    [] OTHER                               -> changed

RunFault == runFaults < RunFaults /\ runFaults' = runFaults + 1

To(r, pc) == run' = [run EXCEPT ![r].pc = pc]

NoLock(r) == \A s \in Runs \ {r} : locked[s] = "no"

Unlock(r) == locked' = [locked EXCEPT ![r] = "no"]

\* A scan reaches a tool; only trivy warms the database first.
BeginRun(r, tool, changed, full) ==
  /\ run[r].pc = "idle"
  /\ full => changed = Checkout
  /\ run' = [run EXCEPT ![r] = [NewRun EXCEPT !.pc = IF Seeds(tool) THEN "warm" ELSE "isolate",
                                              !.tool = tool, !.diff = changed, !.full = full]]
  /\ UNCHANGED <<period, dbFile, warmCopy, locked, kept, written, midway, runFaults>>

-----------------------------------------------------------------------------
(* ensure_warm_trivy_db, which never raises.                               *)

\* The first look, without the lock.
LookWarm(r) ==
  /\ run[r].pc = "warm"
  /\ To(r, IF DbState(warmCopy) THEN "isolate" ELSE "lock")
  /\ UNCHANGED <<period, dbFile, warmCopy, locked, kept, written, midway, runFaults>>

\* The second look, under it.
LockWarm(r) ==
  /\ run[r].pc = "lock" /\ NoLock(r)
  /\ IF DbState(warmCopy) THEN To(r, "isolate") /\ UNCHANGED locked
     ELSE To(r, "download") /\ locked' = [locked EXCEPT ![r] = "exclusive"]
  /\ UNCHANGED <<period, dbFile, warmCopy, kept, written, midway, runFaults>>

\* A warmer that cannot get the lock in time goes on without.
LockTimeout(r) ==
  /\ run[r].pc = "lock" /\ ~NoLock(r)
  /\ To(r, "isolate")
  /\ UNCHANGED <<period, dbFile, warmCopy, locked, kept, written, midway, runFaults>>

\* The download into the staging directory, checked before it is published.
Download(r) ==
  /\ run[r].pc = "download" /\ Len(dbFile) < MaxFiles
  /\ dbFile' = Append(dbFile, [size |-> "full", version |-> period])
  /\ run' = [run EXCEPT ![r] = [@ EXCEPT !.pc = "rotate", !.staged = Len(dbFile) + 1]]
  /\ UNCHANGED <<period, warmCopy, locked, kept, written, midway, runFaults>>

\* The download fails, times out, or brings something that is not usable.
DownloadFails(r) ==
  /\ RunFault
  /\ run[r].pc = "download"
  /\ To(r, "isolate") /\ Unlock(r)
  /\ UNCHANGED <<period, dbFile, warmCopy, kept, written, midway>>

\* The first rename, if there is anything to move aside.
Rotate(r) ==
  /\ run[r].pc = "rotate"
  /\ run' = [run EXCEPT ![r] = [@ EXCEPT !.pc = "publish", !.old = warmCopy]]
  /\ warmCopy' = NoDb
  /\ UNCHANGED <<period, dbFile, locked, kept, written, midway, runFaults>>

\* It fails: nothing was moved.
RotateFails(r) ==
  /\ RunFault
  /\ run[r].pc = "rotate"
  /\ run' = [run EXCEPT ![r] = [@ EXCEPT !.pc = "isolate", !.staged = 0]]
  /\ Unlock(r)
  /\ UNCHANGED <<period, dbFile, warmCopy, kept, written, midway>>

\* The second one.
Publish(r) ==
  /\ run[r].pc = "publish"
  /\ warmCopy' = [inode |-> run[r].staged, meta |-> dbFile[run[r].staged].version]
  /\ run' = [run EXCEPT ![r] = [@ EXCEPT !.pc = "isolate", !.staged = 0, !.old = NoDb]]
  /\ Unlock(r) /\ kept' = TRUE
  /\ UNCHANGED <<period, dbFile, written, midway, runFaults>>

\* Mutant: no rollback.
PublishFailsBare(r) ==
  /\ RunFault
  /\ run[r].pc = "publish"
  /\ run' = [run EXCEPT ![r] = [@ EXCEPT !.pc = "isolate", !.staged = 0, !.old = NoDb]]
  /\ Unlock(r)
  /\ UNCHANGED <<period, dbFile, warmCopy, kept, written, midway>>

\* It fails: the copy that was moved aside, if any, is put back.
PublishFails(r) ==
  /\ RunFault
  /\ run[r].pc = "publish"
  /\ warmCopy' = run[r].old
  /\ run' = [run EXCEPT ![r] = [@ EXCEPT !.pc = "isolate", !.staged = 0, !.old = NoDb]]
  /\ Unlock(r)
  /\ UNCHANGED <<period, dbFile, kept, written, midway>>

\* The rename back fails as well, and what was moved aside is removed.
RollbackFails(r) ==
  /\ RunFault
  /\ run[r].pc = "publish" /\ run[r].old # NoDb
  /\ run' = [run EXCEPT ![r] = [@ EXCEPT !.pc = "isolate", !.staged = 0, !.old = NoDb]]
  /\ Unlock(r)
  /\ midway' = TRUE
  /\ UNCHANGED <<period, dbFile, warmCopy, kept, written>>

-----------------------------------------------------------------------------
(* _isolated_run.                                                          *)

\* sweep_stale_run_caches: what is too old goes, whoever may still use it.
Swept(s) == IF run[s].aged THEN [run[s] EXCEPT !.dir = NoDb] ELSE run[s]

\* The sweep, then a private directory; a warm copy is linked into it.
Isolate(r) ==
  /\ run[r].pc = "isolate"
  /\ run' = [[s \in Runs |-> IF Isolated(run[r].tool) THEN Swept(s) ELSE run[s]] EXCEPT
               ![r] = [run[r] EXCEPT !.pc = IF Seeds(run[r].tool) /\ warmCopy # NoDb THEN "seed" ELSE "tool"]]
  /\ UNCHANGED <<period, dbFile, warmCopy, locked, kept, written, midway, runFaults>>

\* The scheduled sweep.
SweepCaches ==
  /\ run' = [s \in Runs |-> Swept(s)]
  /\ UNCHANGED <<period, dbFile, warmCopy, locked, kept, written, midway, runFaults>>

\* Without one the run shares the user's cache, and says so.
IsolateFails(r) ==
  /\ RunFault
  /\ run[r].pc = "isolate" /\ Isolated(run[r].tool)
  /\ run' = [run EXCEPT ![r] = [@ EXCEPT !.pc = "tool", !.reasons = run[r].reasons \cup {"shared"}]]
  /\ UNCHANGED <<period, dbFile, warmCopy, locked, kept, written, midway>>

\* Mutant: the seeder does not wait for the warmer.
LinkUnlocked(r) ==
  /\ run[r].pc = "seed"
  /\ run' = [run EXCEPT ![r] = IF warmCopy = NoDb THEN [@ EXCEPT !.pc = "tool"]
                               ELSE [@ EXCEPT !.pc = "copy", !.dir.inode = warmCopy.inode]]
  /\ UNCHANGED <<period, dbFile, warmCopy, locked, kept, written, midway, runFaults>>

\* _seed_trivy_cache: the database is linked under the shared lock ...
Link(r) ==
  /\ run[r].pc = "seed" /\ \A s \in Runs : locked[s] # "exclusive"
  /\ IF warmCopy = NoDb THEN To(r, "tool") /\ UNCHANGED locked
     ELSE /\ locked' = [locked EXCEPT ![r] = "shared"]
          /\ run' = [run EXCEPT ![r] = [@ EXCEPT !.pc = "copy", !.dir.inode = warmCopy.inode]]
  /\ UNCHANGED <<period, dbFile, warmCopy, kept, written, midway, runFaults>>

\* ... its metadata is copied, and the result judged; what is not usable stays.
CopyMetadata(r) ==
  /\ run[r].pc = "copy"
  /\ LET d == [run[r].dir EXCEPT !.meta = warmCopy.meta]
     IN  run' = [run EXCEPT ![r] = [@ EXCEPT !.pc = "tool", !.dir = d, !.seeded = DbState(d),
                                            !.print = Fingerprint(d)]]
  /\ Unlock(r)
  /\ UNCHANGED <<period, dbFile, warmCopy, kept, written, midway, runFaults>>

SeedTimeout(r) ==
  /\ run[r].pc = "seed" /\ \E s \in Runs : locked[s] = "exclusive"
  /\ To(r, "tool")
  /\ UNCHANGED <<period, dbFile, warmCopy, locked, kept, written, midway, runFaults>>

-----------------------------------------------------------------------------
(* The tool.                                                               *)

\* ToolNotApplicable: nothing to look at.
NotApplicable(r) ==
  /\ run[r].pc = "tool" /\ PathsFor(run[r].tool, run[r].diff, run[r].full) = {}
  /\ run' = [run EXCEPT ![r] = [@ EXCEPT !.pc = "done", !.verdict = "skipped", !.dir = NoDb]]
  /\ UNCHANGED <<period, dbFile, warmCopy, locked, kept, written, midway, runFaults>>

\* Trivy without --skip-db-update brings its database up to date, in place if
\* it has one, as the comment at runner.py 1040-1044 says it does.
UpdateDb(r) ==
  /\ run[r].pc = "tool" /\ UsesDb(run[r].tool) /\ ~run[r].seeded
  /\ PathsFor(run[r].tool, run[r].diff, run[r].full) # {}
  /\ run[r].dir.inode # 0 \/ Len(dbFile) < MaxFiles
  /\ LET i == IF run[r].dir.inode # 0 THEN run[r].dir.inode ELSE Len(dbFile) + 1
     IN  /\ dbFile' = IF i > Len(dbFile) THEN Append(dbFile, [size |-> "part", version |-> period])
                      ELSE [dbFile EXCEPT ![i] = [size |-> "part", version |-> period]]
         /\ run' = [run EXCEPT ![r] = [@ EXCEPT !.pc = "updating", !.dir.inode = i]]
         /\ written' = (written \/ run[r].dir.inode # 0)
  /\ UNCHANGED <<period, warmCopy, locked, kept, midway, runFaults>>

UpdatedDb(r) ==
  /\ run[r].pc = "updating"
  /\ IF run[r].dir.inode = 0 THEN UNCHANGED dbFile
     ELSE dbFile' = [dbFile EXCEPT ![run[r].dir.inode] = [size |-> "full", version |-> period]]
  /\ run' = [run EXCEPT ![r] = [@ EXCEPT !.pc = "scan", !.dir.meta = period,
                                  !.saw = <<run[r].dir.inode, [size |-> "full", version |-> period]>>]]
  /\ UNCHANGED <<period, warmCopy, locked, kept, written, midway, runFaults>>

\* Every other run starts reading at once.
StartTool(r) ==
  /\ run[r].pc = "tool" /\ PathsFor(run[r].tool, run[r].diff, run[r].full) # {}
  /\ UsesDb(run[r].tool) => run[r].seeded
  /\ run' = [run EXCEPT ![r] =
               [@ EXCEPT !.pc = "scan",
                         !.saw = IF ~UsesDb(run[r].tool) THEN <<>>
                                 ELSE <<run[r].dir.inode, dbFile[run[r].dir.inode]>>]]
  /\ UNCHANGED <<period, dbFile, warmCopy, locked, kept, written, midway, runFaults>>

\* Mutant: a report is taken for what it says.
DbReasonsNone(r) == {}

\* _assess_trivy_run on the private database.
DbReasons(r) ==
  IF ~UsesDb(run[r].tool) \/ "shared" \in run[r].reasons THEN {}
  ELSE IF ~DbState(run[r].dir) THEN {"unusable"}
  ELSE IF run[r].print # <<>> /\ Fingerprint(run[r].dir) # run[r].print THEN {"changed"}
  ELSE {}

\* What a tool that did not do its work shows for it: a complaint on stderr, no
\* report, one that is not JSON, one that resolved nothing, a bad exit code.
Complaints == {"stderr", "silent", "garbage", "unresolved", "exit"}

\* _note_stderr, the two fallbacks of _execute, and the lockfile check.
Degrades(tool, complaints) == complaints \ (IF ReportsToFile(tool) THEN {"silent"} ELSE {})

\* ScanHealth: any reason makes a run suspect.
Health(reasons) == IF reasons = {} THEN "healthy" ELSE "suspect"

\* _execute ends; the private directory is removed.
EndTool(r, complaints) ==
  /\ run[r].pc = "scan"
  /\ "unresolved" \in complaints => UsesDb(run[r].tool)
  /\ LET why == run[r].reasons \cup Degrades(run[r].tool, complaints) \cup DbReasons(r)
         read == IF run[r].saw = <<>> THEN ~UsesDb(run[r].tool)
                 ELSE /\ dbFile[run[r].saw[1]] = run[r].saw[2]
                      /\ run[r].saw[2] = [size |-> "full", version |-> period]
     IN  run' = [run EXCEPT ![r] =
                   [@ EXCEPT !.pc = "done", !.dir = NoDb, !.saw = <<>>, !.print = <<>>, !.reasons = why,
                             !.fact = read /\ (complaints = {} \/ ReportsToFile(run[r].tool)),
                             !.verdict = IF \/ "exit" \in complaints
                                            \/ ReportsToFile(run[r].tool) /\ "garbage" \in complaints
                                         THEN "failed" ELSE Health(why)]]
  /\ UNCHANGED <<period, dbFile, warmCopy, locked, kept, written, midway, runFaults>>

\* The worker is killed: the lock goes with it, its directories stay.
KillRun(r) ==
  /\ RunFault
  /\ run[r].pc \notin {"idle", "done"}
  /\ run' = [run EXCEPT ![r] = [NewRun EXCEPT !.pc = "done"]]
  /\ Unlock(r)
  /\ midway' = (midway \/ run[r].pc = "publish")
  /\ UNCHANGED <<period, dbFile, warmCopy, kept, written>>

\* A run older than RUN_CACHE_MAX_AGE_SECONDS: nothing bounds a tool's time.
GrowOld(r) ==
  /\ RunFault
  /\ run[r].pc = "scan" /\ ~run[r].aged
  /\ run' = [run EXCEPT ![r].aged = TRUE]
  /\ UNCHANGED <<period, dbFile, warmCopy, locked, kept, written, midway>>

\* Time passes: every database is past its grace.
PeriodPasses ==
  /\ period < MaxPeriod
  /\ period' = period + 1
  /\ UNCHANGED <<dbFile, warmCopy, locked, run, kept, written, midway, runFaults>>

RunsInit ==
  /\ period = 1
  /\ \/ dbFile = <<>> /\ warmCopy = NoDb /\ kept = FALSE
     \/ dbFile = <<[size |-> "full", version |-> 1]>> /\ warmCopy = [inode |-> 1, meta |-> 1]
        /\ kept = TRUE
  /\ locked = [r \in Runs |-> "no"]
  /\ run = [r \in Runs |-> NewRun]
  /\ written = FALSE /\ midway = FALSE /\ runFaults = 0

Warming(r) ==
  \/ LookWarm(r)
  \/ LockWarm(r)
  \/ LockTimeout(r)
  \/ Download(r)
  \/ DownloadFails(r)
  \/ Rotate(r)
  \/ RotateFails(r)
  \/ Publish(r)
  \/ PublishFails(r)
  \/ RollbackFails(r)

Running(r) ==
  \/ Isolate(r)
  \/ IsolateFails(r)
  \/ Link(r)
  \/ CopyMetadata(r)
  \/ SeedTimeout(r)
  \/ NotApplicable(r)
  \/ UpdateDb(r)
  \/ UpdatedDb(r)
  \/ StartTool(r)
  \/ \E complaints \in {{}} \cup {{c} : c \in Complaints} : EndTool(r, complaints)

RunsNext ==
  \/ \E r \in Runs :
       \/ \E tool \in RunTools, changed \in Diffs \cup {Checkout}, full \in BOOLEAN : BeginRun(r, tool, changed, full)
       \/ Warming(r)
       \/ Running(r)
       \/ KillRun(r)
       \/ GrowOld(r)
  \/ SweepCaches
  \/ PeriodPasses

RunsSpec == RunsInit /\ [][RunsNext]_runVars

-----------------------------------------------------------------------------
(* A run that is called healthy, and whose empty report may therefore close
   findings, read a complete database within its grace that nobody changed
   while it was read, was given something to look at, and showed no sign of
   unfinished work, unless it outlived the sweep's limit (issue 229; scanners/runner.py 1715-1747, 1993-2039). *)
HealthyMeansChecked ==
  \A r \in Runs : (run[r].verdict = "healthy" /\ ~run[r].aged) =>
    run[r].fact /\ PathsFor(run[r].tool, run[r].diff, run[r].full) # {}

(* A run that links the warm copy gets the metadata of the very file it linked:
   a warmer never replaces the directory half-way through
   (scanners/runner.py 1235-1275, 1579-1590). *)
SeededWhole ==
  \A r \in Runs : (run[r].seeded /\ run[r].dir.inode # 0 /\ ~written) =>
    run[r].dir.meta = dbFile[run[r].dir.inode].version

(* Once published, a warm copy is only ever missing while it is being replaced:
   a rename that fails leaves it in place or puts it back.  Two histories lose
   it: a worker that dies between the two renames, and a rename back that fails
   too, after which the copy moved aside is removed (scanners/runner.py
   1509-1527, 1541-1542). *)
WarmCopyKept ==
  (kept /\ ~midway /\ \A r \in Runs : run[r].pc # "publish") => warmCopy # NoDb
=============================================================================
