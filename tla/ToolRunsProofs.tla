--------------------------- MODULE ToolRunsProofs ---------------------------
(***************************************************************************)
(* What holds of ToolRuns for every number of runs, periods, files and     *)
(* faults: the lock protects the warm copy and what is linked from it, and *)
(* a healthy verdict rests on a database that was whole while it was read. *)
(***************************************************************************)
EXTENDS ToolRuns, TLAPS

File == [size : {"full", "part"}, version : Nat]

Db == [inode : Nat, meta : Nat]

RunRec ==
  [pc : {"idle", "warm", "lock", "download", "rotate", "publish", "isolate", "seed", "copy",
         "tool", "updating", "scan", "done"},
   tool : RunTools \cup {"trivy"}, diff : SUBSET Checkout, full : BOOLEAN, staged : Nat, old : Db, dir : Db,
   seeded : BOOLEAN, print : {<<>>} \cup (Nat \X File \X Nat), saw : {<<>>} \cup (Nat \X File),
   reasons : SUBSET (Complaints \cup {"shared", "unusable", "changed"}), aged : BOOLEAN, fact : BOOLEAN,
   verdict : {"none", "skipped", "failed", "healthy", "suspect"}]

ToolTypes ==
  /\ period \in Nat
  /\ dbFile \in Seq(File)
  /\ warmCopy \in Db
  /\ locked \in [Runs -> {"no", "shared", "exclusive"}]
  /\ run \in [Runs -> RunRec]
  /\ kept \in BOOLEAN /\ written \in BOOLEAN /\ midway \in BOOLEAN
  /\ runFaults \in Nat

-----------------------------------------------------------------------------
(* The lock.                                                               *)

\* A run that is replacing the warm copy.
Warmer(j) == j.pc \in {"download", "rotate", "publish"}

\* A warmer holds trivy-warm.lock alone, a seeder shares it while it links, and
\* nobody else has it.
LockHeld ==
  /\ \A r \in Runs : locked[r] = "exclusive" <=> Warmer(run[r])
  /\ \A r \in Runs : locked[r] = "shared" <=> run[r].pc = "copy"
  /\ \A r \in Runs : locked[r] = "exclusive" => NoLock(r)

\* What is staged or moved aside belongs to the publication under way.
Publishing ==
  \A r \in Runs :
    /\ run[r].pc \in {"rotate", "publish"} => run[r].staged # 0
    /\ run[r].pc \notin {"rotate", "publish"} => run[r].staged = 0
    /\ run[r].pc # "publish" => run[r].old = NoDb
    /\ run[r].pc = "publish" => warmCopy = NoDb

\* A published copy is there, or moved aside by the one that replaces it.
CopyKept ==
  kept /\ ~midway =>
    \/ warmCopy # NoDb
    \/ \E r \in Runs : run[r].pc = "publish" /\ run[r].old # NoDb

LockInv == ToolTypes /\ LockHeld /\ Publishing /\ CopyKept

-----------------------------------------------------------------------------
(* The database files.                                                     *)

\* What a run linked, as its fingerprint remembers it.
LinkOf(j) == [inode |-> j.print[1], meta |-> j.print[3]]

\* The generations somebody still knows: the published one, those moved aside
\* and those that were linked.
Known ==
  {warmCopy} \cup {run[r].old : r \in Runs} \cup
  {LinkOf(run[r]) : r \in {s \in Runs : run[s].print # <<>>}}

\* A generation's file is as old as its metadata and then complete, or newer
\* because some run has written it in place.
Whole(d) ==
  /\ d.inode \in 1..Len(dbFile)
  /\ d.meta <= dbFile[d.inode].version
  /\ dbFile[d.inode].version = d.meta => dbFile[d.inode].size = "full"
  /\ ~written => dbFile[d.inode].version = d.meta

Generations ==
  /\ \A i \in 1..Len(dbFile) : dbFile[i].version <= period
  /\ \A d \in Known : d.inode # 0 => Whole(d)
  /\ \A d, e \in Known : d.inode # 0 /\ d.inode = e.inode => d.meta = e.meta
  /\ \A d \in Known : d.inode = 0 => d = NoDb

\* Nobody else knows this file.
Unshared(r, i) ==
  /\ i \in 1..Len(dbFile)
  /\ \A d \in Known : d.inode # i
  /\ \A s \in Runs \ {r} : run[s].dir.inode # i /\ run[s].staged # i

\* A staged file is complete and no one's yet.
StagedApart ==
  \A r \in Runs : run[r].staged # 0 =>
    /\ Unshared(r, run[r].staged) /\ run[r].dir.inode = 0
    /\ dbFile[run[r].staged].size = "full"

\* The private directory holds nothing, or exactly what was linked into it.
Empty(j) == j.dir = NoDb /\ j.print = <<>> /\ ~j.seeded

Linked(j) ==
  /\ j.dir.inode # 0 /\ j.print # <<>> /\ LinkOf(j) = j.dir
  /\ ~j.seeded => j.dir.meta < period

\* The file a run brought up to date itself: a linked one that has changed
\* since, or one of its own.
Refreshed(r) ==
  LET j == run[r]
  IN  /\ j.dir.inode # 0 /\ ~j.seeded
      /\ j.print # <<>> => written /\ j.print[1] = j.dir.inode /\ j.print[3] < period
      /\ j.print = <<>> => Unshared(r, j.dir.inode)

\* What a run that reads the database has read of it.
Read(r) ==
  LET j == run[r]
  IN  \/ /\ j.seeded /\ Linked(j)
         /\ j.saw # <<>> /\ j.saw[1] = j.dir.inode
         /\ j.dir.meta <= j.saw[2].version /\ j.saw[2].version <= period
         /\ j.saw[2].version = j.dir.meta => j.saw[2].size = "full"
      \/ /\ Refreshed(r)
         /\ j.saw = <<j.dir.inode, [size |-> "full", version |-> j.dir.meta]>>
         /\ j.print # <<>> => j.print[3] < j.dir.meta
         /\ j.print = <<>> => dbFile[j.dir.inode] = j.saw[2]

\* The private directory of a run, by what the run is doing.
Directory(r) ==
  LET j == run[r]
  IN  /\ j.pc \in {"idle", "warm", "lock", "download", "rotate", "publish", "isolate", "seed"} =>
           Empty(j) /\ ~j.aged
      /\ j.pc = "copy" =>
           /\ j.dir.inode = warmCopy.inode /\ j.dir.inode # 0
           /\ j.print = <<>> /\ ~j.seeded /\ ~j.aged
      /\ j.pc = "tool" => (Empty(j) \/ Linked(j)) /\ ~j.aged
      /\ j.pc = "updating" =>
           /\ Refreshed(r) /\ UsesDb(j.tool) /\ ~j.aged
           /\ j.print # <<>> => j.print[3] = j.dir.meta
      /\ j.pc = "scan" =>
           \/ j.dir = NoDb /\ j.aged
           \/ UsesDb(j.tool) /\ Read(r)
           \/ ~UsesDb(j.tool) /\ (Empty(j) \/ Linked(j))
      /\ j.pc = "scan" /\ ~UsesDb(j.tool) => j.saw = <<>>
      /\ j.pc = "done" => j.dir = NoDb

Directories == \A r \in Runs : Directory(r)

\* What the verdict says of a run.
Judgement(j) ==
  /\ j.pc \in {"updating", "scan"} => PathsFor(j.tool, j.diff, j.full) # {}
  /\ j.pc # "done" => j.verdict = "none"
  /\ j.verdict = "healthy" /\ ~j.aged => j.fact /\ PathsFor(j.tool, j.diff, j.full) # {}

Judged == \A r \in Runs : Judgement(run[r])

ToolInv == LockInv /\ Generations /\ StagedApart /\ Directories /\ Judged

-----------------------------------------------------------------------------
(* Lemmas.                                                                 *)

\* A new run is a run, with an empty directory.
LEMMA NewRunType ==
  /\ NewRun \in RunRec
  /\ NewRun.pc = "idle" /\ NewRun.staged = 0 /\ NewRun.old = NoDb
  /\ Empty(NewRun) /\ ~NewRun.aged /\ NewRun.print = <<>> /\ NewRun.dir = NoDb
  /\ NewRun.saw = <<>> /\ NewRun.verdict = "none"
<1>1. NoDb \in Db
  BY DEF NoDb, Db
<1>2. NewRun \in RunRec
  <2>1. TRUE \in BOOLEAN /\ FALSE \in BOOLEAN
    OBVIOUS
  <2>2. <<>> \in {<<>>} \cup (Nat \X File \X Nat) /\ <<>> \in {<<>>} \cup (Nat \X File)
    OBVIOUS
  <2>3. /\ "trivy" \in RunTools \cup {"trivy"} /\ Checkout \in SUBSET Checkout /\ 0 \in Nat
        /\ {} \in SUBSET (Complaints \cup {"shared", "unusable", "changed"})
    OBVIOUS
  <2> QED BY <1>1, <2>1, <2>2, <2>3, Zenon DEF NewRun, RunRec
<1>3. /\ NewRun.pc = "idle" /\ NewRun.staged = 0 /\ NewRun.old = NoDb
      /\ NewRun.print = <<>> /\ NewRun.dir = NoDb /\ NewRun.saw = <<>>
      /\ NewRun.verdict = "none"
  BY DEF NewRun
<1>4. ~NewRun.seeded /\ ~NewRun.aged
  BY Zenon DEF NewRun
<1> QED BY <1>2, <1>3, <1>4 DEF Empty

\* What nobody else knew stays unknown when no generation and no directory
\* comes to know it.
LEMMA UnsharedKept ==
  ASSUME NEW r \in Runs, NEW i, Unshared(r, i), dbFile' = dbFile,
         \A d \in Known' : d \in Known \/ d = NoDb,
         \A s \in Runs \ {r} : /\ run'[s].dir.inode \in {0, run[s].dir.inode, warmCopy.inode}
                               /\ run'[s].staged \in {0, run[s].staged}
  PROVE  Unshared(r, i)'
<1>1. i # 0 /\ i \in 1..Len(dbFile)'
  BY DEF Unshared
<1>2. warmCopy.inode # i
  BY DEF Unshared, Known
<1>3. \A d \in Known' : d.inode # i
  BY <1>1 DEF Unshared, NoDb
<1>4. \A s \in Runs \ {r} : run'[s].dir.inode # i /\ run'[s].staged # i
  BY <1>1, <1>2 DEF Unshared
<1> QED BY <1>1, <1>3, <1>4 DEF Unshared

\* Generations that are only forgotten stay what they were.
LEMMA GenerationsKept ==
  ASSUME Generations, UNCHANGED <<period, dbFile, written>>,
         \A d \in Known' : d \in Known \/ d = NoDb
  PROVE  Generations'
<1>1. NoDb.inode = 0
  BY DEF NoDb
<1>2. \A d : Whole(d)' <=> Whole(d)
  BY DEF Whole
<1>3. \A d \in Known' : d.inode # 0 => d \in Known
  BY <1>1
<1>4. \A d \in Known' : d.inode # 0 => Whole(d)'
  BY <1>2, <1>3 DEF Generations
<1>5. \A d, e \in Known' : d.inode # 0 /\ d.inode = e.inode => d.meta = e.meta
  BY <1>3 DEF Generations
<1>6. \A d \in Known' : d.inode = 0 => d = NoDb
  BY DEF Generations
<1>7. \A i \in 1..Len(dbFile') : dbFile'[i].version <= period'
  BY DEF Generations
<1> QED BY <1>4, <1>5, <1>6, <1>7 DEF Generations

\* A run that does not move keeps its directory, as long as nobody writes the
\* file only it knows and, while it links, nobody replaces the warm copy.
LEMMA DirectoryKept ==
  ASSUME NEW s \in Runs, Directory(s), run[s] \in RunRec, run'[s] = run[s],
         period \in Nat, period' \in Nat, period <= period', written => written',
         run[s].pc = "copy" => warmCopy' = warmCopy,
         \A i : Unshared(s, i) => Unshared(s, i)' /\ dbFile'[i] = dbFile[i]
  PROVE  Directory(s)'
<1> DEFINE j == run[s]
<1>1. j.dir.meta \in Nat
  BY DEF RunRec, Db
<1>2. j.print # <<>> => j.print[3] \in Nat
  BY DEF RunRec
<1>3. j.saw # <<>> => j.saw[2].version \in Nat
  BY DEF RunRec, File
<1>4. Refreshed(s) => Refreshed(s)'
  BY <1>2 DEF Refreshed
<1>5. Linked(run[s]) => Linked(run[s])'
  BY <1>1 DEF Linked, LinkOf
<1>6. Read(s) => Read(s)'
  <2>1. CASE j.seeded /\ Linked(j) /\ Read(s)
    <3>1. /\ j.saw # <<>> /\ j.saw[1] = j.dir.inode
          /\ j.dir.meta <= j.saw[2].version /\ j.saw[2].version <= period
          /\ j.saw[2].version = j.dir.meta => j.saw[2].size = "full"
      BY <2>1 DEF Read, Refreshed
    <3>2. j.saw[2].version <= period'
      BY <3>1, <1>3
    <3> QED BY <2>1, <3>1, <3>2, <1>5 DEF Read
  <2>2. CASE Refreshed(s) /\ Read(s)
    <3>1. /\ j.saw = <<j.dir.inode, [size |-> "full", version |-> j.dir.meta]>>
          /\ j.print # <<>> => j.print[3] < j.dir.meta
          /\ j.print = <<>> => dbFile[j.dir.inode] = j.saw[2]
      BY <2>2 DEF Read, Refreshed
    <3>2. j.print = <<>> => dbFile'[j.dir.inode] = j.saw[2]
      BY <2>2, <3>1 DEF Refreshed
    <3> QED BY <2>2, <3>1, <3>2, <1>4 DEF Read
  <2> QED BY <2>1, <2>2 DEF Read
<1>7. Empty(run[s]) => Empty(run[s])'
  BY DEF Empty
<1> QED BY <1>4, <1>5, <1>6, <1>7 DEF Directory

\* One run moves and comes to know nothing but the published generation.
LEMMA OneMoves ==
  ASSUME ToolInv, NEW r \in Runs, NEW j \in RunRec,
         run' = [run EXCEPT ![r] = j],
         UNCHANGED <<period, dbFile, warmCopy, written>>,
         j.old = NoDb \/ j.old = run[r].old,
         j.print = <<>> \/ LinkOf(j) \in Known,
         j.dir.inode \in {0, run[r].dir.inode, warmCopy.inode},
         j.staged = 0 \/ (j.staged = run[r].staged /\ j.dir = run[r].dir)
  PROVE  /\ run' \in [Runs -> RunRec]
         /\ run'[r] = j /\ \A s \in Runs \ {r} : run'[s] = run[s]
         /\ Generations' /\ StagedApart'
         /\ \A s \in Runs \ {r} : Directory(s)'
         /\ \A i : Unshared(r, i) => Unshared(r, i)'
<1> USE DEF ToolInv
<1>1. run \in [Runs -> RunRec]
  BY DEF LockInv, ToolTypes
<1>2. run'[r] = j /\ \A s \in Runs \ {r} : run'[s] = run[s]
  BY <1>1
<1>3. \A d \in Known' : d \in Known \/ d = NoDb
  <2> SUFFICES ASSUME NEW d \in Known' PROVE d \in Known \/ d = NoDb
    OBVIOUS
  <2>1. CASE d = warmCopy'
    BY <2>1 DEF Known
  <2>2. ASSUME NEW s \in Runs, d = run'[s].old PROVE d \in Known \/ d = NoDb
    <3>1. CASE s = r
      BY <2>2, <3>1, <1>2 DEF Known
    <3>2. CASE s # r
      BY <2>2, <3>2, <1>2 DEF Known
    <3> QED BY <3>1, <3>2
  <2>3. ASSUME NEW s \in Runs, run'[s].print # <<>>, d = LinkOf(run'[s])
        PROVE  d \in Known \/ d = NoDb
    <3>1. CASE s = r
      BY <2>3, <3>1, <1>2
    <3>2. CASE s # r
      BY <2>3, <3>2, <1>2 DEF Known
    <3> QED BY <3>1, <3>2
  <2> QED BY <2>1, <2>2, <2>3 DEF Known
<1>4. Generations'
  BY <1>3, GenerationsKept
<1>5. \A s \in Runs : /\ run'[s].dir.inode \in {0, run[s].dir.inode, warmCopy.inode}
                      /\ run'[s].staged \in {0, run[s].staged}
  BY <1>2
<1>6. ASSUME NEW s \in Runs, NEW i, Unshared(s, i) PROVE Unshared(s, i)'
  BY <1>3, <1>5, <1>6, UnsharedKept
<1>7. ASSUME NEW s \in Runs \ {r} PROVE Directory(s)'
  <2>1. Directory(s) /\ run[s] \in RunRec /\ period \in Nat /\ period <= period
    BY <1>1 DEF Directories, LockInv, ToolTypes
  <2> QED BY <1>2, <1>6, <2>1, DirectoryKept
<1>8. StagedApart'
  <2> SUFFICES ASSUME NEW s \in Runs, run'[s].staged # 0
      PROVE  /\ Unshared(s, run[s].staged)' /\ run'[s].dir.inode = 0
             /\ dbFile'[run'[s].staged].size = "full"
    BY DEF StagedApart
  <2>1. run'[s].staged = run[s].staged /\ run'[s].dir = run[s].dir
    BY <1>2
  <2>2. Unshared(s, run[s].staged) /\ run[s].dir.inode = 0 /\ dbFile[run[s].staged].size = "full"
    BY <2>1 DEF StagedApart
  <2>3. \A i : i = run[s].staged => Unshared(s, i)'
    BY <2>2, <1>6
  <2>4. Unshared(s, run[s].staged)'
    BY <2>1, <2>3 DEF Unshared
  <2> QED BY <2>1, <2>2, <2>4
<1>9. run' \in [Runs -> RunRec]
  BY <1>1
<1> QED BY <1>2, <1>4, <1>6, <1>7, <1>8, <1>9

\* A run that moves on, or gives the lock back.
LEMMA Released ==
  ASSUME ToolInv, NEW r \in Runs, NEW j \in RunRec,
         run' = [run EXCEPT ![r] = j], locked' = [locked EXCEPT ![r] = "no"],
         UNCHANGED <<period, dbFile, warmCopy, kept, written>>,
         midway' \in BOOLEAN, midway => midway', run[r].pc = "publish" => midway',
         runFaults' \in Nat,
         j.pc \notin {"download", "rotate", "publish", "copy"}, j.staged = 0, j.old = NoDb,
         j.print = <<>> \/ LinkOf(j) \in Known,
         j.dir.inode \in {0, run[r].dir.inode, warmCopy.inode},
         Directory(r)', Judgement(j)
  PROVE  ToolInv'
<1>1. ToolTypes /\ LockHeld /\ Publishing /\ CopyKept
  BY DEF ToolInv, LockInv
<1>2. /\ run' \in [Runs -> RunRec]
      /\ run'[r] = j /\ \A s \in Runs \ {r} : run'[s] = run[s]
      /\ Generations' /\ StagedApart'
      /\ \A s \in Runs \ {r} : Directory(s)'
  BY OneMoves
<1>3. locked'[r] = "no" /\ \A s \in Runs \ {r} : locked'[s] = locked[s]
  BY <1>1 DEF ToolTypes
<1>4. ToolTypes'
  BY <1>1, <1>2 DEF ToolTypes
<1>5. LockHeld'
  <2>1. \A s \in Runs : locked'[s] = "exclusive" <=> Warmer(run'[s])
    BY <1>1, <1>2, <1>3 DEF LockHeld, Warmer
  <2>2. \A s \in Runs : locked'[s] = "shared" <=> run'[s].pc = "copy"
    BY <1>1, <1>2, <1>3 DEF LockHeld
  <2>3. \A s \in Runs : locked'[s] = "exclusive" => NoLock(s)'
    BY <1>1, <1>3 DEF LockHeld, NoLock
  <2> QED BY <2>1, <2>2, <2>3 DEF LockHeld
<1>6. Publishing'
  BY <1>1, <1>2 DEF Publishing, NoDb
<1>7. CopyKept'
  <2> SUFFICES ASSUME kept, ~midway'
      PROVE \/ warmCopy # NoDb
            \/ \E s \in Runs : run'[s].pc = "publish" /\ run'[s].old # NoDb
    BY DEF CopyKept, NoDb
  <2>1. run[r].pc # "publish" /\ ~midway
    OBVIOUS
  <2>2. CASE warmCopy # NoDb
    BY <2>2
  <2>3. CASE \E s \in Runs : run[s].pc = "publish" /\ run[s].old # NoDb
    BY <2>1, <2>3, <1>2
  <2> QED BY <1>1, <2>1, <2>2, <2>3 DEF CopyKept
<1>8. Directories'
  BY <1>2 DEF Directories
<1>9. Judged'
  BY <1>2 DEF Judged, ToolInv
<1> QED BY <1>2, <1>4, <1>5, <1>6, <1>7, <1>8, <1>9 DEF ToolInv, LockInv

\* A run that neither holds the lock nor takes it.
LEMMA Moved ==
  ASSUME ToolInv, NEW r \in Runs, NEW j \in RunRec,
         run' = [run EXCEPT ![r] = j],
         UNCHANGED <<period, dbFile, warmCopy, locked, kept, written, midway>>,
         runFaults' \in Nat,
         run[r].pc \notin {"download", "rotate", "publish", "copy"},
         j.pc \notin {"download", "rotate", "publish", "copy"},
         j.staged = run[r].staged, j.old = run[r].old,
         j.print = <<>> \/ LinkOf(j) \in Known,
         j.dir.inode \in {0, run[r].dir.inode, warmCopy.inode},
         Directory(r)', Judgement(j)
  PROVE  ToolInv'
<1>1. ToolTypes /\ LockHeld /\ Publishing
  BY DEF ToolInv, LockInv
<1>2. locked[r] = "no"
  BY <1>1 DEF LockHeld, ToolTypes, Warmer
<1>3. locked' = [locked EXCEPT ![r] = "no"]
  BY <1>1, <1>2 DEF ToolTypes
<1>4. run[r].staged = 0 /\ run[r].old = NoDb
  BY <1>1 DEF Publishing
<1>5. midway' \in BOOLEAN
  BY <1>1 DEF ToolTypes
<1>6. (midway => midway') /\ (run[r].pc = "publish" => midway')
  OBVIOUS
<1> QED BY <1>3, <1>4, <1>5, <1>6, Released

-----------------------------------------------------------------------------
(* The steps of one run outside the publication.                           *)

\* What a run linked is a known generation.
LEMMA LinkIsKnown ==
  ASSUME NEW r \in Runs
  PROVE  run[r].print = <<>> \/ LinkOf(run[r]) \in Known
BY DEF Known

\* Looking, waiting and going on without: the directory is still empty.
LEMMA PcOnly ==
  ASSUME ToolInv, NEW r \in Runs, NEW to \in {"lock", "isolate", "tool"}, To(r, to),
         run[r].pc \in {"warm", "lock", "seed"},
         UNCHANGED <<period, dbFile, warmCopy, locked, kept, written, midway, runFaults>>
  PROVE  ToolInv'
<1> DEFINE j == [run[r] EXCEPT !.pc = to]
<1>1. ToolTypes /\ run[r] \in RunRec /\ Directory(r) /\ Judgement(run[r])
  BY DEF ToolInv, LockInv, ToolTypes, Directories, Judged
<1>2. run' = [run EXCEPT ![r] = j]
  BY <1>1 DEF To, ToolTypes
<1>3. j \in RunRec
  BY <1>1 DEF RunRec
<1>4. /\ j.pc = to /\ j.staged = run[r].staged /\ j.old = run[r].old /\ j.print = run[r].print
      /\ j.dir = run[r].dir /\ j.verdict = run[r].verdict
  BY <1>1 DEF RunRec
<1>5. j.seeded = run[r].seeded /\ j.aged = run[r].aged
  BY <1>1 DEF RunRec
<1> HIDE DEF j
<1>6. Empty(run[r]) /\ ~run[r].aged
  BY <1>1 DEF Directory
<1>7. Empty(j) /\ ~j.aged
  BY <1>4, <1>5, <1>6 DEF Empty
<1>8. run'[r] = j
  BY <1>1, <1>2 DEF ToolTypes
<1>9. Empty(run[r])' /\ ~run'[r].aged /\ run'[r].pc = to
  BY <1>4, <1>7, <1>8 DEF Empty, NoDb
<1>10. Directory(r)'
  BY <1>9 DEF Directory
<1>11. Judgement(j)
  BY <1>1, <1>4 DEF Judgement
<1>12. j.print = <<>> /\ j.dir.inode = run[r].dir.inode /\ runFaults' \in Nat
  BY <1>1, <1>4, <1>7 DEF Empty, ToolTypes
<1> QED BY <1>2, <1>3, <1>4, <1>10, <1>11, <1>12, Moved

\* A scan reaches a tool.
LEMMA BeginRunStep ==
  ASSUME ToolInv, NEW r \in Runs, NEW tool \in RunTools, NEW changed \in Diffs \cup {Checkout},
         NEW full \in BOOLEAN, BeginRun(r, tool, changed, full)
  PROVE  ToolInv'
<1> DEFINE j == [NewRun EXCEPT !.pc = IF Seeds(tool) THEN "warm" ELSE "isolate",
                               !.tool = tool, !.diff = changed, !.full = full]
<1>1. ToolTypes /\ run[r] \in RunRec /\ Publishing
  BY DEF ToolInv, LockInv, ToolTypes
<1>2. run' = [run EXCEPT ![r] = j] /\ run[r].pc = "idle"
      /\ UNCHANGED <<period, dbFile, warmCopy, locked, kept, written, midway, runFaults>>
  BY DEF BeginRun
<1>3. changed \in SUBSET Checkout
  BY ToolRunsAssumption
<1>4. j \in RunRec
  <2>1. ASSUME NEW to \in {"warm", "isolate"}
        PROVE  [NewRun EXCEPT !.pc = to, !.tool = tool, !.diff = changed, !.full = full] \in RunRec
    BY <1>3, NewRunType, ZenonT(60) DEF RunRec
  <2> QED BY <2>1
<1>5. /\ j.pc \in {"warm", "isolate"} /\ j.staged = 0 /\ j.old = NoDb /\ j.print = <<>>
      /\ j.dir = NoDb /\ j.verdict = "none"
  BY NewRunType DEF RunRec
<1>6. j.seeded = NewRun.seeded /\ j.aged = NewRun.aged
  BY NewRunType DEF RunRec
<1> HIDE DEF j
<1>7. Empty(j) /\ ~j.aged
  BY <1>5, <1>6, NewRunType DEF Empty
<1>8. run'[r] = j
  BY <1>1, <1>2 DEF ToolTypes
<1>9. Empty(run[r])' /\ ~run'[r].aged /\ run'[r].pc \in {"warm", "isolate"}
  BY <1>5, <1>7, <1>8 DEF Empty, NoDb
<1>10. Directory(r)'
  BY <1>9 DEF Directory
<1>11. Judgement(j)
  BY <1>5 DEF Judgement
<1>12. j.dir.inode = 0 /\ runFaults' \in Nat
  BY <1>1, <1>2, <1>5 DEF NoDb, ToolTypes
<1>13. run[r].staged = 0 /\ run[r].old = NoDb
  BY <1>1, <1>2 DEF Publishing
<1> QED BY <1>2, <1>4, <1>5, <1>10, <1>11, <1>12, <1>13, Moved

\* The shared cache.
LEMMA IsolateFailsStep ==
  ASSUME ToolInv, NEW r \in Runs, IsolateFails(r)
  PROVE  ToolInv'
<1> DEFINE j == [run[r] EXCEPT !.pc = "tool", !.reasons = run[r].reasons \cup {"shared"}]
<1>1. ToolTypes /\ run[r] \in RunRec /\ Directory(r) /\ Judgement(run[r])
  BY DEF ToolInv, LockInv, ToolTypes, Directories, Judged
<1>2. run' = [run EXCEPT ![r] = j] /\ run[r].pc = "isolate"
      /\ UNCHANGED <<period, dbFile, warmCopy, locked, kept, written, midway>>
  BY DEF IsolateFails
<1>3. j \in RunRec
  BY <1>1 DEF RunRec
<1>4. /\ j.pc = "tool" /\ j.staged = run[r].staged /\ j.old = run[r].old
      /\ j.print = run[r].print /\ j.dir = run[r].dir /\ j.verdict = run[r].verdict
  BY <1>1 DEF RunRec
<1>5. j.seeded = run[r].seeded /\ j.aged = run[r].aged
  BY <1>1 DEF RunRec
<1> HIDE DEF j
<1>6. Empty(run[r]) /\ ~run[r].aged
  BY <1>1, <1>2 DEF Directory
<1>7. Empty(j) /\ ~j.aged
  BY <1>4, <1>5, <1>6 DEF Empty
<1>8. run'[r] = j
  BY <1>1, <1>2 DEF ToolTypes
<1>9. Empty(run[r])' /\ ~run'[r].aged /\ run'[r].pc = "tool"
  BY <1>4, <1>7, <1>8 DEF Empty, NoDb
<1>10. Directory(r)'
  BY <1>9 DEF Directory
<1>11. Judgement(j)
  BY <1>1, <1>2, <1>4 DEF Judgement
<1>12. j.print = <<>> /\ j.dir.inode = run[r].dir.inode /\ runFaults' \in Nat
  BY <1>1, <1>4, <1>7 DEF Empty, ToolTypes, IsolateFails, RunFault
<1> QED BY <1>2, <1>3, <1>4, <1>10, <1>11, <1>12, Moved

\* Nothing to look at.
LEMMA NotApplicableStep ==
  ASSUME ToolInv, NEW r \in Runs, NotApplicable(r)
  PROVE  ToolInv'
<1> DEFINE j == [run[r] EXCEPT !.pc = "done", !.verdict = "skipped", !.dir = NoDb]
<1>1. ToolTypes /\ run[r] \in RunRec /\ Judgement(run[r])
  BY DEF ToolInv, LockInv, ToolTypes, Judged
<1>2. run' = [run EXCEPT ![r] = j] /\ run[r].pc = "tool"
      /\ UNCHANGED <<period, dbFile, warmCopy, locked, kept, written, midway, runFaults>>
  BY DEF NotApplicable
<1>3. j \in RunRec
  BY <1>1, ZenonT(60) DEF RunRec, NoDb, Db
<1>4. /\ j.pc = "done" /\ j.staged = run[r].staged /\ j.old = run[r].old
      /\ j.print = run[r].print /\ j.dir = NoDb /\ j.verdict = "skipped"
  BY <1>1 DEF RunRec
<1> HIDE DEF j
<1>5. run'[r] = j
  BY <1>1, <1>2 DEF ToolTypes
<1>6. run'[r].pc = "done" /\ run'[r].dir = NoDb
  BY <1>4, <1>5
<1>7. Directory(r)'
  BY <1>6 DEF Directory, NoDb
<1>8. Judgement(j)
  BY <1>4 DEF Judgement
<1>9. j.dir.inode = 0 /\ runFaults' \in Nat
  BY <1>1, <1>2, <1>4 DEF NoDb, ToolTypes
<1>10. j.print = <<>> \/ LinkOf(j) \in Known
  BY <1>4, LinkIsKnown DEF LinkOf
<1> QED BY <1>2, <1>3, <1>4, <1>7, <1>8, <1>9, <1>10, Moved

\* A killed worker: the lock goes back with it.
LEMMA KillRunStep ==
  ASSUME ToolInv, NEW r \in Runs, KillRun(r)
  PROVE  ToolInv'
<1> DEFINE j == [NewRun EXCEPT !.pc = "done"]
<1>1. ToolTypes
  BY DEF ToolInv, LockInv
<1>2. /\ run' = [run EXCEPT ![r] = j] /\ locked' = [locked EXCEPT ![r] = "no"]
      /\ UNCHANGED <<period, dbFile, warmCopy, kept, written>>
  BY DEF KillRun, Unlock
<1>3. midway' \in BOOLEAN /\ (midway => midway') /\ (run[r].pc = "publish" => midway')
  BY Zenon DEF KillRun
<1>4. runFaults' \in Nat
  BY <1>1 DEF KillRun, RunFault, ToolTypes
<1>5. j \in RunRec
  BY NewRunType DEF RunRec
<1>6. /\ j.pc = "done" /\ j.staged = 0 /\ j.old = NoDb
      /\ j.print = <<>> /\ j.dir = NoDb /\ j.verdict = "none"
  BY NewRunType DEF RunRec
<1> HIDE DEF j
<1>7. run'[r] = j
  BY <1>1, <1>2 DEF ToolTypes
<1>8. run'[r].pc = "done" /\ run'[r].dir = NoDb
  BY <1>6, <1>7
<1>9. Directory(r)'
  BY <1>8 DEF Directory, NoDb
<1>10. Judgement(j)
  BY <1>6 DEF Judgement
<1>11. j.dir.inode = 0
  BY <1>6 DEF NoDb
<1> QED BY <1>2, <1>3, <1>4, <1>5, <1>6, <1>9, <1>10, <1>11, Released

\* A failed download gives the lock back and goes on.
LEMMA DownloadFailsStep ==
  ASSUME ToolInv, NEW r \in Runs, DownloadFails(r)
  PROVE  ToolInv'
<1> DEFINE j == [run[r] EXCEPT !.pc = "isolate"]
<1>1. ToolTypes /\ run[r] \in RunRec /\ Directory(r) /\ Judgement(run[r]) /\ Publishing
  BY DEF ToolInv, LockInv, ToolTypes, Directories, Judged
<1>2. /\ run' = [run EXCEPT ![r] = j] /\ locked' = [locked EXCEPT ![r] = "no"]
      /\ run[r].pc = "download"
      /\ UNCHANGED <<period, dbFile, warmCopy, kept, written, midway>>
  BY <1>1 DEF DownloadFails, Unlock, To, ToolTypes
<1>3. j \in RunRec
  BY <1>1 DEF RunRec
<1>4. /\ j.pc = "isolate" /\ j.staged = run[r].staged /\ j.old = run[r].old
      /\ j.print = run[r].print /\ j.dir = run[r].dir /\ j.verdict = run[r].verdict
  BY <1>1 DEF RunRec
<1>5. j.seeded = run[r].seeded /\ j.aged = run[r].aged
  BY <1>1 DEF RunRec
<1> HIDE DEF j
<1>6. Empty(run[r]) /\ ~run[r].aged
  BY <1>1, <1>2 DEF Directory
<1>7. Empty(j) /\ ~j.aged
  BY <1>4, <1>5, <1>6 DEF Empty
<1>8. run'[r] = j
  BY <1>1, <1>2 DEF ToolTypes
<1>9. Empty(run[r])' /\ ~run'[r].aged /\ run'[r].pc = "isolate"
  BY <1>4, <1>7, <1>8 DEF Empty, NoDb
<1>10. Directory(r)'
  BY <1>9 DEF Directory
<1>11. Judgement(j)
  BY <1>1, <1>2, <1>4 DEF Judgement
<1>12. j.print = <<>> /\ j.dir.inode = run[r].dir.inode /\ runFaults' \in Nat
  BY <1>1, <1>4, <1>7 DEF Empty, ToolTypes, DownloadFails, RunFault
<1>13. j.staged = 0 /\ j.old = NoDb
  BY <1>1, <1>2, <1>4 DEF Publishing
<1>14. midway' \in BOOLEAN /\ (midway => midway') /\ (run[r].pc = "publish" => midway')
  BY <1>1, <1>2 DEF ToolTypes
<1> QED BY <1>2, <1>3, <1>4, <1>10, <1>11, <1>12, <1>13, <1>14, Released

\* What is linked is a generation: its file is whole unless written in place.
LEMMA LinkedIsWhole ==
  ASSUME ToolInv, NEW r \in Runs, Linked(run[r])
  PROVE  /\ run[r].dir \in Known /\ run[r].dir.inode # 0
         /\ Whole(run[r].dir)
         /\ dbFile[run[r].dir.inode] \in File
         /\ dbFile[run[r].dir.inode].version <= period
<1>1. LinkOf(run[r]) \in Known /\ LinkOf(run[r]) = run[r].dir /\ run[r].dir.inode # 0
  BY LinkIsKnown DEF Linked
<1>2. Whole(run[r].dir)
  BY <1>1 DEF ToolInv, Generations
<1>3. run[r].dir.inode \in 1..Len(dbFile)
  BY <1>2 DEF Whole
<1>4. dbFile \in Seq(File)
  BY DEF ToolInv, LockInv, ToolTypes
<1>5. dbFile[run[r].dir.inode].version <= period
  BY <1>3 DEF ToolInv, Generations
<1> QED BY <1>1, <1>2, <1>3, <1>4, <1>5

\* The tool starts to read.
LEMMA StartToolStep ==
  ASSUME ToolInv, NEW r \in Runs, StartTool(r)
  PROVE  ToolInv'
<1> DEFINE saw == IF ~UsesDb(run[r].tool) THEN <<>>
                  ELSE <<run[r].dir.inode, dbFile[run[r].dir.inode]>>
           j == [run[r] EXCEPT !.pc = "scan", !.saw = saw]
<1>1. ToolTypes /\ run[r] \in RunRec /\ Directory(r) /\ Judgement(run[r])
  BY DEF ToolInv, LockInv, ToolTypes, Directories, Judged
<1>2. /\ run' = [run EXCEPT ![r] = j] /\ run[r].pc = "tool"
      /\ PathsFor(run[r].tool, run[r].diff, run[r].full) # {}
      /\ UNCHANGED <<period, dbFile, warmCopy, locked, kept, written, midway, runFaults>>
  BY DEF StartTool
<1>3. UsesDb(run[r].tool) => run[r].seeded
  BY DEF StartTool
<1>4. (Empty(run[r]) \/ Linked(run[r])) /\ ~run[r].aged
  BY <1>1, <1>2 DEF Directory
<1>5. UsesDb(run[r].tool) => Linked(run[r])
  BY <1>3, <1>4 DEF Empty
<1>6. saw \in {<<>>} \cup (Nat \X File)
  <2>1. UsesDb(run[r].tool) => dbFile[run[r].dir.inode] \in File /\ run[r].dir.inode \in Nat
    BY <1>1, <1>5, LinkedIsWhole DEF RunRec, Db
  <2> QED BY <2>1
<1>7. UsesDb(run[r].tool) => saw # <<>> /\ saw[1] = run[r].dir.inode
                             /\ saw[2] = dbFile[run[r].dir.inode]
  OBVIOUS
<1>8. ~UsesDb(run[r].tool) => saw = <<>>
  OBVIOUS
<1> HIDE DEF saw
<1>9. j \in RunRec
  BY <1>1, <1>6 DEF RunRec
<1>10. /\ j.pc = "scan" /\ j.staged = run[r].staged /\ j.old = run[r].old
       /\ j.print = run[r].print /\ j.dir = run[r].dir /\ j.verdict = run[r].verdict
       /\ j.tool = run[r].tool /\ j.diff = run[r].diff /\ j.saw = saw
  BY <1>1 DEF RunRec
<1>11. j.seeded = run[r].seeded /\ j.full = run[r].full
  BY <1>1 DEF RunRec
<1> HIDE DEF j
<1>12. run'[r] = j
  BY <1>1, <1>2 DEF ToolTypes
<1>13. Directory(r)'
  <2>1. run'[r].pc = "scan" /\ run'[r].tool = run[r].tool
    BY <1>10, <1>12
  <2>2. CASE UsesDb(run[r].tool)
    <3>1. Linked(run[r]) /\ run[r].seeded
      BY <2>2, <1>3, <1>5
    <3>2. Linked(run[r])'
      BY <3>1, <1>2, <1>10, <1>11, <1>12 DEF Linked, LinkOf
    <3>3. run'[r].seeded
      BY <3>1, <1>11, <1>12
    <3>4. /\ run'[r].saw # <<>> /\ run'[r].saw[1] = run'[r].dir.inode
          /\ run'[r].saw[2] = dbFile[run[r].dir.inode]
      BY <2>2, <1>7, <1>10, <1>12
    <3>5. /\ run'[r].dir.meta <= run'[r].saw[2].version
          /\ run'[r].saw[2].version <= period'
          /\ run'[r].saw[2].version = run'[r].dir.meta => run'[r].saw[2].size = "full"
      BY <1>2, <1>10, <1>12, <3>1, <3>4, LinkedIsWhole DEF Whole
    <3>6. Read(r)'
      BY <3>2, <3>3, <3>4, <3>5 DEF Read
    <3> QED BY <2>1, <2>2, <3>6 DEF Directory, UsesDb
  <2>3. CASE ~UsesDb(run[r].tool)
    <3>1. Empty(run[r])' \/ Linked(run[r])'
      BY <1>2, <1>4, <1>10, <1>11, <1>12 DEF Linked, LinkOf, Empty, NoDb
    <3>2. run'[r].saw = <<>>
      BY <2>3, <1>8, <1>10, <1>12
    <3> QED BY <2>1, <2>3, <3>1, <3>2 DEF Directory, UsesDb
  <2> QED BY <2>2, <2>3
<1>14. Judgement(j)
  BY <1>1, <1>2, <1>10, <1>11 DEF Judgement
<1>15. runFaults' \in Nat
  BY <1>1, <1>2 DEF ToolTypes
<1>16. j.print = <<>> \/ LinkOf(j) \in Known
  BY <1>10, LinkIsKnown DEF LinkOf
<1> QED BY <1>2, <1>9, <1>10, <1>13, <1>14, <1>15, <1>16, Moved

\* A tool outlives the sweep's limit.
LEMMA GrowOldStep ==
  ASSUME ToolInv, NEW r \in Runs, GrowOld(r)
  PROVE  ToolInv'
<1> DEFINE j == [run[r] EXCEPT !.aged = TRUE]
<1>1. ToolTypes /\ run[r] \in RunRec /\ Directory(r) /\ Judgement(run[r])
  BY DEF ToolInv, LockInv, ToolTypes, Directories, Judged
<1>2. /\ run' = [run EXCEPT ![r] = j] /\ run[r].pc = "scan"
      /\ UNCHANGED <<period, dbFile, warmCopy, locked, kept, written, midway>>
  BY <1>1 DEF GrowOld, ToolTypes
<1>3. j \in RunRec
  BY <1>1 DEF RunRec
<1>4. /\ j.pc = "scan" /\ j.staged = run[r].staged /\ j.old = run[r].old
      /\ j.print = run[r].print /\ j.dir = run[r].dir /\ j.verdict = run[r].verdict
      /\ j.tool = run[r].tool /\ j.diff = run[r].diff /\ j.saw = run[r].saw
  BY <1>1, <1>2 DEF RunRec
<1>5. j.seeded = run[r].seeded /\ j.full = run[r].full
  BY <1>1 DEF RunRec
<1> HIDE DEF j
<1>6. j.print = <<>> \/ LinkOf(j) \in Known
  BY <1>4, LinkIsKnown DEF LinkOf
<1>7. run'[r] = j /\ \A i : Unshared(r, i) => Unshared(r, i)'
  BY <1>2, <1>3, <1>4, <1>6, OneMoves
<1>8. Directory(r)'
  <2>1. run[r].dir = NoDb /\ run[r].aged => run'[r].dir = NoDb /\ run'[r].aged
    <3>1. run'[r].aged
      <4>1. j.aged = TRUE
        BY <1>1 DEF j, RunRec
      <4> QED BY <4>1, <1>7
    <3> QED BY <3>1, <1>4, <1>7
  <2>2. Empty(run[r]) => Empty(run[r])'
    BY <1>4, <1>5, <1>7 DEF Empty, NoDb
  <2>3. Linked(run[r]) => Linked(run[r])'
    BY <1>2, <1>4, <1>5, <1>7 DEF Linked, LinkOf
  <2>4. Refreshed(r) => Refreshed(r)'
    BY <1>2, <1>4, <1>5, <1>7 DEF Refreshed
  <2>5. Read(r) => Read(r)'
    BY <2>3, <2>4, <1>2, <1>4, <1>5, <1>7 DEF Read
  <2>6. run'[r].pc = "scan" /\ run'[r].tool = run[r].tool /\ run'[r].saw = run[r].saw
    BY <1>4, <1>7
  <2> QED BY <1>1, <1>2, <2>1, <2>2, <2>3, <2>5, <2>6 DEF Directory, UsesDb, NoDb
<1>9. Judgement(j)
  BY <1>1, <1>2, <1>4, <1>5 DEF Judgement
<1>10. runFaults' \in Nat
  BY <1>1 DEF ToolTypes, GrowOld, RunFault
<1> QED BY <1>2, <1>3, <1>4, <1>6, <1>8, <1>9, <1>10, Moved

\* Whether the run read a complete database within its grace: what EndTool
\* records as the fact.
ReadWell(j) ==
  IF j.saw = <<>> THEN ~UsesDb(j.tool)
  ELSE /\ dbFile[j.saw[1]] = j.saw[2]
       /\ j.saw[2] = [size |-> "full", version |-> period]

\* _assess_trivy_run: without a reason the database was whole, in its grace and
\* nobody changed it while it was read.
LEMMA AssessmentIsRight ==
  ASSUME ToolInv, NEW r \in Runs, run[r].pc = "scan", ~run[r].aged,
         "shared" \notin run[r].reasons, DbReasons(r) = {}
  PROVE  ReadWell(run[r])
<1> DEFINE j == run[r]
<1>1. ToolTypes /\ j \in RunRec /\ Directory(r)
  BY DEF ToolInv, LockInv, ToolTypes, Directories
<1>2. CASE ~UsesDb(j.tool)
  BY <1>1, <1>2 DEF Directory, ReadWell
<1>3. CASE UsesDb(j.tool)
  <2>1. Read(r)
    BY <1>1, <1>3 DEF Directory
  <2>2. DbState(j.dir) /\ (j.print # <<>> => Fingerprint(j.dir) = j.print)
    BY <1>3 DEF DbReasons
  <2>3. j.dir.inode # 0 /\ dbFile[j.dir.inode].size = "full" /\ j.dir.meta = period
    BY <2>2 DEF DbState
  <2>4. j.print # <<>> => j.print = <<j.dir.inode, dbFile[j.dir.inode], j.dir.meta>>
    BY <2>2, <2>3 DEF Fingerprint
  <2>5. CASE j.seeded /\ Linked(j)
    <3>1. /\ j.saw # <<>> /\ j.saw[1] = j.dir.inode
          /\ j.dir.meta <= j.saw[2].version /\ j.saw[2].version <= period
          /\ j.saw[2].version = j.dir.meta => j.saw[2].size = "full"
      BY <2>1, <2>5 DEF Read, Refreshed
    <3>2. j.saw \in Nat \X File
      BY <1>1, <3>1 DEF RunRec
    <3>3. j.saw[2] \in File /\ period \in Nat /\ j.dir.meta \in Nat
      BY <1>1, <3>2 DEF ToolTypes, RunRec, Db
    <3>4. j.saw[2].version = period /\ j.saw[2].size = "full"
      BY <2>3, <3>1, <3>3 DEF File
    <3>5. j.saw[2] = [size |-> "full", version |-> period]
      BY <3>3, <3>4 DEF File
    <3>6. /\ dbFile[j.dir.inode] \in File
          /\ j.dir.meta <= dbFile[j.dir.inode].version
          /\ dbFile[j.dir.inode].version <= period
      BY <2>5, LinkedIsWhole DEF Whole
    <3>7. dbFile[j.dir.inode].version = period
      BY <2>3, <3>3, <3>6 DEF File
    <3>8. dbFile[j.dir.inode] = [size |-> "full", version |-> period]
      BY <2>3, <3>6, <3>7 DEF File
    <3> QED BY <3>1, <3>5, <3>8 DEF ReadWell
  <2>6. CASE Refreshed(r)
    <3>1. /\ j.saw = <<j.dir.inode, [size |-> "full", version |-> j.dir.meta]>>
          /\ j.print # <<>> => j.print[3] < j.dir.meta
          /\ j.print = <<>> => dbFile[j.dir.inode] = j.saw[2]
      BY <2>1, <2>6 DEF Read, Refreshed
    <3>2. j.dir.meta \in Nat
      BY <1>1 DEF RunRec, Db
    <3>3. j.print = <<>>
      <4> SUFFICES ASSUME j.print # <<>> PROVE FALSE
        OBVIOUS
      <4>1. j.print[3] = j.dir.meta
        BY <2>4
      <4> QED BY <3>1, <3>2, <4>1
    <3>4. /\ j.saw # <<>> /\ j.saw[1] = j.dir.inode
          /\ j.saw[2] = [size |-> "full", version |-> period]
          /\ dbFile[j.dir.inode] = j.saw[2]
      BY <2>3, <3>1, <3>3
    <3> QED BY <3>4 DEF ReadWell
  <2> QED BY <2>1, <2>5, <2>6 DEF Read
<1> QED BY <1>2, <1>3

\* The tool ends, and its run is judged.
LEMMA EndToolStep ==
  ASSUME ToolInv, NEW r \in Runs, NEW complaints \in {{}} \cup {{c} : c \in Complaints},
         EndTool(r, complaints)
  PROVE  ToolInv'
<1> DEFINE why == run[r].reasons \cup Degrades(run[r].tool, complaints) \cup DbReasons(r)
           fact == ReadWell(run[r]) /\ (complaints = {} \/ ReportsToFile(run[r].tool))
           verdict == IF \/ "exit" \in complaints
                         \/ ReportsToFile(run[r].tool) /\ "garbage" \in complaints
                      THEN "failed" ELSE Health(why)
           j == [run[r] EXCEPT !.pc = "done", !.dir = NoDb, !.saw = <<>>, !.print = <<>>,
                               !.reasons = why, !.fact = fact, !.verdict = verdict]
<1>1. ToolTypes /\ run[r] \in RunRec /\ Directory(r) /\ Judgement(run[r])
  BY DEF ToolInv, LockInv, ToolTypes, Directories, Judged
<1>2. /\ run' = [run EXCEPT ![r] = j] /\ run[r].pc = "scan"
      /\ UNCHANGED <<period, dbFile, warmCopy, locked, kept, written, midway, runFaults>>
  BY DEF EndTool, ReadWell
<1>3. why \in SUBSET (Complaints \cup {"shared", "unusable", "changed"})
  BY <1>1 DEF RunRec, DbReasons, Degrades
<1>4. verdict \in {"failed", "healthy", "suspect"}
  BY DEF Health
<1>5. fact \in BOOLEAN
  BY DEF ReadWell
<1>6. verdict = "healthy" => why = {}
  BY DEF Health
<1>7. why = {} /\ ~run[r].aged => fact
  <2> SUFFICES ASSUME why = {}, ~run[r].aged PROVE fact
    OBVIOUS
  <2>1. "shared" \notin run[r].reasons /\ DbReasons(r) = {}
    OBVIOUS
  <2>2. ReadWell(run[r])
    BY <2>1, <1>2, AssessmentIsRight
  <2>3. Degrades(run[r].tool, complaints) = {}
    OBVIOUS
  <2>4. complaints = {} \/ ReportsToFile(run[r].tool)
    BY <2>3 DEF Degrades
  <2> QED BY <2>2, <2>4
<1>8. PathsFor(run[r].tool, run[r].diff, run[r].full) # {}
  BY <1>1, <1>2 DEF Judgement
<1> HIDE DEF why, fact, verdict
<1>9. j \in RunRec
  BY <1>1, <1>3, <1>4, <1>5, ZenonT(60) DEF RunRec, NoDb, Db
<1>10. /\ j.pc = "done" /\ j.staged = run[r].staged /\ j.old = run[r].old
       /\ j.print = <<>> /\ j.dir = NoDb /\ j.verdict = verdict
       /\ j.tool = run[r].tool /\ j.diff = run[r].diff
  BY <1>1 DEF RunRec
<1>11. j.full = run[r].full /\ j.aged = run[r].aged /\ j.fact = fact
  BY <1>1 DEF RunRec
<1> HIDE DEF j
<1>12. run'[r] = j
  BY <1>1, <1>2 DEF ToolTypes
<1>13. run'[r].pc = "done" /\ run'[r].dir = NoDb
  BY <1>10, <1>12
<1>14. Directory(r)'
  BY <1>13 DEF Directory, NoDb
<1>15. Judgement(j)
  BY <1>6, <1>7, <1>8, <1>10, <1>11 DEF Judgement
<1>16. j.dir.inode = 0 /\ runFaults' \in Nat
  BY <1>1, <1>2, <1>10 DEF NoDb, ToolTypes
<1> QED BY <1>2, <1>9, <1>10, <1>14, <1>15, <1>16, Moved

-----------------------------------------------------------------------------
(* Taking the lock.                                                        *)

\* _seed_trivy_cache copies the metadata: under the shared lock it belongs to
\* the file that was linked.
LEMMA CopyMetadataStep ==
  ASSUME ToolInv, NEW r \in Runs, CopyMetadata(r)
  PROVE  ToolInv'
<1> DEFINE d == [run[r].dir EXCEPT !.meta = warmCopy.meta]
           j == [run[r] EXCEPT !.pc = "tool", !.dir = d, !.seeded = DbState(d),
                               !.print = Fingerprint(d)]
<1>1. ToolTypes /\ run[r] \in RunRec /\ Directory(r) /\ Judgement(run[r]) /\ Publishing
      /\ Generations
  BY DEF ToolInv, LockInv, ToolTypes, Directories, Judged
<1>2. /\ run' = [run EXCEPT ![r] = j] /\ run[r].pc = "copy"
      /\ locked' = [locked EXCEPT ![r] = "no"]
      /\ UNCHANGED <<period, dbFile, warmCopy, kept, written, midway, runFaults>>
  BY DEF CopyMetadata, Unlock
<1>3. run[r].dir.inode = warmCopy.inode /\ run[r].dir.inode # 0 /\ ~run[r].aged
  BY <1>1, <1>2 DEF Directory
<1>4. d = warmCopy
  <2>1. run[r].dir \in Db /\ warmCopy \in Db
    BY <1>1 DEF RunRec, ToolTypes
  <2> QED BY <2>1, <1>3 DEF Db
<1>5. Whole(d) /\ d \in Known /\ d \in Db
  BY <1>1, <1>3, <1>4 DEF Generations, Known, ToolTypes
<1> HIDE DEF d
<1>6. d.inode # 0 /\ d.inode \in 1..Len(dbFile) /\ dbFile[d.inode] \in File
      /\ dbFile[d.inode].version <= period /\ period \in Nat
  BY <1>1, <1>3, <1>4, <1>5 DEF Whole, Generations, ToolTypes
<1>7. Fingerprint(d) = <<d.inode, dbFile[d.inode], d.meta>>
  BY <1>6 DEF Fingerprint
<1>8. /\ Fingerprint(d) # <<>> /\ Fingerprint(d)[1] = d.inode /\ Fingerprint(d)[3] = d.meta
      /\ Fingerprint(d) \in {<<>>} \cup (Nat \X File \X Nat)
  BY <1>5, <1>6, <1>7 DEF Db
<1>9. DbState(d) \in BOOLEAN
  BY DEF DbState
<1>10. ~DbState(d) => d.meta < period
  BY <1>5, <1>6 DEF Whole, DbState, File, Db
<1>11. j \in RunRec
  BY <1>1, <1>5, <1>8, <1>9, ZenonT(60) DEF RunRec
<1>12. /\ j.pc = "tool" /\ j.staged = run[r].staged /\ j.old = run[r].old
       /\ j.print = Fingerprint(d) /\ j.dir = d /\ j.verdict = run[r].verdict
  BY <1>1 DEF RunRec
<1>13. j.seeded = DbState(d) /\ j.aged = run[r].aged
  BY <1>1 DEF RunRec
<1> HIDE DEF j
<1>14. run'[r] = j
  BY <1>1, <1>2 DEF ToolTypes
<1>15. LinkOf(j) = d
  BY <1>5, <1>8, <1>12 DEF LinkOf, Db
<1>16. Linked(j)
  BY <1>6, <1>8, <1>10, <1>12, <1>13, <1>15 DEF Linked
<1>17. Linked(run[r])'
  BY <1>2, <1>14, <1>16 DEF Linked, LinkOf
<1>18. run'[r].pc = "tool" /\ ~run'[r].aged
  BY <1>3, <1>12, <1>13, <1>14
<1>19. Directory(r)'
  BY <1>17, <1>18 DEF Directory
<1>20. Judgement(j)
  BY <1>1, <1>2, <1>12 DEF Judgement
<1>21. j.staged = 0 /\ j.old = NoDb /\ j.dir.inode = warmCopy.inode
  BY <1>1, <1>2, <1>4, <1>12 DEF Publishing
<1>22. midway' \in BOOLEAN /\ (midway => midway') /\ (run[r].pc = "publish" => midway')
       /\ runFaults' \in Nat
  BY <1>1, <1>2 DEF ToolTypes
<1> QED BY <1>2, <1>5, <1>11, <1>12, <1>15, <1>19, <1>20, <1>21, <1>22, Released

\* The database is linked under the shared lock.
LEMMA LinkStep ==
  ASSUME ToolInv, NEW r \in Runs, Link(r)
  PROVE  ToolInv'
<1> DEFINE d == [run[r].dir EXCEPT !.inode = warmCopy.inode]
           j == [run[r] EXCEPT !.pc = "copy", !.dir = d]
<1>1. ToolTypes /\ run[r] \in RunRec /\ Directory(r) /\ Judgement(run[r]) /\ Publishing
      /\ Generations /\ LockHeld /\ CopyKept
  BY DEF ToolInv, LockInv, ToolTypes, Directories, Judged
<1>2. CASE warmCopy = NoDb
  <2>1. To(r, "tool") /\ run[r].pc = "seed"
        /\ UNCHANGED <<period, dbFile, warmCopy, locked, kept, written, midway, runFaults>>
    BY <1>2 DEF Link
  <2> QED BY <2>1, PcOnly
<1>3. CASE warmCopy # NoDb
  <2>1. /\ run' = [run EXCEPT ![r] = j] /\ run[r].pc = "seed"
        /\ locked' = [locked EXCEPT ![r] = "shared"]
        /\ \A s \in Runs : locked[s] # "exclusive"
        /\ UNCHANGED <<period, dbFile, warmCopy, kept, written, midway, runFaults>>
    BY <1>1, <1>3 DEF Link, RunRec, ToolTypes
  <2>2. warmCopy.inode # 0 /\ warmCopy.inode \in Nat
    BY <1>1, <1>3 DEF Generations, Known, ToolTypes, Db
  <2>3. Empty(run[r]) /\ ~run[r].aged
    BY <1>1, <2>1 DEF Directory
  <2>4. d \in Db /\ d.inode = warmCopy.inode
    BY <1>1, <2>2 DEF RunRec, Db
  <2> HIDE DEF d
  <2>5. j \in RunRec
    BY <1>1, <2>4 DEF RunRec
  <2>6. /\ j.pc = "copy" /\ j.staged = run[r].staged /\ j.old = run[r].old
        /\ j.print = run[r].print /\ j.dir = d /\ j.verdict = run[r].verdict
    BY <1>1 DEF RunRec
  <2>7. j.seeded = run[r].seeded /\ j.aged = run[r].aged
    BY <1>1 DEF RunRec
  <2> HIDE DEF j
  <2>8. run[r].staged = 0 /\ run[r].old = NoDb /\ run[r].print = <<>> /\ ~run[r].seeded
    BY <1>1, <2>1, <2>3 DEF Publishing, Empty
  <2>9. /\ run' \in [Runs -> RunRec]
        /\ run'[r] = j /\ \A s \in Runs \ {r} : run'[s] = run[s]
        /\ Generations' /\ StagedApart'
        /\ \A s \in Runs \ {r} : Directory(s)'
    BY <2>1, <2>4, <2>5, <2>6, <2>8, OneMoves
  <2>10. Directory(r)'
    <3>1. /\ run'[r].pc = "copy" /\ run'[r].dir.inode = warmCopy'.inode
          /\ run'[r].dir.inode # 0 /\ run'[r].print = <<>>
      BY <2>1, <2>2, <2>4, <2>6, <2>8, <2>9
    <3>2. ~run'[r].seeded /\ ~run'[r].aged
      BY <2>3, <2>7, <2>8, <2>9
    <3> QED BY <3>1, <3>2 DEF Directory
  <2>11. Directories'
    BY <2>9, <2>10 DEF Directories
  <2>12. locked'[r] = "shared" /\ \A s \in Runs \ {r} : locked'[s] = locked[s]
    BY <1>1, <2>1 DEF ToolTypes
  <2>13. LockHeld'
    <3>1. \A s \in Runs : locked'[s] = "exclusive" <=> Warmer(run'[s])
      BY <1>1, <2>1, <2>6, <2>9, <2>12 DEF LockHeld, Warmer
    <3>2. \A s \in Runs : locked'[s] = "shared" <=> run'[s].pc = "copy"
      BY <1>1, <2>1, <2>6, <2>9, <2>12 DEF LockHeld
    <3>3. \A s \in Runs : locked'[s] # "exclusive"
      BY <2>1, <2>12
    <3> QED BY <3>1, <3>2, <3>3 DEF LockHeld
  <2>14. Publishing'
    BY <1>1, <2>1, <2>6, <2>8, <2>9 DEF Publishing, NoDb
  <2>15. CopyKept'
    BY <1>3, <2>1 DEF CopyKept, NoDb
  <2>16. ToolTypes'
    BY <1>1, <2>1, <2>9 DEF ToolTypes
  <2>17. Judged'
    <3>1. Judgement(j)
      BY <1>1, <2>1, <2>6 DEF Judgement
    <3> QED BY <3>1, <2>9 DEF Judged, ToolInv
  <2> QED BY <2>9, <2>11, <2>13, <2>14, <2>15, <2>16, <2>17 DEF ToolInv, LockInv
<1> QED BY <1>2, <1>3

\* The second look, under the lock.
LEMMA LockWarmStep ==
  ASSUME ToolInv, NEW r \in Runs, LockWarm(r)
  PROVE  ToolInv'
<1> DEFINE j == [run[r] EXCEPT !.pc = "download"]
<1>1. ToolTypes /\ run[r] \in RunRec /\ Directory(r) /\ Judgement(run[r]) /\ Publishing
      /\ Generations /\ LockHeld /\ CopyKept
  BY DEF ToolInv, LockInv, ToolTypes, Directories, Judged
<1>2. CASE DbState(warmCopy)
  <2>1. To(r, "isolate") /\ run[r].pc = "lock"
        /\ UNCHANGED <<period, dbFile, warmCopy, locked, kept, written, midway, runFaults>>
    BY <1>2 DEF LockWarm
  <2> QED BY <2>1, PcOnly
<1>3. CASE ~DbState(warmCopy)
  <2>1. /\ run' = [run EXCEPT ![r] = j] /\ run[r].pc = "lock"
        /\ locked' = [locked EXCEPT ![r] = "exclusive"] /\ NoLock(r)
        /\ UNCHANGED <<period, dbFile, warmCopy, kept, written, midway, runFaults>>
    BY <1>1, <1>3 DEF LockWarm, To, ToolTypes
  <2>2. Empty(run[r]) /\ ~run[r].aged
    BY <1>1, <2>1 DEF Directory
  <2>3. j \in RunRec
    BY <1>1 DEF RunRec
  <2>4. /\ j.pc = "download" /\ j.staged = run[r].staged /\ j.old = run[r].old
        /\ j.print = run[r].print /\ j.dir = run[r].dir /\ j.verdict = run[r].verdict
    BY <1>1 DEF RunRec
  <2>5. j.seeded = run[r].seeded /\ j.aged = run[r].aged
    BY <1>1 DEF RunRec
  <2> HIDE DEF j
  <2>6. run[r].staged = 0 /\ run[r].old = NoDb /\ run[r].print = <<>>
    BY <1>1, <2>1, <2>2 DEF Publishing, Empty
  <2>7. /\ run' \in [Runs -> RunRec]
        /\ run'[r] = j /\ \A s \in Runs \ {r} : run'[s] = run[s]
        /\ Generations' /\ StagedApart'
        /\ \A s \in Runs \ {r} : Directory(s)'
    BY <2>1, <2>3, <2>4, <2>6, OneMoves
  <2>8. Empty(run[r])' /\ ~run'[r].aged /\ run'[r].pc = "download"
    BY <2>2, <2>4, <2>5, <2>7 DEF Empty, NoDb
  <2>9. Directories'
    BY <2>7, <2>8 DEF Directories, Directory
  <2>10. locked'[r] = "exclusive" /\ \A s \in Runs \ {r} : locked'[s] = "no" /\ locked[s] = "no"
    BY <1>1, <2>1 DEF ToolTypes, NoLock
  <2>11. LockHeld'
    <3>1. \A s \in Runs : locked'[s] = "exclusive" <=> Warmer(run'[s])
      BY <1>1, <2>4, <2>7, <2>10 DEF LockHeld, Warmer
    <3>2. \A s \in Runs : locked'[s] = "shared" <=> run'[s].pc = "copy"
      BY <1>1, <2>4, <2>7, <2>10 DEF LockHeld
    <3>3. \A s \in Runs : locked'[s] = "exclusive" => NoLock(s)'
      BY <2>10 DEF NoLock
    <3> QED BY <3>1, <3>2, <3>3 DEF LockHeld
  <2>12. Publishing'
    BY <1>1, <2>1, <2>4, <2>6, <2>7 DEF Publishing, NoDb
  <2>13. CopyKept'
    <3>1. \A s \in Runs : run[s].pc = "publish" => run'[s] = run[s]
      BY <2>1, <2>7
    <3> QED BY <1>1, <2>1, <3>1 DEF CopyKept, NoDb
  <2>14. ToolTypes'
    BY <1>1, <2>1, <2>7 DEF ToolTypes
  <2>15. Judged'
    <3>1. Judgement(j)
      BY <1>1, <2>1, <2>4 DEF Judgement
    <3> QED BY <3>1, <2>7 DEF Judged, ToolInv
  <2> QED BY <2>7, <2>9, <2>11, <2>12, <2>13, <2>14, <2>15 DEF ToolInv, LockInv
<1> QED BY <1>2, <1>3

-----------------------------------------------------------------------------
(* Files that are added and files that are written.                        *)

\* Every directory links a file that exists.
LEMMA DirsInRange ==
  ASSUME ToolInv, NEW r \in Runs
  PROVE  /\ run[r].dir.inode \in 0..Len(dbFile)
         /\ run[r].staged \in 0..Len(dbFile)
         /\ \A d \in Known : d.inode \in 0..Len(dbFile)
<1> DEFINE j == run[r]
<1>1. ToolTypes /\ j \in RunRec /\ Directory(r) /\ Generations /\ StagedApart
  BY DEF ToolInv, LockInv, ToolTypes, Directories
<1>2. Len(dbFile) \in Nat
  BY <1>1 DEF ToolTypes
<1>3. \A d \in Known : d.inode \in 0..Len(dbFile)
  BY <1>1, <1>2 DEF Generations, Whole
<1>4. j.staged \in 0..Len(dbFile)
  BY <1>1, <1>2 DEF StagedApart, Unshared
<1>5. Linked(j) => j.dir.inode \in 0..Len(dbFile)
  BY <1>3, LinkedIsWhole
<1>6. Refreshed(r) => j.dir.inode \in 0..Len(dbFile)
  <2>1. CASE j.print = <<>>
    BY <1>2, <2>1 DEF Refreshed, Unshared
  <2>2. CASE j.print # <<>>
    <3>1. LinkOf(j) \in Known
      BY <2>2, LinkIsKnown
    <3> QED BY <1>3, <2>2, <3>1 DEF Refreshed, LinkOf
  <2> QED BY <2>1, <2>2
<1>7. Empty(j) \/ j.dir = NoDb => j.dir.inode \in 0..Len(dbFile)
  BY <1>2 DEF Empty, NoDb
<1>8. warmCopy.inode \in 0..Len(dbFile)
  BY <1>3 DEF Known
<1>9. j.pc \in {"idle", "warm", "lock", "download", "rotate", "publish", "isolate", "seed", "copy",
                "tool", "updating", "scan", "done"}
  BY <1>1 DEF RunRec
<1>10. Read(r) => Linked(j) \/ Refreshed(r)
  BY DEF Read
<1>11. j.dir.inode \in 0..Len(dbFile)
  BY <1>1, <1>5, <1>6, <1>7, <1>8, <1>9, <1>10 DEF Directory
<1> QED BY <1>3, <1>4, <1>11

\* A run adds a file: nobody else knows it.
LEMMA FileAdded ==
  ASSUME ToolInv, NEW r \in Runs, NEW j \in RunRec, NEW f \in File,
         run' = [run EXCEPT ![r] = j], dbFile' = Append(dbFile, f), f.version <= period,
         UNCHANGED <<period, warmCopy, written>>,
         j.old = run[r].old, run[r].print = <<>>, j.print = <<>>,
         \/ j.dir = run[r].dir /\ j.dir.inode = 0 /\ j.staged = Len(dbFile) + 1 /\ f.size = "full"
         \/ j.dir.inode = Len(dbFile) + 1 /\ j.staged = 0 /\ run[r].staged = 0
  PROVE  /\ run' \in [Runs -> RunRec] /\ dbFile' \in Seq(File)
         /\ run'[r] = j /\ \A s \in Runs \ {r} : run'[s] = run[s]
         /\ Generations' /\ StagedApart'
         /\ \A s \in Runs \ {r} : Directory(s)'
         /\ \A i : i = Len(dbFile) + 1 => Unshared(r, i)' /\ dbFile'[i] = f
<1> DEFINE n == Len(dbFile) + 1
<1>1. ToolTypes /\ Generations /\ StagedApart /\ run \in [Runs -> RunRec] /\ dbFile \in Seq(File)
  BY DEF ToolInv, LockInv, ToolTypes
<1>2. run'[r] = j /\ \A s \in Runs \ {r} : run'[s] = run[s]
  BY <1>1
<1>3. Len(dbFile) \in Nat /\ Len(dbFile') = n /\ dbFile' \in Seq(File) /\ dbFile'[n] = f
      /\ \A i \in 1..Len(dbFile) : dbFile'[i] = dbFile[i]
  BY <1>1
<1>4. Known' = Known
  <2>1. \A s \in Runs : run'[s].old = run[s].old /\ run'[s].print = run[s].print
    BY <1>2
  <2>2. {run'[s].old : s \in Runs} = {run[s].old : s \in Runs}
    BY <2>1
  <2>3. {LinkOf(run'[s]) : s \in {t \in Runs : run'[t].print # <<>>}}
        = {LinkOf(run[s]) : s \in {t \in Runs : run[t].print # <<>>}}
    BY <2>1 DEF LinkOf
  <2> QED BY <2>2, <2>3 DEF Known
<1>5. \A s \in Runs : run[s].dir.inode # n /\ run[s].staged # n
  BY <1>3, DirsInRange
<1>6. \A d \in Known : d.inode # n
  BY <1>3, DirsInRange
<1> HIDE DEF n
<1>7. ASSUME NEW i, i = n PROVE Unshared(r, i)'
  <2>1. i \in 1..Len(dbFile')
    BY <1>3, <1>7 DEF n
  <2> QED BY <1>2, <1>4, <1>5, <1>6, <1>7, <2>1 DEF Unshared
<1>8. ASSUME NEW s \in Runs \ {r}, NEW i, Unshared(s, i)
      PROVE  Unshared(s, i)' /\ dbFile'[i] = dbFile[i] /\ i # n
  <2>1. i \in 1..Len(dbFile) /\ i # n /\ i # 0 /\ i \in 1..Len(dbFile')
    BY <1>3, <1>8 DEF Unshared, n
  <2>2. run'[r].dir.inode # i /\ run'[r].staged # i
    BY <1>2, <1>8, <2>1 DEF Unshared, n
  <2>3. \A t \in Runs \ {s} : run'[t].dir.inode # i /\ run'[t].staged # i
    BY <1>2, <1>8, <2>2 DEF Unshared
  <2> QED BY <1>3, <1>4, <1>8, <2>1, <2>3 DEF Unshared
<1>9. Generations'
  <2>1. \A i \in 1..Len(dbFile') : dbFile'[i].version <= period'
    BY <1>1, <1>3 DEF Generations, n
  <2>2. \A d \in Known : Whole(d) => Whole(d)'
    BY <1>3 DEF Whole, n
  <2> QED BY <1>1, <1>4, <2>1, <2>2 DEF Generations, NoDb
<1>10. ASSUME NEW s \in Runs \ {r} PROVE Directory(s)'
  <2>1. Directory(s) /\ run[s] \in RunRec /\ period \in Nat /\ period <= period
    BY <1>1 DEF Directories, ToolInv, ToolTypes
  <2> QED BY <1>2, <1>8, <2>1, DirectoryKept
<1>11. StagedApart'
  <2> SUFFICES ASSUME NEW s \in Runs, run'[s].staged # 0
      PROVE  /\ Unshared(s, run[s].staged)' /\ run'[s].dir.inode = 0
             /\ dbFile'[run'[s].staged].size = "full"
    BY DEF StagedApart
  <2>1. CASE s = r
    <3>1. run'[r].staged = n /\ run'[r].dir.inode = 0 /\ f.size = "full"
      BY <1>2, <2>1 DEF n
    <3>2. Unshared(r, run[r].staged)'
      BY <1>7, <3>1 DEF Unshared
    <3> QED BY <1>3, <2>1, <3>1, <3>2
  <2>2. CASE s # r
    <3>1. run'[s].staged = run[s].staged /\ run'[s].dir = run[s].dir
      BY <1>2, <2>2
    <3>2. Unshared(s, run[s].staged) /\ run[s].dir.inode = 0 /\ dbFile[run[s].staged].size = "full"
      BY <1>1, <3>1 DEF StagedApart
    <3>3. \A i : i = run[s].staged => Unshared(s, i)' /\ dbFile'[i] = dbFile[i]
      BY <1>8, <2>2, <3>2
    <3>4. Unshared(s, run[s].staged)'
      BY <3>1, <3>3 DEF Unshared
    <3> QED BY <3>1, <3>2, <3>3, <3>4
  <2> QED BY <2>1, <2>2
<1>12. run' \in [Runs -> RunRec]
  BY <1>1
<1> QED BY <1>2, <1>3, <1>7, <1>9, <1>10, <1>11, <1>12 DEF n

\* A run writes the file of its directory in place: a generation of an earlier
\* period is then no longer what its metadata says, and nobody else's private
\* file is touched.
LEMMA FileWritten ==
  ASSUME ToolInv, NEW r \in Runs, NEW j \in RunRec, NEW i \in 1..Len(dbFile), NEW f \in File,
         run' = [run EXCEPT ![r] = j], dbFile' = [dbFile EXCEPT ![i] = f], f.version = period,
         UNCHANGED <<period, warmCopy>>, written => written',
         \A d \in Known : d.inode = i => d.meta < period /\ written',
         j.old = run[r].old, j.print = run[r].print, j.dir.inode = i, run[r].dir.inode = i,
         run[r].staged = 0, j.staged = 0
  PROVE  /\ run' \in [Runs -> RunRec] /\ dbFile' \in Seq(File)
         /\ run'[r] = j /\ \A s \in Runs \ {r} : run'[s] = run[s]
         /\ dbFile'[i] = f
         /\ Generations' /\ StagedApart'
         /\ \A s \in Runs \ {r} : Directory(s)'
         /\ Unshared(r, i) => Unshared(r, i)'
<1>1. ToolTypes /\ Generations /\ StagedApart /\ run \in [Runs -> RunRec] /\ dbFile \in Seq(File)
      /\ period \in Nat
  BY DEF ToolInv, LockInv, ToolTypes
<1>2. run'[r] = j /\ \A s \in Runs \ {r} : run'[s] = run[s]
  BY <1>1
<1>3. Len(dbFile) \in Nat /\ Len(dbFile') = Len(dbFile) /\ dbFile' \in Seq(File) /\ dbFile'[i] = f
      /\ \A k \in 1..Len(dbFile) : k # i => dbFile'[k] = dbFile[k]
  BY <1>1
<1>4. Known' = Known
  <2>1. \A s \in Runs : run'[s].old = run[s].old /\ run'[s].print = run[s].print
    BY <1>2
  <2>2. {run'[s].old : s \in Runs} = {run[s].old : s \in Runs}
    BY <2>1
  <2>3. {LinkOf(run'[s]) : s \in {t \in Runs : run'[t].print # <<>>}}
        = {LinkOf(run[s]) : s \in {t \in Runs : run[t].print # <<>>}}
    BY <2>1 DEF LinkOf
  <2> QED BY <2>2, <2>3 DEF Known
<1>5. \A s \in Runs : run'[s].dir.inode = run[s].dir.inode /\ run'[s].staged = run[s].staged
  BY <1>2
<1>6. \A s \in Runs : \A k : Unshared(s, k) => Unshared(s, k)'
  BY <1>3, <1>4, <1>5 DEF Unshared
<1>7. \A s \in Runs \ {r} : \A k : Unshared(s, k) => dbFile'[k] = dbFile[k]
  BY <1>3 DEF Unshared
<1>8. Generations'
  <2>1. \A k \in 1..Len(dbFile') : dbFile'[k].version <= period'
    BY <1>1, <1>3 DEF Generations
  <2>2. ASSUME NEW d \in Known, d.inode # 0 PROVE Whole(d)'
    <3>1. Whole(d)
      BY <1>1, <2>2 DEF Generations
    <3>2. CASE d.inode = i
      <4>1. d.meta < period /\ written' /\ d.meta <= period /\ d.meta # period
        <5>1. d.meta < period /\ written'
          BY <3>2
        <5>2. warmCopy \in Db /\ \A s \in Runs : run[s].old \in Db
          BY <1>1 DEF ToolTypes, RunRec
        <5>3. \A s \in Runs : run[s].print # <<>> => LinkOf(run[s]).meta \in Nat
          BY <1>1 DEF RunRec, LinkOf
        <5>4. d.meta \in Nat
          BY <5>2, <5>3 DEF Known, Db
        <5> QED BY <1>1, <5>1, <5>4
      <4>2. dbFile'[d.inode].version = period
        BY <1>3, <3>2
      <4> QED BY <1>3, <3>1, <4>1, <4>2 DEF Whole
    <3>3. CASE d.inode # i
      BY <1>3, <3>1, <3>3 DEF Whole
    <3> QED BY <3>2, <3>3
  <2> QED BY <1>1, <1>4, <2>1, <2>2 DEF Generations, NoDb
<1>9. ASSUME NEW s \in Runs \ {r} PROVE Directory(s)'
  <2>1. Directory(s) /\ run[s] \in RunRec /\ period <= period
    BY <1>1 DEF Directories, ToolInv
  <2>2. \A k : Unshared(s, k) => Unshared(s, k)' /\ dbFile'[k] = dbFile[k]
    BY <1>6, <1>7
  <2> QED BY <1>1, <1>2, <2>1, <2>2, DirectoryKept
<1>10. StagedApart'
  <2> SUFFICES ASSUME NEW s \in Runs, run'[s].staged # 0
      PROVE  /\ Unshared(s, run[s].staged)' /\ run'[s].dir.inode = 0
             /\ dbFile'[run'[s].staged].size = "full"
    BY DEF StagedApart
  <2>1. s # r /\ run'[s].staged = run[s].staged /\ run'[s].dir = run[s].dir
    BY <1>2
  <2>2. Unshared(s, run[s].staged) /\ run[s].dir.inode = 0 /\ dbFile[run[s].staged].size = "full"
    BY <1>1, <2>1 DEF StagedApart
  <2>3. \A k : k = run[s].staged => Unshared(s, k)' /\ dbFile'[k] = dbFile[k]
    BY <1>6, <1>7, <2>1, <2>2
  <2>4. Unshared(s, run[s].staged)'
    BY <2>1, <2>3 DEF Unshared
  <2> QED BY <2>1, <2>2, <2>3, <2>4
<1>11. run' \in [Runs -> RunRec]
  BY <1>1
<1> QED BY <1>2, <1>3, <1>6, <1>8, <1>9, <1>10, <1>11

-----------------------------------------------------------------------------
(* The publication.                                                        *)

\* While a run warms the copy nobody links it, and its own directory is empty.
LEMMA WarmerAlone ==
  ASSUME ToolInv, NEW r \in Runs, Warmer(run[r])
  PROVE  /\ run[r] \in RunRec /\ Empty(run[r]) /\ ~run[r].aged /\ run[r].verdict = "none"
         /\ locked[r] = "exclusive"
         /\ \A s \in Runs \ {r} : locked[s] = "no" /\ ~Warmer(run[s]) /\ run[s].pc # "copy"
<1>1. ToolTypes /\ LockHeld /\ Directory(r) /\ Judgement(run[r])
  BY DEF ToolInv, LockInv, Directories, Judged
<1>2. Empty(run[r]) /\ ~run[r].aged
  BY <1>1 DEF Directory, Warmer
<1>3. run[r].verdict = "none"
  BY <1>1 DEF Judgement, Warmer
<1>4. locked[r] = "exclusive" /\ NoLock(r)
  BY <1>1 DEF LockHeld
<1>5. \A s \in Runs \ {r} : locked[s] = "no" /\ ~Warmer(run[s]) /\ run[s].pc # "copy"
  BY <1>1, <1>4 DEF LockHeld, NoLock
<1> QED BY <1>1, <1>2, <1>3, <1>4, <1>5 DEF ToolTypes

\* The download into the staging directory.
LEMMA DownloadStep ==
  ASSUME ToolInv, NEW r \in Runs, Download(r)
  PROVE  ToolInv'
<1> DEFINE j == [run[r] EXCEPT !.pc = "rotate", !.staged = Len(dbFile) + 1]
           f == [size |-> "full", version |-> period]
<1>1. ToolTypes /\ Publishing /\ LockHeld /\ CopyKept /\ Len(dbFile) \in Nat /\ period \in Nat
  BY DEF ToolInv, LockInv, ToolTypes
<1>2. /\ run' = [run EXCEPT ![r] = j] /\ run[r].pc = "download" /\ dbFile' = Append(dbFile, f)
      /\ UNCHANGED <<period, warmCopy, locked, kept, written, midway, runFaults>>
  BY DEF Download
<1>3. Warmer(run[r])
  BY <1>2 DEF Warmer
<1>4. /\ run[r] \in RunRec /\ Empty(run[r]) /\ ~run[r].aged /\ run[r].verdict = "none"
      /\ \A s \in Runs \ {r} : ~Warmer(run[s])
  BY <1>3, WarmerAlone
<1>5. f \in File /\ f.version <= period /\ f.size = "full"
  BY <1>1 DEF File
<1>6. j \in RunRec
  <2>1. \A n \in Nat : [run[r] EXCEPT !.pc = "rotate", !.staged = n] \in RunRec
    BY <1>4 DEF RunRec
  <2>2. Len(dbFile) + 1 \in Nat
    BY <1>1
  <2> QED BY <2>1, <2>2
<1>7. /\ j.pc = "rotate" /\ j.staged = Len(dbFile) + 1 /\ j.old = run[r].old
      /\ j.print = run[r].print /\ j.dir = run[r].dir /\ j.verdict = run[r].verdict
  BY <1>4 DEF RunRec
<1>8. j.seeded = run[r].seeded /\ j.aged = run[r].aged
  BY <1>4 DEF RunRec
<1> HIDE DEF j, f
<1>9. run[r].print = <<>> /\ run[r].dir.inode = 0 /\ run[r].old = NoDb
  BY <1>1, <1>2, <1>4 DEF Empty, NoDb, Publishing
<1>10. /\ run' \in [Runs -> RunRec] /\ dbFile' \in Seq(File)
       /\ run'[r] = j /\ \A s \in Runs \ {r} : run'[s] = run[s]
       /\ Generations' /\ StagedApart'
       /\ \A s \in Runs \ {r} : Directory(s)'
  BY <1>2, <1>5, <1>6, <1>7, <1>9, FileAdded
<1>11. Directories'
  <2>1. Empty(run[r])' /\ ~run'[r].aged /\ run'[r].pc = "rotate"
    BY <1>4, <1>7, <1>8, <1>10 DEF Empty, NoDb
  <2> QED BY <1>10, <2>1 DEF Directories, Directory
<1>12. ToolTypes'
  BY <1>1, <1>2, <1>10 DEF ToolTypes
<1>13. LockHeld'
  <2>1. \A s \in Runs : Warmer(run'[s]) <=> Warmer(run[s])
    BY <1>2, <1>7, <1>10 DEF Warmer
  <2>2. \A s \in Runs : run'[s].pc = "copy" <=> run[s].pc = "copy"
    BY <1>2, <1>7, <1>10
  <2> QED BY <1>1, <1>2, <2>1, <2>2 DEF LockHeld, NoLock
<1>14. Publishing'
  BY <1>1, <1>2, <1>7, <1>9, <1>10 DEF Publishing, NoDb
<1>15. CopyKept'
  <2>1. \A s \in Runs : run[s].pc = "publish" => run'[s] = run[s]
    BY <1>2, <1>10
  <2> QED BY <1>1, <1>2, <2>1 DEF CopyKept, NoDb
<1>16. Judged'
  <2>1. Judgement(j)
    BY <1>4, <1>7 DEF Judgement
  <2> QED BY <1>10, <2>1 DEF Judged, ToolInv
<1> QED BY <1>10, <1>11, <1>12, <1>13, <1>14, <1>15, <1>16 DEF ToolInv, LockInv

\* A warmer moves the published generation aside, puts it back, or publishes the
\* one it staged.
LEMMA WarmerMoves ==
  ASSUME ToolInv, NEW r \in Runs, Warmer(run[r]), NEW j \in RunRec,
         run' = [run EXCEPT ![r] = j], UNCHANGED <<period, dbFile, written>>,
         j.pc \in {"publish", "isolate"}, j.old \in {NoDb, warmCopy},
         Empty(j), ~j.aged, j.verdict = "none",
         \/ warmCopy' \in {NoDb, run[r].old} /\ j.staged \in {0, run[r].staged}
         \/ /\ warmCopy' = [inode |-> run[r].staged, meta |-> dbFile[run[r].staged].version]
            /\ run[r].staged # 0 /\ j.staged = 0
  PROVE  /\ run' \in [Runs -> RunRec] /\ warmCopy' \in Db
         /\ run'[r] = j /\ \A s \in Runs \ {r} : run'[s] = run[s]
         /\ Generations' /\ StagedApart' /\ Directories' /\ Judged'
<1> DEFINE g == [inode |-> run[r].staged, meta |-> dbFile[run[r].staged].version]
<1>1. ToolTypes /\ Generations /\ StagedApart /\ run \in [Runs -> RunRec] /\ run[r] \in RunRec
      /\ dbFile \in Seq(File) /\ period \in Nat
  BY DEF ToolInv, LockInv, ToolTypes
<1>2. run'[r] = j /\ \A s \in Runs \ {r} : run'[s] = run[s]
  BY <1>1
<1>3. j.print = <<>> /\ j.dir = NoDb /\ j.dir.inode = 0 /\ ~j.seeded
  BY DEF Empty, NoDb
<1>4. ASSUME run[r].staged # 0
      PROVE  /\ Unshared(r, run[r].staged) /\ dbFile[run[r].staged].size = "full"
             /\ run[r].staged \in 1..Len(dbFile) /\ dbFile[run[r].staged] \in File
  BY <1>1, <1>4 DEF StagedApart, Unshared
<1>5. \A d \in Known' : d \in Known \/ d = NoDb \/ (d = g /\ run[r].staged # 0 /\ j.staged = 0)
  <2> SUFFICES ASSUME NEW d \in Known'
      PROVE  d \in Known \/ d = NoDb \/ (d = g /\ run[r].staged # 0 /\ j.staged = 0)
    OBVIOUS
  <2>1. CASE d = warmCopy'
    BY <2>1 DEF Known
  <2>2. ASSUME NEW s \in Runs, d = run'[s].old PROVE d \in Known \/ d = NoDb
    <3>1. CASE s = r
      BY <2>2, <3>1, <1>2 DEF Known
    <3>2. CASE s # r
      BY <2>2, <3>2, <1>2 DEF Known
    <3> QED BY <3>1, <3>2
  <2>3. ASSUME NEW s \in Runs, run'[s].print # <<>>, d = LinkOf(run'[s]) PROVE d \in Known
    <3>1. s # r
      BY <1>2, <1>3, <2>3
    <3> QED BY <2>3, <3>1, <1>2 DEF Known
  <2> QED BY <2>1, <2>2, <2>3 DEF Known
<1>6. NoDb.inode = 0 /\ NoDb.meta = 0 /\ g.inode = run[r].staged
      /\ g.meta = dbFile[run[r].staged].version
  BY DEF NoDb
<1> HIDE DEF g
<1>7. ASSUME NEW s \in Runs, NEW i, Unshared(s, i), s = r => i = j.staged
      PROVE  Unshared(s, i)'
  <2>1. i # 0 /\ i \in 1..Len(dbFile')
    BY <1>7 DEF Unshared
  <2>2. \A d \in Known : d.inode # i
    BY <1>7 DEF Unshared
  <2>3. run[r].staged # i \/ j.staged # 0
    <3>1. CASE s = r
      BY <1>7, <2>1, <3>1
    <3>2. CASE s # r
      BY <1>7, <3>2 DEF Unshared
    <3> QED BY <3>1, <3>2
  <2>4. \A d \in Known' : d.inode # i
    BY <1>5, <1>6, <2>1, <2>2, <2>3
  <2>5. \A t \in Runs \ {s} : run'[t].dir.inode # i /\ run'[t].staged # i
    <3> SUFFICES ASSUME NEW t \in Runs \ {s} PROVE run'[t].dir.inode # i /\ run'[t].staged # i
      OBVIOUS
    <3>1. run[t].dir.inode # i /\ run[t].staged # i
      BY <1>7 DEF Unshared
    <3>2. CASE t = r
      <4>1. run'[r].staged \in {0, run[r].staged}
        BY <1>2
      <4> QED BY <1>2, <1>3, <2>1, <3>1, <3>2, <4>1
    <3>3. CASE t # r
      BY <1>2, <3>1, <3>3
    <3> QED BY <3>2, <3>3
  <2> QED BY <2>1, <2>4, <2>5 DEF Unshared
<1>8. Generations'
  <2>1. \A d : Whole(d)' <=> Whole(d)
    BY DEF Whole
  <2>2. run[r].staged # 0 => Whole(g) /\ \A d \in Known : d.inode # g.inode
    BY <1>1, <1>4, <1>6 DEF Whole, Unshared, File
  <2>3. \A d \in Known' : d.inode # 0 => Whole(d)
    BY <1>1, <1>5, <1>6, <2>2 DEF Generations
  <2>4. \A d, e \in Known' : d.inode # 0 /\ d.inode = e.inode => d.meta = e.meta
    BY <1>1, <1>5, <1>6, <2>2 DEF Generations
  <2>5. \A d \in Known' : d.inode = 0 => d = NoDb
    BY <1>1, <1>5, <1>6 DEF Generations
  <2>6. \A i \in 1..Len(dbFile') : dbFile'[i].version <= period'
    BY <1>1 DEF Generations
  <2>7. \A d \in Known' : d.inode # 0 => Whole(d)'
    BY <2>1, <2>3
  <2> QED BY <2>4, <2>5, <2>6, <2>7 DEF Generations
<1>9. ASSUME NEW s \in Runs \ {r} PROVE Directory(s)'
  <2>1. Directory(s) /\ run[s] \in RunRec /\ period <= period
    BY <1>1 DEF Directories, ToolInv
  <2>2. run[s].pc # "copy"
    BY WarmerAlone
  <2>3. \A i : Unshared(s, i) => Unshared(s, i)' /\ dbFile'[i] = dbFile[i]
    BY <1>7
  <2> QED BY <1>1, <1>2, <2>1, <2>2, <2>3, DirectoryKept
<1>10. Directories'
  <2>1. Empty(run[r])' /\ ~run'[r].aged /\ run'[r].pc \in {"publish", "isolate"}
    BY <1>2 DEF Empty, NoDb
  <2> QED BY <1>9, <2>1 DEF Directories, Directory
<1>11. StagedApart'
  <2> SUFFICES ASSUME NEW s \in Runs, run'[s].staged # 0
      PROVE  /\ Unshared(s, run[s].staged)' /\ run'[s].dir.inode = 0
             /\ dbFile'[run'[s].staged].size = "full"
    BY DEF StagedApart
  <2>1. run'[s].staged = run[s].staged /\ (s = r => run[r].staged = j.staged)
    BY <1>2
  <2>2. Unshared(s, run[s].staged) /\ run[s].dir.inode = 0 /\ dbFile[run[s].staged].size = "full"
    BY <1>1, <2>1 DEF StagedApart
  <2>3. \A i : i = run[s].staged => Unshared(s, i)'
    BY <1>7, <2>1, <2>2
  <2>4. Unshared(s, run[s].staged)'
    BY <2>1, <2>3 DEF Unshared
  <2>5. run'[s].dir.inode = 0
    BY <1>2, <1>3, <2>2
  <2> QED BY <2>1, <2>2, <2>4, <2>5
<1>12. warmCopy' \in Db
  <2>1. run[r].old \in Db /\ NoDb \in Db
    BY <1>1 DEF RunRec, NoDb, Db
  <2>2. run[r].staged # 0 => g \in Db
    BY <1>1, <1>4 DEF g, File, Db, RunRec
  <2> QED BY <2>1, <2>2 DEF g
<1>13. Judged'
  <2>1. Judgement(j)
    BY DEF Judgement
  <2> QED BY <1>2, <2>1 DEF Judged, ToolInv
<1>14. run' \in [Runs -> RunRec]
  BY <1>1
<1> QED BY <1>2, <1>8, <1>10, <1>11, <1>12, <1>13, <1>14

\* The first rename.
LEMMA RotateStep ==
  ASSUME ToolInv, NEW r \in Runs, Rotate(r)
  PROVE  ToolInv'
<1> DEFINE j == [run[r] EXCEPT !.pc = "publish", !.old = warmCopy]
<1>1. ToolTypes /\ Publishing /\ LockHeld /\ CopyKept
  BY DEF ToolInv, LockInv
<1>2. /\ run' = [run EXCEPT ![r] = j] /\ run[r].pc = "rotate" /\ warmCopy' = NoDb
      /\ UNCHANGED <<period, dbFile, locked, kept, written, midway, runFaults>>
  BY DEF Rotate
<1>3. Warmer(run[r])
  BY <1>2 DEF Warmer
<1>4. /\ run[r] \in RunRec /\ Empty(run[r]) /\ ~run[r].aged /\ run[r].verdict = "none"
      /\ \A s \in Runs \ {r} : ~Warmer(run[s])
  BY <1>3, WarmerAlone
<1>5. j \in RunRec
  BY <1>1, <1>4 DEF RunRec, ToolTypes
<1>6. /\ j.pc = "publish" /\ j.staged = run[r].staged /\ j.old = warmCopy
      /\ j.print = run[r].print /\ j.dir = run[r].dir /\ j.verdict = run[r].verdict
  BY <1>4 DEF RunRec
<1>7. j.seeded = run[r].seeded /\ j.aged = run[r].aged
  BY <1>4 DEF RunRec
<1> HIDE DEF j
<1>8. Empty(j) /\ ~j.aged
  BY <1>4, <1>6, <1>7 DEF Empty
<1>9. /\ run' \in [Runs -> RunRec] /\ warmCopy' \in Db
      /\ run'[r] = j /\ \A s \in Runs \ {r} : run'[s] = run[s]
      /\ Generations' /\ StagedApart' /\ Directories' /\ Judged'
  BY <1>2, <1>3, <1>4, <1>5, <1>6, <1>8, WarmerMoves
<1>10. ToolTypes'
  BY <1>1, <1>2, <1>9 DEF ToolTypes
<1>11. LockHeld'
  <2>1. \A s \in Runs : Warmer(run'[s]) <=> Warmer(run[s])
    BY <1>2, <1>6, <1>9 DEF Warmer
  <2>2. \A s \in Runs : run'[s].pc = "copy" <=> run[s].pc = "copy"
    BY <1>2, <1>6, <1>9
  <2> QED BY <1>1, <1>2, <2>1, <2>2 DEF LockHeld, NoLock
<1>12. Publishing'
  BY <1>1, <1>2, <1>6, <1>9 DEF Publishing, NoDb
<1>13. CopyKept'
  <2> SUFFICES ASSUME kept, ~midway
      PROVE  \E s \in Runs : run'[s].pc = "publish" /\ run'[s].old # NoDb
    BY <1>2 DEF CopyKept, NoDb
  <2>1. ~\E s \in Runs : run[s].pc = "publish"
    BY <1>2, <1>4 DEF Warmer
  <2>2. warmCopy # NoDb
    BY <1>1, <2>1 DEF CopyKept
  <2> QED BY <1>6, <1>9, <2>2
<1> QED BY <1>9, <1>10, <1>11, <1>12, <1>13 DEF ToolInv, LockInv

\* A publication that is given up: the warmer goes on with nothing staged.
LEMMA Aborted ==
  ASSUME ToolInv, NEW r \in Runs, Warmer(run[r]), NEW j \in RunRec,
         run' = [run EXCEPT ![r] = j], Unlock(r),
         UNCHANGED <<period, dbFile, warmCopy, kept, written>>, runFaults' \in Nat,
         midway' \in BOOLEAN, midway => midway', run[r].pc = "publish" => midway',
         j.pc = "isolate", j.staged = 0, j.old = NoDb, j.print = run[r].print,
         j.dir = run[r].dir, j.verdict = run[r].verdict,
         j.seeded = run[r].seeded, j.aged = run[r].aged
  PROVE  ToolInv'
<1>1. /\ run \in [Runs -> RunRec] /\ Empty(run[r]) /\ ~run[r].aged
      /\ run[r].verdict = "none"
  BY WarmerAlone DEF ToolInv, LockInv, ToolTypes
<1>2. Empty(j) /\ ~j.aged /\ j.print = <<>>
  BY <1>1 DEF Empty
<1>3. run'[r] = j
  BY <1>1
<1>4. Empty(run[r])' /\ ~run'[r].aged /\ run'[r].pc = "isolate"
  BY <1>2, <1>3 DEF Empty, NoDb
<1>5. Directory(r)'
  BY <1>4 DEF Directory
<1>6. Judgement(j)
  BY <1>1 DEF Judgement
<1>7. locked' = [locked EXCEPT ![r] = "no"]
  BY DEF Unlock
<1> QED BY <1>2, <1>5, <1>6, <1>7, Released

\* The first rename fails.
LEMMA RotateFailsStep ==
  ASSUME ToolInv, NEW r \in Runs, RotateFails(r)
  PROVE  ToolInv'
<1> DEFINE j == [run[r] EXCEPT !.pc = "isolate", !.staged = 0]
<1>1. ToolTypes /\ run[r] \in RunRec /\ Publishing
  BY DEF ToolInv, LockInv, ToolTypes
<1>2. /\ run' = [run EXCEPT ![r] = j] /\ Unlock(r) /\ run[r].pc = "rotate"
      /\ UNCHANGED <<period, dbFile, warmCopy, kept, written, midway>>
  BY DEF RotateFails
<1>3. j \in RunRec
  BY <1>1 DEF RunRec
<1>4. /\ j.pc = "isolate" /\ j.staged = 0 /\ j.old = run[r].old
      /\ j.print = run[r].print /\ j.dir = run[r].dir /\ j.verdict = run[r].verdict
  BY <1>1 DEF RunRec
<1>5. j.seeded = run[r].seeded /\ j.aged = run[r].aged
  BY <1>1 DEF RunRec
<1> HIDE DEF j
<1>6. Warmer(run[r]) /\ run[r].old = NoDb
  BY <1>1, <1>2 DEF Warmer, Publishing
<1>7. runFaults' \in Nat
  BY <1>1 DEF RotateFails, RunFault, ToolTypes
<1>8. midway' \in BOOLEAN /\ (midway => midway') /\ (run[r].pc = "publish" => midway')
  BY <1>1, <1>2 DEF ToolTypes
<1> QED BY <1>2, <1>3, <1>4, <1>5, <1>6, <1>7, <1>8, Aborted

\* The second one fails, and the rename back.
LEMMA RollbackFailsStep ==
  ASSUME ToolInv, NEW r \in Runs, RollbackFails(r)
  PROVE  ToolInv'
<1> DEFINE j == [run[r] EXCEPT !.pc = "isolate", !.staged = 0, !.old = NoDb]
<1>1. ToolTypes /\ run[r] \in RunRec
  BY DEF ToolInv, LockInv, ToolTypes
<1>2. /\ run' = [run EXCEPT ![r] = j] /\ Unlock(r) /\ run[r].pc = "publish"
      /\ UNCHANGED <<period, dbFile, warmCopy, kept, written>>
  BY DEF RollbackFails
<1>3. j \in RunRec
  BY <1>1 DEF RunRec, NoDb, Db
<1>4. /\ j.pc = "isolate" /\ j.staged = 0 /\ j.old = NoDb
      /\ j.print = run[r].print /\ j.dir = run[r].dir /\ j.verdict = run[r].verdict
  BY <1>1 DEF RunRec
<1>5. j.seeded = run[r].seeded /\ j.aged = run[r].aged
  BY <1>1 DEF RunRec
<1> HIDE DEF j
<1>6. Warmer(run[r])
  BY <1>2 DEF Warmer
<1>7. runFaults' \in Nat
  BY <1>1 DEF RollbackFails, RunFault, ToolTypes
<1>8. midway' = TRUE
  BY DEF RollbackFails
<1> QED BY <1>2, <1>3, <1>4, <1>5, <1>6, <1>7, <1>8, Aborted

\* The publication ends: the staged generation is published, or the one that
\* was moved aside is put back.
LEMMA Published ==
  ASSUME ToolInv, NEW r \in Runs, run[r].pc = "publish",
         run' = [run EXCEPT ![r] = [run[r] EXCEPT !.pc = "isolate", !.staged = 0, !.old = NoDb]],
         Unlock(r), UNCHANGED <<period, dbFile, written, midway>>, runFaults' \in Nat,
         \/ warmCopy' = run[r].old /\ kept' = kept
         \/ warmCopy' = [inode |-> run[r].staged, meta |-> dbFile[run[r].staged].version] /\ kept' = TRUE
  PROVE  ToolInv'
<1> DEFINE j == [run[r] EXCEPT !.pc = "isolate", !.staged = 0, !.old = NoDb]
<1>1. ToolTypes /\ Publishing /\ LockHeld /\ CopyKept
  BY DEF ToolInv, LockInv
<1>2. run' = [run EXCEPT ![r] = j] /\ locked' = [locked EXCEPT ![r] = "no"]
  BY DEF Unlock
<1>3. Warmer(run[r])
  BY DEF Warmer
<1>4. /\ run[r] \in RunRec /\ Empty(run[r]) /\ ~run[r].aged /\ run[r].verdict = "none"
      /\ \A s \in Runs \ {r} : ~Warmer(run[s]) /\ locked[s] = "no"
  BY <1>3, WarmerAlone
<1>5. j \in RunRec
  BY <1>4 DEF RunRec, NoDb, Db
<1>6. /\ j.pc = "isolate" /\ j.staged = 0 /\ j.old = NoDb
      /\ j.print = run[r].print /\ j.dir = run[r].dir /\ j.verdict = run[r].verdict
  BY <1>4 DEF RunRec
<1>7. j.seeded = run[r].seeded /\ j.aged = run[r].aged
  BY <1>4 DEF RunRec
<1> HIDE DEF j
<1>8. Empty(j) /\ ~j.aged
  BY <1>4, <1>6, <1>7 DEF Empty
<1>9. run[r].staged # 0 /\ warmCopy = NoDb
  BY <1>1 DEF Publishing
<1>10. /\ run' \in [Runs -> RunRec] /\ warmCopy' \in Db
       /\ run'[r] = j /\ \A s \in Runs \ {r} : run'[s] = run[s]
       /\ Generations' /\ StagedApart' /\ Directories' /\ Judged'
  BY <1>2, <1>3, <1>4, <1>5, <1>6, <1>8, <1>9, WarmerMoves
<1>11. kept' \in BOOLEAN
  BY <1>1 DEF ToolTypes
<1>12. ToolTypes'
  BY <1>1, <1>2, <1>10, <1>11 DEF ToolTypes
<1>13. locked'[r] = "no" /\ \A s \in Runs \ {r} : locked'[s] = locked[s]
  BY <1>1, <1>2 DEF ToolTypes
<1>14. LockHeld'
  <2>1. \A s \in Runs : locked'[s] = "exclusive" <=> Warmer(run'[s])
    BY <1>1, <1>6, <1>10, <1>13 DEF LockHeld, Warmer
  <2>2. \A s \in Runs : locked'[s] = "shared" <=> run'[s].pc = "copy"
    BY <1>1, <1>6, <1>10, <1>13 DEF LockHeld
  <2>3. \A s \in Runs : locked'[s] # "exclusive"
    BY <1>4, <1>13
  <2> QED BY <2>1, <2>2, <2>3 DEF LockHeld
<1>15. Publishing'
  <2>1. \A s \in Runs : run'[s].pc # "publish"
    BY <1>4, <1>6, <1>10 DEF Warmer
  <2> QED BY <1>1, <1>6, <1>10, <2>1 DEF Publishing, NoDb
<1>16. CopyKept'
  <2> SUFFICES ASSUME kept', ~midway PROVE warmCopy' # NoDb
    BY DEF CopyKept, NoDb
  <2>1. CASE warmCopy' = run[r].old /\ kept' = kept
    <3>1. \A s \in Runs : run[s].pc = "publish" => s = r
      BY <1>4 DEF Warmer
    <3>2. run[r].old # NoDb
      BY <1>1, <1>9, <2>1, <3>1 DEF CopyKept
    <3> QED BY <2>1, <3>2
  <2>2. CASE warmCopy' = [inode |-> run[r].staged, meta |-> dbFile[run[r].staged].version]
    BY <1>9, <2>2 DEF NoDb
  <2> QED BY <2>1, <2>2
<1> QED BY <1>10, <1>12, <1>14, <1>15, <1>16 DEF ToolInv, LockInv

\* The second rename, and its failure.
LEMMA PublishStep ==
  ASSUME ToolInv, NEW r \in Runs, Publish(r) \/ PublishFails(r)
  PROVE  ToolInv'
<1>1. runFaults \in Nat
  BY DEF ToolInv, LockInv, ToolTypes
<1>2. CASE Publish(r)
  BY <1>1, <1>2, Published DEF Publish
<1>3. CASE PublishFails(r)
  <2>1. runFaults' \in Nat
    BY <1>1, <1>3 DEF PublishFails, RunFault
  <2>2. /\ run[r].pc = "publish" /\ warmCopy' = run[r].old /\ Unlock(r)
        /\ run' = [run EXCEPT ![r] = [run[r] EXCEPT !.pc = "isolate", !.staged = 0, !.old = NoDb]]
        /\ UNCHANGED <<period, dbFile, kept, written, midway>>
    BY <1>3 DEF PublishFails
  <2> QED BY <2>1, <2>2, Published
<1> QED BY <1>2, <1>3

-----------------------------------------------------------------------------
(* The update in place.                                                    *)

\* A run whose steps so far left the lock, the staging directory and the
\* published copy alone: what remains is the database files.
LEMMA WroteFile ==
  ASSUME ToolInv, NEW r \in Runs, NEW j \in RunRec,
         run' \in [Runs -> RunRec], dbFile' \in Seq(File),
         run'[r] = j, \A s \in Runs \ {r} : run'[s] = run[s],
         Generations', StagedApart', \A s \in Runs \ {r} : Directory(s)', Directory(r)', Judgement(j),
         UNCHANGED <<period, warmCopy, locked, kept, midway, runFaults>>, written' \in BOOLEAN,
         run[r].pc \in {"tool", "updating"}, j.pc \in {"updating", "scan"},
         j.staged = 0, j.old = NoDb
  PROVE  ToolInv'
<1>1. ToolTypes /\ Publishing /\ LockHeld /\ CopyKept
  BY DEF ToolInv, LockInv
<1>2. ToolTypes'
  BY <1>1 DEF ToolTypes
<1>3. LockHeld'
  <2>1. \A s \in Runs : Warmer(run'[s]) <=> Warmer(run[s])
    BY DEF Warmer
  <2>2. \A s \in Runs : run'[s].pc = "copy" <=> run[s].pc = "copy"
    OBVIOUS
  <2> QED BY <1>1, <2>1, <2>2 DEF LockHeld, NoLock
<1>4. Publishing'
  BY <1>1 DEF Publishing, NoDb
<1>5. CopyKept'
  <2>1. \A s \in Runs : run[s].pc = "publish" => run'[s] = run[s]
    OBVIOUS
  <2> QED BY <1>1, <2>1 DEF CopyKept, NoDb
<1>6. Directories' /\ Judged'
  BY DEF Directories, Judged, ToolInv
<1> QED BY <1>2, <1>3, <1>4, <1>5, <1>6 DEF ToolInv, LockInv

\* Trivy starts to bring its database up to date.
LEMMA UpdateDbStep ==
  ASSUME ToolInv, NEW r \in Runs, UpdateDb(r)
  PROVE  ToolInv'
<1> DEFINE i == IF run[r].dir.inode # 0 THEN run[r].dir.inode ELSE Len(dbFile) + 1
           f == [size |-> "part", version |-> period]
           d == [run[r].dir EXCEPT !.inode = i]
           j == [run[r] EXCEPT !.pc = "updating", !.dir = d]
<1>1. ToolTypes /\ run[r] \in RunRec /\ Directory(r) /\ Judgement(run[r]) /\ Publishing /\ Generations
      /\ Len(dbFile) \in Nat /\ period \in Nat
  BY DEF ToolInv, LockInv, ToolTypes, Directories, Judged
<1>2. /\ run' = [run EXCEPT ![r] = j] /\ run[r].pc = "tool" /\ ~run[r].seeded
      /\ UNCHANGED <<period, warmCopy, locked, kept, midway, runFaults>>
      /\ PathsFor(run[r].tool, run[r].diff, run[r].full) # {} /\ UsesDb(run[r].tool)
  BY <1>1 DEF UpdateDb, RunRec, ToolTypes
<1>3. /\ dbFile' = IF i > Len(dbFile) THEN Append(dbFile, f) ELSE [dbFile EXCEPT ![i] = f]
      /\ written' = (written \/ run[r].dir.inode # 0)
  BY DEF UpdateDb
<1>4. (Empty(run[r]) \/ Linked(run[r])) /\ ~run[r].aged
  BY <1>1, <1>2 DEF Directory
<1>5. i \in Nat /\ i # 0 /\ (run[r].dir.inode = 0 => i = Len(dbFile) + 1)
      /\ (run[r].dir.inode # 0 => i = run[r].dir.inode)
  BY <1>1 DEF RunRec, Db
<1>6. f \in File /\ f.version = period /\ f.version <= period
  BY <1>1 DEF File
<1> HIDE DEF i, f
<1>7. d \in Db /\ d.inode = i /\ d.meta = run[r].dir.meta
  BY <1>1, <1>5 DEF RunRec, Db
<1> HIDE DEF d
<1>8. j \in RunRec
  BY <1>1, <1>7 DEF RunRec
<1>9. /\ j.pc = "updating" /\ j.staged = run[r].staged /\ j.old = run[r].old
      /\ j.print = run[r].print /\ j.dir = d /\ j.verdict = run[r].verdict
      /\ j.tool = run[r].tool /\ j.diff = run[r].diff
  BY <1>1 DEF RunRec
<1>10. j.seeded = run[r].seeded /\ j.aged = run[r].aged /\ j.full = run[r].full
  BY <1>1 DEF RunRec
<1> HIDE DEF j
<1>11. run[r].staged = 0 /\ run[r].old = NoDb
  BY <1>1, <1>2 DEF Publishing
<1>12. Judgement(j)
  BY <1>1, <1>2, <1>9, <1>10 DEF Judgement
<1>13. written' \in BOOLEAN
  BY <1>3
<1>14. CASE run[r].dir.inode # 0
  <2>1. Linked(run[r]) /\ i = run[r].dir.inode
    BY <1>4, <1>5, <1>14 DEF Empty, NoDb
  <2>2. run[r].dir \in Known /\ Whole(run[r].dir)
    BY <2>1, LinkedIsWhole
  <2>3. i \in 1..Len(dbFile)
    BY <2>1, <2>2 DEF Whole
  <2>4. dbFile' = [dbFile EXCEPT ![i] = f]
    BY <1>1, <1>3, <2>3
  <2>5. written'
    BY <1>3, <1>14
  <2>6. run[r].dir.meta < period
    BY <1>2, <2>1 DEF Linked
  <2>7. \A e \in Known : e.inode = i => e.meta < period /\ written'
    BY <1>1, <1>5, <2>1, <2>2, <2>5, <2>6 DEF Generations
  <2>8. j.dir.inode = i
    BY <1>7, <1>9
  <2>9. /\ run' \in [Runs -> RunRec] /\ dbFile' \in Seq(File)
        /\ run'[r] = j /\ \A s \in Runs \ {r} : run'[s] = run[s]
        /\ Generations' /\ StagedApart'
        /\ \A s \in Runs \ {r} : Directory(s)'
    BY <1>2, <1>6, <1>8, <1>9, <1>11, <2>1, <2>3, <2>4, <2>5, <2>7, <2>8, FileWritten, ZenonT(60)
  <2>10. run[r].print # <<>> /\ run[r].print[1] = i /\ run[r].print[3] = run[r].dir.meta
    BY <2>1 DEF Linked, LinkOf
  <2>11. /\ run'[r].pc = "updating" /\ run'[r].dir.inode # 0 /\ run'[r].print # <<>>
         /\ run'[r].print[1] = run'[r].dir.inode /\ run'[r].print[3] < period'
         /\ run'[r].print[3] = run'[r].dir.meta /\ UsesDb(run'[r].tool)
    BY <1>2, <1>5, <1>7, <1>9, <2>6, <2>9, <2>10
  <2>12. ~run'[r].seeded /\ ~run'[r].aged
    BY <1>2, <1>4, <1>10, <2>9
  <2>13. Refreshed(r)'
    BY <2>5, <2>11, <2>12 DEF Refreshed
  <2>14. Directory(r)'
    BY <2>11, <2>12, <2>13 DEF Directory
  <2> QED BY <1>2, <1>8, <1>9, <1>11, <1>12, <1>13, <2>9, <2>14, WroteFile
<1>15. CASE run[r].dir.inode = 0
  <2>1. Empty(run[r]) /\ i = Len(dbFile) + 1
    BY <1>4, <1>5, <1>15 DEF Linked
  <2>2. dbFile' = Append(dbFile, f) /\ i > Len(dbFile)
    BY <1>1, <1>3, <2>1
  <2>3. UNCHANGED written
    <3>1. written \in BOOLEAN
      BY <1>1 DEF ToolTypes
    <3> QED BY <1>3, <1>15, <3>1
  <2>4. j.dir.inode = Len(dbFile) + 1 /\ run[r].print = <<>> /\ j.print = <<>>
    BY <1>7, <1>9, <2>1 DEF Empty
  <2>5. /\ run' \in [Runs -> RunRec] /\ dbFile' \in Seq(File)
        /\ run'[r] = j /\ \A s \in Runs \ {r} : run'[s] = run[s]
        /\ Generations' /\ StagedApart'
        /\ \A s \in Runs \ {r} : Directory(s)'
        /\ \A k : k = Len(dbFile) + 1 => Unshared(r, k)'
    BY <1>2, <1>6, <1>8, <1>9, <1>11, <2>2, <2>3, <2>4, FileAdded
  <2>6. /\ run'[r].pc = "updating" /\ run'[r].dir.inode = i /\ run'[r].dir.inode # 0
        /\ run'[r].print = <<>> /\ UsesDb(run'[r].tool)
    BY <1>2, <1>5, <1>7, <1>9, <2>4, <2>5
  <2>7. ~run'[r].seeded /\ ~run'[r].aged
    BY <1>2, <1>4, <1>10, <2>5
  <2>8. Unshared(r, run[r].dir.inode)'
    BY <2>1, <2>5, <2>6 DEF Unshared
  <2>9. Refreshed(r)'
    BY <2>6, <2>7, <2>8 DEF Refreshed
  <2>10. Directory(r)'
    BY <2>6, <2>7, <2>9 DEF Directory
  <2> QED BY <1>2, <1>8, <1>9, <1>11, <1>12, <1>13, <2>5, <2>10, WroteFile
<1> QED BY <1>14, <1>15

\* The update is complete, and the run reads what it wrote.
LEMMA UpdatedDbStep ==
  ASSUME ToolInv, NEW r \in Runs, UpdatedDb(r)
  PROVE  ToolInv'
<1> DEFINE i == run[r].dir.inode
           f == [size |-> "full", version |-> period]
           d == [run[r].dir EXCEPT !.meta = period]
           j == [run[r] EXCEPT !.pc = "scan", !.dir = d, !.saw = <<i, f>>]
<1>1. ToolTypes /\ run[r] \in RunRec /\ Directory(r) /\ Judgement(run[r]) /\ Publishing /\ Generations
      /\ period \in Nat
  BY DEF ToolInv, LockInv, ToolTypes, Directories, Judged
<1>2. /\ run' = [run EXCEPT ![r] = j] /\ run[r].pc = "updating"
      /\ UNCHANGED <<period, warmCopy, locked, kept, written, midway, runFaults>>
  BY <1>1 DEF UpdatedDb, RunRec, ToolTypes
<1>3. /\ Refreshed(r) /\ UsesDb(run[r].tool) /\ ~run[r].aged
  BY <1>1, <1>2 DEF Directory
<1>4. i \in Nat /\ i # 0 /\ ~run[r].seeded
  BY <1>1, <1>3 DEF Refreshed, RunRec, Db
<1>5. dbFile' = [dbFile EXCEPT ![i] = f]
  BY <1>4 DEF UpdatedDb
<1>6. i \in 1..Len(dbFile)
  <2>1. i \in 0..Len(dbFile) /\ Len(dbFile) \in Nat
    BY <1>1, DirsInRange DEF ToolTypes
  <2> QED BY <1>4, <2>1
<1>7. f \in File /\ f.version = period
  BY <1>1 DEF File
<1>8. \A e \in Known : e.inode = i => e.meta < period /\ written'
  <2>1. CASE run[r].print = <<>>
    BY <1>3, <2>1 DEF Refreshed, Unshared
  <2>2. CASE run[r].print # <<>>
    <3>1. LinkOf(run[r]) \in Known /\ LinkOf(run[r]).inode = i /\ LinkOf(run[r]).meta < period
      BY <1>3, <2>2, LinkIsKnown DEF LinkOf, Refreshed
    <3>2. written'
      BY <1>2, <1>3, <2>2 DEF Refreshed
    <3> QED BY <1>1, <1>4, <3>1, <3>2 DEF Generations
  <2> QED BY <2>1, <2>2
<1>9. <<i, f>> \in {<<>>} \cup (Nat \X File) /\ f = [size |-> "full", version |-> period]
  BY <1>4, <1>7
<1> HIDE DEF f
<1>10. d \in Db /\ d.inode = i /\ d.meta = period
  BY <1>1 DEF RunRec, Db
<1> HIDE DEF d, i
<1>11. j \in RunRec
  BY <1>1, <1>9, <1>10, ZenonT(60) DEF RunRec
<1>12. /\ j.pc = "scan" /\ j.staged = run[r].staged /\ j.old = run[r].old
       /\ j.print = run[r].print /\ j.dir = d /\ j.saw = <<i, f>> /\ j.verdict = run[r].verdict
       /\ j.tool = run[r].tool /\ j.diff = run[r].diff
  BY <1>1 DEF RunRec
<1>13. j.seeded = run[r].seeded /\ j.aged = run[r].aged /\ j.full = run[r].full
  BY <1>1 DEF RunRec
<1> HIDE DEF j
<1>14. run[r].staged = 0 /\ run[r].old = NoDb
  BY <1>1, <1>2 DEF Publishing
<1>15. Judgement(j)
  BY <1>1, <1>2, <1>12, <1>13 DEF Judgement
<1>16. written' \in BOOLEAN /\ (written => written')
  BY <1>1, <1>2 DEF ToolTypes
<1>17. run[r].dir.inode = i /\ j.dir.inode = i
  BY <1>10, <1>12 DEF i
<1>18. /\ run' \in [Runs -> RunRec] /\ dbFile' \in Seq(File)
       /\ run'[r] = j /\ \A s \in Runs \ {r} : run'[s] = run[s]
       /\ dbFile'[i] = f
       /\ Generations' /\ StagedApart'
       /\ \A s \in Runs \ {r} : Directory(s)'
       /\ \A k : k = i /\ Unshared(r, k) => Unshared(r, k)'
  <2>1. j.staged = 0 /\ run[r].staged = 0 /\ j.old = run[r].old /\ j.print = run[r].print
    BY <1>12, <1>14
  <2>2. ASSUME NEW k, k = i
        PROVE  /\ run' \in [Runs -> RunRec] /\ dbFile' \in Seq(File)
               /\ run'[r] = j /\ \A s \in Runs \ {r} : run'[s] = run[s]
               /\ dbFile'[k] = f
               /\ Generations' /\ StagedApart'
               /\ \A s \in Runs \ {r} : Directory(s)'
               /\ Unshared(r, k) => Unshared(r, k)'
    <3>1. /\ k \in 1..Len(dbFile) /\ dbFile' = [dbFile EXCEPT ![k] = f]
          /\ j.dir.inode = k /\ run[r].dir.inode = k
      BY <1>5, <1>6, <1>17, <2>2
    <3>2. \A e \in Known : e.inode = k => e.meta < period /\ written'
      BY <1>8, <2>2
    <3>3. UNCHANGED <<period, warmCopy>> /\ run' = [run EXCEPT ![r] = j]
      BY <1>2
    <3> QED BY <1>7, <1>11, <1>16, <2>1, <3>1, <3>2, <3>3, FileWritten
  <2> QED BY <2>2
<1>19. /\ run'[r].pc = "scan" /\ run'[r].dir.inode = i /\ run'[r].dir.meta = period'
       /\ run'[r].print = run[r].print /\ UsesDb(run'[r].tool)
       /\ run'[r].saw = <<i, f>>
  BY <1>2, <1>3, <1>10, <1>12, <1>18
<1>20. ~run'[r].seeded /\ ~run'[r].aged
  BY <1>3, <1>4, <1>13, <1>18
<1>21. run'[r].saw = <<run'[r].dir.inode, [size |-> "full", version |-> run'[r].dir.meta]>>
  BY <1>2, <1>9, <1>19
<1>22. Refreshed(r)' /\ (run'[r].print # <<>> => run'[r].print[3] < run'[r].dir.meta)
  <2>1. CASE run[r].print = <<>>
    <3>1. Unshared(r, i)
      BY <1>3, <1>17, <2>1 DEF Refreshed
    <3>2. Unshared(r, run[r].dir.inode)'
      BY <1>18, <1>19, <3>1 DEF Unshared
    <3> QED BY <1>4, <1>17, <1>19, <1>20, <2>1, <3>2 DEF Refreshed
  <2>2. CASE run[r].print # <<>>
    <3>1. written /\ run[r].print[1] = i /\ run[r].print[3] < period
      BY <1>3, <1>17, <2>2 DEF Refreshed
    <3> QED BY <1>2, <1>4, <1>17, <1>19, <1>20, <2>2, <3>1 DEF Refreshed
  <2> QED BY <2>1, <2>2
<1>23. run'[r].print = <<>> => dbFile'[run'[r].dir.inode] = run'[r].saw[2]
  BY <1>18, <1>19
<1>24. Read(r)'
  BY <1>21, <1>22, <1>23 DEF Read
<1>25. Directory(r)'
  BY <1>19, <1>20, <1>24 DEF Directory
<1> QED BY <1>2, <1>11, <1>12, <1>14, <1>15, <1>16, <1>18, <1>25, WroteFile

-----------------------------------------------------------------------------
(* The sweep and the clock.                                                *)

\* Of a run the sweep takes away at most the directory of one that is too old,
\* and isolating moves a run on.
SweptOrMoved(j, k) ==
  \/ k = j
  \/ /\ \/ j.pc = "isolate" /\ k.pc \in {"seed", "tool"} /\ k.dir = j.dir
        \/ j.aged /\ k.pc = j.pc /\ k.dir = NoDb
     /\ k.tool = j.tool /\ k.diff = j.diff /\ k.staged = j.staged /\ k.old = j.old
     /\ k.print = j.print /\ k.saw = j.saw /\ k.verdict = j.verdict
     /\ k.full = j.full
     /\ k.seeded = j.seeded
     /\ k.aged = j.aged
     /\ k.fact = j.fact

\* A sweep, of whichever runs.
LEMMA AllSwept ==
  ASSUME ToolInv, run' \in [Runs -> RunRec], \A s \in Runs : SweptOrMoved(run[s], run'[s]),
         UNCHANGED <<period, dbFile, warmCopy, locked, kept, written, midway, runFaults>>
  PROVE  ToolInv'
<1>1. ToolTypes /\ LockHeld /\ Publishing /\ CopyKept /\ Generations /\ StagedApart
      /\ Directories /\ Judged /\ period \in Nat
  BY DEF ToolInv, LockInv, ToolTypes
<1>2. ToolTypes'
  BY <1>1 DEF ToolTypes
<1>3. LockHeld'
  <2>1. \A s \in Runs : Warmer(run'[s]) <=> Warmer(run[s])
    BY DEF Warmer, SweptOrMoved
  <2>2. \A s \in Runs : run'[s].pc = "copy" <=> run[s].pc = "copy"
    BY DEF SweptOrMoved
  <2> QED BY <1>1, <2>1, <2>2 DEF LockHeld, NoLock
<1>4. Publishing'
  BY <1>1 DEF Publishing, NoDb, SweptOrMoved
<1>5. CopyKept'
  <2>1. \A s \in Runs : run[s].pc = "publish" => run'[s].pc = "publish" /\ run'[s].old = run[s].old
    BY DEF SweptOrMoved
  <2> QED BY <1>1, <2>1 DEF CopyKept, NoDb
<1>6. Known' = Known
  <2>1. \A s \in Runs : run'[s].old = run[s].old /\ run'[s].print = run[s].print
    BY DEF SweptOrMoved
  <2>2. {run'[s].old : s \in Runs} = {run[s].old : s \in Runs}
    BY <2>1
  <2>3. {LinkOf(run'[s]) : s \in {t \in Runs : run'[t].print # <<>>}}
        = {LinkOf(run[s]) : s \in {t \in Runs : run[t].print # <<>>}}
    BY <2>1 DEF LinkOf
  <2> QED BY <2>2, <2>3 DEF Known
<1>7. Generations'
  BY <1>1, <1>6, GenerationsKept
<1>8. \A s \in Runs : /\ run'[s].dir.inode \in {0, run[s].dir.inode}
                      /\ run'[s].staged = run[s].staged
  BY DEF SweptOrMoved, NoDb
<1>9. \A s \in Runs : \A i : Unshared(s, i) => Unshared(s, i)'
  BY <1>6, <1>8 DEF Unshared
<1>10. StagedApart'
  <2> SUFFICES ASSUME NEW s \in Runs, run'[s].staged # 0
      PROVE  /\ Unshared(s, run[s].staged)' /\ run'[s].dir.inode = 0
             /\ dbFile'[run'[s].staged].size = "full"
    BY DEF StagedApart
  <2>1. Unshared(s, run[s].staged) /\ run[s].dir.inode = 0 /\ dbFile[run[s].staged].size = "full"
    BY <1>1, <1>8 DEF StagedApart
  <2>2. \A i : i = run[s].staged => Unshared(s, i)'
    BY <1>9, <2>1
  <2>3. Unshared(s, run[s].staged)'
    BY <1>8, <2>2 DEF Unshared
  <2> QED BY <1>8, <2>1, <2>3
<1>11. ASSUME NEW s \in Runs PROVE Directory(s)'
  <2>1. Directory(s) /\ SweptOrMoved(run[s], run'[s])
    BY <1>1 DEF Directories
  <2>2. CASE run'[s] = run[s]
    <3>1. run[s] \in RunRec /\ period <= period /\ \A i : Unshared(s, i) => Unshared(s, i)'
      BY <1>1, <1>9 DEF ToolTypes
    <3> QED BY <1>1, <2>1, <2>2, <3>1, DirectoryKept
  <2>3. CASE run'[s] # run[s] /\ run[s].pc = "isolate"
    <3>1. Empty(run[s]) /\ ~run[s].aged
      BY <2>1, <2>3 DEF Directory
    <3>2. run'[s].dir = NoDb /\ run'[s].print = <<>> /\ run'[s].pc \in {"seed", "tool"}
      BY <2>1, <2>3, <3>1 DEF Empty, SweptOrMoved
    <3>3. run'[s].seeded = run[s].seeded /\ run'[s].aged = run[s].aged
      BY <2>1, <2>3 DEF SweptOrMoved
    <3>4. ~run'[s].seeded /\ ~run'[s].aged
      BY <3>1, <3>3 DEF Empty
    <3>5. Empty(run[s])'
      BY <3>2, <3>4 DEF Empty, NoDb
    <3> QED BY <3>2, <3>4, <3>5 DEF Directory
  <2>4. CASE run'[s] # run[s] /\ run[s].pc # "isolate"
    <3>1. /\ run[s].aged /\ run'[s].aged /\ run'[s].pc = run[s].pc /\ run'[s].dir = NoDb
          /\ run'[s].tool = run[s].tool /\ run'[s].saw = run[s].saw
      BY <2>1, <2>4 DEF SweptOrMoved
    <3>2. run[s].pc \in {"idle", "warm", "lock", "download", "rotate", "publish", "isolate", "seed",
                         "copy", "tool", "updating", "scan", "done"}
      BY <1>1 DEF ToolTypes, RunRec
    <3>3. run[s].pc \in {"scan", "done"}
      BY <2>1, <3>1, <3>2 DEF Directory
    <3>4. /\ run'[s].pc \in {"scan", "done"}
          /\ run'[s].pc = "scan" /\ ~UsesDb(run'[s].tool) => run'[s].saw = <<>>
      BY <2>1, <3>1, <3>3 DEF Directory
    <3> QED BY <3>1, <3>4 DEF Directory, NoDb
  <2> QED BY <2>2, <2>3, <2>4
<1>12. Judged'
  BY <1>1 DEF Judged, Judgement, SweptOrMoved
<1> QED BY <1>2, <1>3, <1>4, <1>5, <1>7, <1>10, <1>11, <1>12 DEF ToolInv, LockInv, Directories

\* sweep_stale_run_caches, of one directory.
LEMMA SweptIsSwept ==
  ASSUME NEW s \in Runs, run[s] \in RunRec
  PROVE  Swept(s) \in RunRec /\ SweptOrMoved(run[s], Swept(s))
<1> DEFINE k == [run[s] EXCEPT !.dir = NoDb]
<1>1. k \in RunRec
  BY DEF RunRec, NoDb, Db
<1>2. /\ k.pc = run[s].pc /\ k.dir = NoDb /\ k.tool = run[s].tool /\ k.diff = run[s].diff
      /\ k.staged = run[s].staged /\ k.old = run[s].old /\ k.print = run[s].print
      /\ k.saw = run[s].saw /\ k.verdict = run[s].verdict
  BY DEF RunRec
<1>3. k.full = run[s].full /\ k.seeded = run[s].seeded /\ k.aged = run[s].aged /\ k.fact = run[s].fact
  BY DEF RunRec
<1> HIDE DEF k
<1>4. CASE run[s].aged
  <2>1. Swept(s) = k
    BY <1>4 DEF Swept, k
  <2> QED BY <1>1, <1>2, <1>3, <1>4, <2>1 DEF SweptOrMoved
<1>5. CASE ~run[s].aged
  BY <1>5 DEF Swept, SweptOrMoved
<1> QED BY <1>4, <1>5

\* The scheduled sweep.
LEMMA SweepCachesStep ==
  ASSUME ToolInv, SweepCaches
  PROVE  ToolInv'
<1>1. run \in [Runs -> RunRec] /\ run' = [s \in Runs |-> Swept(s)]
      /\ UNCHANGED <<period, dbFile, warmCopy, locked, kept, written, midway, runFaults>>
  BY DEF ToolInv, LockInv, ToolTypes, SweepCaches
<1>2. \A s \in Runs : run'[s] \in RunRec /\ SweptOrMoved(run[s], run'[s])
  BY <1>1, SweptIsSwept
<1>3. run' \in [Runs -> RunRec]
  <2>1. \A s \in Runs : Swept(s) \in RunRec
    BY <1>1, SweptIsSwept
  <2> QED BY <1>1, <2>1
<1> QED BY <1>1, <1>2, <1>3, AllSwept

\* The sweep that comes before a run's own directory.
LEMMA IsolateStep ==
  ASSUME ToolInv, NEW r \in Runs, Isolate(r)
  PROVE  ToolInv'
<1> DEFINE to == IF Seeds(run[r].tool) /\ warmCopy # NoDb THEN "seed" ELSE "tool"
           k == [run[r] EXCEPT !.pc = to]
           g == [s \in Runs |-> IF Isolated(run[r].tool) THEN Swept(s) ELSE run[s]]
<1>1. run \in [Runs -> RunRec] /\ run[r] \in RunRec /\ run[r].pc = "isolate" /\ run' = [g EXCEPT ![r] = k]
      /\ UNCHANGED <<period, dbFile, warmCopy, locked, kept, written, midway, runFaults>>
  BY DEF ToolInv, LockInv, ToolTypes, Isolate
<1>2. to \in {"seed", "tool"}
  OBVIOUS
<1> HIDE DEF to
<1>3. k \in RunRec
  BY <1>1, <1>2 DEF RunRec
<1>4. /\ k.pc = to /\ k.dir = run[r].dir /\ k.tool = run[r].tool /\ k.diff = run[r].diff
      /\ k.staged = run[r].staged /\ k.old = run[r].old /\ k.print = run[r].print
      /\ k.saw = run[r].saw /\ k.verdict = run[r].verdict
  BY <1>1 DEF RunRec
<1>5. k.full = run[r].full /\ k.seeded = run[r].seeded /\ k.aged = run[r].aged /\ k.fact = run[r].fact
  BY <1>1 DEF RunRec
<1> HIDE DEF k
<1>6. SweptOrMoved(run[r], k)
  BY <1>1, <1>2, <1>4, <1>5 DEF SweptOrMoved
<1>7. \A s \in Runs : g[s] \in RunRec /\ SweptOrMoved(run[s], g[s])
  <2> SUFFICES ASSUME NEW s \in Runs PROVE g[s] \in RunRec /\ SweptOrMoved(run[s], g[s])
    OBVIOUS
  <2>1. SweptOrMoved(run[s], run[s]) /\ run[s] \in RunRec
    BY <1>1 DEF SweptOrMoved
  <2>2. Swept(s) \in RunRec /\ SweptOrMoved(run[s], Swept(s))
    BY <2>1, SweptIsSwept
  <2>3. g[s] = Swept(s) \/ g[s] = run[s]
    OBVIOUS
  <2> QED BY <2>1, <2>2, <2>3
<1>8. DOMAIN g = Runs /\ g = [s \in Runs |-> g[s]]
  OBVIOUS
<1> HIDE DEF g
<1>9. g \in [Runs -> RunRec]
  BY <1>7, <1>8
<1>10. run' \in [Runs -> RunRec]
  BY <1>1, <1>3, <1>9
<1>11. \A s \in Runs : SweptOrMoved(run[s], run'[s])
  BY <1>1, <1>6, <1>7, <1>9
<1> QED BY <1>1, <1>10, <1>11, AllSwept

\* Time passes.
LEMMA PeriodPassesStep ==
  ASSUME ToolInv, PeriodPasses
  PROVE  ToolInv'
<1>1. ToolTypes /\ LockHeld /\ Publishing /\ CopyKept /\ Generations /\ StagedApart
      /\ Directories /\ Judged /\ period \in Nat /\ dbFile \in Seq(File)
  BY DEF ToolInv, LockInv, ToolTypes
<1>2. period' = period + 1 /\ period' \in Nat /\ period <= period'
      /\ UNCHANGED <<dbFile, warmCopy, locked, run, kept, written, midway, runFaults>>
  BY <1>1 DEF PeriodPasses
<1>3. ToolTypes'
  BY <1>1, <1>2 DEF ToolTypes
<1>4. LockHeld' /\ Publishing' /\ CopyKept'
  BY <1>1, <1>2 DEF LockHeld, NoLock, Publishing, CopyKept, NoDb
<1>5. Known' = Known
  BY <1>2 DEF Known, LinkOf
<1>6. \A d : Whole(d)' <=> Whole(d)
  BY <1>2 DEF Whole
<1>7. Generations'
  <2>1. \A i \in 1..Len(dbFile) : dbFile[i].version <= period'
    <3> SUFFICES ASSUME NEW i \in 1..Len(dbFile) PROVE dbFile[i].version <= period'
      OBVIOUS
    <3>1. dbFile[i] \in File /\ dbFile[i].version <= period
      BY <1>1 DEF Generations
    <3>2. dbFile[i].version \in Nat
      BY <3>1 DEF File
    <3> QED BY <1>1, <1>2, <3>1, <3>2
  <2> QED BY <1>1, <1>2, <1>5, <1>6, <2>1 DEF Generations, NoDb
<1>8. \A s \in Runs : \A i : Unshared(s, i)' <=> Unshared(s, i)
  BY <1>2, <1>5 DEF Unshared
<1>9. StagedApart'
  BY <1>1, <1>2, <1>8 DEF StagedApart
<1>10. ASSUME NEW s \in Runs PROVE Directory(s)'
  <2>1. Directory(s) /\ run[s] \in RunRec /\ run'[s] = run[s]
    BY <1>1, <1>2 DEF Directories, ToolTypes
  <2> QED BY <1>1, <1>2, <1>8, <2>1, DirectoryKept
<1>11. Judged'
  BY <1>1, <1>2 DEF Judged, Judgement
<1> QED BY <1>3, <1>4, <1>7, <1>9, <1>10, <1>11 DEF ToolInv, LockInv, Directories

-----------------------------------------------------------------------------
(* The inductive invariant.                                                *)

\* It holds at the start.
LEMMA ToolInvInit ==
  ASSUME RunsInit
  PROVE  ToolInv
<1>1. \A r \in Runs : run[r] = NewRun
  BY DEF RunsInit
<1>2. /\ period = 1 /\ locked = [r \in Runs |-> "no"] /\ run = [r \in Runs |-> NewRun]
      /\ runFaults = 0
  BY DEF RunsInit
<1>3. written = FALSE /\ midway = FALSE /\ kept \in BOOLEAN
  BY DEF RunsInit
<1>4. dbFile \in Seq(File) /\ warmCopy \in Db
  <2>1. CASE dbFile = <<>> /\ warmCopy = NoDb
    BY <2>1 DEF NoDb, Db
  <2>2. CASE dbFile = <<[size |-> "full", version |-> 1]>> /\ warmCopy = [inode |-> 1, meta |-> 1]
    BY <2>2 DEF Db, File
  <2> QED BY <2>1, <2>2 DEF RunsInit
<1>5. ToolTypes
  BY <1>2, <1>3, <1>4, NewRunType DEF ToolTypes
<1>6. LockHeld
  BY <1>1, <1>2, NewRunType DEF LockHeld, Warmer
<1>7. Publishing
  BY <1>1, NewRunType DEF Publishing
<1>8. CopyKept
  <2>1. CASE kept = FALSE
    BY <2>1 DEF CopyKept
  <2>2. CASE warmCopy = [inode |-> 1, meta |-> 1]
    BY <2>2 DEF CopyKept, NoDb
  <2> QED BY <2>1, <2>2 DEF RunsInit
<1>9. \A d \in Known : d = warmCopy \/ d = NoDb
  BY <1>1, NewRunType DEF Known
<1>10. Generations
  <2>1. CASE dbFile = <<>> /\ warmCopy = NoDb
    BY <1>9, <2>1 DEF Generations, NoDb
  <2>2. CASE dbFile = <<[size |-> "full", version |-> 1]>> /\ warmCopy = [inode |-> 1, meta |-> 1]
    <3>1. Len(dbFile) = 1 /\ dbFile[1].version = 1 /\ dbFile[1].size = "full"
      BY <2>2
    <3>2. warmCopy.inode = 1 /\ warmCopy.meta = 1 /\ NoDb.inode = 0
      BY <2>2 DEF NoDb
    <3>3. Whole(warmCopy)
      BY <3>1, <3>2 DEF Whole
    <3> QED BY <1>2, <1>9, <3>1, <3>2, <3>3 DEF Generations
  <2> QED BY <2>1, <2>2 DEF RunsInit
<1>11. StagedApart
  BY <1>1, NewRunType DEF StagedApart
<1>12. Directories
  BY <1>1, NewRunType DEF Directories, Directory
<1>13. Judged
  BY <1>1, NewRunType DEF Judged, Judgement
<1> QED BY <1>5, <1>6, <1>7, <1>8, <1>10, <1>11, <1>12, <1>13 DEF ToolInv, LockInv

\* Every step keeps it.
LEMMA ToolInvStep ==
  ASSUME ToolInv, [RunsNext]_runVars
  PROVE  ToolInv'
<1>1. ASSUME NEW r \in Runs, Warming(r) PROVE ToolInv'
  <2>1. CASE LookWarm(r)
    <3>1. /\ run[r].pc = "warm" /\ \E to \in {"lock", "isolate"} : To(r, to)
          /\ UNCHANGED <<period, dbFile, warmCopy, locked, kept, written, midway, runFaults>>
      BY <2>1 DEF LookWarm
    <3> QED BY <3>1, PcOnly
  <2>2. CASE LockTimeout(r)
    BY <2>2, PcOnly DEF LockTimeout
  <2> QED BY <1>1, <2>1, <2>2, LockWarmStep, DownloadStep, DownloadFailsStep, RotateStep, RotateFailsStep,
             PublishStep, RollbackFailsStep
      DEF Warming
<1>2. ASSUME NEW r \in Runs, Running(r) PROVE ToolInv'
  <2>1. CASE SeedTimeout(r)
    BY <2>1, PcOnly DEF SeedTimeout
  <2>2. CASE \E complaints \in {{}} \cup {{c} : c \in Complaints} : EndTool(r, complaints)
    BY <2>2, EndToolStep
  <2> QED BY <1>2, <2>1, <2>2, IsolateStep, IsolateFailsStep, LinkStep, CopyMetadataStep,
             NotApplicableStep, UpdateDbStep, UpdatedDbStep, StartToolStep
      DEF Running
<1>3. ASSUME NEW r \in Runs,
             \E tool \in RunTools, changed \in Diffs \cup {Checkout}, full \in BOOLEAN :
               BeginRun(r, tool, changed, full)
      PROVE  ToolInv'
  BY <1>3, BeginRunStep
<1>4. CASE UNCHANGED runVars
  <2>1. UNCHANGED <<period, dbFile, warmCopy, locked, kept, written, midway, runFaults>> /\ run' = run
    BY <1>4 DEF runVars
  <2>2. run \in [Runs -> RunRec]
    BY DEF ToolInv, LockInv, ToolTypes
  <2>3. \A s \in Runs : SweptOrMoved(run[s], run'[s])
    BY <2>1 DEF SweptOrMoved
  <2> QED BY <2>1, <2>2, <2>3, AllSwept
<1> QED BY <1>1, <1>2, <1>3, <1>4, KillRunStep, GrowOldStep, SweepCachesStep, PeriodPassesStep
    DEF RunsNext

\* So it always holds.
LEMMA ToolInvAlways ==
  RunsSpec => []ToolInv
<1>1. RunsInit => ToolInv
  BY ToolInvInit
<1>2. ToolInv /\ [RunsNext]_runVars => ToolInv'
  BY ToolInvStep
<1> QED BY <1>1, <1>2, PTL DEF RunsSpec

-----------------------------------------------------------------------------
(* The theorems.                                                           *)

(* Whatever else runs, warms, sweeps, is killed or fails at the same time, a
   run that is called healthy, and is not older than the sweep's limit, read a
   complete database in its grace that did not change while it was read, and
   had something to look at (_assess_trivy_run and _execute,
   scanners/runner.py 1715-1747, 1993-2039). *)
THEOREM HealthyMeansCheckedHolds ==
  RunsSpec => []HealthyMeansChecked
<1>1. ToolInv => HealthyMeansChecked
  BY DEF ToolInv, Judged, Judgement, HealthyMeansChecked
<1> QED BY <1>1, ToolInvAlways, PTL

(* The lock of _seed_trivy_cache and ensure_warm_trivy_db keeps a link and its
   metadata of one generation, however many warmers and seeders meet: as long
   as no run wrote through a link, a seeded directory's metadata is that of the
   file it links (scanners/runner.py 1235-1275, 1579-1590). *)
THEOREM SeededWholeHolds ==
  RunsSpec => []SeededWhole
<1>1. ToolInv => SeededWhole
  <2> SUFFICES ASSUME ToolInv, NEW r \in Runs, run[r].seeded, run[r].dir.inode # 0, ~written
      PROVE  run[r].dir.meta = dbFile[run[r].dir.inode].version
    BY DEF SeededWhole
  <2>1. Directory(r) /\ run[r] \in RunRec
    BY DEF ToolInv, LockInv, ToolTypes, Directories
  <2>2. run[r].pc \in {"idle", "warm", "lock", "download", "rotate", "publish", "isolate", "seed",
                       "copy", "tool", "updating", "scan", "done"}
    BY <2>1 DEF RunRec
  <2>3. run[r].dir # NoDb
    BY DEF NoDb
  <2>4. Linked(run[r])
    BY <2>1, <2>2, <2>3 DEF Directory, Empty, Refreshed, Read
  <2>5. Whole(run[r].dir)
    BY <2>4, LinkedIsWhole
  <2> QED BY <2>5 DEF Whole
<1> QED BY <1>1, ToolInvAlways, PTL

(* A published warm copy is never lost to a failing publication: it is missing
   only while a warmer replaces it, or after a worker died just then
   (scanners/runner.py 1509-1527). *)
THEOREM WarmCopyKeptHolds ==
  RunsSpec => []WarmCopyKept
<1>1. ToolInv => WarmCopyKept
  BY DEF ToolInv, LockInv, CopyKept, WarmCopyKept
<1> QED BY <1>1, ToolInvAlways, PTL

=============================================================================
