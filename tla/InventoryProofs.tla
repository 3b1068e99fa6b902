--------------------------- MODULE InventoryProofs ---------------------------
(***************************************************************************)
(* What holds of Inventory for every set of packages, lists and jobs,      *)
(* however their two-step commits interleave: no source that listed a      *)
(* package is forgotten, and nothing is cleared without an answer.         *)
(***************************************************************************)
EXTENDS Inventory, FiniteSetTheorems, SequenceTheorems, TLAPS

Sources == {"upload", "github"}

Row == [dep : Deps, type : {PackageType(s, d[2]) : s \in Sources, d \in Deps},
        sources : (SUBSET Sources) \ {{}}]

JobRec ==
  [op : {"none", "generate", "import", "upload", "check", "sync"},
   at : {"idle", "queued", "fetch", "read", "store", "clone", "aibom", "inventory", "ask", "clear",
         "stamp", "finish", "done"},
   status : {"none", "running", "completed", "failed"},
   list : Seq(Deps), seen : Seq(Row), ran : BOOLEAN, tries : Nat, ai : BOOLEAN,
   left : SUBSET Deps, asked : SUBSET Deps, bad : SUBSET Deps]

InvTypes ==
  /\ rows \in Seq(Row)
  /\ aiRow \in BOOLEAN
  /\ malware \in [DepKeys -> {"none", "OPEN", "REOPENED", "MITIGATED", "FALSE_POSITIVE"}]
  /\ job \in [Jobs -> JobRec]
  /\ steady \subseteq flaggedByOsv

\* What a check has an answer for and OSV named all along is among the bad.
Answered(k) ==
  /\ k.at \in {"ask", "clear", "stamp"} => (k.asked \ k.left) \cap steady \subseteq k.bad
  /\ k.at \in {"clear", "stamp"} => k.left = {}

\* The rows a job read are still there, with at least the sources it read.
StillThere(k) ==
  k.at = "store" => \A i \in DOMAIN k.seen :
    /\ i \in DOMAIN rows
    /\ k.seen[i].dep = rows[i].dep
    /\ k.seen[i].sources \subseteq rows[i].sources

InventoryInv ==
  /\ InvTypes
  /\ \A j \in Jobs : Answered(job[j]) /\ StillThere(job[j])
  /\ SourcesAreKept

-----------------------------------------------------------------------------
(* Lemmas.                                                                 *)

\* A new job.
LEMMA NewJobType ==
  NewJob \in JobRec /\ NewJob.at = "idle"
<1>1. <<>> \in Seq(Deps) /\ <<>> \in Seq(Row) /\ 0 \in Nat
  OBVIOUS
<1>2. FALSE \in BOOLEAN /\ {} \in SUBSET Deps
  OBVIOUS
<1> QED BY <1>1, <1>2 DEF NewJob, JobRec

\* One job moves, and leaves the inventory alone.
LEMMA JobMoves ==
  ASSUME InventoryInv, NEW j \in Jobs, NEW k \in JobRec, job' = [job EXCEPT ![j] = k],
         UNCHANGED <<rows, told, flaggedByOsv, steady>>, aiRow' \in BOOLEAN,
         malware' \in [DepKeys -> {"none", "OPEN", "REOPENED", "MITIGATED", "FALSE_POSITIVE"}],
         Answered(k), StillThere(k)
  PROVE  InventoryInv'
<1>1. job \in [Jobs -> JobRec] /\ rows \in Seq(Row) /\ steady \subseteq flaggedByOsv
  BY DEF InventoryInv, InvTypes
<1>2. job'[j] = k /\ \A i \in Jobs \ {j} : job'[i] = job[i]
  BY <1>1
<1>3. job' \in [Jobs -> JobRec]
  BY <1>1
<1>4. InvTypes'
  BY <1>1, <1>3 DEF InvTypes
<1>5. \A i \in Jobs : Answered(job'[i]) /\ StillThere(job'[i])
  BY <1>2 DEF InventoryInv
<1>6. \A i \in Jobs : Answered(job[i])' /\ StillThere(job[i])'
  BY <1>5 DEF Answered, StillThere
<1>7. SourcesAreKept'
  BY DEF InventoryInv, SourcesAreKept
<1> QED BY <1>4, <1>6, <1>7 DEF InventoryInv

\* ... and goes where nothing is asked of it.
LEMMA JobElsewhere ==
  ASSUME InventoryInv, NEW j \in Jobs, NEW k \in JobRec, job' = [job EXCEPT ![j] = k],
         UNCHANGED <<rows, malware, told, flaggedByOsv, steady>>, aiRow' \in BOOLEAN,
         k.at \notin {"store", "ask", "clear", "stamp"}
  PROVE  InventoryInv'
<1>1. Answered(k) /\ StillThere(k)
  BY DEF Answered, StillThere
<1>2. malware' \in [DepKeys -> {"none", "OPEN", "REOPENED", "MITIGATED", "FALSE_POSITIVE"}]
  BY DEF InventoryInv, InvTypes
<1> QED BY <1>1, <1>2, JobMoves

\* A job that only changes its place.
LEMMA GotoIsMove ==
  ASSUME NEW j \in Jobs, job \in [Jobs -> JobRec],
         NEW at \in {"idle", "queued", "fetch", "read", "store", "clone", "aibom", "inventory", "ask",
                     "clear", "stamp", "finish", "done"},
         Goto(j, at)
  PROVE  \E k \in JobRec :
           /\ job' = [job EXCEPT ![j] = k] /\ k.at = at
           /\ k.left = job[j].left /\ k.asked = job[j].asked /\ k.bad = job[j].bad
           /\ k.seen = job[j].seen
<1> DEFINE k == [job[j] EXCEPT !.at = at]
<1>1. k \in JobRec
  BY ZenonT(60) DEF JobRec
<1>2. job' = [job EXCEPT ![j] = k]
  BY DEF Goto
<1>3. /\ k.at = at /\ k.left = job[j].left /\ k.asked = job[j].asked /\ k.bad = job[j].bad
      /\ k.seen = job[j].seen
  BY DEF JobRec
<1> QED BY <1>1, <1>2, <1>3

-----------------------------------------------------------------------------
(* Starting.                                                               *)

\* A request is taken.
LEMMA RequestStep ==
  ASSUME InventoryInv, NEW j \in Jobs, NEW op \in {"generate", "import", "upload", "check"}, Request(j, op)
  PROVE  InventoryInv'
<1>1. job \in [Jobs -> JobRec] /\ job[j] \in JobRec /\ aiRow \in BOOLEAN
  BY DEF InventoryInv, InvTypes
<1> DEFINE status == IF op = "generate" THEN "running" ELSE "none"
           at == CASE op = "generate" -> "queued" [] op = "import" -> "fetch"
                   [] op = "upload" -> "read" [] op = "check" -> "inventory"
<1>2. at \in {"queued", "fetch", "read", "inventory"} /\ status \in {"none", "running"}
  OBVIOUS
<1>3. PICK list \in IF op = "upload" THEN UploadLists \ {<<>>} ELSE {<<>>} :
         job' = [job EXCEPT ![j].op = op, ![j].list = list, ![j].status = status, ![j].at = at]
  BY DEF Request
<1>4. list \in Seq(Deps)
  <2>1. UploadLists \subseteq Seq(Deps) /\ <<>> \in Seq(Deps)
    BY InventoryAssumption
  <2> QED BY <1>3, <2>1
<1> DEFINE k == [job[j] EXCEPT !.op = op, !.list = list, !.status = status, !.at = at]
<1> HIDE DEF status, at
<1>5. k \in JobRec /\ k.at = at
  BY <1>1, <1>2, <1>4, ZenonT(60) DEF JobRec
<1>6. job' = [job EXCEPT ![j] = k]
  BY <1>1, <1>3
<1> HIDE DEF k
<1> QED BY <1>1, <1>2, <1>5, <1>6, JobElsewhere DEF Request

\* The sync of the dependency graph is queued, or the broker fails.
LEMMA QueueStep ==
  ASSUME InventoryInv, NEW j \in Jobs, QueueSync(j) \/ QueueFails(j)
  PROVE  InventoryInv'
<1>1. job \in [Jobs -> JobRec] /\ job[j] \in JobRec /\ aiRow \in BOOLEAN
  BY DEF InventoryInv, InvTypes
<1>2. CASE QueueSync(j)
  <2> DEFINE k == [job[j] EXCEPT !.op = "sync", !.at = "queued"]
  <2>1. k \in JobRec /\ k.at = "queued"
    BY <1>1 DEF JobRec
  <2>2. job' = [job EXCEPT ![j] = k]
    BY <1>1, <1>2 DEF QueueSync
  <2> HIDE DEF k
  <2> QED BY <1>1, <1>2, <2>1, <2>2, JobElsewhere DEF QueueSync
<1>3. CASE QueueFails(j)
  <2>1. \E k \in JobRec : job' = [job EXCEPT ![j] = k] /\ k.at = "done"
    BY <1>1, <1>3, GotoIsMove DEF QueueFails
  <2> QED BY <1>1, <1>3, <2>1, JobElsewhere DEF QueueFails
<1> QED BY <1>2, <1>3

\* The task looks at the target again.
LEMMA ReceiveStep ==
  ASSUME InventoryInv, NEW j \in Jobs, Receive(j)
  PROVE  InventoryInv'
<1>1. job \in [Jobs -> JobRec] /\ job[j] \in JobRec /\ aiRow \in BOOLEAN
  BY DEF InventoryInv, InvTypes
<1>2. CASE inactive
  <2> DEFINE status == IF job[j].status = "none" THEN "none" ELSE "failed"
             k == [job[j] EXCEPT !.at = "done", !.status = status]
  <2>1. status \in {"none", "failed"}
    OBVIOUS
  <2>2. job' = [job EXCEPT ![j] = k]
    BY <1>1, <1>2 DEF Receive, JobRec
  <2> HIDE DEF status
  <2>3. k \in JobRec /\ k.at = "done"
    BY <1>1, <2>1 DEF JobRec
  <2> HIDE DEF k
  <2> QED BY <1>1, <2>2, <2>3, JobElsewhere DEF Receive
<1>3. CASE ~inactive
  <2>1. \E k \in JobRec : job' = [job EXCEPT ![j] = k] /\ k.at = "fetch"
    BY <1>1, <1>3, GotoIsMove DEF Receive
  <2> QED BY <1>1, <2>1, JobElsewhere DEF Receive
<1> QED BY <1>2, <1>3

-----------------------------------------------------------------------------
(* The inventory.                                                          *)

\* The list comes, or does not.
LEMMA FetchStep ==
  ASSUME InventoryInv, NEW j \in Jobs, FetchGraph(j) \/ GraphUnavailable(j)
  PROVE  InventoryInv'
<1>1. job \in [Jobs -> JobRec] /\ job[j] \in JobRec /\ aiRow \in BOOLEAN
  BY DEF InventoryInv, InvTypes
<1>2. CASE FetchGraph(j)
  <2>1. PICK list \in GraphLists : job' = [job EXCEPT ![j].list = list, ![j].at = "read"]
    BY <1>2 DEF FetchGraph
  <2>2. list \in Seq(Deps)
    BY InventoryAssumption
  <2> DEFINE k == [job[j] EXCEPT !.list = list, !.at = "read"]
  <2>3. k \in JobRec /\ k.at = "read"
    BY <1>1, <2>2 DEF JobRec
  <2>4. job' = [job EXCEPT ![j] = k]
    BY <1>1, <2>1
  <2> HIDE DEF k
  <2> QED BY <1>1, <1>2, <2>3, <2>4, JobElsewhere DEF FetchGraph
<1>3. CASE GraphUnavailable(j)
  <2>1. \E at \in {"clone", "done"} : Goto(j, at)
    BY <1>3 DEF GraphUnavailable
  <2>2. \E k \in JobRec : job' = [job EXCEPT ![j] = k] /\ k.at \in {"clone", "done"}
    BY <1>1, <2>1, GotoIsMove
  <2> QED BY <1>1, <1>3, <2>2, JobElsewhere DEF GraphUnavailable
<1> QED BY <1>2, <1>3

\* upsert_components reads.
LEMMA ReadRowsStep ==
  ASSUME InventoryInv, NEW j \in Jobs, ReadRows(j)
  PROVE  InventoryInv'
<1> DEFINE k == [job[j] EXCEPT !.seen = rows, !.at = "store"]
<1>1. job \in [Jobs -> JobRec] /\ job[j] \in JobRec /\ aiRow \in BOOLEAN /\ rows \in Seq(Row)
      /\ malware \in [DepKeys -> {"none", "OPEN", "REOPENED", "MITIGATED", "FALSE_POSITIVE"}]
  BY DEF InventoryInv, InvTypes
<1>2. k \in JobRec /\ k.at = "store" /\ k.seen = rows
  BY <1>1 DEF JobRec
<1>3. job' = [job EXCEPT ![j] = k]
  BY <1>1 DEF ReadRows
<1> HIDE DEF k
<1>4. Answered(k) /\ StillThere(k)
  BY <1>2 DEF Answered, StillThere
<1> QED BY <1>1, <1>2, <1>3, <1>4, JobMoves DEF ReadRows

\* The row a job writes has the sources that are on record, although it merges
\* with those it read: there are but two of them, and no row is without one.
LEMMA UpdatedKeeps ==
  ASSUME NEW row \in Row, NEW read \in Row, NEW source \in Sources,
         read.sources \subseteq row.sources
  PROVE  /\ Updated(row, read, source) \in Row
         /\ Updated(row, read, source).dep = row.dep
         /\ row.sources \subseteq Updated(row, read, source).sources
         /\ source \in Updated(row, read, source).sources
<1> DEFINE type == IF PackageType(source, row.dep[2]) = read.type
                   THEN row.type ELSE PackageType(source, row.dep[2])
           sources == IF MergeSources(read.sources, source) = read.sources
                      THEN row.sources ELSE MergeSources(read.sources, source)
<1>1. Updated(row, read, source) = [row EXCEPT !.type = type, !.sources = sources]
  BY DEF Updated
<1>2. row.dep \in Deps /\ row.sources \in (SUBSET Sources) \ {{}} /\ read.sources \in (SUBSET Sources) \ {{}}
  BY DEF Row
<1>3. type \in {PackageType(s, d[2]) : s \in Sources, d \in Deps}
  BY <1>2 DEF Row
<1>4. sources \in (SUBSET Sources) \ {{}} /\ row.sources \subseteq sources /\ source \in sources
  <2>1. CASE source \in read.sources
    BY <1>2, <2>1 DEF MergeSources
  <2>2. CASE source \notin read.sources
    <3>1. PICK other : other \in read.sources
      BY <1>2
    <3>2. other \in Sources /\ other # source
      BY <1>2, <2>2, <3>1
    <3>3. \A x \in Sources : x = other \/ x = source
      BY <3>2 DEF Sources
    <3>4. \A x \in Sources : x \in read.sources \cup {source}
      BY <3>1, <3>3
    <3>5. read.sources \cup {source} = Sources
      BY <1>2, <3>4
    <3>6. sources = read.sources \cup {source}
      BY <2>2 DEF MergeSources
    <3>7. sources = Sources
      BY <3>5, <3>6
    <3>8. Sources \in (SUBSET Sources) \ {{}}
      BY DEF Sources
    <3> QED BY <1>2, <3>7, <3>8
  <2> QED BY <2>1, <2>2
<1> HIDE DEF type, sources
<1>5. Updated(row, read, source) \in Row
  <2> DEFINE Types == {PackageType(s, d[2]) : s \in Sources, d \in Deps}
             Some == (SUBSET Sources) \ {{}}
  <2>1. row \in [dep : Deps, type : Types, sources : Some]
    BY DEF Row
  <2>2. type \in Types /\ sources \in Some
    BY <1>3, <1>4
  <2> HIDE DEF Types, Some
  <2>3. [row EXCEPT !.type = type, !.sources = sources] \in [dep : Deps, type : Types, sources : Some]
    BY <2>1, <2>2
  <2> QED BY <1>1, <2>3 DEF Row, Types, Some
<1>6. Updated(row, read, source).dep = row.dep /\ Updated(row, read, source).sources = sources
  BY <1>1 DEF Row
<1> QED BY <1>4, <1>5, <1>6

\* An increasing enumeration of a finite set of numbers leaves none out.
LEMMA EnumerationIsOnto ==
  ASSUME NEW S, IsFiniteSet(S), S \subseteq Nat, NEW nth \in [1..Cardinality(S) -> S],
         \A i, k \in DOMAIN nth : i < k => nth[i] < nth[k]
  PROVE  \A n \in S : \E i \in 1..Cardinality(S) : nth[i] = n
<1> DEFINE c == Cardinality(S)
           T == {nth[i] : i \in 1..c}
<1>1. c \in Nat
  BY FS_CardinalityType
<1>2. IsFiniteSet(1..c) /\ Cardinality(1..c) = c
  BY <1>1, FS_Interval
<1>3. T \subseteq S /\ nth \in [1..c -> T]
  OBVIOUS
<1>4. IsFiniteSet(T)
  BY <1>3, FS_Subset
<1>5. nth \in Bijection(1..c, T)
  <2>1. \A i, k \in 1..c : nth[i] = nth[k] => i = k
    <3> SUFFICES ASSUME NEW i \in 1..c, NEW k \in 1..c, nth[i] = nth[k], i # k PROVE FALSE
      OBVIOUS
    <3>1. nth[i] \in Nat /\ nth[k] \in Nat /\ DOMAIN nth = 1..c
      OBVIOUS
    <3>2. i < k \/ k < i
      BY <1>1
    <3> QED BY <3>1, <3>2
  <2>2. \A t \in T : \E i \in 1..c : nth[i] = t
    OBVIOUS
  <2> QED BY <1>3, <2>1, <2>2 DEF Bijection, Injection, Surjection, IsInjective
<1>6. Cardinality(T) = c
  BY <1>2, <1>4, <1>5, FS_Bijection DEF ExistsBijection
<1>7. T = S
  BY <1>3, <1>6, FS_Subset
<1> QED BY <1>7

LEMMA Positions ==
  ASSUME NEW n \in Nat
  PROVE  IsFiniteSet(1..n) /\ 1..n \subseteq Nat
BY FS_Interval

\* A row is inserted with the one source that lists it.
LEMMA InsertedRow ==
  ASSUME NEW source \in Sources, NEW d \in Deps
  PROVE  LET row == [dep |-> d, type |-> PackageType(source, d[2]), sources |-> {source}]
         IN  row \in Row /\ row.dep = d /\ row.sources = {source}
<1>1. PICK type : type = PackageType(source, d[2])
  OBVIOUS
<1>2. type \in {PackageType(s, e[2]) : s \in Sources, e \in Deps}
  BY <1>1
<1>3. [dep |-> d, type |-> type, sources |-> {source}] \in Row
  BY <1>2 DEF Row
<1> QED BY <1>1, <1>3

\* upsert_components commits.
LEMMA StoreRowsStep ==
  ASSUME InventoryInv, NEW j \in Jobs, StoreRows(j)
  PROVE  InventoryInv'
<1> DEFINE seen == job[j].seen
           list == job[j].list
           source == SourceOf(job[j].op)
           known == {seen[i].dep : i \in DOMAIN seen}
           listed == ToSet(list)
           fresh == {i \in DOMAIN list : list[i] \notin known}
           insert(d) == [dep |-> d, type |-> PackageType(source, d[2]), sources |-> {source}]
<1>1. /\ job \in [Jobs -> JobRec] /\ job[j] \in JobRec /\ rows \in Seq(Row) /\ aiRow \in BOOLEAN
      /\ malware \in [DepKeys -> {"none", "OPEN", "REOPENED", "MITIGATED", "FALSE_POSITIVE"}]
      /\ steady \subseteq flaggedByOsv
  BY DEF InventoryInv, InvTypes
<1>2. seen \in Seq(Row) /\ list \in Seq(Deps) /\ source \in Sources
  BY <1>1 DEF JobRec, SourceOf, Sources
<1>3. /\ Len(rows) \in Nat /\ DOMAIN rows = 1..Len(rows) /\ \A i \in 1..Len(rows) : rows[i] \in Row
      /\ Len(list) \in Nat /\ DOMAIN list = 1..Len(list) /\ \A i \in 1..Len(list) : list[i] \in Deps
      /\ \A i \in DOMAIN seen : seen[i] \in Row
  BY <1>1, <1>2
<1>4. PICK pick \in [listed \cap known -> DOMAIN seen], nth \in [1..Cardinality(fresh) -> fresh] :
         /\ \A d \in DOMAIN pick : seen[pick[d]].dep = d
         /\ \A i, k \in DOMAIN nth : i < k => nth[i] < nth[k]
         /\ rows' = [i \in DOMAIN rows |->
                       IF \E d \in DOMAIN pick : pick[d] = i
                       THEN Updated(rows[i], seen[i], source) ELSE rows[i]]
                    \o [i \in DOMAIN nth |-> insert(list[nth[i]])]
  BY DEF StoreRows
<1> DEFINE old == [i \in 1..Len(rows) |-> IF \E d \in DOMAIN pick : pick[d] = i
                                          THEN Updated(rows[i], seen[i], source) ELSE rows[i]]
           c == Cardinality(fresh)
           new == [i \in 1..c |-> insert(list[nth[i]])]
<1>5. job[j].at = "store" /\ told' = told \cup {<<d, source>> : d \in listed}
      /\ UNCHANGED <<aiRow, malware, flaggedByOsv, steady>>
  BY DEF StoreRows
<1>6. \A i \in DOMAIN seen : /\ i \in 1..Len(rows) /\ seen[i].dep = rows[i].dep
                             /\ seen[i].sources \subseteq rows[i].sources
  BY <1>3, <1>5 DEF InventoryInv, StillThere
<1>7. c \in Nat /\ IsFiniteSet(fresh) /\ fresh \subseteq Nat
  <2>1. fresh \in SUBSET (1..Len(list))
    BY <1>3
  <2>3. IsFiniteSet(1..Len(list)) /\ 1..Len(list) \subseteq Nat
    BY <1>3, Positions
  <2> HIDE DEF fresh, list
  <2>2. IsFiniteSet(fresh)
    BY <2>1, <2>3, FS_Subset
  <2> QED BY <2>1, <2>2, <2>3, FS_CardinalityType
<1>8. rows' = old \o new
  <2>1. DOMAIN nth = 1..c
    OBVIOUS
  <2> QED BY <1>3, <1>4, <2>1
<1>9. ASSUME NEW i \in 1..Len(rows)
      PROVE  /\ old[i] \in Row /\ old[i].dep = rows[i].dep /\ rows[i].sources \subseteq old[i].sources
             /\ (\E d \in DOMAIN pick : pick[d] = i) => source \in old[i].sources
  <2>1. CASE \E d \in DOMAIN pick : pick[d] = i
    <3>1. i \in DOMAIN seen /\ old[i] = Updated(rows[i], seen[i], source)
      BY <2>1
    <3>2. seen[i] \in Row /\ rows[i] \in Row /\ seen[i].sources \subseteq rows[i].sources
      BY <1>3, <1>6, <3>1
    <3> QED BY <1>2, <3>1, <3>2, UpdatedKeeps
  <2>2. CASE ~\E d \in DOMAIN pick : pick[d] = i
    <3>1. old[i] = rows[i]
      BY <2>2
    <3> QED BY <1>3, <2>2, <3>1
  <2> QED BY <2>1, <2>2
<1>10. ASSUME NEW i \in 1..c
       PROVE  new[i] \in Row /\ new[i].dep = list[nth[i]] /\ new[i].sources = {source}
  <2>1. list[nth[i]] \in Deps
    BY <1>3
  <2> QED BY <1>2, <2>1, InsertedRow
<1>11. old \in Seq(Row) /\ Len(old) = Len(rows) /\ new \in Seq(Row) /\ Len(new) = c
  <2> HIDE DEF fresh, c, known, listed
  <2>1. \A i \in 1..Len(rows) : old[i] \in Row
    BY <1>9
  <2>2. \A i \in 1..c : new[i] \in Row
    BY <1>10
  <2>3. DOMAIN old = 1..Len(rows) /\ DOMAIN new = 1..c
    OBVIOUS
  <2>4. old = [i \in 1..Len(rows) |-> old[i]] /\ new = [i \in 1..c |-> new[i]]
    OBVIOUS
  <2> HIDE DEF old, new
  <2>5. old \in Seq(Row) /\ Len(old) = Len(rows)
    BY <1>3, <2>1, <2>3, <2>4
  <2>6. new \in Seq(Row) /\ Len(new) = c
    <3>1. c \in Nat
      BY <1>7
    <3>2. \E n \in Nat : new \in [1..n -> Row]
      BY <2>2, <2>4, <3>1
    <3>3. new \in Seq(Row)
      BY <3>2, SeqDef
    <3> QED BY <2>3, <3>1, <3>3
  <2> QED BY <2>5, <2>6
<1> HIDE DEF old, new, c, fresh, known, listed, insert
<1>12. /\ rows' \in Seq(Row) /\ Len(rows') = Len(rows) + c
       /\ \A i \in 1..Len(rows) : rows'[i] = old[i]
       /\ \A i \in 1..c : rows'[Len(rows) + i] = new[i]
  <2>1. /\ old \o new \in Seq(Row) /\ Len(old \o new) = Len(old) + Len(new)
        /\ \A i \in 1..Len(old) + Len(new) :
             (old \o new)[i] = IF i <= Len(old) THEN old[i] ELSE new[i - Len(old)]
    BY <1>11, ConcatProperties
  <2>2. \A i \in 1..Len(rows) : (old \o new)[i] = old[i]
    BY <1>3, <1>7, <1>11, <2>1
  <2>3. \A i \in 1..c : (old \o new)[Len(rows) + i] = new[i]
    BY <1>3, <1>7, <1>11, <2>1
  <2> QED BY <1>8, <1>11, <2>1, <2>2, <2>3
<1>13. DOMAIN rows' = 1..(Len(rows) + c)
  BY <1>12
<1>14. \A i \in DOMAIN rows : /\ i \in DOMAIN rows' /\ rows'[i].dep = rows[i].dep
                              /\ rows[i].sources \subseteq rows'[i].sources
  BY <1>3, <1>7, <1>9, <1>12, <1>13
<1>15. SourcesAreKept'
  <2> SUFFICES ASSUME NEW t \in told'
      PROVE  \E i \in DOMAIN rows' : rows'[i].dep = t[1] /\ t[2] \in rows'[i].sources
    BY DEF SourcesAreKept
  <2>1. CASE t \in told
    <3>1. PICK i \in DOMAIN rows : rows[i].dep = t[1] /\ t[2] \in rows[i].sources
      BY <2>1 DEF InventoryInv, SourcesAreKept
    <3> QED BY <1>14, <3>1
  <2>2. ASSUME NEW d \in listed, t = <<d, source>>
        PROVE  \E i \in DOMAIN rows' : rows'[i].dep = t[1] /\ t[2] \in rows'[i].sources
    <3>1. CASE d \in known
      <4>1. d \in DOMAIN pick /\ pick[d] \in DOMAIN seen /\ seen[pick[d]].dep = d
        BY <1>4, <3>1
      <4>2. pick[d] \in 1..Len(rows) /\ rows[pick[d]].dep = d
        BY <1>6, <4>1
      <4>3. source \in old[pick[d]].sources /\ old[pick[d]].dep = d
        BY <1>9, <4>1, <4>2
      <4>4. pick[d] \in DOMAIN rows' /\ rows'[pick[d]] = old[pick[d]]
        BY <1>3, <1>12, <1>14, <4>2
      <4> QED BY <2>2, <4>3, <4>4
    <3>2. CASE d \notin known
      <4>1. PICK n \in DOMAIN list : list[n] = d
        BY DEF listed, ToSet
      <4>2. n \in fresh
        BY <3>2, <4>1 DEF fresh
      <4>3. PICK i \in 1..c : nth[i] = n
        <5>1. nth \in [1..Cardinality(fresh) -> fresh]
          BY <1>4 DEF fresh
        <5>2. \A i, k \in DOMAIN nth : i < k => nth[i] < nth[k]
          BY <1>4
        <5>3. \A m \in fresh : \E i \in 1..Cardinality(fresh) : nth[i] = m
          BY <1>7, <5>1, <5>2, EnumerationIsOnto
        <5> QED BY <4>2, <5>3 DEF c
      <4>4. new[i].dep = d /\ new[i].sources = {source}
        BY <1>10, <4>1, <4>3
      <4>5. Len(rows) + i \in DOMAIN rows' /\ rows'[Len(rows) + i] = new[i]
        BY <1>3, <1>7, <1>12, <1>13, <4>3
      <4> QED BY <2>2, <4>4, <4>5
    <3> QED BY <3>1, <3>2
  <2> QED BY <1>5, <2>1, <2>2
<1> DEFINE at == CASE job[j].op = "generate" -> "clone"
                   [] job[j].op \in {"import", "upload"} -> "inventory"
                   [] OTHER -> "done"
           k == [job[j] EXCEPT !.ran = TRUE, !.seen = <<>>, !.list = <<>>, !.at = at]
<1>16. at \in {"clone", "inventory", "done"}
  OBVIOUS
<1>17. job' = [job EXCEPT ![j] = k]
  BY <1>1 DEF StoreRows
<1> HIDE DEF at
<1>18. k \in JobRec /\ k.at = at
  <2>1. <<>> \in Seq(Deps) /\ <<>> \in Seq(Row) /\ TRUE \in BOOLEAN
    OBVIOUS
  <2> QED BY <1>1, <1>16, <2>1 DEF JobRec
<1> HIDE DEF k
<1>19. job'[j] = k /\ \A s \in Jobs \ {j} : job'[s] = job[s]
  BY <1>1, <1>17
<1>20. job' \in [Jobs -> JobRec]
  BY <1>1, <1>17, <1>18
<1>21. \A s \in Jobs : Answered(job[s])' /\ StillThere(job[s])'
  <2> SUFFICES ASSUME NEW s \in Jobs PROVE Answered(job[s])' /\ StillThere(job[s])'
    OBVIOUS
  <2>1. CASE s = j
    BY <1>16, <1>18, <1>19, <2>1 DEF Answered, StillThere
  <2>2. CASE s # j
    <3>1. Answered(job[s])'
      BY <1>5, <1>19, <2>2 DEF InventoryInv, Answered
    <3>2. StillThere(job[s])'
      BY <1>14, <1>19, <2>2 DEF InventoryInv, StillThere
    <3> QED BY <3>1, <3>2
  <2> QED BY <2>1, <2>2
<1>22. InvTypes'
  BY <1>1, <1>5, <1>12, <1>20 DEF InvTypes
<1> QED BY <1>15, <1>21, <1>22 DEF InventoryInv

-----------------------------------------------------------------------------
(* The run and the check.                                                  *)

\* The steps of a run other than its lists: the clone, the AI components, its
\* verdict and a poll.
LEMMA RunStep ==
  ASSUME InventoryInv, NEW j \in Jobs,
         CloneOk(j) \/ CloneFails(j) \/ StoreAi(j) \/ FinishRun(j)
  PROVE  InventoryInv'
<1>1. job \in [Jobs -> JobRec] /\ job[j] \in JobRec /\ aiRow \in BOOLEAN
  BY DEF InventoryInv, InvTypes
<1>2. CASE CloneOk(j)
  <2> DEFINE k == [job[j] EXCEPT !.ai = aiRow, !.at = "aibom"]
  <2>1. k \in JobRec /\ k.at = "aibom"
    BY <1>1 DEF JobRec
  <2>2. job' = [job EXCEPT ![j] = k]
    BY <1>1, <1>2 DEF CloneOk
  <2> HIDE DEF k
  <2> QED BY <1>1, <1>2, <2>1, <2>2, JobElsewhere DEF CloneOk
<1>3. CASE CloneFails(j)
  <2>1. \E k \in {[job[j] EXCEPT !.tries = job[j].tries + 1, !.ran = FALSE, !.at = "queued"],
                  [job[j] EXCEPT !.status = "failed", !.at = "done"]} :
          job' = [job EXCEPT ![j] = k]
    BY <1>1, <1>3 DEF CloneFails
  <2>2. [job[j] EXCEPT !.tries = job[j].tries + 1, !.ran = FALSE, !.at = "queued"] \in JobRec
    <3>1. job[j].tries + 1 \in Nat /\ FALSE \in BOOLEAN
      BY <1>1 DEF JobRec
    <3> QED BY <1>1, <3>1 DEF JobRec
  <2>3. [job[j] EXCEPT !.status = "failed", !.at = "done"] \in JobRec
    BY <1>1 DEF JobRec
  <2>4. \E k \in JobRec : job' = [job EXCEPT ![j] = k] /\ k.at \in {"queued", "done"}
    <3> DEFINE again == [job[j] EXCEPT !.tries = job[j].tries + 1, !.ran = FALSE, !.at = "queued"]
               over == [job[j] EXCEPT !.status = "failed", !.at = "done"]
    <3>1. again.at = "queued" /\ over.at = "done"
      BY <1>1 DEF JobRec
    <3>2. job' = [job EXCEPT ![j] = again] \/ job' = [job EXCEPT ![j] = over]
      BY <2>1
    <3> HIDE DEF again, over
    <3> QED BY <2>2, <2>3, <3>1, <3>2 DEF again, over
  <2> QED BY <1>1, <1>3, <2>4, JobElsewhere DEF CloneFails
<1>4. CASE StoreAi(j)
  <2>1. \E at \in {"done", "inventory"} : Goto(j, at)
    BY <1>4 DEF StoreAi
  <2>2. \E k \in JobRec : job' = [job EXCEPT ![j] = k] /\ k.at \in {"done", "inventory"}
    BY <1>1, <2>1, GotoIsMove
  <2>3. aiRow' \in BOOLEAN
    BY <1>4 DEF StoreAi
  <2> QED BY <1>4, <2>2, <2>3, JobElsewhere DEF StoreAi
<1>5. CASE FinishRun(j)
  <2> DEFINE status == IF job[j].ran THEN "completed" ELSE "failed"
             k == [job[j] EXCEPT !.status = status, !.at = "done"]
  <2>1. status \in {"completed", "failed"}
    OBVIOUS
  <2>2. job' = [job EXCEPT ![j] = k]
    BY <1>1, <1>5 DEF FinishRun
  <2> HIDE DEF status
  <2>3. k \in JobRec /\ k.at = "done"
    BY <1>1, <2>1 DEF JobRec
  <2> HIDE DEF k
  <2> QED BY <1>1, <1>5, <2>2, <2>3, JobElsewhere DEF FinishRun
<1> QED BY <1>2, <1>3, <1>4, <1>5

\* The poll of a run changes its status under the job's hands, and nothing else.
LEMMA PollRunStep ==
  ASSUME InventoryInv, NEW j \in Jobs, PollRun(j)
  PROVE  InventoryInv'
<1> DEFINE k == [job[j] EXCEPT !.status = "failed"]
<1>1. job \in [Jobs -> JobRec] /\ job[j] \in JobRec /\ aiRow \in BOOLEAN
      /\ malware \in [DepKeys -> {"none", "OPEN", "REOPENED", "MITIGATED", "FALSE_POSITIVE"}]
  BY DEF InventoryInv, InvTypes
<1>2. k \in JobRec /\ k.at = job[j].at /\ k.seen = job[j].seen /\ k.left = job[j].left
      /\ k.asked = job[j].asked /\ k.bad = job[j].bad
  BY <1>1 DEF JobRec
<1>3. job' = [job EXCEPT ![j] = k]
  BY <1>1 DEF PollRun
<1>4. Answered(job[j]) /\ StillThere(job[j])
  BY DEF InventoryInv
<1> HIDE DEF k
<1>5. Answered(k) /\ StillThere(k)
  BY <1>2, <1>4 DEF Answered, StillThere
<1> QED BY <1>1, <1>2, <1>3, <1>5, JobMoves DEF PollRun

\* run_malware_check reads the inventory, and sets out to ask.
LEMMA ReadInventoryStep ==
  ASSUME InventoryInv, NEW j \in Jobs, ReadInventory(j)
  PROVE  InventoryInv'
<1> DEFINE asks == {i \in DOMAIN rows : rows[i].type \in Ecosystems}
           first == {i \in asks : \A k \in asks : rows[k].dep[1] = rows[i].dep[1] => i <= k}
           queries == {rows[i].dep : i \in first}
           k == [job[j] EXCEPT !.seen = rows, !.left = queries, !.asked = queries, !.at = "ask"]
<1>1. job \in [Jobs -> JobRec] /\ job[j] \in JobRec /\ aiRow \in BOOLEAN /\ rows \in Seq(Row)
      /\ malware \in [DepKeys -> {"none", "OPEN", "REOPENED", "MITIGATED", "FALSE_POSITIVE"}]
  BY DEF InventoryInv, InvTypes
<1>2. queries \in SUBSET Deps
  <2>1. \A i \in DOMAIN rows : rows[i] \in Row
    BY <1>1
  <2>2. \A row \in Row : row.dep \in Deps
    BY DEF Row
  <2> QED BY <2>1, <2>2
<1>3. job' = [job EXCEPT ![j] = k]
  BY <1>1 DEF ReadInventory
<1> HIDE DEF queries
<1>4. k \in JobRec /\ k.at = "ask" /\ k.asked = queries /\ k.left = queries
  BY <1>1, <1>2 DEF JobRec
<1> HIDE DEF k
<1>5. Answered(k) /\ StillThere(k)
  BY <1>4 DEF Answered, StillThere
<1> QED BY <1>1, <1>3, <1>4, <1>5, JobMoves DEF ReadInventory

\* A chunk is answered: what OSV named all along it names now.
LEMMA AskOsvStep ==
  ASSUME InventoryInv, NEW j \in Jobs, AskOsv(j)
  PROVE  InventoryInv'
<1>1. job \in [Jobs -> JobRec] /\ job[j] \in JobRec /\ aiRow \in BOOLEAN
      /\ malware \in [DepKeys -> {"none", "OPEN", "REOPENED", "MITIGATED", "FALSE_POSITIVE"}]
      /\ steady \subseteq flaggedByOsv
  BY DEF InventoryInv, InvTypes
<1>2. PICK chunk \in SUBSET job[j].left :
         job' = [job EXCEPT ![j].left = @ \ chunk, ![j].bad = @ \cup (chunk \cap flaggedByOsv)]
  BY DEF AskOsv, kSubset
<1> DEFINE left == job[j].left \ chunk
           bad == job[j].bad \cup (chunk \cap flaggedByOsv)
           k == [job[j] EXCEPT !.left = left, !.bad = bad]
<1>3. job' = [job EXCEPT ![j] = k]
  BY <1>1, <1>2
<1>4. left \in SUBSET Deps /\ bad \in SUBSET Deps
  BY <1>1, <1>2 DEF JobRec
<1>5. Answered(job[j]) /\ job[j].at = "ask"
  BY DEF InventoryInv, AskOsv
<1>6. (job[j].asked \ left) \cap steady \subseteq bad
  BY <1>1, <1>5 DEF Answered
<1> HIDE DEF left, bad
<1>7. k \in JobRec /\ k.at = job[j].at /\ k.left = left /\ k.asked = job[j].asked /\ k.bad = bad
  BY <1>1, <1>4 DEF JobRec
<1> HIDE DEF k
<1>8. Answered(k) /\ StillThere(k)
  BY <1>5, <1>6, <1>7 DEF Answered, StillThere
<1> QED BY <1>1, <1>3, <1>7, <1>8, JobMoves DEF AskOsv

\* OSV does not answer, or the answer has been dealt with: the check is over.
LEMMA CheckEndsStep ==
  ASSUME InventoryInv, NEW j \in Jobs, AskFails(j) \/ StampCheck(j)
  PROVE  InventoryInv'
<1>1. job \in [Jobs -> JobRec] /\ job[j] \in JobRec /\ aiRow \in BOOLEAN
  BY DEF InventoryInv, InvTypes
<1>2. Checked(j) \in {"finish", "done"} /\ <<>> \in Seq(Row) /\ {} \in SUBSET Deps
  BY DEF Checked
<1>3. CASE AskFails(j)
  <2> DEFINE k == [job[j] EXCEPT !.bad = {}, !.asked = {}, !.seen = <<>>, !.left = {}, !.at = Checked(j)]
  <2>1. job' = [job EXCEPT ![j] = k]
    BY <1>1, <1>3 DEF AskFails
  <2>2. k \in JobRec /\ k.at = Checked(j)
    BY <1>1, <1>2 DEF JobRec
  <2> HIDE DEF k
  <2> QED BY <1>1, <1>2, <1>3, <2>1, <2>2, JobElsewhere DEF AskFails
<1>4. CASE StampCheck(j)
  <2> DEFINE k == [job[j] EXCEPT !.bad = {}, !.asked = {}, !.seen = <<>>, !.at = Checked(j)]
  <2>1. job' = [job EXCEPT ![j] = k]
    BY <1>1, <1>4 DEF StampCheck
  <2>2. k \in JobRec /\ k.at = Checked(j)
    BY <1>1, <1>2 DEF JobRec
  <2> HIDE DEF k
  <2> QED BY <1>1, <1>2, <1>4, <2>1, <2>2, JobElsewhere DEF StampCheck
<1> QED BY <1>3, <1>4

\* The findings are raised, then cleared, in two commits.
LEMMA IngestMalwareStep ==
  ASSUME InventoryInv, NEW j \in Jobs, RaiseMalware(j) \/ ClearMalware(j)
  PROVE  InventoryInv'
<1>1. job \in [Jobs -> JobRec] /\ job[j] \in JobRec /\ aiRow \in BOOLEAN
      /\ malware \in [DepKeys -> {"none", "OPEN", "REOPENED", "MITIGATED", "FALSE_POSITIVE"}]
  BY DEF InventoryInv, InvTypes
<1>2. Answered(job[j])
  BY DEF InventoryInv
<1>3. CASE RaiseMalware(j)
  <2>1. PICK k \in JobRec :
           /\ job' = [job EXCEPT ![j] = k] /\ k.at = "clear"
           /\ k.left = job[j].left /\ k.asked = job[j].asked /\ k.bad = job[j].bad
    BY <1>1, <1>3, GotoIsMove DEF RaiseMalware
  <2>2. Answered(k) /\ StillThere(k)
    BY <1>2, <1>3, <2>1 DEF Answered, StillThere, RaiseMalware
  <2>3. malware' \in [DepKeys -> {"none", "OPEN", "REOPENED", "MITIGATED", "FALSE_POSITIVE"}]
    BY <1>1, <1>3 DEF RaiseMalware
  <2> QED BY <1>1, <1>3, <2>1, <2>2, <2>3, JobMoves DEF RaiseMalware
<1>4. CASE ClearMalware(j)
  <2>1. PICK k \in JobRec :
           /\ job' = [job EXCEPT ![j] = k] /\ k.at = "stamp"
           /\ k.left = job[j].left /\ k.asked = job[j].asked /\ k.bad = job[j].bad
    BY <1>1, <1>4, GotoIsMove DEF ClearMalware
  <2>2. Answered(k) /\ StillThere(k)
    BY <1>2, <1>4, <2>1 DEF Answered, StillThere, ClearMalware
  <2>3. malware' \in [DepKeys -> {"none", "OPEN", "REOPENED", "MITIGATED", "FALSE_POSITIVE"}]
    BY <1>1, <1>4 DEF ClearMalware
  <2> QED BY <1>1, <1>4, <2>1, <2>2, <2>3, JobMoves DEF ClearMalware
<1> QED BY <1>3, <1>4

\* OSV changes its mind, a finding is triaged, the target is retired.
LEMMA AroundStep ==
  ASSUME InventoryInv, Verdict \/ RuleMalware \/ RetireTarget \/ UNCHANGED invVars
  PROVE  InventoryInv'
<1>1. job \in [Jobs -> JobRec] /\ aiRow \in BOOLEAN /\ rows \in Seq(Row)
      /\ malware \in [DepKeys -> {"none", "OPEN", "REOPENED", "MITIGATED", "FALSE_POSITIVE"}]
      /\ steady \subseteq flaggedByOsv
  BY DEF InventoryInv, InvTypes
<1>2. UNCHANGED <<rows, aiRow, job, told>>
  BY DEF Verdict, RuleMalware, RetireTarget, invVars
<1>3. steady' \subseteq flaggedByOsv' /\ steady' \subseteq steady
  BY <1>1 DEF Verdict, RuleMalware, RetireTarget, invVars
<1>4. malware' \in [DepKeys -> {"none", "OPEN", "REOPENED", "MITIGATED", "FALSE_POSITIVE"}]
  <2>1. CASE RuleMalware
    BY <1>1, <2>1 DEF RuleMalware
  <2>2. CASE ~RuleMalware
    BY <1>1, <2>2 DEF Verdict, RetireTarget, invVars
  <2> QED BY <2>1, <2>2
<1>5. InvTypes'
  BY <1>1, <1>2, <1>3, <1>4 DEF InvTypes
<1>6. \A s \in Jobs : Answered(job[s])' /\ StillThere(job[s])'
  <2> SUFFICES ASSUME NEW s \in Jobs PROVE Answered(job[s])' /\ StillThere(job[s])'
    OBVIOUS
  <2>1. Answered(job[s]) /\ StillThere(job[s])
    BY DEF InventoryInv
  <2>2. Answered(job[s])'
    BY <1>2, <1>3, <2>1 DEF Answered
  <2>3. StillThere(job[s])'
    BY <1>2, <2>1 DEF StillThere
  <2> QED BY <2>2, <2>3
<1>7. SourcesAreKept'
  BY <1>2 DEF InventoryInv, SourcesAreKept
<1> QED BY <1>5, <1>6, <1>7 DEF InventoryInv

-----------------------------------------------------------------------------
(* Theorems.                                                               *)

\* The invariant holds at the start ...
LEMMA InventoryStarts ==
  ASSUME InvInit
  PROVE  InventoryInv
<1>1. rows = <<>> /\ aiRow \in BOOLEAN /\ job = [j \in Jobs |-> NewJob]
      /\ malware = [k \in DepKeys |-> "none"] /\ steady = flaggedByOsv /\ told = {}
  BY DEF InvInit
<1>2. InvTypes
  <2>1. job \in [Jobs -> JobRec]
    BY <1>1, NewJobType
  <2>2. rows \in Seq(Row)
    BY <1>1
  <2> QED BY <1>1, <2>1, <2>2 DEF InvTypes
<1>3. \A j \in Jobs : Answered(job[j]) /\ StillThere(job[j])
  BY <1>1, NewJobType DEF Answered, StillThere
<1> QED BY <1>1, <1>2, <1>3 DEF InventoryInv, SourcesAreKept

\* ... and every step keeps it.
LEMMA InventoryKept ==
  ASSUME InventoryInv, [InvNext]_invVars
  PROVE  InventoryInv'
<1>1. ASSUME NEW j \in Jobs, NEW op \in {"generate", "import", "upload", "check"}, Request(j, op)
      PROVE  InventoryInv'
  BY <1>1, RequestStep
<1>2. ASSUME NEW j \in Jobs, QueueSync(j) \/ QueueFails(j) \/ Receive(j)
      PROVE  InventoryInv'
  BY <1>2, QueueStep, ReceiveStep
<1>3. ASSUME NEW j \in Jobs, FetchGraph(j) \/ GraphUnavailable(j) \/ ReadRows(j) \/ StoreRows(j)
      PROVE  InventoryInv'
  BY <1>3, FetchStep, ReadRowsStep, StoreRowsStep
<1>4. ASSUME NEW j \in Jobs, CloneOk(j) \/ CloneFails(j) \/ StoreAi(j) \/ FinishRun(j) \/ PollRun(j)
      PROVE  InventoryInv'
  BY <1>4, RunStep, PollRunStep
<1>5. ASSUME NEW j \in Jobs, \/ ReadInventory(j) \/ AskOsv(j) \/ AskFails(j)
                             \/ RaiseMalware(j) \/ ClearMalware(j) \/ StampCheck(j)
      PROVE  InventoryInv'
  BY <1>5, ReadInventoryStep, AskOsvStep, CheckEndsStep, IngestMalwareStep
<1>6. CASE Verdict \/ RuleMalware \/ RetireTarget \/ UNCHANGED invVars
  BY <1>6, AroundStep
<1> QED BY <1>1, <1>2, <1>3, <1>4, <1>5, <1>6 DEF InvNext

\* The rows behind every list that was stored, in every state.
LEMMA InventoryInvariant == InvSpec => []InventoryInv
<1>1. InvInit => InventoryInv
  BY InventoryStarts
<1>2. InventoryInv /\ [InvNext]_invVars => InventoryInv'
  BY InventoryKept
<1> QED BY <1>1, <1>2, PTL DEF InvSpec

\* Whatever the packages, the lists and the number of requests and tasks, and
\* however the reads and the commits of upsert_components interleave: every
\* source that listed a package is on one of its rows (_merge_sources,
\* core/sbom_ingestion.py).
THEOREM SourcesAreKeptHolds == InvSpec => []SourcesAreKept
<1>1. InventoryInv => SourcesAreKept
  BY DEF InventoryInv
<1> QED BY <1>1, InventoryInvariant, PTL

\* Only the second commit of ingest_malicious_packages mitigates a finding.
LEMMA OnlyTheSecondCommitClears ==
  ASSUME InventoryInv, [InvNext]_invVars, NEW k \in DepKeys,
         malware[k] # "MITIGATED", malware'[k] = "MITIGATED"
  PROVE  \E j \in Jobs : ClearMalware(j) /\ k \notin {d[1] : d \in job[j].bad}
<1>1. malware \in [DepKeys -> {"none", "OPEN", "REOPENED", "MITIGATED", "FALSE_POSITIVE"}]
  BY DEF InventoryInv, InvTypes
<1>2. malware' # malware
  OBVIOUS
<1>3. ASSUME NEW j \in Jobs, NEW op \in {"generate", "import", "upload", "check"}, Request(j, op)
      PROVE  FALSE
  BY <1>2, <1>3 DEF Request
<1>4. ASSUME NEW j \in Jobs,
             \/ QueueSync(j) \/ QueueFails(j) \/ Receive(j)
             \/ FetchGraph(j) \/ GraphUnavailable(j) \/ ReadRows(j)
      PROVE  FALSE
  BY <1>2, <1>4 DEF QueueSync, QueueFails, Receive, FetchGraph, GraphUnavailable, ReadRows
<1>5. ASSUME NEW j \in Jobs,
             \/ StoreRows(j) \/ CloneOk(j) \/ CloneFails(j) \/ StoreAi(j) \/ FinishRun(j) \/ PollRun(j)
      PROVE  FALSE
  BY <1>2, <1>5 DEF StoreRows, CloneOk, CloneFails, StoreAi, FinishRun, PollRun
<1>6. ASSUME NEW j \in Jobs, ReadInventory(j) \/ AskOsv(j) \/ AskFails(j) \/ StampCheck(j)
      PROVE  FALSE
  BY <1>2, <1>6 DEF ReadInventory, AskOsv, AskFails, StampCheck
<1>7. ASSUME NEW j \in Jobs, RaiseMalware(j)
      PROVE  FALSE
  BY <1>1, <1>7 DEF RaiseMalware
<1>8. ASSUME NEW j \in Jobs, ClearMalware(j)
      PROVE  k \notin {d[1] : d \in job[j].bad}
  BY <1>1, <1>8 DEF ClearMalware
<1>9. ~RuleMalware
  BY <1>1 DEF RuleMalware
<1>10. ~(Verdict \/ RetireTarget \/ UNCHANGED invVars)
  BY <1>2 DEF Verdict, RetireTarget, invVars
<1> QED BY <1>3, <1>4, <1>5, <1>6, <1>7, <1>8, <1>9, <1>10 DEF InvNext

\* Only check_and_ingest_malware stamps the target.
LEMMA OnlyTheCheckStamps ==
  ASSUME InventoryInv, [InvNext]_invVars, stamp' # stamp
  PROVE  \E j \in Jobs : StampCheck(j)
<1>1. ASSUME NEW j \in Jobs, NEW op \in {"generate", "import", "upload", "check"}, Request(j, op)
      PROVE  FALSE
  BY <1>1 DEF Request
<1>2. ASSUME NEW j \in Jobs,
             \/ QueueSync(j) \/ QueueFails(j) \/ Receive(j)
             \/ FetchGraph(j) \/ GraphUnavailable(j) \/ ReadRows(j)
      PROVE  FALSE
  BY <1>2 DEF QueueSync, QueueFails, Receive, FetchGraph, GraphUnavailable, ReadRows
<1>3. ASSUME NEW j \in Jobs,
             \/ StoreRows(j) \/ CloneOk(j) \/ CloneFails(j) \/ StoreAi(j) \/ FinishRun(j) \/ PollRun(j)
      PROVE  FALSE
  BY <1>3 DEF StoreRows, CloneOk, CloneFails, StoreAi, FinishRun, PollRun
<1>4. ASSUME NEW j \in Jobs,
             ReadInventory(j) \/ AskOsv(j) \/ AskFails(j) \/ RaiseMalware(j) \/ ClearMalware(j)
      PROVE  FALSE
  BY <1>4 DEF ReadInventory, AskOsv, AskFails, RaiseMalware, ClearMalware
<1>5. ~(Verdict \/ RuleMalware \/ RetireTarget \/ UNCHANGED invVars)
  BY DEF Verdict, RuleMalware, RetireTarget, invVars
<1> QED BY <1>1, <1>2, <1>3, <1>4, <1>5 DEF InvNext

\* A check that failed, or an answer that was lost on the way, clears nothing:
\* a finding is mitigated, and the target called clean, only by a check with an
\* answer for every package it asked about, none of which OSV named all along
\* (core/osv_malware_ingestion.py:328-331).
THEOREM ClearedByAnswerHolds == InvSpec => ClearedByAnswer
<1>1. InventoryInv /\ [InvNext]_invVars =>
        [/\ \A k \in DepKeys : malware[k] # "MITIGATED" /\ malware'[k] = "MITIGATED" =>
              \E j \in Jobs : job[j].at = "clear" /\ job'[j].at = "stamp"
                              /\ \A d \in job[j].asked \cap steady : d[1] # k
         /\ stamp' = "clean" /\ stamp # "clean" =>
              \E j \in Jobs : job[j].at = "stamp" /\ job'[j].at # "stamp" /\ job[j].asked \cap steady = {}
        ]_invVars
  <2> SUFFICES ASSUME InventoryInv, [InvNext]_invVars
               PROVE  /\ \A k \in DepKeys : malware[k] # "MITIGATED" /\ malware'[k] = "MITIGATED" =>
                           \E j \in Jobs : job[j].at = "clear" /\ job'[j].at = "stamp"
                                           /\ \A d \in job[j].asked \cap steady : d[1] # k
                      /\ stamp' = "clean" /\ stamp # "clean" =>
                           \E j \in Jobs : job[j].at = "stamp" /\ job'[j].at # "stamp"
                                           /\ job[j].asked \cap steady = {}
    OBVIOUS
  <2>1. job \in [Jobs -> JobRec]
    BY DEF InventoryInv, InvTypes
  <2>2. ASSUME NEW j \in Jobs, job[j].at \in {"clear", "stamp"}
        PROVE  job[j].asked \cap steady \subseteq job[j].bad
    BY <2>2 DEF InventoryInv, Answered
  <2>3. ASSUME NEW k \in DepKeys, malware[k] # "MITIGATED", malware'[k] = "MITIGATED"
        PROVE  \E j \in Jobs : job[j].at = "clear" /\ job'[j].at = "stamp"
                               /\ \A d \in job[j].asked \cap steady : d[1] # k
    <3>1. PICK j \in Jobs : ClearMalware(j) /\ k \notin {d[1] : d \in job[j].bad}
      BY <2>3, OnlyTheSecondCommitClears
    <3>2. job[j].at = "clear" /\ Goto(j, "stamp")
      BY <3>1 DEF ClearMalware
    <3>3. job'[j].at = "stamp"
      BY <2>1, <3>2 DEF Goto, JobRec
    <3>4. \A d \in job[j].asked \cap steady : d[1] # k
      BY <2>2, <3>1, <3>2
    <3> QED BY <3>2, <3>3, <3>4
  <2>4. ASSUME stamp' = "clean", stamp # "clean"
        PROVE  \E j \in Jobs : job[j].at = "stamp" /\ job'[j].at # "stamp"
                               /\ job[j].asked \cap steady = {}
    <3>1. PICK j \in Jobs : StampCheck(j)
      BY <2>4, OnlyTheCheckStamps
    <3>2. job[j].at = "stamp" /\ job[j].bad = {}
      BY <2>4, <3>1 DEF StampCheck
    <3>3. job'[j].at = Checked(j)
      BY <2>1, <3>1 DEF StampCheck, JobRec
    <3>4. job'[j].at # "stamp"
      BY <3>3 DEF Checked
    <3> QED BY <2>2, <3>2, <3>4
  <2> QED BY <2>3, <2>4
<1> QED BY <1>1, InventoryInvariant, PTL DEF InvSpec, ClearedByAnswer

=============================================================================
