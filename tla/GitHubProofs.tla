----------------------------- MODULE GitHubProofs -----------------------------
(***************************************************************************)
(* What holds of the pull requests the platform raises, for every set of   *)
(* packages, repositories and threads: of the Fix Plan's (FixPlan) and of  *)
(* the pipeline's (PipelineRollout).  No pull request repeats another, and *)
(* a batch that has ended accounts for everything it took.  And what holds *)
(* of the link they go through (GitHubLink), for every set of workspaces,  *)
(* repositories and syncs.                                                 *)
(***************************************************************************)
EXTENDS FixPlan, PipelineRollout, GitHubLink, FiniteSetTheorems, SequenceTheorems,
        WellFoundedInduction, TLAPS

-----------------------------------------------------------------------------
(* The Fix Plan: pull requests and their records.                          *)

Fixes == [pkg : Packages, ids : SUBSET Cves]

Plans == UNION {[S -> (SUBSET Cves) \ {{}}] : S \in SUBSET Packages}

RaiserRec ==
  [pc : {"idle", "next", "open", "record", "report"}, kind : {"none", "click", "sweep", "batch"},
   plan : Plans, todo : SUBSET Packages, pkg : Packages \cup {NoName}]

Items == UNION {[S -> {"pending", "running", "succeeded", "failed"}] : S \in SUBSET Packages}

BatchRec == [status : {"none", "running", "completed", "failed"}, item : Items,
             succeeded : Nat, failed : Nat]

FixTypes ==
  /\ opencves \subseteq Cves
  /\ record \subseteq Fixes
  /\ opened \in Seq(Fixes)
  /\ raiser \in [Raisers -> RaiserRec]
  /\ raced \in BOOLEAN
  /\ batch \in BatchRec

\* The package in hand is one of the plan the thread read.
InPlan(r) == r.pc \in {"open", "record", "report"} => r.pkg \in DOMAIN r.plan

FixOf(r) == [pkg |-> r.pkg, ids |-> r.plan[r.pkg]]

Raising(r) == r.pc \in {"open", "record"}

\* What was opened is recorded, or about to be.
OnRecord ==
  \A i \in DOMAIN opened :
    opened[i] \in record \/ \E t \in Raisers : raiser[t].pc = "record" /\ opened[i] = FixOf(raiser[t])

\* Two threads do not raise one package.
RaisersApart ==
  \A t, u \in Raisers :
    Raising(raiser[t]) /\ Raising(raiser[u]) /\ raiser[t].pkg = raiser[u].pkg => t = u

\* What is about to be opened covers a finding that no record does.
BringsNews ==
  \A t \in Raisers : raiser[t].pc = "open" => ~AlreadyRaised(raiser[t].pkg, raiser[t].plan[raiser[t].pkg])

RaiseInv ==
  /\ FixTypes
  /\ \A t \in Raisers : InPlan(raiser[t])
  /\ raced \/ (OnRecord /\ RaisersApart /\ BringsNews)
  /\ OnePrPerFix

\* The plan of the moment is a plan.
LEMMA PlanIsPlan ==
  ASSUME opencves \subseteq Cves, NEW rows
  PROVE  PlanOf(rows) \in Plans /\ DOMAIN PlanOf(rows) = Planned(rows) /\ Planned(rows) \subseteq Packages
<1>1. \A p \in Planned(rows) : Fixed(rows, p) \in (SUBSET Cves) \ {{}}
  BY DEF Planned, Fixed
<1>2. Planned(rows) \in SUBSET Packages
  BY DEF Planned
<1>3. PlanOf(rows) \in [Planned(rows) -> (SUBSET Cves) \ {{}}]
  BY <1>1 DEF PlanOf
<1> QED BY <1>2, <1>3 DEF Plans

\* A plan's findings.
LEMMA PlanHolds ==
  ASSUME NEW f \in Plans
  PROVE  /\ DOMAIN f \subseteq Packages
         /\ \A p \in DOMAIN f : f[p] \in SUBSET Cves /\ f[p] # {}
BY DEF Plans

\* A thread at rest.
LEMMA IdleRaiserType ==
  IdleRaiser \in RaiserRec /\ IdleRaiser.pc = "idle" /\ IdleRaiser.kind = "none"
<1>1. <<>> \in Plans
  <2>1. <<>> \in [{} -> (SUBSET Cves) \ {{}}]
    OBVIOUS
  <2> QED BY <2>1 DEF Plans
<1> QED BY <1>1 DEF IdleRaiser, RaiserRec

\* A thread moves on, and does not go raising; if its pull request is open and
\* not recorded, that is remembered.
LEMMA RaiserMoves ==
  ASSUME RaiseInv, NEW t \in Raisers, NEW k \in RaiserRec, raiser' = [raiser EXCEPT ![t] = k],
         UNCHANGED <<opencves, record, opened>>, ~Raising(k), InPlan(k),
         raced' \in BOOLEAN, batch' \in BatchRec, raced => raced', raiser[t].pc = "record" => raced'
  PROVE  RaiseInv'
<1>1. /\ raiser \in [Raisers -> RaiserRec] /\ opened \in Seq(Fixes) /\ record \subseteq Fixes
      /\ opencves \subseteq Cves
  BY DEF RaiseInv, FixTypes
<1>2. raiser'[t] = k /\ \A u \in Raisers \ {t} : raiser'[u] = raiser[u]
  BY <1>1
<1>3. raiser' \in [Raisers -> RaiserRec]
  BY <1>1
<1>4. FixTypes'
  BY <1>1, <1>3 DEF FixTypes
<1>5. \A u \in Raisers : InPlan(raiser[u])'
  BY <1>2 DEF RaiseInv, InPlan
<1>6. ASSUME ~raced'
      PROVE  OnRecord' /\ RaisersApart' /\ BringsNews'
  <2>1. OnRecord /\ RaisersApart /\ BringsNews /\ raiser[t].pc # "record"
    BY <1>6 DEF RaiseInv
  <2>2. OnRecord'
    BY <1>2, <2>1 DEF OnRecord, FixOf
  <2>3. RaisersApart'
    BY <1>2, <2>1 DEF RaisersApart, Raising
  <2>4. BringsNews'
    BY <1>2, <2>1 DEF BringsNews, Raising, AlreadyRaised, Covered
  <2> QED BY <2>2, <2>3, <2>4
<1>7. OnePrPerFix'
  BY DEF RaiseInv, OnePrPerFix
<1> QED BY <1>4, <1>5, <1>6, <1>7 DEF RaiseInv

\* One item's status is written.
LEMMA ItemWritten ==
  ASSUME NEW f \in Items, NEW p, NEW word \in {"pending", "running", "succeeded", "failed"}
  PROVE  [f EXCEPT ![p] = word] \in Items /\ DOMAIN [f EXCEPT ![p] = word] = DOMAIN f
<1>1. PICK S \in SUBSET Packages : f \in [S -> {"pending", "running", "succeeded", "failed"}]
  BY DEF Items
<1>2. [f EXCEPT ![p] = word] \in [S -> {"pending", "running", "succeeded", "failed"}]
  BY <1>1
<1> QED BY <1>1, <1>2 DEF Items

\* An item is done.
LEMMA OutcomeMoves ==
  ASSUME RaiseInv, NEW t \in Raisers, NEW p, NEW ok \in BOOLEAN, Outcome(t, p, ok)
  PROVE  /\ batch' \in BatchRec
         /\ \E k \in RaiserRec : /\ raiser' = [raiser EXCEPT ![t] = k]
                                 /\ k.pc = "next" /\ ~Raising(k) /\ InPlan(k)
<1> DEFINE todo == raiser[t].todo \ {p}
           k == [raiser[t] EXCEPT !.pc = "next", !.todo = todo, !.pkg = NoName]
<1>1. raiser \in [Raisers -> RaiserRec] /\ raiser[t] \in RaiserRec
  BY DEF RaiseInv, FixTypes
<1>2. raiser' = [raiser EXCEPT ![t] = k]
  BY <1>1 DEF Outcome, Set
<1>3. todo \in SUBSET Packages
  BY <1>1 DEF RaiserRec
<1> HIDE DEF todo
<1>4. k \in RaiserRec /\ k.pc = "next"
  BY <1>1, <1>3 DEF RaiserRec
<1>5. ~Raising(k) /\ InPlan(k)
  BY <1>4 DEF Raising, InPlan
<1>6. batch' \in BatchRec
  <2>1. batch \in BatchRec
    BY DEF RaiseInv, FixTypes
  <2>2. CASE raiser[t].kind = "batch"
    <3> DEFINE word == IF ok THEN "succeeded" ELSE "failed"
               s == batch.succeeded + (IF ok THEN 1 ELSE 0)
               f == batch.failed + (IF ok THEN 0 ELSE 1)
    <3>1. batch' = [batch EXCEPT !.item = [batch.item EXCEPT ![p] = word], !.succeeded = s, !.failed = f]
      BY <2>1, <2>2 DEF Outcome
    <3>2. s \in Nat /\ f \in Nat /\ batch.item \in Items /\ word \in {"succeeded", "failed"}
      BY <2>1 DEF BatchRec
    <3> HIDE DEF s, f, word
    <3>3. [batch.item EXCEPT ![p] = word] \in Items
      BY <3>2, ItemWritten
    <3> QED BY <2>1, <3>1, <3>2, <3>3 DEF BatchRec
  <2>3. CASE raiser[t].kind # "batch"
    BY <2>1, <2>3 DEF Outcome
  <2> QED BY <2>2, <2>3
<1> HIDE DEF k
<1> QED BY <1>2, <1>4, <1>5, <1>6

\* A thread takes a click, the sweep or the batch, with the plan of the moment.
LEMMA RaiserStarts ==
  ASSUME RaiseInv, NEW t \in Raisers, NEW kind \in {"click", "sweep", "batch"},
         NEW todo \in SUBSET Packages,
         Set(t, [IdleRaiser EXCEPT !.pc = "next", !.kind = kind, !.plan = PlanOf(cached), !.todo = todo]),
         UNCHANGED <<opencves, record, opened, batch, raced>>, raiser[t].pc = "idle"
  PROVE  RaiseInv'
<1> DEFINE k == [IdleRaiser EXCEPT !.pc = "next", !.kind = kind, !.plan = PlanOf(cached), !.todo = todo]
<1>1. PlanOf(cached) \in Plans
  BY PlanIsPlan DEF RaiseInv, FixTypes
<1>2. k \in RaiserRec /\ k.pc = "next"
  BY <1>1, IdleRaiserType DEF RaiserRec
<1>3. raiser' = [raiser EXCEPT ![t] = k]
  BY DEF Set
<1> HIDE DEF k
<1>4. ~Raising(k) /\ InPlan(k)
  BY <1>2 DEF Raising, InPlan
<1>5. raced \in BOOLEAN /\ batch' \in BatchRec
  BY DEF RaiseInv, FixTypes
<1> QED BY <1>2, <1>3, <1>4, <1>5, RaiserMoves


\* click, sweep, StartBatch
LEMMA StartsStep ==
  ASSUME RaiseInv, NEW t \in Raisers,
         (\E p \in Packages : Click(t, p)) \/ Sweep(t) \/ StartBatch(t)
  PROVE  RaiseInv'
<1>1. Planned(cached) \subseteq Packages
  BY DEF Planned
<1>2. DOMAIN batch.item \subseteq Packages
  BY DEF RaiseInv, FixTypes, BatchRec, Items
<1>3. ASSUME NEW p \in Packages, Click(t, p) PROVE RaiseInv'
  BY <1>3, RaiserStarts, ZenonT(60) DEF Click
<1>4. ASSUME Sweep(t) PROVE RaiseInv'
  BY <1>1, <1>4, RaiserStarts DEF Sweep
<1>5. ASSUME StartBatch(t) PROVE RaiseInv'
  BY <1>2, <1>5, RaiserStarts DEF StartBatch
<1> QED BY <1>3, <1>4, <1>5

\* An item ends without a pull request, with one that is on record, or with
\* one that is not: the last is remembered.
LEMMA EndsStep ==
  ASSUME RaiseInv, NEW t \in Raisers,
         (\E p \in Packages : MissingPlan(t, p)) \/ Report(t) \/ RaiseFails(t)
  PROVE  RaiseInv'
<1>1. /\ raiser[t] \in RaiserRec /\ raced \in BOOLEAN
  BY DEF RaiseInv, FixTypes
<1>2. ASSUME NEW p, NEW ok \in BOOLEAN, Outcome(t, p, ok), UNCHANGED <<opencves, record, opened>>,
             raced' \in BOOLEAN, raced => raced', raiser[t].pc = "record" => raced'
      PROVE  RaiseInv'
  BY <1>2, OutcomeMoves, RaiserMoves
<1>3. ASSUME NEW p \in Packages, MissingPlan(t, p) PROVE RaiseInv'
  BY <1>1, <1>2, <1>3 DEF MissingPlan
<1>4. ASSUME Report(t) PROVE RaiseInv'
  BY <1>1, <1>2, <1>4 DEF Report
<1>5. ASSUME RaiseFails(t) PROVE RaiseInv'
  <2>1. raced' \in BOOLEAN /\ (raced => raced') /\ (raiser[t].pc = "record" => raced')
    BY <1>1, <1>5 DEF RaiseFails
  <2>2. Outcome(t, raiser[t].pkg, FALSE) /\ UNCHANGED <<opencves, record, opened>>
    BY <1>5 DEF RaiseFails
  <2> QED BY <1>2, <2>1, <2>2
<1> QED BY <1>3, <1>4, <1>5

\* A thread is done, or lost; a pull request lost with it is remembered.
LEMMA RestsStep ==
  ASSUME RaiseInv, NEW t \in Raisers, FinishRaise(t) \/ RaiserLost(t)
  PROVE  RaiseInv'
<1>1. raced \in BOOLEAN /\ batch \in BatchRec
  BY DEF RaiseInv, FixTypes
<1>2. ~Raising(IdleRaiser) /\ InPlan(IdleRaiser)
  BY IdleRaiserType DEF Raising, InPlan
<1>3. raiser' = [raiser EXCEPT ![t] = IdleRaiser] /\ UNCHANGED <<opencves, record, opened>>
  BY DEF FinishRaise, RaiserLost, Set
<1>4. raced' \in BOOLEAN /\ (raced => raced') /\ (raiser[t].pc = "record" => raced')
  BY <1>1 DEF FinishRaise, RaiserLost
<1>5. batch' \in BatchRec
  BY <1>1 DEF FinishRaise, RaiserLost, BatchRec
<1> QED BY <1>2, <1>3, <1>4, <1>5, IdleRaiserType, RaiserMoves

\* raise_package_fix_pr checks the records: it goes on only if they do not
\* cover the plan, and a thread that has the package in hand is remembered.
LEMMA CheckStep ==
  ASSUME RaiseInv, NEW t \in Raisers, NEW p \in Packages, Check(t, p)
  PROVE  RaiseInv'
<1>1. /\ raiser \in [Raisers -> RaiserRec] /\ raiser[t] \in RaiserRec /\ raced \in BOOLEAN
      /\ batch \in BatchRec /\ opened \in Seq(Fixes) /\ record \subseteq Fixes /\ opencves \subseteq Cves
  BY DEF RaiseInv, FixTypes
<1>2. CASE AlreadyRaised(p, raiser[t].plan[p])
  <2>1. Outcome(t, p, TRUE) /\ UNCHANGED <<opencves, record, opened, raced>> /\ raiser[t].pc = "next"
    BY <1>2 DEF Check
  <2> QED BY <1>1, <2>1, OutcomeMoves, RaiserMoves
<1>3. CASE ~AlreadyRaised(p, raiser[t].plan[p])
  <2> DEFINE k == [raiser[t] EXCEPT !.pc = "open", !.pkg = p]
  <2>1. /\ raiser' = [raiser EXCEPT ![t] = k] /\ UNCHANGED <<opencves, record, opened>>
        /\ p \in DOMAIN raiser[t].plan
    BY <1>3 DEF Check, Set
  <2>2. raced' = (raced \/ \E u \in Raisers \ {t} : raiser[u].pc \in {"open", "record"} /\ raiser[u].pkg = p)
    BY <1>3 DEF Check
  <2>3. k \in RaiserRec /\ k.pc = "open" /\ k.pkg = p /\ k.plan = raiser[t].plan
    BY <1>1 DEF RaiserRec
  <2>4. batch' \in BatchRec
    <3>1. CASE raiser[t].kind = "batch"
      <4>1. batch' = [batch EXCEPT !.item = [batch.item EXCEPT ![p] = "running"]]
        BY <1>1, <1>3, <3>1 DEF Check
      <4>2. [batch.item EXCEPT ![p] = "running"] \in Items
        BY <1>1, ItemWritten DEF BatchRec
      <4> QED BY <1>1, <4>1, <4>2 DEF BatchRec
    <3>2. CASE raiser[t].kind # "batch"
      BY <1>1, <1>3, <3>2 DEF Check
    <3> QED BY <3>1, <3>2
  <2> HIDE DEF k
  <2>5. raiser'[t] = k /\ \A u \in Raisers \ {t} : raiser'[u] = raiser[u]
    BY <1>1, <2>1
  <2>6. FixTypes'
    <3>1. raiser' \in [Raisers -> RaiserRec]
      BY <1>1, <2>1, <2>3
    <3>2. raced' \in BOOLEAN
      BY <2>2
    <3> QED BY <1>1, <2>1, <2>4, <3>1, <3>2 DEF FixTypes
  <2>7. \A u \in Raisers : InPlan(raiser[u])'
    BY <2>1, <2>3, <2>5 DEF RaiseInv, InPlan
  <2>8. ASSUME ~raced'
        PROVE  OnRecord' /\ RaisersApart' /\ BringsNews'
    <3>1. /\ OnRecord /\ RaisersApart /\ BringsNews
          /\ \A u \in Raisers \ {t} : ~(Raising(raiser[u]) /\ raiser[u].pkg = p)
      BY <2>2, <2>8 DEF RaiseInv, Raising
    <3>2. raiser[t].pc = "next"
      BY DEF Check
    <3>3. OnRecord'
      BY <2>1, <2>5, <3>1, <3>2 DEF OnRecord, FixOf
    <3>4. RaisersApart'
      BY <2>3, <2>5, <3>1 DEF RaisersApart, Raising
    <3>5. BringsNews'
      BY <1>3, <2>1, <2>3, <2>5, <3>1 DEF BringsNews, AlreadyRaised, Covered
    <3> QED BY <3>3, <3>4, <3>5
  <2>9. OnePrPerFix'
    BY <1>1, <2>1, <2>2 DEF RaiseInv, OnePrPerFix
  <2> QED BY <2>6, <2>7, <2>8, <2>9 DEF RaiseInv
<1> QED BY <1>2, <1>3

\* The pull request is opened: every earlier one for the package is on record,
\* and the records do not cover this one.
LEMMA OpenPrStep ==
  ASSUME RaiseInv, NEW t \in Raisers, OpenPr(t)
  PROVE  RaiseInv'
<1> DEFINE k == [raiser[t] EXCEPT !.pc = "record"]
           p == raiser[t].pkg
           fix == FixOf(raiser[t])
<1>1. /\ raiser \in [Raisers -> RaiserRec] /\ raiser[t] \in RaiserRec /\ raced \in BOOLEAN
      /\ batch \in BatchRec /\ opened \in Seq(Fixes) /\ record \subseteq Fixes /\ opencves \subseteq Cves
  BY DEF RaiseInv, FixTypes
<1>2. /\ raiser' = [raiser EXCEPT ![t] = k] /\ raiser[t].pc = "open" /\ opened' = Append(opened, fix)
      /\ UNCHANGED <<opencves, record, batch, raced>>
  BY DEF OpenPr, Set, FixOf
<1>3. /\ k \in RaiserRec /\ k.pc = "record" /\ k.pkg = p /\ k.plan = raiser[t].plan
  BY <1>1 DEF RaiserRec
<1>4. p \in DOMAIN raiser[t].plan /\ raiser[t].plan \in Plans
  BY <1>1, <1>2 DEF RaiseInv, InPlan, RaiserRec
<1>5. fix \in Fixes /\ fix.pkg = p /\ fix.ids = raiser[t].plan[p] /\ fix.ids # {} /\ FixOf(k) = fix
  BY <1>3, <1>4, PlanHolds DEF Fixes, FixOf
<1> HIDE DEF k, fix, p
<1>6. raiser'[t] = k /\ \A u \in Raisers \ {t} : raiser'[u] = raiser[u]
  BY <1>1, <1>2
<1>7. /\ Len(opened) \in Nat /\ opened' \in Seq(Fixes) /\ Len(opened') = Len(opened) + 1
      /\ \A i \in 1..Len(opened) : opened'[i] = opened[i] /\ opened[i] \in Fixes
      /\ opened'[Len(opened) + 1] = fix
      /\ DOMAIN opened = 1..Len(opened) /\ DOMAIN opened' = 1..(Len(opened) + 1)
  BY <1>1, <1>2, <1>5
<1>8. FixTypes'
  <2>1. raiser' \in [Raisers -> RaiserRec]
    BY <1>1, <1>2, <1>3
  <2> QED BY <1>1, <1>2, <1>7, <2>1 DEF FixTypes
<1>9. \A u \in Raisers : InPlan(raiser[u])'
  BY <1>3, <1>4, <1>6 DEF RaiseInv, InPlan
<1>10. ASSUME ~raced
       PROVE  OnRecord' /\ RaisersApart' /\ BringsNews' /\ OnePrPerFix'
  <2>1. OnRecord /\ RaisersApart /\ BringsNews /\ OnePrPerFix
    BY <1>10 DEF RaiseInv
  <2>2. OnRecord'
    <3> SUFFICES ASSUME NEW i \in DOMAIN opened'
                 PROVE  opened'[i] \in record' \/ \E u \in Raisers : raiser'[u].pc = "record" /\ opened'[i] = FixOf(raiser'[u])
      BY DEF OnRecord, FixOf
    <3>1. CASE i = Len(opened) + 1
      BY <1>3, <1>5, <1>6, <1>7, <3>1
    <3>2. CASE i \in 1..Len(opened)
      BY <1>2, <1>6, <1>7, <2>1, <3>2 DEF OnRecord
    <3> QED BY <1>7, <3>1, <3>2
  <2>3. RaisersApart'
    BY <1>2, <1>3, <1>6, <2>1 DEF RaisersApart, Raising, p
  <2>4. BringsNews'
    BY <1>2, <1>3, <1>6, <2>1 DEF BringsNews, AlreadyRaised, Covered
  <2>5. \A i \in 1..Len(opened) : opened[i].pkg = p => opened[i] \in record
    <3> SUFFICES ASSUME NEW i \in 1..Len(opened), opened[i].pkg = p PROVE opened[i] \in record
      OBVIOUS
    <3>1. ASSUME NEW u \in Raisers, raiser[u].pc = "record", opened[i] = FixOf(raiser[u]) PROVE FALSE
      <4>1. raiser[u].pkg = p
        BY <3>1 DEF FixOf
      <4>2. u = t
        BY <1>2, <2>1, <3>1, <4>1 DEF RaisersApart, Raising, p
      <4> QED BY <1>2, <3>1, <4>2
    <3> QED BY <1>7, <2>1, <3>1 DEF OnRecord
  <2>6. ~AlreadyRaised(p, fix.ids)
    BY <1>2, <1>5, <2>1 DEF BringsNews, p
  <2>7. PICK c \in fix.ids : c \notin Covered(p)
    <3>1. CASE \E r \in record : r.pkg = p
      BY <2>6, <3>1 DEF AlreadyRaised
    <3>2. CASE ~\E r \in record : r.pkg = p
      BY <1>5, <3>2 DEF Covered
    <3> QED BY <3>1, <3>2
  <2>8. \A i \in 1..Len(opened) : opened[i].pkg = p => c \notin opened[i].ids
    BY <2>5, <2>7 DEF Covered
  <2>9. OnePrPerFix'
    <3> SUFFICES ASSUME NEW j \in DOMAIN opened'
                 PROVE  ~ opened'[j].ids \subseteq
                          UNION {opened'[i].ids : i \in {i \in 1..(j - 1) : opened'[i].pkg = opened'[j].pkg}}
      BY DEF OnePrPerFix
    <3>1. CASE j = Len(opened) + 1
      <4>1. \A i \in 1..(j - 1) : i \in 1..Len(opened) /\ opened'[i] = opened[i]
        BY <1>7, <3>1
      <4>2. opened'[j] = fix
        BY <1>7, <3>1
      <4>3. c \in opened'[j].ids
        BY <2>7, <4>2
      <4>4. ASSUME NEW i \in {i \in 1..(j - 1) : opened'[i].pkg = opened'[j].pkg}
            PROVE  c \notin opened'[i].ids
        BY <1>5, <2>8, <4>1, <4>2
      <4> QED BY <4>3, <4>4
    <3>2. CASE j \in 1..Len(opened)
      <4>1. \A i \in 1..(j - 1) : i \in 1..Len(opened) /\ opened'[i] = opened[i]
        BY <1>7, <3>2
      <4>2. opened'[j] = opened[j]
        BY <1>7, <3>2
      <4>3. PICK d \in opened[j].ids :
              d \notin UNION {opened[i].ids : i \in {i \in 1..(j - 1) : opened[i].pkg = opened[j].pkg}}
        BY <1>7, <1>10, <2>1, <3>2 DEF OnePrPerFix
      <4>4. ASSUME NEW i \in {i \in 1..(j - 1) : opened'[i].pkg = opened'[j].pkg}
            PROVE  d \notin opened'[i].ids
        BY <4>1, <4>2, <4>3
      <4> QED BY <4>2, <4>3, <4>4
    <3> QED BY <1>7, <3>1, <3>2
  <2> QED BY <2>2, <2>3, <2>4, <2>9
<1>11. CASE raced
  BY <1>2, <1>8, <1>9, <1>11 DEF RaiseInv, OnePrPerFix
<1>12. CASE ~raced
  BY <1>2, <1>8, <1>9, <1>10, <1>12 DEF RaiseInv
<1> QED BY <1>11, <1>12

\* The record is written; nobody else is raising that package.
LEMMA RecordPrStep ==
  ASSUME RaiseInv, NEW t \in Raisers, RecordPr(t)
  PROVE  RaiseInv'
<1> DEFINE k == [raiser[t] EXCEPT !.pc = "report"]
           p == raiser[t].pkg
           fix == FixOf(raiser[t])
<1>1. /\ raiser \in [Raisers -> RaiserRec] /\ raiser[t] \in RaiserRec /\ raced \in BOOLEAN
      /\ batch \in BatchRec /\ opened \in Seq(Fixes) /\ record \subseteq Fixes /\ opencves \subseteq Cves
  BY DEF RaiseInv, FixTypes
<1>2. /\ raiser' = [raiser EXCEPT ![t] = k] /\ raiser[t].pc = "record" /\ record' = record \cup {fix}
      /\ UNCHANGED <<opencves, opened, batch, raced>>
  BY DEF RecordPr, Set, FixOf
<1>3. /\ k \in RaiserRec /\ k.pc = "report" /\ k.pkg = p /\ k.plan = raiser[t].plan
  BY <1>1 DEF RaiserRec
<1>4. p \in DOMAIN raiser[t].plan /\ raiser[t].plan \in Plans
  BY <1>1, <1>2 DEF RaiseInv, InPlan, RaiserRec
<1>5. fix \in Fixes /\ fix.pkg = p
  BY <1>4, PlanHolds DEF Fixes, FixOf
<1> HIDE DEF k, fix, p
<1>6. raiser'[t] = k /\ \A u \in Raisers \ {t} : raiser'[u] = raiser[u]
  BY <1>1, <1>2
<1>7. FixTypes'
  <2>1. raiser' \in [Raisers -> RaiserRec]
    BY <1>1, <1>2, <1>3
  <2>2. record' \subseteq Fixes
    BY <1>1, <1>2, <1>5
  <2> QED BY <1>1, <1>2, <2>1, <2>2 DEF FixTypes
<1>8. \A u \in Raisers : InPlan(raiser[u])'
  BY <1>3, <1>4, <1>6 DEF RaiseInv, InPlan
<1>9. ASSUME ~raced
      PROVE  OnRecord' /\ RaisersApart' /\ BringsNews'
  <2>1. OnRecord /\ RaisersApart /\ BringsNews
    BY <1>9 DEF RaiseInv
  <2>2. OnRecord'
    BY <1>2, <1>6, <2>1 DEF OnRecord, fix, FixOf
  <2>3. RaisersApart'
    BY <1>3, <1>6, <2>1 DEF RaisersApart, Raising
  <2>4. BringsNews'
    <3> SUFFICES ASSUME NEW u \in Raisers, raiser'[u].pc = "open"
                 PROVE  ~AlreadyRaised(raiser[u].pkg, raiser[u].plan[raiser[u].pkg])'
      BY DEF BringsNews
    <3>1. u # t /\ raiser'[u] = raiser[u]
      BY <1>3, <1>6
    <3>2. raiser[u].pkg # p
      BY <1>2, <2>1, <3>1 DEF RaisersApart, Raising, p
    <3>3. \A r : r \in record' /\ r.pkg = raiser[u].pkg <=> r \in record /\ r.pkg = raiser[u].pkg
      BY <1>2, <1>5, <3>2
    <3>4. ~AlreadyRaised(raiser[u].pkg, raiser[u].plan[raiser[u].pkg])
      BY <2>1, <3>1 DEF BringsNews
    <3>5. Covered(raiser[u].pkg)' = Covered(raiser[u].pkg)
      BY <3>1, <3>3 DEF Covered
    <3> QED BY <3>1, <3>3, <3>4, <3>5 DEF AlreadyRaised
  <2> QED BY <2>2, <2>3, <2>4
<1>10. OnePrPerFix'
  BY <1>2 DEF RaiseInv, OnePrPerFix
<1> QED BY <1>2, <1>7, <1>8, <1>9, <1>10 DEF RaiseInv

\* Everything else leaves the threads and the pull requests alone.
LEMMA AsideStep ==
  ASSUME RaiseInv,
         \/ \E t \in Raisers : BatchAgain(t)
         \/ \E sent \in BOOLEAN : RaiseAll(sent)
         \/ BatchStale
         \/ \E c \in Cves : Rescan(c) \/ \E row \in {Enrichment(osv[c]), NotFound} : Enrich(c, row)
         \/ UNCHANGED fixVars
  PROVE  RaiseInv'
<1>1. /\ raiser \in [Raisers -> RaiserRec] /\ raced \in BOOLEAN
      /\ batch \in BatchRec /\ opened \in Seq(Fixes) /\ record \subseteq Fixes /\ opencves \subseteq Cves
  BY DEF RaiseInv, FixTypes
<1>2. UNCHANGED <<record, opened, raiser, raced>>
  BY DEF BatchAgain, RaiseAll, BatchStale, Rescan, Enrich, fixVars
<1>3. opencves' \subseteq Cves
  BY <1>1 DEF BatchAgain, RaiseAll, BatchStale, Rescan, Enrich, fixVars
<1>4. batch' \in BatchRec
  <2>1. ASSUME NEW sent \in BOOLEAN, RaiseAll(sent) PROVE batch' \in BatchRec
    <3> DEFINE status == IF sent THEN "running" ELSE "completed"
               item == [p \in Planned(cached) |-> IF sent THEN "pending" ELSE "failed"]
               failed == IF sent THEN 0 ELSE Cardinality(Planned(cached))
    <3>1. batch' = [NoBatch EXCEPT !.status = status, !.item = item, !.failed = failed]
      BY <2>1 DEF RaiseAll
    <3>2. Planned(cached) \in SUBSET Packages /\ IsFiniteSet(Planned(cached))
      BY FixPlanAssumption, FS_Subset DEF Planned
    <3>3. item \in Items
      BY <3>2 DEF Items
    <3>4. failed \in Nat /\ status \in {"running", "completed"}
      BY <3>2, FS_CardinalityType
    <3> HIDE DEF status, item, failed
    <3>5. batch' = [status |-> status, item |-> item, succeeded |-> 0, failed |-> failed]
      BY <3>1 DEF NoBatch
    <3> QED BY <3>3, <3>4, <3>5 DEF BatchRec
  <2>2. ASSUME BatchStale PROVE batch' \in BatchRec
    BY <1>1, <2>2 DEF BatchStale, BatchRec
  <2>3. CASE UNCHANGED batch
    BY <1>1, <2>3
  <2> QED BY <2>1, <2>2, <2>3 DEF BatchAgain, Rescan, Enrich, fixVars
<1>5. FixTypes'
  BY <1>1, <1>2, <1>3, <1>4 DEF FixTypes
<1>6. (\A t \in Raisers : InPlan(raiser[t]))' /\ OnePrPerFix'
  BY <1>2 DEF RaiseInv, InPlan, OnePrPerFix
<1>7. (raced \/ (OnRecord /\ RaisersApart /\ BringsNews))'
  <2>1. (OnRecord <=> OnRecord') /\ (RaisersApart <=> RaisersApart')
    BY <1>2 DEF OnRecord, RaisersApart, FixOf, Raising
  <2>2. BringsNews => BringsNews'
    BY <1>2 DEF BringsNews, AlreadyRaised, Covered
  <2> QED BY <1>2, <2>1, <2>2 DEF RaiseInv
<1> QED BY <1>5, <1>6, <1>7 DEF RaiseInv

\* Raising starts with no pull request, and every step keeps the invariant.
LEMMA RaiseInvariant == FixSpec => []RaiseInv
<1>1. ASSUME FixInit PROVE RaiseInv
  <2>1. /\ opencves = Cves /\ record = {} /\ opened = <<>> /\ raced = FALSE /\ batch = NoBatch
        /\ raiser = [t \in Raisers |-> IdleRaiser]
    BY <1>1 DEF FixInit
  <2>2. raiser \in [Raisers -> RaiserRec] /\ opened \in Seq(Fixes)
    BY <2>1, IdleRaiserType
  <2>3. batch \in BatchRec
    <3>1. <<>> \in [{} -> {"pending", "running", "succeeded", "failed"}]
      OBVIOUS
    <3>2. <<>> \in Items
      BY <3>1 DEF Items
    <3> QED BY <2>1, <3>2 DEF NoBatch, BatchRec
  <2>4. FixTypes
    BY <2>1, <2>2, <2>3 DEF FixTypes
  <2>5. \A t \in Raisers : raiser[t].pc = "idle"
    BY <2>1, IdleRaiserType
  <2>6. OnRecord /\ RaisersApart /\ BringsNews /\ OnePrPerFix
    BY <2>1, <2>5 DEF OnRecord, RaisersApart, BringsNews, Raising, OnePrPerFix
  <2> QED BY <2>4, <2>5, <2>6 DEF RaiseInv, InPlan
<1>2. ASSUME RaiseInv, [FixNext]_fixVars PROVE RaiseInv'
  <2>1. ASSUME NEW t \in Raisers, RaiserStep(t) PROVE RaiseInv'
    <3>1. CASE StartBatch(t)
      BY <1>2, <3>1, StartsStep
    <3>2. ASSUME NEW p \in Packages, MissingPlan(t, p) \/ Check(t, p) PROVE RaiseInv'
      BY <1>2, <3>2, EndsStep, CheckStep
    <3>3. CASE OpenPr(t)
      BY <1>2, <3>3, OpenPrStep
    <3>4. CASE RecordPr(t)
      BY <1>2, <3>4, RecordPrStep
    <3>5. CASE Report(t) \/ FinishRaise(t)
      BY <1>2, <3>5, EndsStep, RestsStep
    <3> QED BY <2>1, <3>1, <3>2, <3>3, <3>4, <3>5 DEF RaiserStep
  <2>2. ASSUME NEW t \in Raisers, RaiseFails(t) \/ RaiserLost(t) \/ Sweep(t) PROVE RaiseInv'
    BY <1>2, <2>2, EndsStep, RestsStep, StartsStep
  <2>3. ASSUME NEW t \in Raisers, NEW p \in Packages, Click(t, p) PROVE RaiseInv'
    BY <1>2, <2>3, StartsStep
  <2>4. CASE \/ \E t \in Raisers : BatchAgain(t)
             \/ \E sent \in BOOLEAN : RaiseAll(sent)
             \/ BatchStale
             \/ \E c \in Cves : Rescan(c) \/ \E row \in {Enrichment(osv[c]), NotFound} : Enrich(c, row)
             \/ UNCHANGED fixVars
    BY <1>2, <2>4, AsideStep
  <2> QED BY <1>2, <2>1, <2>2, <2>3, <2>4 DEF FixNext
<1> QED BY <1>1, <1>2, PTL DEF FixSpec

\* raise_package_fix_pr, however many threads, clicks, batches started again
\* and sweeps there are: a pull request brings a finding that no earlier one
\* for its package covered, as long as two raisers of one package do not
\* overlap and none is lost between the pull request and its record
\* (core/remediation_autofix.py 124-137).
THEOREM OnePrPerFixHolds == FixSpec => []OnePrPerFix
<1>1. RaiseInv => OnePrPerFix
  BY DEF RaiseInv
<1> QED BY <1>1, RaiseInvariant, PTL

-----------------------------------------------------------------------------
(* The Fix Plan: the batch.                                                *)

Settled(p) == batch.item[p] \in {"succeeded", "failed"}

Works(t) == raiser[t].kind = "batch"

\* An item without an outcome is still somebody's to do.
Assigned ==
  \A p \in DOMAIN batch.item :
    Settled(p) \/ batchMsg \/ \E t \in Raisers : Works(t) /\ p \in raiser[t].todo

InBatch(r) ==
  /\ r.pc # "idle"
  /\ r.todo \subseteq DOMAIN batch.item
  /\ r.pc \in {"open", "record", "report"} => r.pkg \in r.todo

\* Started once: one worker at most, which has not been where it has yet to go.
CountedOnce ==
  /\ batchMsg => \A t \in Raisers : ~Works(t)
  /\ batchMsg => \A p \in DOMAIN batch.item : ~Settled(p)
  /\ \A t, u \in Raisers : Works(t) /\ Works(u) => t = u
  /\ \A t \in Raisers : Works(t) => \A p \in raiser[t].todo : ~Settled(p)
  /\ batch.succeeded = Cardinality({p \in DOMAIN batch.item : batch.item[p] = "succeeded"})
  /\ batch.failed = Cardinality({p \in DOMAIN batch.item : batch.item[p] = "failed"})

BatchInv ==
  /\ batchMsg \in BOOLEAN /\ rerun \in BOOLEAN
  /\ batchMsg => batch.status # "none"
  /\ \A t \in Raisers : Works(t) => InBatch(raiser[t]) /\ batch.status # "none"
  /\ Assigned
  /\ rerun \/ CountedOnce

\* The items, the message and the workers' lists stay as they are.
LEMMA BatchAlone ==
  ASSUME BatchInv,
         batch'.item = batch.item, batch'.succeeded = batch.succeeded, batch'.failed = batch.failed,
         batch.status # "none" => batch'.status # "none", UNCHANGED <<batchMsg, rerun>>,
         \A t \in Raisers : Works(t)' <=> Works(t),
         \A t \in Raisers : Works(t) => InBatch(raiser'[t]) /\ raiser'[t].todo = raiser[t].todo
  PROVE  BatchInv'
<1>1. \A t \in Raisers : Works(t)' => InBatch(raiser[t])' /\ batch'.status # "none"
  BY DEF BatchInv, InBatch
<1>2. Assigned'
  BY DEF BatchInv, Assigned, Settled
<1>3. CountedOnce => CountedOnce'
  BY DEF CountedOnce, Settled
<1> QED BY <1>1, <1>2, <1>3 DEF BatchInv

\* A thread that is not the batch's.
LEMMA OthersMove ==
  ASSUME BatchInv, raiser \in [Raisers -> RaiserRec], NEW t \in Raisers, NEW k, k.kind # "batch", ~Works(t),
         raiser' = [raiser EXCEPT ![t] = k], UNCHANGED <<batch, batchMsg, rerun>>
  PROVE  BatchInv'
<1>1. raiser'[t] = k /\ \A u \in Raisers \ {t} : raiser'[u] = raiser[u]
  OBVIOUS
<1>2. \A u \in Raisers : Works(u)' <=> Works(u)
  BY <1>1 DEF Works
<1>3. \A u \in Raisers : Works(u) => InBatch(raiser'[u]) /\ raiser'[u].todo = raiser[u].todo
  BY <1>1 DEF BatchInv
<1> QED BY <1>2, <1>3, BatchAlone

\* The batch's own thread goes on with the item it has.
LEMMA WorkerMoves ==
  ASSUME BatchInv, raiser \in [Raisers -> RaiserRec], NEW t \in Raisers, NEW k, k.kind = "batch", Works(t),
         raiser' = [raiser EXCEPT ![t] = k], UNCHANGED <<batch, batchMsg, rerun>>,
         k.todo = raiser[t].todo, InBatch(k)
  PROVE  BatchInv'
<1>1. raiser'[t] = k /\ \A u \in Raisers \ {t} : raiser'[u] = raiser[u]
  OBVIOUS
<1>2. \A u \in Raisers : Works(u)' <=> Works(u)
  BY <1>1 DEF Works
<1>3. \A u \in Raisers : Works(u) => InBatch(raiser'[u]) /\ raiser'[u].todo = raiser[u].todo
  BY <1>1 DEF BatchInv
<1> QED BY <1>2, <1>3, BatchAlone

\* An item of the batch is done: its outcome and the counter go together.
LEMMA ItemDone ==
  ASSUME BatchInv, FixTypes, NEW t \in Raisers, Works(t), NEW p \in raiser[t].todo, NEW ok \in BOOLEAN,
         Outcome(t, p, ok), UNCHANGED <<batchMsg, rerun>>
  PROVE  BatchInv'
<1> DEFINE word == IF ok THEN "succeeded" ELSE "failed"
           more == IF ok THEN 1 ELSE 0
           less == IF ok THEN 0 ELSE 1
           item == [batch.item EXCEPT ![p] = word]
           k == [raiser[t] EXCEPT !.pc = "next", !.todo = @ \ {p}, !.pkg = NoName]
<1>1. raiser \in [Raisers -> RaiserRec] /\ raiser[t] \in RaiserRec /\ batch \in BatchRec
  BY DEF FixTypes
<1>2. batch' = [batch EXCEPT !.item = item, !.succeeded = batch.succeeded + more, !.failed = batch.failed + less]
  BY <1>1 DEF Outcome, Works
<1>3. raiser' = [raiser EXCEPT ![t] = k]
  BY DEF Outcome, Set
<1>4. k.pc = "next" /\ k.todo = raiser[t].todo \ {p} /\ k.kind = "batch"
  BY <1>1 DEF RaiserRec, Works
<1>5. raiser'[t] = k /\ \A u \in Raisers \ {t} : raiser'[u] = raiser[u]
  BY <1>1, <1>3
<1>6. /\ p \in DOMAIN batch.item /\ batch.status # "none"
      /\ \A u \in Raisers : Works(u) => InBatch(raiser[u])
      /\ raiser[t].todo \subseteq DOMAIN batch.item
  BY DEF BatchInv, InBatch
<1>7. PICK D \in SUBSET Packages : batch.item \in [D -> {"pending", "running", "succeeded", "failed"}]
  BY <1>1 DEF BatchRec, Items
<1>8. DOMAIN batch.item = D /\ IsFiniteSet(D) /\ p \in D
  BY <1>6, <1>7, FixPlanAssumption, FS_Subset
<1> HIDE DEF k
<1>9. /\ batch'.item = item /\ batch'.succeeded = batch.succeeded + more
      /\ batch'.failed = batch.failed + less /\ batch'.status = batch.status
  BY <1>1, <1>2 DEF BatchRec
<1>10. /\ DOMAIN item = D /\ item[p] = word /\ \A q \in D \ {p} : item[q] = batch.item[q]
       /\ word \in {"succeeded", "failed"}
  BY <1>7, <1>8
<1>11. \A u \in Raisers : Works(u)' <=> Works(u)
  BY <1>4, <1>5 DEF Works
<1>12. \A u \in Raisers : Works(u)' => InBatch(raiser[u])' /\ batch'.status # "none"
  <2> SUFFICES ASSUME NEW u \in Raisers, Works(u) PROVE InBatch(raiser[u])' /\ batch'.status # "none"
    BY <1>11
  <2>1. CASE u = t
    BY <1>4, <1>5, <1>6, <1>8, <1>9, <1>10, <2>1 DEF InBatch
  <2>2. CASE u # t
    BY <1>5, <1>6, <1>8, <1>9, <1>10, <2>2 DEF InBatch
  <2> QED BY <2>1, <2>2
<1>13. Assigned'
  <2> SUFFICES ASSUME NEW q \in D, q # p
               PROVE  Settled(q)' \/ batchMsg' \/ \E u \in Raisers : Works(u)' /\ q \in raiser'[u].todo
    BY <1>9, <1>10 DEF Assigned, Settled
  <2>1. Settled(q)' <=> Settled(q)
    BY <1>9, <1>10 DEF Settled
  <2>2. \A u \in Raisers : q \in raiser[u].todo => q \in raiser'[u].todo
    BY <1>4, <1>5
  <2>3. Settled(q) \/ batchMsg \/ \E u \in Raisers : Works(u) /\ q \in raiser[u].todo
    BY <1>8 DEF BatchInv, Assigned
  <2> QED BY <1>11, <2>1, <2>2, <2>3
<1>14. ASSUME CountedOnce PROVE CountedOnce'
  <2>1. ~Settled(p) /\ ~batchMsg /\ \A u \in Raisers : Works(u) => u = t
    BY <1>14 DEF CountedOnce
  <2>2. /\ batch.succeeded = Cardinality({q \in D : batch.item[q] = "succeeded"})
        /\ batch.failed = Cardinality({q \in D : batch.item[q] = "failed"})
        /\ batch.succeeded \in Nat /\ batch.failed \in Nat
    BY <1>1, <1>8, <1>14 DEF CountedOnce, BatchRec
  <2>3. Cardinality({q \in D : item[q] = "succeeded"}) = batch.succeeded + more
    <3> DEFINE S == {q \in D : batch.item[q] = "succeeded"}
               U == {q \in D : item[q] = "succeeded"}
    <3>1. S \in SUBSET D /\ p \notin S
      BY <2>1 DEF Settled
    <3>2. (word = "succeeded" => U = S \cup {p}) /\ (word # "succeeded" => U = S)
      BY <1>8, <1>10, <2>1 DEF Settled
    <3>3. (word = "succeeded" => more = 1) /\ (word # "succeeded" => more = 0)
      OBVIOUS
    <3>4. batch.succeeded = Cardinality(S) /\ batch.succeeded \in Nat
      BY <2>2
    <3> HIDE DEF S, U, word, more
    <3>5. IsFiniteSet(S)
      BY <1>8, <3>1, FS_Subset
    <3>6. Cardinality(S \cup {p}) = Cardinality(S) + 1
      BY <3>1, <3>5, FS_AddElement
    <3>7. Cardinality(U) = batch.succeeded + more
      BY <3>2, <3>3, <3>4, <3>6
    <3> QED BY <3>7 DEF U
  <2>4. Cardinality({q \in D : item[q] = "failed"}) = batch.failed + less
    <3> DEFINE S == {q \in D : batch.item[q] = "failed"}
               U == {q \in D : item[q] = "failed"}
    <3>1. S \in SUBSET D /\ p \notin S
      BY <2>1 DEF Settled
    <3>2. (word = "failed" => U = S \cup {p}) /\ (word # "failed" => U = S)
      BY <1>8, <1>10, <2>1 DEF Settled
    <3>3. (word = "failed" => less = 1) /\ (word # "failed" => less = 0)
      OBVIOUS
    <3>4. batch.failed = Cardinality(S) /\ batch.failed \in Nat
      BY <2>2
    <3> HIDE DEF S, U, word, less
    <3>5. IsFiniteSet(S)
      BY <1>8, <3>1, FS_Subset
    <3>6. Cardinality(S \cup {p}) = Cardinality(S) + 1
      BY <3>1, <3>5, FS_AddElement
    <3>7. Cardinality(U) = batch.failed + less
      BY <3>2, <3>3, <3>4, <3>6
    <3> QED BY <3>7 DEF U
  <2> HIDE DEF item, more, less
  <2>5. /\ batch'.succeeded = Cardinality({q \in DOMAIN batch'.item : batch'.item[q] = "succeeded"})
        /\ batch'.failed = Cardinality({q \in DOMAIN batch'.item : batch'.item[q] = "failed"})
    BY <1>9, <1>10, <2>2, <2>3, <2>4
  <2>6. \A u \in Raisers : Works(u)' => u = t
    BY <1>11, <2>1
  <2>7. \A q \in raiser'[t].todo : ~Settled(q)'
    <3> SUFFICES ASSUME NEW q \in raiser[t].todo, q # p PROVE ~Settled(q)'
      BY <1>4, <1>5
    <3>1. q \in D /\ ~Settled(q)
      BY <1>6, <1>8, <1>14 DEF CountedOnce
    <3> QED BY <1>9, <1>10, <3>1 DEF Settled
  <2>8. ~batchMsg'
    BY <2>1
  <2> QED BY <2>5, <2>6, <2>7, <2>8 DEF CountedOnce
<1> QED BY <1>6, <1>9, <1>12, <1>13, <1>14 DEF BatchInv

\* The item is somebody else's: the batch hears nothing of it.
LEMMA ItemAside ==
  ASSUME BatchInv, FixTypes, NEW t \in Raisers, ~Works(t), NEW p, NEW ok \in BOOLEAN,
         Outcome(t, p, ok), UNCHANGED <<batchMsg, rerun>>
  PROVE  BatchInv'
<1> DEFINE k == [raiser[t] EXCEPT !.pc = "next", !.todo = @ \ {p}, !.pkg = NoName]
<1>1. raiser \in [Raisers -> RaiserRec] /\ raiser[t] \in RaiserRec
  BY DEF FixTypes
<1>2. raiser' = [raiser EXCEPT ![t] = k] /\ batch' = batch
  BY DEF Outcome, Set, Works
<1>3. k.kind # "batch"
  BY <1>1 DEF RaiserRec, Works
<1> HIDE DEF k
<1> QED BY <1>1, <1>2, <1>3, OthersMove

\* The ends of items.
LEMMA BatchEndsStep ==
  ASSUME BatchInv, FixTypes, NEW t \in Raisers,
         (\E p \in Packages : MissingPlan(t, p)) \/ Report(t) \/ RaiseFails(t)
  PROVE  BatchInv'
<1>1. ASSUME NEW p \in Packages, MissingPlan(t, p) PROVE BatchInv'
  BY <1>1, ItemDone DEF MissingPlan, Works
<1>2. ASSUME Report(t) \/ RaiseFails(t) PROVE BatchInv'
  <2>1. /\ raiser[t].pc \in {"open", "record", "report"} /\ UNCHANGED <<batchMsg, rerun>>
        /\ \E ok \in BOOLEAN : Outcome(t, raiser[t].pkg, ok)
    BY <1>2 DEF Report, RaiseFails
  <2>2. CASE Works(t)
    <3>1. raiser[t].pkg \in raiser[t].todo
      BY <2>1, <2>2 DEF BatchInv, InBatch
    <3> QED BY <2>1, <2>2, <3>1, ItemDone
  <2>3. CASE ~Works(t)
    BY <2>1, <2>3, ItemAside
  <2> QED BY <2>2, <2>3
<1> QED BY <1>1, <1>2

\* A thread takes a click or the sweep.
LEMMA BatchClickStep ==
  ASSUME BatchInv, FixTypes, NEW t \in Raisers, (\E p \in Packages : Click(t, p)) \/ Sweep(t)
  PROVE  BatchInv'
<1>1. raiser \in [Raisers -> RaiserRec] /\ raiser[t].pc = "idle"
  BY DEF FixTypes, Click, Sweep
<1>2. ~Works(t)
  BY <1>1 DEF BatchInv, InBatch
<1>3. ASSUME NEW kind \in {"click", "sweep"}, NEW todo,
             Set(t, [IdleRaiser EXCEPT !.pc = "next", !.kind = kind, !.plan = PlanOf(cached), !.todo = todo]),
             UNCHANGED <<batch, batchMsg, rerun>>
      PROVE  BatchInv'
  <2> DEFINE k == [IdleRaiser EXCEPT !.pc = "next", !.kind = kind, !.plan = PlanOf(cached), !.todo = todo]
  <2>1. k.kind # "batch"
    BY DEF IdleRaiser
  <2>2. raiser' = [raiser EXCEPT ![t] = k]
    BY <1>3 DEF Set
  <2> HIDE DEF k
  <2> QED BY <1>1, <1>2, <1>3, <2>1, <2>2, OthersMove
<1>4. ASSUME NEW p \in Packages, Click(t, p) PROVE BatchInv'
  BY <1>3, <1>4 DEF Click
<1>5. ASSUME Sweep(t) PROVE BatchInv'
  BY <1>3, <1>5 DEF Sweep
<1> QED BY <1>4, <1>5

\* The message is taken: every item is now in the list of its worker.
LEMMA StartBatchStep ==
  ASSUME BatchInv, FixTypes, NEW t \in Raisers, StartBatch(t)
  PROVE  BatchInv'
<1> DEFINE k == [IdleRaiser EXCEPT !.pc = "next", !.kind = "batch", !.plan = PlanOf(cached),
                                   !.todo = DOMAIN batch.item]
<1>1. /\ raiser \in [Raisers -> RaiserRec] /\ raiser[t].pc = "idle" /\ batchMsg /\ ~batchMsg'
      /\ batchMsg' = FALSE /\ raiser' = [raiser EXCEPT ![t] = k] /\ UNCHANGED <<batch, rerun>>
  BY DEF FixTypes, StartBatch, Set
<1>2. k.kind = "batch" /\ k.todo = DOMAIN batch.item /\ k.pc = "next"
  BY DEF IdleRaiser
<1> HIDE DEF k
<1>3. raiser'[t] = k /\ \A u \in Raisers \ {t} : raiser'[u] = raiser[u]
  BY <1>1
<1>4. \A u \in Raisers : Works(u)' <=> (Works(u) \/ u = t)
  BY <1>2, <1>3 DEF Works
<1>5. \A u \in Raisers : Works(u)' => InBatch(raiser[u])' /\ batch'.status # "none"
  BY <1>1, <1>2, <1>3, <1>4 DEF BatchInv, InBatch
<1>6. Assigned'
  BY <1>1, <1>2, <1>3, <1>4 DEF Assigned, Settled
<1>7. CountedOnce => CountedOnce'
  BY <1>1, <1>2, <1>3, <1>4 DEF CountedOnce, Settled
<1> QED BY <1>1, <1>5, <1>6, <1>7 DEF BatchInv

\* raise_package_fix_pr's check, and the item that is running from here on.
LEMMA BatchCheckStep ==
  ASSUME BatchInv, FixTypes, NEW t \in Raisers, NEW p \in Packages, Check(t, p)
  PROVE  BatchInv'
<1>1. /\ raiser \in [Raisers -> RaiserRec] /\ raiser[t] \in RaiserRec /\ batch \in BatchRec
      /\ p \in raiser[t].todo /\ UNCHANGED <<batchMsg, rerun>>
  BY DEF FixTypes, Check
<1>2. CASE AlreadyRaised(p, raiser[t].plan[p])
  <2>1. Outcome(t, p, TRUE)
    BY <1>2 DEF Check
  <2> QED BY <1>1, <2>1, ItemDone, ItemAside
<1>3. CASE ~AlreadyRaised(p, raiser[t].plan[p])
  <2> DEFINE k == [raiser[t] EXCEPT !.pc = "open", !.pkg = p]
             item == [batch.item EXCEPT ![p] = "running"]
  <2>1. raiser' = [raiser EXCEPT ![t] = k]
    BY <1>3 DEF Check, Set
  <2>2. k.pc = "open" /\ k.pkg = p /\ k.todo = raiser[t].todo /\ k.kind = raiser[t].kind
    BY <1>1 DEF RaiserRec
  <2> HIDE DEF k
  <2>3. CASE ~Works(t)
    <3>1. batch' = batch /\ k.kind # "batch"
      BY <1>3, <2>2, <2>3 DEF Check, Works
    <3> QED BY <1>1, <2>1, <2>3, <3>1, OthersMove
  <2>4. CASE Works(t)
    <3>1. batch' = [batch EXCEPT !.item = item]
      BY <1>1, <1>3, <2>4 DEF Check, Works
    <3>2. /\ raiser[t].todo \subseteq DOMAIN batch.item /\ batch.status # "none"
          /\ \A u \in Raisers : Works(u) => InBatch(raiser[u])
      BY <2>4 DEF BatchInv, InBatch
    <3>3. /\ DOMAIN item = DOMAIN batch.item /\ item[p] = "running"
          /\ \A q \in DOMAIN batch.item : q # p => item[q] = batch.item[q]
      BY <1>1, <3>2
    <3>4. /\ batch'.item = item /\ batch'.succeeded = batch.succeeded
          /\ batch'.failed = batch.failed /\ batch'.status = batch.status
      BY <1>1, <3>1 DEF BatchRec
    <3> HIDE DEF item
    <3>5. raiser'[t] = k /\ \A u \in Raisers \ {t} : raiser'[u] = raiser[u]
      BY <1>1, <2>1
    <3>6. \A u \in Raisers : (Works(u)' <=> Works(u)) /\ raiser'[u].todo = raiser[u].todo
      BY <2>2, <3>5 DEF Works
    <3>7. \A u \in Raisers : Works(u)' => InBatch(raiser[u])' /\ batch'.status # "none"
      <4> SUFFICES ASSUME NEW u \in Raisers, Works(u) PROVE InBatch(raiser[u])' /\ batch'.status # "none"
        BY <3>6
      <4>1. CASE u = t
        BY <1>1, <2>2, <3>2, <3>3, <3>4, <3>5, <4>1 DEF InBatch
      <4>2. CASE u # t
        BY <3>2, <3>3, <3>4, <3>5, <4>2 DEF InBatch
      <4> QED BY <4>1, <4>2
    <3>8. Assigned'
      <4> SUFFICES ASSUME NEW q \in DOMAIN batch.item
                   PROVE  Settled(q)' \/ batchMsg' \/ \E u \in Raisers : Works(u)' /\ q \in raiser'[u].todo
        BY <3>3, <3>4 DEF Assigned
      <4>1. CASE q = p
        BY <1>1, <2>4, <3>6, <4>1
      <4>2. CASE q # p
        <5>1. Settled(q)' <=> Settled(q)
          BY <3>3, <3>4, <4>2 DEF Settled
        <5> QED BY <1>1, <3>6, <5>1 DEF BatchInv, Assigned
      <4> QED BY <4>1, <4>2
    <3>9. ASSUME CountedOnce PROVE CountedOnce'
      <4>1. ~Settled(p) /\ ~batchMsg
        BY <1>1, <2>4, <3>9 DEF CountedOnce
      <4>2. \A q \in DOMAIN batch.item : Settled(q)' <=> Settled(q)
        BY <3>3, <3>4, <4>1 DEF Settled
      <4>3. ASSUME NEW v \in {"succeeded", "failed"}
            PROVE  {q \in DOMAIN batch'.item : batch'.item[q] = v} = {q \in DOMAIN batch.item : batch.item[q] = v}
        BY <3>3, <3>4, <4>1 DEF Settled
      <4>4. \A u \in Raisers : Works(u) => raiser[u].todo \subseteq DOMAIN batch.item
        BY <3>2 DEF InBatch
      <4>5. /\ batch'.succeeded = Cardinality({q \in DOMAIN batch'.item : batch'.item[q] = "succeeded"})
            /\ batch'.failed = Cardinality({q \in DOMAIN batch'.item : batch'.item[q] = "failed"})
        BY <3>4, <3>9, <4>3 DEF CountedOnce
      <4>6. \A u \in Raisers : Works(u)' => \A q \in raiser'[u].todo : ~Settled(q)'
        BY <3>6, <3>9, <4>2, <4>4 DEF CountedOnce
      <4>7. \A u, x \in Raisers : Works(u)' /\ Works(x)' => u = x
        BY <3>6, <3>9 DEF CountedOnce
      <4>8. ~batchMsg'
        BY <1>1, <4>1
      <4> QED BY <4>5, <4>6, <4>7, <4>8 DEF CountedOnce
    <3>10. batchMsg' => batch'.status # "none"
      BY <3>2, <3>4
    <3> QED BY <1>1, <3>7, <3>8, <3>9, <3>10 DEF BatchInv
  <2> QED BY <2>3, <2>4
<1> QED BY <1>2, <1>3

\* The pull request and its record.
LEMMA BatchOpenStep ==
  ASSUME BatchInv, FixTypes, NEW t \in Raisers, OpenPr(t) \/ RecordPr(t)
  PROVE  BatchInv'
<1>1. raiser \in [Raisers -> RaiserRec] /\ raiser[t] \in RaiserRec /\ UNCHANGED <<batch, batchMsg, rerun>>
  BY DEF FixTypes, OpenPr, RecordPr
<1>2. PICK pc \in {"record", "report"} : raiser' = [raiser EXCEPT ![t] = [raiser[t] EXCEPT !.pc = pc]]
  BY DEF OpenPr, RecordPr, Set
<1> DEFINE k == [raiser[t] EXCEPT !.pc = pc]
<1>3. k.pc = pc /\ k.kind = raiser[t].kind /\ k.todo = raiser[t].todo /\ k.pkg = raiser[t].pkg
  BY <1>1 DEF RaiserRec
<1>4. raiser[t].pc \in {"open", "record"}
  BY DEF OpenPr, RecordPr
<1>5. raiser' = [raiser EXCEPT ![t] = k]
  BY <1>2
<1> HIDE DEF k
<1>6. CASE Works(t)
  <2>1. InBatch(k) /\ k.kind = "batch"
    BY <1>3, <1>4, <1>6 DEF BatchInv, InBatch, Works
  <2> QED BY <1>1, <1>3, <1>5, <1>6, <2>1, WorkerMoves
<1>7. CASE ~Works(t)
  <2>1. k.kind # "batch"
    BY <1>3, <1>7 DEF Works
  <2> QED BY <1>1, <1>5, <1>7, <2>1, OthersMove
<1> QED BY <1>6, <1>7

\* A thread is done, or lost; the broker hands a batch out again.
LEMMA BatchRestsStep ==
  ASSUME BatchInv, FixTypes, NEW t \in Raisers, FinishRaise(t) \/ RaiserLost(t)
  PROVE  BatchInv'
<1>1. raiser \in [Raisers -> RaiserRec] /\ raiser' = [raiser EXCEPT ![t] = IdleRaiser] /\ batch \in BatchRec
  BY DEF FixTypes, FinishRaise, RaiserLost, Set
<1>2. raiser'[t] = IdleRaiser /\ \A u \in Raisers \ {t} : raiser'[u] = raiser[u]
  BY <1>1
<1>3. CASE ~Works(t)
  <2>1. UNCHANGED <<batch, batchMsg, rerun>>
    BY <1>3 DEF FinishRaise, RaiserLost, Works, BatchInv
  <2> QED BY <1>1, <1>3, <2>1, IdleRaiserType, OthersMove
<1>4. CASE Works(t)
  <2>1. \A u \in Raisers : Works(u)' <=> (Works(u) /\ u # t)
    BY <1>2, IdleRaiserType DEF Works
  <2>2. /\ batch'.item = batch.item /\ batch'.succeeded = batch.succeeded /\ batch'.failed = batch.failed
        /\ batch.status # "none" => batch'.status # "none"
    BY <1>1, <1>4 DEF FinishRaise, RaiserLost, Works, BatchRec
  <2>3. \A u \in Raisers : Works(u)' => InBatch(raiser[u])' /\ batch'.status # "none"
    BY <1>2, <2>1, <2>2 DEF BatchInv, InBatch
  <2>4. batch.status # "none"
    BY <1>4 DEF BatchInv
  <2>5. CASE FinishRaise(t)
    <3>1. raiser[t].todo = {} /\ UNCHANGED <<batchMsg, rerun>>
      BY <2>5 DEF FinishRaise
    <3>2. Assigned'
      BY <1>2, <2>1, <2>2, <3>1 DEF BatchInv, Assigned, Settled
    <3>3. CountedOnce => CountedOnce'
      BY <1>2, <2>1, <2>2, <3>1 DEF CountedOnce, Settled
    <3> QED BY <2>2, <2>3, <2>4, <3>1, <3>2, <3>3 DEF BatchInv
  <2>6. CASE RaiserLost(t)
    <3>1. batchMsg' = TRUE /\ rerun' = TRUE
      BY <1>4, <2>6 DEF RaiserLost, Works, BatchInv
    <3>2. Assigned'
      BY <3>1 DEF Assigned
    <3> QED BY <2>2, <2>3, <2>4, <3>1, <3>2 DEF BatchInv
  <2> QED BY <2>5, <2>6
<1> QED BY <1>3, <1>4

\* raise_all_remediation_prs_endpoint: the rows and the message, or every item
\* failed when the broker does not take it.
LEMMA RaiseAllStep ==
  ASSUME BatchInv, FixTypes, NEW sent \in BOOLEAN, RaiseAll(sent)
  PROVE  BatchInv'
<1> DEFINE P == Planned(cached)
           item == [p \in P |-> IF sent THEN "pending" ELSE "failed"]
<1>1. /\ batch.status = "none" /\ UNCHANGED <<raiser, rerun>> /\ batchMsg' = sent
  BY DEF RaiseAll
<1>2. ~batchMsg /\ \A t \in Raisers : ~Works(t)
  BY <1>1 DEF BatchInv
<1>3. /\ batch'.status \in {"running", "completed"} /\ batch'.item = item /\ batch'.succeeded = 0
      /\ batch'.failed = IF sent THEN 0 ELSE Cardinality(P)
  BY DEF RaiseAll, NoBatch
<1>4. IsFiniteSet(P)
  BY FixPlanAssumption, FS_Subset DEF Planned
<1>5. \A t \in Raisers : ~Works(t)'
  BY <1>1, <1>2 DEF Works
<1>6. /\ DOMAIN item = P
      /\ {p \in P : item[p] = "succeeded"} = {}
      /\ {p \in P : item[p] = "failed"} = IF sent THEN {} ELSE P
      /\ \A p \in P : item[p] = IF sent THEN "pending" ELSE "failed"
  OBVIOUS
<1> HIDE DEF P, item
<1>7. Cardinality({}) = 0
  BY FS_EmptySet
<1>8. /\ batch'.succeeded = Cardinality({p \in DOMAIN batch'.item : batch'.item[p] = "succeeded"})
      /\ batch'.failed = Cardinality({p \in DOMAIN batch'.item : batch'.item[p] = "failed"})
  BY <1>3, <1>6, <1>7
<1>9. Assigned'
  BY <1>1, <1>3, <1>6 DEF Assigned, Settled
<1>10. batchMsg' => \A p \in DOMAIN batch'.item : ~Settled(p)'
  BY <1>1, <1>3, <1>6 DEF Settled
<1>11. CountedOnce'
  BY <1>5, <1>8, <1>10 DEF CountedOnce
<1> QED BY <1>1, <1>3, <1>5, <1>9, <1>11 DEF BatchInv

\* The rest: a second delivery, a poll of a stale batch, scans and lookups.
LEMMA BatchAsideStep ==
  ASSUME BatchInv, FixTypes,
         \/ \E t \in Raisers : BatchAgain(t)
         \/ BatchStale
         \/ \E c \in Cves : Rescan(c) \/ \E row \in {Enrichment(osv[c]), NotFound} : Enrich(c, row)
         \/ UNCHANGED fixVars
  PROVE  BatchInv'
<1>1. raiser' = raiser /\ batch \in BatchRec
  BY DEF FixTypes, BatchAgain, BatchStale, Rescan, Enrich, fixVars
<1>2. ASSUME NEW t \in Raisers, BatchAgain(t) PROVE BatchInv'
  <2>1. batchMsg' = TRUE /\ rerun' = TRUE /\ batch' = batch /\ Works(t)
    BY <1>2 DEF BatchAgain, Works
  <2>2. Assigned'
    BY <2>1 DEF Assigned
  <2>3. \A u \in Raisers : Works(u)' => InBatch(raiser[u])' /\ batch'.status # "none"
    BY <1>1, <2>1 DEF BatchInv, Works, InBatch
  <2>4. batch.status # "none"
    BY <2>1 DEF BatchInv
  <2> QED BY <2>1, <2>2, <2>3, <2>4 DEF BatchInv
<1>3. CASE ~\E t \in Raisers : BatchAgain(t)
  <2>1. UNCHANGED <<batchMsg, rerun>>
    BY <1>3 DEF BatchStale, Rescan, Enrich, fixVars
  <2>2. /\ batch'.item = batch.item /\ batch'.succeeded = batch.succeeded /\ batch'.failed = batch.failed
        /\ batch.status # "none" => batch'.status # "none"
    BY <1>1, <1>3 DEF BatchStale, Rescan, Enrich, fixVars, BatchRec
  <2>3. \A u \in Raisers : Works(u)' <=> Works(u)
    BY <1>1 DEF Works
  <2>4. \A u \in Raisers : Works(u) => InBatch(raiser'[u]) /\ raiser'[u].todo = raiser[u].todo
    BY <1>1 DEF BatchInv
  <2> QED BY <2>1, <2>2, <2>3, <2>4, BatchAlone
<1> QED BY <1>2, <1>3

\* There is no batch at the start, and every step keeps its accounts.
LEMMA BatchInvariant == FixSpec => []BatchInv
<1>1. ASSUME FixInit PROVE BatchInv
  <2>1. batch = NoBatch /\ batchMsg = FALSE /\ rerun = FALSE /\ raiser = [t \in Raisers |-> IdleRaiser]
    BY <1>1 DEF FixInit
  <2>2. \A t \in Raisers : ~Works(t)
    BY <2>1, IdleRaiserType DEF Works
  <2>3. batch.item = <<>> /\ batch.succeeded = 0 /\ batch.failed = 0
    BY <2>1 DEF NoBatch
  <2>4. DOMAIN batch.item = {}
    BY <2>3
  <2>5. Cardinality({}) = 0
    BY FS_EmptySet
  <2>6. \A v : {p \in DOMAIN batch.item : batch.item[p] = v} = {}
    BY <2>4
  <2>7. CountedOnce
    BY <2>1, <2>2, <2>3, <2>5, <2>6 DEF CountedOnce
  <2> QED BY <2>1, <2>2, <2>4, <2>7 DEF BatchInv, Assigned
<1>2. ASSUME RaiseInv, BatchInv, [FixNext]_fixVars PROVE BatchInv'
  <2>1. FixTypes
    BY <1>2 DEF RaiseInv
  <2>2. ASSUME NEW t \in Raisers, RaiserStep(t) PROVE BatchInv'
    <3>1. CASE StartBatch(t)
      BY <1>2, <2>1, <3>1, StartBatchStep
    <3>2. ASSUME NEW p \in Packages, MissingPlan(t, p) \/ Check(t, p) PROVE BatchInv'
      BY <1>2, <2>1, <3>2, BatchEndsStep, BatchCheckStep
    <3>3. CASE OpenPr(t) \/ RecordPr(t)
      BY <1>2, <2>1, <3>3, BatchOpenStep
    <3>4. CASE Report(t) \/ FinishRaise(t)
      BY <1>2, <2>1, <3>4, BatchEndsStep, BatchRestsStep
    <3> QED BY <2>2, <3>1, <3>2, <3>3, <3>4 DEF RaiserStep
  <2>3. ASSUME NEW t \in Raisers, RaiseFails(t) \/ RaiserLost(t) \/ Sweep(t) PROVE BatchInv'
    BY <1>2, <2>1, <2>3, BatchEndsStep, BatchRestsStep, BatchClickStep
  <2>4. ASSUME NEW t \in Raisers, NEW p \in Packages, Click(t, p) PROVE BatchInv'
    BY <1>2, <2>1, <2>4, BatchClickStep
  <2>5. ASSUME NEW sent \in BOOLEAN, RaiseAll(sent) PROVE BatchInv'
    BY <1>2, <2>1, <2>5, RaiseAllStep
  <2>6. CASE \/ \E t \in Raisers : BatchAgain(t)
             \/ BatchStale
             \/ \E c \in Cves : Rescan(c) \/ \E row \in {Enrichment(osv[c]), NotFound} : Enrich(c, row)
             \/ UNCHANGED fixVars
    BY <1>2, <2>1, <2>6, BatchAsideStep
  <2> QED BY <1>2, <2>2, <2>3, <2>4, <2>5, <2>6 DEF FixNext
<1> QED BY <1>1, <1>2, RaiseInvariant, PTL DEF FixSpec

\* run_raise_all_batch, for any number of packages and workers: a batch that has
\* ended and is nobody's has an outcome for every item and, unless it was
\* started more than once, its counters are those outcomes
\* (tasks/remediation_tasks.py 35-151).
THEOREM BatchAccountsHolds == FixSpec => []BatchAccounts
<1>1. BatchInv => BatchAccounts
  <2> SUFFICES ASSUME BatchInv, ~batchMsg, \A t \in Raisers : raiser[t].kind # "batch"
               PROVE  /\ \A p \in DOMAIN batch.item : batch.item[p] \in {"succeeded", "failed"}
                      /\ ~rerun =>
                           /\ batch.succeeded = Cardinality({p \in DOMAIN batch.item : batch.item[p] = "succeeded"})
                           /\ batch.failed = Cardinality({p \in DOMAIN batch.item : batch.item[p] = "failed"})
    BY DEF BatchAccounts
  <2>1. \A p \in DOMAIN batch.item : Settled(p)
    BY DEF BatchInv, Assigned, Works
  <2> QED BY <2>1 DEF BatchInv, CountedOnce, Settled
<1> QED BY <1>1, BatchInvariant, PTL

-----------------------------------------------------------------------------
(* The plan itself.                                                        *)

\* A set of numbers that is not empty has a least one.
LEMMA LeastNatural ==
  ASSUME NEW T \in SUBSET Nat, T # {}
  PROVE  \E n \in T : \A m \in T : n <= m
<1> DEFINE R == OpToRel(<, Nat)
<1>1. IsWellFoundedOn(R, Nat)
  BY NatLessThanWellFounded
<1>2. \A m, n \in Nat : m < n => <<m, n>> \in R
  BY DEF OpToRel
<1> HIDE DEF R
<1>3. PICK n \in T : \A m \in T : ~(<<m, n>> \in R)
  BY <1>1, WFMin
<1>4. \A m \in T : ~(m < n)
  BY <1>2, <1>3
<1>5. \A m \in T : n <= m
  BY <1>4
<1> QED BY <1>5

\* Min is the least, of a set of numbers that is not empty.
LEMMA MinIsLeast ==
  ASSUME NEW T \in SUBSET Nat, T # {}
  PROVE  Min(T) \in T /\ \A m \in T : Min(T) <= m
<1>1. \E n \in T : \A m \in T : n <= m
  BY LeastNatural
<1> QED BY <1>1 DEF Min

\* Max is the greatest, when there is a bound.
LEMMA MaxIsGreatest ==
  ASSUME NEW N \in Nat, NEW T \in SUBSET (0..N), T # {}
  PROVE  Max(T) \in T /\ \A m \in T : m <= Max(T)
<1> DEFINE D == {N - m : m \in T}
<1>1. D \in SUBSET Nat /\ D # {}
  <2>1. \A m \in T : m \in 0..N /\ N - m \in Nat
    OBVIOUS
  <2> QED BY <2>1
<1>2. PICK d \in D : \A e \in D : d <= e
  BY <1>1, LeastNatural
<1>3. PICK n \in T : d = N - n
  BY <1>2
<1>4. \A m \in T : n >= m
  BY <1>2, <1>3
<1>5. Max(T) \in T /\ \A m \in T : Max(T) >= m
  BY <1>4 DEF Max
<1> QED BY <1>5

\* What is kept of a CVE is nothing, that nothing was found, or the answer.
PlanInv ==
  /\ osv \in [Cves -> OsvAnswers] /\ own \in [Cves -> OwnPackages] /\ opencves \subseteq Cves
  /\ DOMAIN cached = Cves
  /\ \A c \in Cves : cached[c] \in {NoRow, NotFound, Enrichment(osv[c])}

\* It is an invariant.
LEMMA PlanInvariant == FixSpec => []PlanInv
<1>1. ASSUME FixInit PROVE PlanInv
  BY <1>1 DEF FixInit, PlanInv
<1>2. ASSUME PlanInv, [FixNext]_fixVars PROVE PlanInv'
  <2>1. ASSUME NEW c \in Cves, NEW row \in {Enrichment(osv[c]), NotFound}, Enrich(c, row) PROVE PlanInv'
    <3>1. cached' = [cached EXCEPT ![c] = row] /\ UNCHANGED <<osv, own, opencves>>
      BY <2>1 DEF Enrich
    <3>2. DOMAIN cached' = Cves /\ \A d \in Cves : cached'[d] = IF d = c THEN row ELSE cached[d]
      BY <1>2, <3>1 DEF PlanInv
    <3>3. \A d \in Cves : Enrichment(osv[d])' = Enrichment(osv[d])
      BY <3>1 DEF Enrichment
    <3> QED BY <1>2, <2>1, <3>1, <3>2, <3>3 DEF PlanInv
  <2>2. ASSUME NEW c \in Cves, Rescan(c) PROVE PlanInv'
    BY <1>2, <2>2 DEF Rescan, PlanInv
  <2>3. CASE UNCHANGED <<osv, own, opencves, cached>>
    BY <1>2, <2>3 DEF PlanInv
  <2>4. ASSUME NEW t \in Raisers, RaiserStep(t) PROVE UNCHANGED <<osv, own, opencves, cached>>
    BY <2>4 DEF RaiserStep, StartBatch, MissingPlan, Check, OpenPr, RecordPr, Report, FinishRaise
  <2>5. ASSUME NEW t \in Raisers, RaiseFails(t) \/ RaiserLost(t) \/ BatchAgain(t) \/ Sweep(t)
        PROVE  UNCHANGED <<osv, own, opencves, cached>>
    BY <2>5 DEF RaiseFails, RaiserLost, BatchAgain, Sweep
  <2>6. ASSUME \/ \E t \in Raisers, p \in Packages : Click(t, p)
               \/ \E sent \in BOOLEAN : RaiseAll(sent)
               \/ BatchStale
               \/ UNCHANGED fixVars
        PROVE  UNCHANGED <<osv, own, opencves, cached>>
    BY <2>6 DEF Click, RaiseAll, BatchStale, fixVars
  <2> QED BY <1>2, <2>1, <2>2, <2>3, <2>4, <2>5, <2>6 DEF FixNext
<1> QED BY <1>1, <1>2, PTL DEF FixSpec

\* Every fix that is kept names a package of the plan and a version.
LEMMA FixesType ==
  ASSUME PlanInv, NEW c \in Cves, NEW x \in FixesByPackage(cached[c], own[c])
  PROVE  \E p \in Packages, v \in 1..MaxVersion : x = <<p, v>>
<1>1. PICK e \in cached[c].fixes : x = <<IF e[1] = NoName THEN own[c] ELSE e[1], e[2]>>
  BY DEF FixesByPackage
<1>2. cached[c] = Enrichment(osv[c])
  <2>1. NoRow.fixes = {} /\ NotFound.fixes = {}
    BY DEF NoRow, NotFound
  <2> QED BY <1>1, <2>1 DEF PlanInv
<1>3. e \in osv[c] /\ e[2] # 0
  BY <1>1, <1>2 DEF Enrichment
<1>4. e \in (Packages \cup {NoName}) \X (0..MaxVersion) /\ own[c] \in Packages \cup {NoName}
  BY <1>3, FixPlanAssumption DEF PlanInv
<1>5. e[1] \in Packages \cup {NoName} /\ e[2] \in 1..MaxVersion /\ e[2] \in 0..MaxVersion
  BY <1>3, <1>4, FixPlanAssumption
<1>6. x \notin {<<NoName, v>> : v \in 0..MaxVersion}
  BY DEF FixesByPackage
<1>7. (IF e[1] = NoName THEN own[c] ELSE e[1]) \in Packages
  BY <1>1, <1>4, <1>5, <1>6
<1> QED BY <1>1, <1>5, <1>7

\* group_remediations and fixability_for_enrichment, for any advisories and
\* findings: the version recommended for a package is the least at or above a
\* published fix of every finding it claims to close, the plan is empty when no
\* open finding has usable fix data and only then, and a CVE no advisory was
\* found for never counts as having no fix (core/remediation.py 12-31,
\* core/fixability.py 18-25).
THEOREM PlanIsHonestHolds == FixSpec => []PlanIsHonest
<1>1. ASSUME PlanInv PROVE PlanIsHonest
  <2>0. MaxVersion \in Nat
    BY FixPlanAssumption
  <2>1. ASSUME NEW p \in Planned(cached)
        PROVE  LET Clears(v) == \A c \in Fixed(cached, p) :
                                  \E w \in 1..v : <<p, w>> \in FixesByPackage(cached[c], own[c])
               IN  Clears(UpgradeTo(cached, p)) /\ \A v \in 0..(UpgradeTo(cached, p) - 1) : ~Clears(v)
    <3> DEFINE F == Fixed(cached, p)
               Has(c, v) == <<p, v>> \in FixesByPackage(cached[c], own[c])
               V(c) == {v \in 1..MaxVersion : Has(c, v)}
               M == {Min(V(c)) : c \in F}
    <3>1. F # {} /\ \A c \in F : V(c) # {}
      BY <2>1 DEF Planned, Fixed
    <3>2. UpgradeTo(cached, p) = Max(M)
      BY DEF UpgradeTo
    <3> HIDE DEF F, Has
    <3>3. \A c \in F : V(c) \in SUBSET Nat
      BY <2>0
    <3>4. \A c \in F : Min(V(c)) \in V(c) /\ \A v \in V(c) : Min(V(c)) <= v
      BY <3>1, <3>3, MinIsLeast
    <3>5. M \in SUBSET (0..MaxVersion) /\ M # {}
      <4>1. \A c \in F : Min(V(c)) \in 1..MaxVersion
        BY <3>4
      <4>2. \A c \in F : Min(V(c)) \in 0..MaxVersion
        BY <2>0, <4>1
      <4> QED BY <3>1, <4>2
    <3>6. Max(M) \in M /\ \A m \in M : m <= Max(M)
      BY <2>0, <3>5, MaxIsGreatest
    <3> DEFINE u == Max(M)
    <3>7. \A c \in F : \E w \in 1..u : Has(c, w)
      <4> SUFFICES ASSUME NEW c \in F PROVE \E w \in 1..u : Has(c, w)
        OBVIOUS
      <4>1. Min(V(c)) \in V(c) /\ Min(V(c)) <= u
        BY <3>4, <3>6
      <4>2. Min(V(c)) \in 1..MaxVersion /\ Has(c, Min(V(c)))
        BY <4>1
      <4>3. u \in Nat
        BY <2>0, <3>5, <3>6
      <4>4. Min(V(c)) \in 1..u
        BY <2>0, <4>1, <4>2, <4>3
      <4> QED BY <4>2, <4>4
    <3>8. ASSUME NEW v \in 0..(u - 1) PROVE ~\A c \in F : \E w \in 1..v : Has(c, w)
      <4>1. PICK c \in F : u = Min(V(c))
        BY <3>6
      <4>2. u \in 0..MaxVersion
        BY <3>5, <3>6
      <4>3. ASSUME NEW w \in 1..v, Has(c, w) PROVE FALSE
        <5>1. w \in 1..MaxVersion /\ w < u
          BY <2>0, <3>8, <4>2
        <5>2. w \in V(c)
          BY <4>3, <5>1
        <5>3. u <= w
          BY <3>4, <4>1, <5>2
        <5> HIDE DEF u
        <5> QED BY <2>0, <4>2, <5>1, <5>3
      <4> QED BY <4>3
    <3> HIDE DEF u, M
    <3> QED BY <3>2, <3>7, <3>8 DEF u, F, Has
  <2>2. Planned(cached) = {} <=> WithFixData(cached) = {}
    <3>1. ASSUME NEW p \in Planned(cached) PROVE WithFixData(cached) # {}
      BY <3>1 DEF Planned, Fixed, WithFixData
    <3>2. ASSUME NEW c \in WithFixData(cached) PROVE Planned(cached) # {}
      <4>1. c \in opencves /\ c \in Cves /\ FixesByPackage(cached[c], own[c]) # {}
        BY <1>1, <3>2 DEF WithFixData, PlanInv
      <4>2. PICK x : x \in FixesByPackage(cached[c], own[c])
        BY <4>1
      <4>3. PICK p \in Packages, v \in 1..MaxVersion : x = <<p, v>>
        BY <1>1, <4>1, <4>2, FixesType
      <4> QED BY <4>1, <4>2, <4>3 DEF Planned, Fixed
    <3> QED BY <3>1, <3>2
  <2>3. ASSUME NEW c \in Cves, Fixability(cached[c]) = "no_known_fix", NEW e \in osv[c] PROVE e[2] = 0
    <3>1. cached[c].found /\ cached[c].fixes = {}
      <4>1. ~cached[c].found => Fixability(cached[c]) = "unknown"
        BY DEF Fixability
      <4>2. cached[c].found /\ cached[c].fixes # {} => Fixability(cached[c]) = "fixable"
        BY DEF Fixability
      <4> QED BY <2>3, <4>1, <4>2
    <3>2. NoRow.found = FALSE /\ NotFound.found = FALSE
      BY DEF NoRow, NotFound
    <3>3. cached[c] = Enrichment(osv[c])
      BY <1>1, <3>1, <3>2 DEF PlanInv
    <3> QED BY <3>1, <3>3 DEF Enrichment
  <2> QED BY <2>1, <2>2, <2>3 DEF PlanIsHonest
<1> QED BY <1>1, PlanInvariant, PTL

-----------------------------------------------------------------------------
(* The pipeline: one pull request for each repository.                     *)

RepoRec == [active : BOOLEAN, covered : BOOLEAN, integrated : BOOLEAN]

\* A thread; the steps and the jobs of its workflow are of no account here.
IsHand(g) ==
  /\ DOMAIN g = {"pc", "batch", "at", "steps", "jobs", "todo"}
  /\ g.pc \in {"idle", "next", "open", "save"}
  /\ g.batch \in BOOLEAN
  /\ g.pc \in {"open", "save"} => g.at \in Repos
  /\ g.pc = "next" => g.batch = TRUE

Outcomes == {"succeeded", "failed", "already_integrated", "skipped_webhook_reachable"}

RolloutItems == UNION {[S -> Outcomes \cup {"pending", "running"}] : S \in SUBSET Repos}

RolloutRec ==
  [status : {"none", "running", "completed", "failed"}, force : BOOLEAN, templated : BOOLEAN,
   item : RolloutItems, count : [Outcomes -> Nat]]

PipeTypes ==
  /\ repo \in [Repos -> RepoRec]
  /\ hand = [h \in Hands |-> hand[h]]
  /\ \A h \in Hands : IsHand(hand[h])
  /\ pipePrs \in [Repos -> Nat]
  /\ pipeRaced \in BOOLEAN
  /\ rollout \in RolloutRec

\* Two threads are not at work on one repository.
HandsApart ==
  \A g, h \in Hands :
    (/\ hand[g].pc \in {"open", "save"} /\ hand[h].pc \in {"open", "save"}
     /\ hand[g].at = hand[h].at) => g = h

\* A repository with a pull request is integrated, or about to be; one that is
\* about to get one has none.
OnceEach ==
  \A r \in Repos :
    /\ pipePrs[r] <= 1
    /\ pipePrs[r] = 1 =>
         (repo[r].integrated = TRUE \/ \E h \in Hands : hand[h].pc = "save" /\ hand[h].at = r)
    /\ \A h \in Hands : hand[h].pc = "open" /\ hand[h].at = r => pipePrs[r] = 0 /\ repo[r].integrated = FALSE

PipeInv == PipeTypes /\ (pipeRaced \/ (HandsApart /\ OnceEach))

\* A thread at rest.
LEMMA IdleHandType == IsHand(IdleHand) /\ IdleHand.pc = "idle" /\ IdleHand.batch = FALSE
BY DEF IsHand, IdleHand

\* A thread moves on, and is not at work on a repository; one that has opened a
\* pull request leaves it integrated, or that is remembered.
LEMMA HandMoves ==
  ASSUME PipeInv, NEW h \in Hands, NEW k, IsHand(k), k.pc \in {"idle", "next"},
         hand' = [hand EXCEPT ![h] = k], pipePrs' = pipePrs, repo' \in [Repos -> RepoRec],
         rollout' \in RolloutRec, pipeRaced' \in BOOLEAN, pipeRaced => pipeRaced',
         \A r \in Repos : repo'[r].integrated = repo[r].integrated
                          \/ (hand[h].pc = "save" /\ hand[h].at = r /\ repo'[r].integrated = TRUE),
         hand[h].pc = "save" => pipeRaced' \/ repo'[hand[h].at].integrated = TRUE
  PROVE  PipeInv'
<1>1. /\ repo \in [Repos -> RepoRec] /\ hand = [g \in Hands |-> hand[g]]
      /\ \A g \in Hands : IsHand(hand[g])
      /\ pipePrs \in [Repos -> Nat]
  BY DEF PipeInv, PipeTypes
<1>2. hand'[h] = k /\ \A g \in Hands \ {h} : hand'[g] = hand[g]
  BY <1>1
<1>3. hand' = [g \in Hands |-> hand'[g]]
  BY <1>1
<1>4. \A g \in Hands : IsHand(hand'[g])
  BY <1>1, <1>2
<1>5. PipeTypes'
  BY <1>1, <1>3, <1>4 DEF PipeTypes, IsHand
<1>6. ASSUME ~pipeRaced' PROVE HandsApart' /\ OnceEach'
  <2>1. HandsApart /\ OnceEach
    BY <1>6 DEF PipeInv
  <2>2. HandsApart'
    BY <1>2, <2>1 DEF HandsApart
  <2>3. ASSUME NEW r \in Repos
        PROVE  /\ pipePrs'[r] <= 1
               /\ pipePrs'[r] = 1 =>
                    (repo'[r].integrated = TRUE \/ \E g \in Hands : hand'[g].pc = "save" /\ hand'[g].at = r)
    <3>1. /\ pipePrs[r] <= 1
          /\ pipePrs[r] = 1 =>
               (repo[r].integrated = TRUE \/ \E g \in Hands : hand[g].pc = "save" /\ hand[g].at = r)
      BY <2>1 DEF OnceEach
    <3>2. ASSUME NEW g \in Hands, hand[g].pc = "save", hand[g].at = r
          PROVE  repo'[r].integrated = TRUE \/ \E x \in Hands : hand'[x].pc = "save" /\ hand'[x].at = r
      BY <1>2, <1>6, <3>2
    <3>3. repo[r].integrated = TRUE => repo'[r].integrated = TRUE
      OBVIOUS
    <3> QED BY <3>1, <3>2, <3>3
  <2>4. ASSUME NEW r \in Repos, NEW g \in Hands, hand'[g].pc = "open", hand'[g].at = r
        PROVE  pipePrs'[r] = 0 /\ repo'[r].integrated = FALSE
    <3>1. g # h /\ hand[g].pc = "open" /\ hand[g].at = r
      BY <1>2, <2>4
    <3>2. pipePrs[r] = 0 /\ repo[r].integrated = FALSE
      BY <2>1, <3>1 DEF OnceEach
    <3>3. ~(hand[h].pc = "save" /\ hand[h].at = r)
      BY <2>1, <3>1 DEF HandsApart
    <3> QED BY <3>2, <3>3
  <2> QED BY <2>2, <2>3, <2>4, ZenonT(60) DEF OnceEach
<1> QED BY <1>5, <1>6 DEF PipeInv

\* An item's status, and the counter of an outcome.
LEMMA TallyType ==
  ASSUME rollout \in RolloutRec, NEW r, NEW word \in Outcomes \cup {"pending", "running"}
  PROVE  /\ [rollout EXCEPT !.item[r] = word] \in RolloutRec
         /\ word \in Outcomes => [rollout EXCEPT !.item[r] = word, !.count[word] = @ + 1] \in RolloutRec
<1> DEFINE item == [rollout.item EXCEPT ![r] = word]
           count == [rollout.count EXCEPT ![word] = rollout.count[word] + 1]
<1>1. rollout.item \in RolloutItems /\ rollout.count \in [Outcomes -> Nat]
  BY DEF RolloutRec
<1>2. PICK S \in SUBSET Repos : rollout.item \in [S -> Outcomes \cup {"pending", "running"}]
  BY <1>1 DEF RolloutItems
<1>3. item \in [S -> Outcomes \cup {"pending", "running"}]
  BY <1>2
<1>4. item \in RolloutItems
  BY <1>2, <1>3 DEF RolloutItems
<1>5. word \in Outcomes => count \in [Outcomes -> Nat]
  BY <1>1
<1>6. /\ [rollout EXCEPT !.item[r] = word] = [rollout EXCEPT !.item = item]
      /\ [rollout EXCEPT !.item[r] = word, !.count[word] = @ + 1] = [rollout EXCEPT !.item = item, !.count = count]
  BY DEF RolloutRec
<1> HIDE DEF item, count
<1>7. [rollout EXCEPT !.item = item] \in RolloutRec
  BY <1>4 DEF RolloutRec
<1>8. word \in Outcomes => [rollout EXCEPT !.item = item, !.count = count] \in RolloutRec
  BY <1>4, <1>5 DEF RolloutRec
<1> QED BY <1>6, <1>7, <1>8

\* A thread goes to work on a repository that has no pull request, or that is
\* remembered.
LEMMA HandStarts ==
  ASSUME PipeInv, NEW h \in Hands, NEW r \in Repos, NEW k, IsHand(k), k.pc = "open", k.at = r,
         hand[h].pc \in {"idle", "next"}, hand' = [hand EXCEPT ![h] = k],
         UNCHANGED <<repo, pipePrs>>, rollout' \in RolloutRec, pipeRaced' \in BOOLEAN,
         pipeRaced => pipeRaced', repo[r].integrated => pipeRaced',
         (\E g \in Hands \ {h} : hand[g].at = r) => pipeRaced'
  PROVE  PipeInv'
<1>1. /\ repo \in [Repos -> RepoRec] /\ hand = [g \in Hands |-> hand[g]]
      /\ \A g \in Hands : IsHand(hand[g])
      /\ pipePrs \in [Repos -> Nat]
  BY DEF PipeInv, PipeTypes
<1>2. hand'[h] = k /\ \A g \in Hands \ {h} : hand'[g] = hand[g]
  BY <1>1
<1>3. hand' = [g \in Hands |-> hand'[g]]
  BY <1>1
<1>4. \A g \in Hands : IsHand(hand'[g])
  BY <1>1, <1>2
<1>5. PipeTypes'
  BY <1>1, <1>3, <1>4 DEF PipeTypes, IsHand
<1>6. ASSUME ~pipeRaced' PROVE HandsApart' /\ OnceEach'
  <2>1. HandsApart /\ OnceEach /\ \A g \in Hands \ {h} : hand[g].at # r
    BY <1>6 DEF PipeInv
  <2>2. HandsApart'
    BY <1>2, <2>1 DEF HandsApart
  <2>3. repo[r].integrated = FALSE
    BY <1>1, <1>6 DEF RepoRec
  <2>4. pipePrs[r] = 0
    <3>1. pipePrs[r] \in Nat /\ pipePrs[r] <= 1 /\ pipePrs[r] # 1
      BY <1>1, <2>1, <2>3 DEF OnceEach
    <3> QED BY <3>1
  <2>5. ASSUME NEW s \in Repos
        PROVE  /\ pipePrs'[s] <= 1
               /\ pipePrs'[s] = 1 =>
                    (repo'[s].integrated = TRUE \/ \E g \in Hands : hand'[g].pc = "save" /\ hand'[g].at = s)
               /\ \A g \in Hands : hand'[g].pc = "open" /\ hand'[g].at = s =>
                    pipePrs'[s] = 0 /\ repo'[s].integrated = FALSE
    BY <1>2, <2>1, <2>3, <2>4 DEF OnceEach
  <2> QED BY <2>2, <2>5 DEF OnceEach
<1> QED BY <1>5, <1>6 DEF PipeInv

\* integrate_pipeline.
LEMMA IntegrateStep ==
  ASSUME PipeInv, NEW h \in Hands, NEW r \in Repos, NEW force \in BOOLEAN, Integrate(h, r, force)
  PROVE  PipeInv'
<1> DEFINE k == [IdleHand EXCEPT !.pc = "open", !.at = r]
<1>1. IsHand(k) /\ k.pc = "open" /\ k.at = r
  <2>1. IdleHand.pc = "idle" /\ "pc" \in DOMAIN IdleHand /\ "at" \in DOMAIN IdleHand
        /\ IdleHand.batch = FALSE
    BY DEF IdleHand
  <2>2. DOMAIN IdleHand = {"pc", "batch", "at", "steps", "jobs", "todo"}
    BY DEF IdleHand
  <2> QED BY <2>1, <2>2 DEF IsHand
<1>2. hand' = [hand EXCEPT ![h] = k] /\ hand[h].pc = "idle" /\ UNCHANGED <<repo, rollout, pipePrs>>
  BY DEF Integrate
<1>3. rollout' \in RolloutRec /\ pipeRaced \in BOOLEAN
  BY <1>2 DEF PipeInv, PipeTypes
<1>4. pipeRaced' = (pipeRaced \/ repo[r].integrated \/ \E g \in Hands \ {h} : hand[g].at = r)
  BY DEF Integrate
<1>5. /\ pipeRaced' \in BOOLEAN /\ (pipeRaced => pipeRaced') /\ (repo[r].integrated => pipeRaced')
      /\ (\E g \in Hands \ {h} : hand[g].at = r) => pipeRaced'
  BY <1>4
<1> HIDE DEF k
<1> QED BY <1>1, <1>2, <1>3, <1>5, HandStarts

\* The worker takes its next item: there is something to do, or nothing.
LEMMA ItemStep ==
  ASSUME PipeInv, NEW h \in Hands, NEW r \in Repos, Item(h, r)
  PROVE  PipeInv'
<1>1. /\ hand[h].pc = "next" /\ UNCHANGED <<repo, pipePrs>> /\ hand = [g \in Hands |-> hand[g]]
      /\ IsHand(hand[h]) /\ pipeRaced \in BOOLEAN /\ rollout \in RolloutRec /\ repo \in [Repos -> RepoRec]
  BY DEF Item, PipeInv, PipeTypes
<1>2. ASSUME NEW outcome \in {"already_integrated", "skipped_webhook_reachable"}, Tally(r, outcome),
             hand' = [hand EXCEPT ![h].todo = @ \ {r}], UNCHANGED pipeRaced
      PROVE  PipeInv'
  <2> DEFINE k == [hand[h] EXCEPT !.todo = @ \ {r}]
  <2>1. hand' = [hand EXCEPT ![h] = k]
    BY <1>1, <1>2
  <2>2. IsHand(k) /\ k.pc = "next"
    BY <1>1 DEF IsHand
  <2>3. rollout' \in RolloutRec
    BY <1>1, <1>2, TallyType DEF Tally, Outcomes
  <2> HIDE DEF k
  <2> QED BY <1>1, <1>2, <2>1, <2>2, <2>3, HandMoves
<1>3. ASSUME ~repo[r].integrated, rollout' = [rollout EXCEPT !.item[r] = "running"],
             hand' = [hand EXCEPT ![h] = [@ EXCEPT !.pc = "open", !.at = r]],
             pipeRaced' = (pipeRaced \/ \E g \in Hands \ {h} : hand[g].at = r)
      PROVE  PipeInv'
  <2> DEFINE k == [hand[h] EXCEPT !.pc = "open", !.at = r]
  <2>1. hand' = [hand EXCEPT ![h] = k]
    BY <1>1, <1>3
  <2>2. IsHand(k) /\ k.pc = "open" /\ k.at = r
    BY <1>1 DEF IsHand
  <2>3. rollout' \in RolloutRec
    BY <1>1, <1>3, TallyType
  <2>4. /\ pipeRaced' \in BOOLEAN /\ (pipeRaced => pipeRaced') /\ (repo[r].integrated => pipeRaced')
        /\ (\E g \in Hands \ {h} : hand[g].at = r) => pipeRaced'
    BY <1>3
  <2> HIDE DEF k
  <2> QED BY <1>1, <2>1, <2>2, <2>3, <2>4, HandStarts
<1> QED BY <1>2, <1>3 DEF Item

\* open_pipeline_pr.
LEMMA OpenPipelinePrStep ==
  ASSUME PipeInv, NEW h \in Hands, NEW assigned, NEW go, OpenPipelinePr(h, assigned, go)
  PROVE  PipeInv'
<1> DEFINE jobs == Workflow(hand[h].steps, assigned, go)
           k == [hand[h] EXCEPT !.pc = "save", !.jobs = jobs]
           r == hand[h].at
<1>1. /\ repo \in [Repos -> RepoRec] /\ hand = [g \in Hands |-> hand[g]]
      /\ \A g \in Hands : IsHand(hand[g])
      /\ pipePrs \in [Repos -> Nat] /\ pipeRaced \in BOOLEAN /\ rollout \in RolloutRec
  BY DEF PipeInv, PipeTypes
<1>2. /\ hand' = [hand EXCEPT ![h] = k] /\ hand[h].pc = "open" /\ pipePrs' = [pipePrs EXCEPT ![r] = @ + 1]
      /\ UNCHANGED <<repo, rollout, pipeRaced>>
  BY <1>1 DEF OpenPipelinePr
<1> HIDE DEF jobs
<1>3. IsHand(k) /\ k.pc = "save" /\ k.at = r /\ r \in Repos
  BY <1>1, <1>2 DEF IsHand
<1> HIDE DEF k
<1>4. hand'[h] = k /\ \A g \in Hands \ {h} : hand'[g] = hand[g]
  BY <1>1, <1>2
<1>5. hand' = [g \in Hands |-> hand'[g]] /\ \A g \in Hands : IsHand(hand'[g])
  BY <1>1, <1>2, <1>3, <1>4
<1>6. pipePrs' \in [Repos -> Nat] /\ pipePrs'[r] = pipePrs[r] + 1 /\ \A s \in Repos \ {r} : pipePrs'[s] = pipePrs[s]
  BY <1>1, <1>2, <1>3
<1>7. PipeTypes'
  BY <1>1, <1>2, <1>5, <1>6 DEF PipeTypes, IsHand
<1>8. ASSUME ~pipeRaced PROVE HandsApart' /\ OnceEach'
  <2>1. HandsApart /\ OnceEach
    BY <1>8 DEF PipeInv
  <2>2. HandsApart'
    BY <1>2, <1>3, <1>4, <2>1 DEF HandsApart
  <2>3. pipePrs[r] = 0
    BY <1>2, <1>3, <2>1 DEF OnceEach
  <2>4. \A g \in Hands \ {h} : hand[g].pc = "open" => hand[g].at # r
    BY <1>2, <2>1 DEF HandsApart
  <2>5. ASSUME NEW s \in Repos
        PROVE  /\ pipePrs'[s] <= 1
               /\ pipePrs'[s] = 1 =>
                    (repo'[s].integrated = TRUE \/ \E g \in Hands : hand'[g].pc = "save" /\ hand'[g].at = s)
               /\ \A g \in Hands : hand'[g].pc = "open" /\ hand'[g].at = s =>
                    pipePrs'[s] = 0 /\ repo'[s].integrated = FALSE
    <3>1. CASE s = r
      BY <1>3, <1>4, <1>6, <2>3, <2>4, <3>1
    <3>2. CASE s # r
      <4>1. /\ pipePrs[s] <= 1
            /\ pipePrs[s] = 1 =>
                 (repo[s].integrated = TRUE \/ \E g \in Hands : hand[g].pc = "save" /\ hand[g].at = s)
            /\ \A g \in Hands : hand[g].pc = "open" /\ hand[g].at = s =>
                 pipePrs[s] = 0 /\ repo[s].integrated = FALSE
        BY <2>1 DEF OnceEach
      <4> QED BY <1>2, <1>3, <1>4, <1>6, <3>2, <4>1
    <3> QED BY <3>1, <3>2
  <2> QED BY <2>2, <2>5 DEF OnceEach
<1> QED BY <1>2, <1>7, <1>8 DEF PipeInv

\* An item is over: the thread goes on to the next one, or rests.
LEMMA HandDone ==
  ASSUME PipeTypes, NEW h \in Hands,
         hand' = [hand EXCEPT ![h] = IF hand[h].batch
                                     THEN [hand[h] EXCEPT !.pc = "next", !.at = "none", !.jobs = <<>>,
                                                           !.todo = hand[h].todo \ {hand[h].at}]
                                     ELSE IdleHand]
  PROVE  \E k : /\ IsHand(k) /\ k.pc \in {"idle", "next"} /\ hand' = [hand EXCEPT ![h] = k]
                /\ hand[h].batch => k.pc = "next" /\ k.batch = TRUE /\ k.todo = hand[h].todo \ {hand[h].at}
                /\ hand[h].batch => k.steps = hand[h].steps
                /\ ~hand[h].batch => k = IdleHand
<1>1. hand = [g \in Hands |-> hand[g]] /\ IsHand(hand[h])
  BY DEF PipeTypes
<1>2. CASE hand[h].batch
  <2> DEFINE k == [hand[h] EXCEPT !.pc = "next", !.at = "none", !.jobs = <<>>, !.todo = hand[h].todo \ {hand[h].at}]
  <2>1. hand' = [hand EXCEPT ![h] = k]
    BY <1>1, <1>2 DEF IsHand
  <2>2. hand[h].batch = TRUE
    BY <1>1, <1>2 DEF IsHand
  <2>3. /\ DOMAIN k = DOMAIN hand[h] /\ k.pc = "next" /\ k.batch = hand[h].batch
        /\ k.todo = hand[h].todo \ {hand[h].at} /\ k.steps = hand[h].steps
    BY <1>1 DEF IsHand
  <2> HIDE DEF k
  <2>4. IsHand(k)
    BY <1>1, <2>2, <2>3 DEF IsHand
  <2> QED BY <1>2, <2>1, <2>2, <2>3, <2>4
<1>3. CASE ~hand[h].batch
  BY <1>1, <1>3, IdleHandType
<1> QED BY <1>2, <1>3

\* The target, the item and the counter, in one commit; or the item has failed.
LEMMA SaveStep ==
  ASSUME PipeInv, NEW h \in Hands, SavePipeline(h) \/ PipelineFails(h)
  PROVE  PipeInv'
<1>1. /\ PipeTypes /\ repo \in [Repos -> RepoRec] /\ IsHand(hand[h])
      /\ pipeRaced \in BOOLEAN /\ rollout \in RolloutRec
  BY DEF PipeInv, PipeTypes
<1>2. hand[h].at \in Repos
  BY <1>1 DEF IsHand, SavePipeline, PipelineFails
<1>3. PICK k : IsHand(k) /\ k.pc \in {"idle", "next"} /\ hand' = [hand EXCEPT ![h] = k]
  BY <1>1, HandDone DEF SavePipeline, PipelineFails
<1>4. rollout' \in RolloutRec
  <2>1. ASSUME NEW outcome \in {"succeeded", "failed"}, Tally(hand[h].at, outcome) PROVE rollout' \in RolloutRec
    BY <1>1, <2>1, TallyType DEF Tally, Outcomes
  <2> QED BY <1>1, <2>1 DEF SavePipeline, PipelineFails
<1>5. CASE SavePipeline(h)
  <2>1. /\ hand[h].pc = "save" /\ UNCHANGED <<pipePrs, pipeRaced>>
        /\ repo' = [repo EXCEPT ![hand[h].at].integrated = TRUE]
    BY <1>5 DEF SavePipeline
  <2>2. /\ repo' \in [Repos -> RepoRec] /\ repo'[hand[h].at].integrated = TRUE
        /\ \A r \in Repos \ {hand[h].at} : repo'[r] = repo[r]
    BY <1>1, <1>2, <2>1 DEF RepoRec
  <2> QED BY <1>1, <1>3, <1>4, <2>1, <2>2, HandMoves
<1>6. CASE PipelineFails(h)
  <2>1. UNCHANGED <<repo, pipePrs>> /\ pipeRaced' = (pipeRaced \/ hand[h].pc = "save")
    BY <1>6 DEF PipelineFails
  <2>2. pipeRaced' \in BOOLEAN /\ (pipeRaced => pipeRaced') /\ (hand[h].pc = "save" => pipeRaced')
    BY <2>1
  <2> QED BY <1>1, <1>3, <1>4, <2>1, <2>2, HandMoves
<1> QED BY <1>5, <1>6

\* The batch is taken, or ends; a thread is lost.
LEMMA HandRestsStep ==
  ASSUME PipeInv, NEW h \in Hands, StartRollout(h) \/ EndRollout(h) \/ HandLost(h)
  PROVE  PipeInv'
<1>1. repo \in [Repos -> RepoRec] /\ pipeRaced \in BOOLEAN /\ rollout \in RolloutRec
  BY DEF PipeInv, PipeTypes
<1>2. UNCHANGED <<repo, pipePrs>>
  BY DEF StartRollout, EndRollout, HandLost
<1>3. rollout' \in RolloutRec
  BY <1>1 DEF StartRollout, EndRollout, HandLost, RolloutRec
<1>4. pipeRaced' \in BOOLEAN /\ (pipeRaced => pipeRaced') /\ (hand[h].pc = "save" => pipeRaced')
  BY <1>1 DEF StartRollout, EndRollout, HandLost
<1>5. \E k : IsHand(k) /\ k.pc \in {"idle", "next"} /\ hand' = [hand EXCEPT ![h] = k]
  <2>1. CASE StartRollout(h)
    <3> DEFINE steps == IF rollout.templated THEN EnabledSteps(template) ELSE <<>>
               k == [IdleHand EXCEPT !.pc = "next", !.batch = TRUE, !.todo = DOMAIN rollout.item, !.steps = steps]
    <3>1. hand' = [hand EXCEPT ![h] = k]
      BY <2>1 DEF StartRollout
    <3> HIDE DEF steps
    <3>2. IsHand(k) /\ k.pc = "next"
      BY IdleHandType DEF IsHand
    <3> QED BY <3>1, <3>2
  <2>2. CASE EndRollout(h) \/ HandLost(h)
    BY <2>2, IdleHandType DEF EndRollout, HandLost
  <2> QED BY <2>1, <2>2
<1> QED BY <1>1, <1>2, <1>3, <1>4, <1>5, HandMoves

\* mass_pipeline_rollout: the batch and its items.
LEMMA RolloutType ==
  ASSUME NEW sel, NEW force \in BOOLEAN, NEW templated \in BOOLEAN, Rollout(sel, force, templated)
  PROVE  /\ rollout' \in RolloutRec /\ rollout'.status = "running"
         /\ rollout'.item = [r \in Eligible(sel) |-> "pending"]
         /\ rollout'.count = [o \in Outcomes |-> 0]
<1> DEFINE item == [r \in Eligible(sel) |-> "pending"]
           count == [o \in Outcomes |-> 0]
<1>1. rollout' = [NoRollout EXCEPT !.status = "running", !.force = force, !.templated = templated, !.item = item]
  BY DEF Rollout
<1>2. Eligible(sel) \in SUBSET Repos
  BY DEF Eligible
<1>3. item \in [Eligible(sel) -> Outcomes \cup {"pending", "running"}]
  OBVIOUS
<1>4. item \in RolloutItems
  BY <1>2, <1>3 DEF RolloutItems
<1>5. count \in [Outcomes -> Nat]
  OBVIOUS
<1>6. NoRollout = [status |-> "none", force |-> FALSE, templated |-> FALSE, item |-> <<>>, count |-> count]
  BY DEF NoRollout, Outcomes
<1> HIDE DEF item, count
<1>7. rollout' = [status |-> "running", force |-> force, templated |-> templated, item |-> item, count |-> count]
  BY <1>1, <1>6
<1>8. rollout' \in RolloutRec
  BY <1>4, <1>5, <1>7 DEF RolloutRec
<1>9. rollout'.status = "running" /\ rollout'.item = item /\ rollout'.count = count
  BY <1>7
<1> QED BY <1>8, <1>9 DEF item, count

\* Everything else leaves the threads and the pull requests alone.
LEMMA PipeAsideStep ==
  ASSUME PipeInv,
         \/ \E r \in Repos, what \in {"active", "covered"} : SwitchRepo(r, what)
         \/ \E steps \in Steps : EditTemplate(steps)
         \/ \E sel \in SUBSET Repos, force, templated \in BOOLEAN : Rollout(sel, force, templated)
         \/ \E h \in Hands : RolloutAgain(h)
         \/ RolloutStale
         \/ UNCHANGED pipeVars
  PROVE  PipeInv'
<1>1. /\ repo \in [Repos -> RepoRec] /\ hand = [g \in Hands |-> hand[g]]
      /\ \A g \in Hands : IsHand(hand[g])
      /\ pipePrs \in [Repos -> Nat] /\ pipeRaced \in BOOLEAN /\ rollout \in RolloutRec
  BY DEF PipeInv, PipeTypes
<1>2. UNCHANGED <<hand, pipePrs, pipeRaced>>
  BY DEF SwitchRepo, EditTemplate, Rollout, RolloutAgain, RolloutStale, pipeVars
<1>3. repo' \in [Repos -> RepoRec] /\ \A r \in Repos : repo'[r].integrated = repo[r].integrated
  <2>1. ASSUME NEW r \in Repos, NEW what \in {"active", "covered"}, SwitchRepo(r, what)
        PROVE  repo' \in [Repos -> RepoRec] /\ \A s \in Repos : repo'[s].integrated = repo[s].integrated
    <3> DEFINE k == [repo[r] EXCEPT ![what] = ~repo[r][what]]
    <3>1. repo' = [repo EXCEPT ![r] = k]
      BY <1>1, <2>1 DEF SwitchRepo
    <3>2. k \in RepoRec /\ k.integrated = repo[r].integrated
      <4>1. CASE what = "active"
        BY <1>1, <4>1 DEF RepoRec
      <4>2. CASE what = "covered"
        BY <1>1, <4>2 DEF RepoRec
      <4> QED BY <4>1, <4>2
    <3> HIDE DEF k
    <3> QED BY <1>1, <3>1, <3>2
  <2>2. CASE UNCHANGED repo
    BY <1>1, <2>2
  <2> QED BY <2>1, <2>2 DEF EditTemplate, Rollout, RolloutAgain, RolloutStale, pipeVars
<1>4. rollout' \in RolloutRec
  <2>1. ASSUME NEW sel \in SUBSET Repos, NEW force \in BOOLEAN, NEW templated \in BOOLEAN,
               Rollout(sel, force, templated)
        PROVE  rollout' \in RolloutRec
    BY <2>1, RolloutType
  <2>2. CASE RolloutStale
    BY <1>1, <2>2 DEF RolloutStale, RolloutRec
  <2>3. CASE UNCHANGED rollout
    BY <1>1, <2>3
  <2> QED BY <2>1, <2>2, <2>3 DEF SwitchRepo, EditTemplate, RolloutAgain, pipeVars
<1>5. PipeTypes'
  BY <1>1, <1>2, <1>3, <1>4 DEF PipeTypes, IsHand
<1>6. HandsApart => HandsApart'
  BY <1>2 DEF HandsApart
<1>7. OnceEach => OnceEach'
  BY <1>2, <1>3 DEF OnceEach
<1> QED BY <1>2, <1>5, <1>6, <1>7 DEF PipeInv

\* No repository has a pull request at first, and every step keeps the rest.
LEMMA PipeInvariant == PipeSpec => []PipeInv
<1>1. ASSUME PipeInit PROVE PipeInv
  <2>1. /\ repo \in [Repos -> [active : {TRUE}, covered : BOOLEAN, integrated : {FALSE}]]
        /\ rollout = NoRollout /\ hand = [h \in Hands |-> IdleHand] /\ pipePrs = [r \in Repos |-> 0]
        /\ pipeRaced = FALSE
    BY <1>1 DEF PipeInit
  <2>2. repo \in [Repos -> RepoRec]
    BY <2>1 DEF RepoRec
  <2>3. rollout \in RolloutRec
    <3> DEFINE count == [o \in Outcomes |-> 0]
    <3>1. <<>> \in [{} -> Outcomes \cup {"pending", "running"}]
      OBVIOUS
    <3>2. <<>> \in RolloutItems
      BY <3>1 DEF RolloutItems
    <3>3. count \in [Outcomes -> Nat]
      OBVIOUS
    <3>4. rollout = [status |-> "none", force |-> FALSE, templated |-> FALSE, item |-> <<>>, count |-> count]
      BY <2>1 DEF NoRollout, Outcomes
    <3> HIDE DEF count
    <3> QED BY <3>2, <3>3, <3>4 DEF RolloutRec
  <2>4. PipeTypes
    BY <2>1, <2>2, <2>3, IdleHandType DEF PipeTypes
  <2>5. \A h \in Hands : hand[h].pc = "idle"
    BY <2>1, IdleHandType
  <2>6. HandsApart /\ OnceEach
    BY <2>1, <2>5 DEF HandsApart, OnceEach
  <2> QED BY <2>4, <2>6 DEF PipeInv
<1>2. ASSUME PipeInv, [PipeNext]_pipeVars PROVE PipeInv'
  <2>1. ASSUME NEW h \in Hands, NEW r \in Repos, NEW force \in BOOLEAN, Integrate(h, r, force) PROVE PipeInv'
    BY <1>2, <2>1, IntegrateStep
  <2>2. ASSUME NEW h \in Hands, NEW r \in Repos, Item(h, r) PROVE PipeInv'
    BY <1>2, <2>2, ItemStep
  <2>3. ASSUME NEW h \in Hands, NEW assigned, NEW go, OpenPipelinePr(h, assigned, go) PROVE PipeInv'
    BY <1>2, <2>3, OpenPipelinePrStep
  <2>4. ASSUME NEW h \in Hands, SavePipeline(h) \/ PipelineFails(h) PROVE PipeInv'
    BY <1>2, <2>4, SaveStep
  <2>5. ASSUME NEW h \in Hands, StartRollout(h) \/ EndRollout(h) \/ HandLost(h) PROVE PipeInv'
    BY <1>2, <2>5, HandRestsStep
  <2>6. CASE \/ \E r \in Repos, what \in {"active", "covered"} : SwitchRepo(r, what)
             \/ \E steps \in Steps : EditTemplate(steps)
             \/ \E sel \in SUBSET Repos, force, templated \in BOOLEAN : Rollout(sel, force, templated)
             \/ \E h \in Hands : RolloutAgain(h)
             \/ RolloutStale
             \/ UNCHANGED pipeVars
    BY <1>2, <2>6, PipeAsideStep
  <2> QED BY <1>2, <2>1, <2>2, <2>3, <2>4, <2>5, <2>6 DEF PipeNext
<1> QED BY <1>1, <1>2, PTL DEF PipeSpec

\* integrate_pipeline and run_pipeline_integration_batch, for any number of
\* repositories and threads: a repository gets one pull request, however often
\* the rollout is started again, unless it is integrated again by hand, from two
\* threads at once, or the thread is lost after opening it
\* (tasks/pipeline_tasks.py 66-120).
THEOREM OnePipelinePrHolds == PipeSpec => []OnePipelinePr
<1>1. PipeInv => OnePipelinePr
  BY DEF PipeInv, OnceEach, OnePipelinePr
<1> QED BY <1>1, PipeInvariant, PTL

-----------------------------------------------------------------------------
(* The pipeline: the rollout.                                              *)

Finished(r) == rollout.item[r] \in Outcomes

Rolls(h) == hand[h].batch = TRUE

\* A target without an outcome is still somebody's to do.
Entrusted ==
  \A r \in DOMAIN rollout.item :
    Finished(r) \/ rolloutMsg \/ \E h \in Hands : Rolls(h) /\ r \in hand[h].todo

InRollout(g) ==
  /\ g.pc # "idle"
  /\ g.todo \subseteq DOMAIN rollout.item
  /\ g.pc \in {"open", "save"} => g.at \in g.todo

\* Started once: one worker at most, which has not been where it has yet to go.
TalliedOnce ==
  /\ rolloutMsg => \A h \in Hands : ~Rolls(h)
  /\ rolloutMsg => \A r \in DOMAIN rollout.item : ~Finished(r)
  /\ \A g, h \in Hands : Rolls(g) /\ Rolls(h) => g = h
  /\ \A h \in Hands : Rolls(h) => \A r \in hand[h].todo : ~Finished(r)
  /\ \A o \in Outcomes : rollout.count[o] = Cardinality({r \in DOMAIN rollout.item : rollout.item[r] = o})

RolloutInv ==
  /\ rolloutMsg \in BOOLEAN /\ pipeAgain \in BOOLEAN
  /\ rolloutMsg => rollout.status # "none"
  /\ \A h \in Hands : Rolls(h) => InRollout(hand[h]) /\ rollout.status # "none"
  /\ Entrusted
  /\ pipeAgain \/ TalliedOnce

\* The items, the message and the workers' lists stay as they are.
LEMMA RolloutAlone ==
  ASSUME RolloutInv, rollout'.item = rollout.item, rollout'.count = rollout.count,
         rollout.status # "none" => rollout'.status # "none", UNCHANGED <<rolloutMsg, pipeAgain>>,
         \A h \in Hands : Rolls(h)' <=> Rolls(h),
         \A h \in Hands : Rolls(h) => InRollout(hand'[h]) /\ hand'[h].todo = hand[h].todo
  PROVE  RolloutInv'
<1>1. \A h \in Hands : Rolls(h)' => InRollout(hand[h])' /\ rollout'.status # "none"
  BY DEF RolloutInv, InRollout
<1>2. Entrusted'
  BY DEF RolloutInv, Entrusted, Finished
<1>3. TalliedOnce => TalliedOnce'
  BY DEF TalliedOnce, Finished
<1> QED BY <1>1, <1>2, <1>3 DEF RolloutInv

\* One thread moves, the rollout stays: a thread that is not the rollout's, or
\* its own with the same list.
LEMMA HandAlone ==
  ASSUME RolloutInv, PipeTypes, NEW h \in Hands, NEW k, hand' = [hand EXCEPT ![h] = k],
         UNCHANGED <<rollout, rolloutMsg, pipeAgain>>,
         (k.batch = TRUE) <=> Rolls(h), Rolls(h) => InRollout(k) /\ k.todo = hand[h].todo
  PROVE  RolloutInv'
<1>1. hand'[h] = k /\ \A g \in Hands \ {h} : hand'[g] = hand[g]
  BY DEF PipeTypes
<1>2. \A g \in Hands : Rolls(g)' <=> Rolls(g)
  BY <1>1 DEF Rolls
<1>3. \A g \in Hands : Rolls(g) => InRollout(hand'[g]) /\ hand'[g].todo = hand[g].todo
  BY <1>1 DEF RolloutInv
<1> QED BY <1>2, <1>3, RolloutAlone

\* A status is written on an item the worker has in its list, and an outcome
\* counted and taken off that list in the same commit.
LEMMA ItemWrittenOnce ==
  ASSUME RolloutInv, PipeTypes, NEW h \in Hands, Rolls(h), NEW r \in hand[h].todo,
         NEW word \in Outcomes \cup {"running"},
         rollout' = IF word \in Outcomes THEN [rollout EXCEPT !.item[r] = word, !.count[word] = @ + 1]
                    ELSE [rollout EXCEPT !.item[r] = word],
         NEW k, hand' = [hand EXCEPT ![h] = k], k.batch = TRUE, k.pc # "idle",
         k.todo = IF word \in Outcomes THEN hand[h].todo \ {r} ELSE hand[h].todo,
         k.pc \in {"open", "save"} => k.at \in k.todo,
         UNCHANGED <<rolloutMsg, pipeAgain>>
  PROVE  RolloutInv'
<1> DEFINE item == [rollout.item EXCEPT ![r] = word]
           count == IF word \in Outcomes THEN [rollout.count EXCEPT ![word] = rollout.count[word] + 1]
                    ELSE rollout.count
<1>1. rollout \in RolloutRec /\ hand = [g \in Hands |-> hand[g]]
  BY DEF PipeTypes
<1>2. rollout' = [rollout EXCEPT !.item = item, !.count = count]
  BY <1>1 DEF RolloutRec
<1>3. hand'[h] = k /\ \A g \in Hands \ {h} : hand'[g] = hand[g]
  BY <1>1
<1>4. /\ rollout.status # "none" /\ hand[h].todo \subseteq DOMAIN rollout.item
      /\ \A g \in Hands : Rolls(g) => InRollout(hand[g])
  BY DEF RolloutInv, InRollout
<1>5. PICK D \in SUBSET Repos : rollout.item \in [D -> Outcomes \cup {"pending", "running"}]
  BY <1>1 DEF RolloutRec, RolloutItems
<1>6. DOMAIN rollout.item = D /\ IsFiniteSet(D) /\ r \in D
  BY <1>4, <1>5, PipelineAssumption, FS_Subset
<1>7. rollout.count \in [Outcomes -> Nat]
  BY <1>1 DEF RolloutRec
<1>8. /\ DOMAIN item = D /\ item[r] = word /\ \A q \in D \ {r} : item[q] = rollout.item[q]
  BY <1>5, <1>6
<1>9. \A o \in Outcomes : count[o] = IF o = word THEN rollout.count[o] + 1 ELSE rollout.count[o]
  BY <1>7
<1> HIDE DEF item, count
<1>10. rollout'.item = item /\ rollout'.count = count /\ rollout'.status = rollout.status
  BY <1>1, <1>2 DEF RolloutRec
<1>11. \A g \in Hands : Rolls(g)' <=> Rolls(g)
  BY <1>3 DEF Rolls
<1>12. \A g \in Hands : Rolls(g)' => InRollout(hand[g])' /\ rollout'.status # "none"
  <2> SUFFICES ASSUME NEW g \in Hands, Rolls(g) PROVE InRollout(hand[g])' /\ rollout'.status # "none"
    BY <1>11
  <2>1. CASE g = h
    BY <1>3, <1>4, <1>6, <1>8, <1>10, <2>1 DEF InRollout
  <2>2. CASE g # h
    BY <1>3, <1>4, <1>6, <1>8, <1>10, <2>2 DEF InRollout
  <2> QED BY <2>1, <2>2
<1>13. Entrusted'
  <2> SUFFICES ASSUME NEW q \in D
               PROVE  Finished(q)' \/ rolloutMsg' \/ \E g \in Hands : Rolls(g)' /\ q \in hand'[g].todo
    BY <1>8, <1>10 DEF Entrusted
  <2>1. CASE q = r
    BY <1>3, <1>8, <1>10, <1>11, <2>1 DEF Finished
  <2>2. CASE q # r
    <3>1. Finished(q)' <=> Finished(q)
      BY <1>8, <1>10, <2>2 DEF Finished
    <3>2. \A g \in Hands : q \in hand[g].todo => q \in hand'[g].todo
      BY <1>3, <2>2
    <3>3. Finished(q) \/ rolloutMsg \/ \E g \in Hands : Rolls(g) /\ q \in hand[g].todo
      BY <1>6 DEF RolloutInv, Entrusted
    <3> QED BY <1>11, <3>1, <3>2, <3>3
  <2> QED BY <2>1, <2>2
<1>14. ASSUME TalliedOnce PROVE TalliedOnce'
  <2>1. ~Finished(r) /\ ~rolloutMsg /\ ~rolloutMsg' /\ \A g \in Hands : Rolls(g) => g = h
    BY <1>14 DEF TalliedOnce
  <2>2. \A g \in Hands : Rolls(g)' => g = h
    BY <1>11, <2>1
  <2>3. \A q \in hand'[h].todo : ~Finished(q)'
    <3> SUFFICES ASSUME NEW q \in hand'[h].todo PROVE ~Finished(q)'
      OBVIOUS
    <3>1. q \in hand[h].todo /\ (q = r => word \notin Outcomes)
      BY <1>3
    <3>2. q \in D /\ ~Finished(q)
      BY <1>4, <1>6, <1>14, <3>1 DEF TalliedOnce
    <3> QED BY <1>8, <1>10, <3>1, <3>2 DEF Finished
  <2>4. ASSUME NEW o \in Outcomes
        PROVE  rollout'.count[o] = Cardinality({q \in DOMAIN rollout'.item : rollout'.item[q] = o})
    <3> DEFINE S == {q \in D : rollout.item[q] = o}
               U == {q \in D : item[q] = o}
    <3>1. S \in SUBSET D /\ r \notin S
      BY <2>1 DEF Finished
    <3>2. (word = o => U = S \cup {r}) /\ (word # o => U = S)
      BY <1>6, <1>8, <2>1 DEF Finished
    <3>3. rollout.count[o] = Cardinality(S) /\ rollout.count[o] \in Nat
      BY <1>6, <1>7, <1>14 DEF TalliedOnce
    <3>4. U = {q \in DOMAIN rollout'.item : rollout'.item[q] = o}
      BY <1>8, <1>10
    <3> HIDE DEF S, U
    <3>5. IsFiniteSet(S)
      BY <1>6, <3>1, FS_Subset
    <3>6. Cardinality(S \cup {r}) = Cardinality(S) + 1
      BY <3>1, <3>5, FS_AddElement
    <3>7. rollout'.count[o] = Cardinality(U)
      BY <1>9, <1>10, <3>2, <3>3, <3>6
    <3> QED BY <3>4, <3>7
  <2> QED BY <2>1, <2>2, <2>3, <2>4 DEF TalliedOnce
<1>15. rolloutMsg' => rollout'.status # "none"
  BY <1>4, <1>10
<1> QED BY <1>12, <1>13, <1>14, <1>15 DEF RolloutInv

\* A click, and the pull request itself: the rollout hears nothing of it.
LEMMA RolloutOpenStep ==
  ASSUME RolloutInv, PipeTypes, NEW h \in Hands,
         \/ \E r \in Repos, force \in BOOLEAN : Integrate(h, r, force)
         \/ \E assigned \in {JobTools, {"gosec"}}, go \in BOOLEAN : OpenPipelinePr(h, assigned, go)
  PROVE  RolloutInv'
<1>1. UNCHANGED <<rollout, rolloutMsg, pipeAgain>> /\ IsHand(hand[h])
  BY DEF Integrate, OpenPipelinePr, PipeTypes
<1>2. ASSUME NEW r \in Repos, NEW force \in BOOLEAN, Integrate(h, r, force) PROVE RolloutInv'
  <2> DEFINE k == [IdleHand EXCEPT !.pc = "open", !.at = r]
  <2>1. hand[h].pc = "idle" /\ hand' = [hand EXCEPT ![h] = k]
    BY <1>2 DEF Integrate
  <2>2. ~Rolls(h)
    BY <2>1 DEF RolloutInv, InRollout
  <2>3. k.batch = FALSE
    BY DEF IdleHand
  <2> HIDE DEF k
  <2> QED BY <1>1, <2>1, <2>2, <2>3, HandAlone
<1>3. ASSUME NEW assigned, NEW go, OpenPipelinePr(h, assigned, go) PROVE RolloutInv'
  <2> DEFINE jobs == Workflow(hand[h].steps, assigned, go)
             k == [hand[h] EXCEPT !.pc = "save", !.jobs = jobs]
  <2>1. hand[h].pc = "open" /\ hand' = [hand EXCEPT ![h] = k]
    BY <1>3 DEF OpenPipelinePr, PipeTypes
  <2> HIDE DEF jobs
  <2>2. k.pc = "save" /\ k.batch = hand[h].batch /\ k.todo = hand[h].todo /\ k.at = hand[h].at
    BY <1>1 DEF IsHand
  <2> HIDE DEF k
  <2>3. (k.batch = TRUE) <=> Rolls(h)
    BY <2>2 DEF Rolls
  <2>4. Rolls(h) => InRollout(k) /\ k.todo = hand[h].todo
    BY <2>1, <2>2 DEF RolloutInv, InRollout
  <2> QED BY <1>1, <2>1, <2>3, <2>4, HandAlone
<1> QED BY <1>2, <1>3

\* run_pipeline_integration_batch takes the message, with every item.
LEMMA StartRolloutStep ==
  ASSUME RolloutInv, PipeTypes, NEW h \in Hands, StartRollout(h)
  PROVE  RolloutInv'
<1> DEFINE steps == IF rollout.templated THEN EnabledSteps(template) ELSE <<>>
           k == [IdleHand EXCEPT !.pc = "next", !.batch = TRUE, !.todo = DOMAIN rollout.item, !.steps = steps]
<1>1. /\ hand[h].pc = "idle" /\ rolloutMsg /\ ~rolloutMsg' /\ rolloutMsg' = FALSE
      /\ hand' = [hand EXCEPT ![h] = k] /\ UNCHANGED <<rollout, pipeAgain>>
  BY DEF StartRollout
<1> HIDE DEF steps
<1>2. k.batch = TRUE /\ k.todo = DOMAIN rollout.item /\ k.pc = "next"
  BY IdleHandType DEF IsHand
<1> HIDE DEF k
<1>3. hand'[h] = k /\ \A g \in Hands \ {h} : hand'[g] = hand[g]
  BY <1>1 DEF PipeTypes
<1>4. \A g \in Hands : Rolls(g)' <=> (Rolls(g) \/ g = h)
  BY <1>2, <1>3 DEF Rolls
<1>5. \A g \in Hands : Rolls(g)' => InRollout(hand[g])' /\ rollout'.status # "none"
  BY <1>1, <1>2, <1>3, <1>4 DEF RolloutInv, InRollout
<1>6. Entrusted'
  BY <1>1, <1>2, <1>3, <1>4 DEF Entrusted, Finished
<1>7. TalliedOnce => TalliedOnce'
  BY <1>1, <1>2, <1>3, <1>4 DEF TalliedOnce, Finished
<1> QED BY <1>1, <1>5, <1>6, <1>7 DEF RolloutInv

\* The checks before an item is worked on.
LEMMA RolloutItemStep ==
  ASSUME RolloutInv, PipeTypes, NEW h \in Hands, NEW r \in Repos, Item(h, r)
  PROVE  RolloutInv'
<1>1. /\ hand[h].pc = "next" /\ r \in hand[h].todo /\ UNCHANGED <<rolloutMsg, pipeAgain>>
      /\ hand = [g \in Hands |-> hand[g]] /\ IsHand(hand[h]) /\ hand[h].batch = TRUE
  BY DEF Item, PipeTypes, IsHand
<1>2. ASSUME NEW outcome \in {"already_integrated", "skipped_webhook_reachable"}, Tally(r, outcome),
             hand' = [hand EXCEPT ![h].todo = @ \ {r}]
      PROVE  RolloutInv'
  <2> DEFINE k == [hand[h] EXCEPT !.todo = hand[h].todo \ {r}]
  <2>1. hand' = [hand EXCEPT ![h] = k]
    BY <1>1, <1>2
  <2>2. k.pc = "next" /\ k.batch = TRUE /\ k.todo = hand[h].todo \ {r}
    BY <1>1 DEF IsHand
  <2>3. outcome \in Outcomes
    BY DEF Outcomes
  <2>4. rollout' = [rollout EXCEPT !.item[r] = outcome, !.count[outcome] = @ + 1]
    BY <1>2 DEF Tally
  <2> HIDE DEF k
  <2>5. Rolls(h) /\ outcome \in Outcomes \cup {"running"}
    BY <1>1, <2>3 DEF Rolls
  <2>6. rollout' = IF outcome \in Outcomes THEN [rollout EXCEPT !.item[r] = outcome, !.count[outcome] = @ + 1]
                   ELSE [rollout EXCEPT !.item[r] = outcome]
    BY <2>3, <2>4
  <2>7. /\ k.todo = IF outcome \in Outcomes THEN hand[h].todo \ {r} ELSE hand[h].todo
        /\ k.pc # "idle" /\ k.batch = TRUE
        /\ k.pc \in {"open", "save"} => k.at \in k.todo
    BY <2>2, <2>3
  <2> QED BY <1>1, <2>1, <2>5, <2>6, <2>7, ItemWrittenOnce
<1>3. ASSUME rollout' = [rollout EXCEPT !.item[r] = "running"],
             hand' = [hand EXCEPT ![h] = [@ EXCEPT !.pc = "open", !.at = r]]
      PROVE  RolloutInv'
  <2> DEFINE k == [hand[h] EXCEPT !.pc = "open", !.at = r]
  <2>1. hand' = [hand EXCEPT ![h] = k]
    BY <1>1, <1>3
  <2>2. k.pc = "open" /\ k.batch = TRUE /\ k.todo = hand[h].todo /\ k.at = r
    BY <1>1 DEF IsHand
  <2>3. "running" \notin Outcomes
    BY DEF Outcomes
  <2> HIDE DEF k
  <2>4. Rolls(h)
    BY <1>1 DEF Rolls
  <2> QED BY <1>1, <1>3, <2>1, <2>2, <2>3, <2>4, ItemWrittenOnce
<1> QED BY <1>2, <1>3 DEF Item

\* The item is over, one way or the other.
LEMMA RolloutSaveStep ==
  ASSUME RolloutInv, PipeTypes, NEW h \in Hands, SavePipeline(h) \/ PipelineFails(h)
  PROVE  RolloutInv'
<1>1. /\ hand[h].pc \in {"open", "save"} /\ UNCHANGED <<rolloutMsg, pipeAgain>> /\ IsHand(hand[h])
  BY DEF SavePipeline, PipelineFails, PipeTypes
<1>2. PICK k : /\ IsHand(k) /\ k.pc \in {"idle", "next"} /\ hand' = [hand EXCEPT ![h] = k]
               /\ hand[h].batch => k.pc = "next" /\ k.batch = TRUE /\ k.todo = hand[h].todo \ {hand[h].at}
               /\ ~hand[h].batch => k = IdleHand
  BY HandDone DEF SavePipeline, PipelineFails
<1>3. CASE ~hand[h].batch
  <2>1. UNCHANGED rollout /\ k.batch = FALSE /\ ~Rolls(h)
    BY <1>2, <1>3, IdleHandType DEF SavePipeline, PipelineFails, Rolls
  <2> QED BY <1>1, <1>2, <2>1, HandAlone
<1>4. CASE hand[h].batch
  <2>1. Rolls(h)
    BY <1>1, <1>4 DEF Rolls, IsHand
  <2>2. hand[h].at \in hand[h].todo
    BY <1>1, <2>1 DEF RolloutInv, InRollout
  <2>3. \E outcome \in {"succeeded", "failed"} : Tally(hand[h].at, outcome)
    BY <1>4 DEF SavePipeline, PipelineFails
  <2>4. PICK outcome \in Outcomes :
           rollout' = [rollout EXCEPT !.item[hand[h].at] = outcome, !.count[outcome] = @ + 1]
    BY <2>3 DEF Tally, Outcomes
  <2>5. k.pc = "next" /\ k.batch = TRUE /\ k.todo = hand[h].todo \ {hand[h].at}
    BY <1>2, <1>4
  <2> DEFINE r == hand[h].at
  <2> HIDE DEF r
  <2>6. r \in hand[h].todo /\ outcome \in Outcomes \cup {"running"}
    BY <2>2 DEF r
  <2>7. rollout' = IF outcome \in Outcomes THEN [rollout EXCEPT !.item[r] = outcome, !.count[outcome] = @ + 1]
                   ELSE [rollout EXCEPT !.item[r] = outcome]
    BY <2>4 DEF r
  <2>8. /\ k.todo = IF outcome \in Outcomes THEN hand[h].todo \ {r} ELSE hand[h].todo
        /\ k.pc # "idle" /\ k.batch = TRUE
        /\ k.pc \in {"open", "save"} => k.at \in k.todo
    BY <2>5 DEF r
  <2> QED BY <1>1, <1>2, <2>1, <2>6, <2>7, <2>8, ItemWrittenOnce
<1> QED BY <1>3, <1>4

\* The rollout ends, or its thread is lost and the message is back.
LEMMA RolloutRestsStep ==
  ASSUME RolloutInv, PipeTypes, NEW h \in Hands, EndRollout(h) \/ HandLost(h)
  PROVE  RolloutInv'
<1>1. /\ hand' = [hand EXCEPT ![h] = IdleHand] /\ rollout \in RolloutRec /\ IsHand(hand[h])
  BY DEF EndRollout, HandLost, PipeTypes
<1>2. hand'[h] = IdleHand /\ \A g \in Hands \ {h} : hand'[g] = hand[g]
  BY <1>1 DEF PipeTypes
<1>3. \A g \in Hands : Rolls(g)' <=> (Rolls(g) /\ g # h)
  BY <1>2, IdleHandType DEF Rolls
<1>4. /\ rollout'.item = rollout.item /\ rollout'.count = rollout.count
      /\ rollout.status # "none" => rollout'.status # "none"
  BY <1>1 DEF EndRollout, HandLost, RolloutRec
<1>5. \A g \in Hands : Rolls(g)' => InRollout(hand[g])' /\ rollout'.status # "none"
  BY <1>2, <1>3, <1>4 DEF RolloutInv, InRollout
<1>6. CASE EndRollout(h)
  <2>1. hand[h].todo = {} /\ UNCHANGED <<rolloutMsg, pipeAgain>>
    BY <1>6 DEF EndRollout
  <2>2. Entrusted'
    BY <1>2, <1>3, <1>4, <2>1 DEF RolloutInv, Entrusted, Finished
  <2>3. TalliedOnce => TalliedOnce'
    BY <1>2, <1>3, <1>4, <2>1 DEF TalliedOnce, Finished
  <2> QED BY <1>4, <1>5, <2>1, <2>2, <2>3 DEF RolloutInv
<1>7. CASE HandLost(h) /\ Rolls(h)
  <2>1. rolloutMsg' = TRUE /\ pipeAgain' = TRUE
    BY <1>7 DEF HandLost, Rolls
  <2>2. Entrusted'
    BY <2>1 DEF Entrusted
  <2>3. rollout.status # "none"
    BY <1>7 DEF RolloutInv
  <2> QED BY <1>4, <1>5, <2>1, <2>2, <2>3 DEF RolloutInv
<1>8. CASE HandLost(h) /\ ~Rolls(h)
  <2>1. hand[h].batch = FALSE
    BY <1>1, <1>8 DEF Rolls, IsHand
  <2>2. UNCHANGED <<rollout, rolloutMsg, pipeAgain>>
    BY <1>8, <2>1 DEF HandLost, RolloutInv
  <2> QED BY <1>1, <1>8, <2>2, IdleHandType, HandAlone
<1> QED BY <1>6, <1>7, <1>8

\* The batch is created: every item is pending, every counter zero.
LEMMA RolloutCreatedStep ==
  ASSUME RolloutInv, PipeTypes, NEW sel, NEW force \in BOOLEAN, NEW templated \in BOOLEAN,
         Rollout(sel, force, templated)
  PROVE  RolloutInv'
<1>1. /\ rollout.status = "none" /\ UNCHANGED <<hand, pipeAgain>> /\ rolloutMsg' = TRUE
  BY DEF Rollout
<1>2. ~rolloutMsg /\ \A h \in Hands : ~Rolls(h)
  BY <1>1 DEF RolloutInv
<1>3. \A h \in Hands : ~Rolls(h)'
  BY <1>1, <1>2 DEF Rolls
<1>4. /\ rollout'.status = "running" /\ rollout'.item = [r \in Eligible(sel) |-> "pending"]
      /\ rollout'.count = [o \in Outcomes |-> 0]
  BY RolloutType
<1>5. \A r \in DOMAIN rollout'.item : rollout'.item[r] = "pending"
  BY <1>4
<1>6. \A r \in DOMAIN rollout'.item : ~Finished(r)'
  BY <1>5 DEF Finished, Outcomes
<1>7. ASSUME NEW o \in Outcomes
      PROVE  rollout'.count[o] = Cardinality({r \in DOMAIN rollout'.item : rollout'.item[r] = o})
  <2>1. {r \in DOMAIN rollout'.item : rollout'.item[r] = o} = {}
    BY <1>5 DEF Outcomes
  <2>2. Cardinality({}) = 0
    BY FS_EmptySet
  <2>3. rollout'.count[o] = 0
    BY <1>4
  <2> QED BY <2>1, <2>2, <2>3
<1>8. TalliedOnce'
  BY <1>3, <1>6, <1>7 DEF TalliedOnce
<1>9. Entrusted'
  BY <1>1 DEF Entrusted
<1> QED BY <1>1, <1>3, <1>4, <1>8, <1>9 DEF RolloutInv

\* The rest: switches, templates, a second delivery, a poll of a stale batch.
LEMMA RolloutAsideStep ==
  ASSUME RolloutInv, PipeTypes,
         \/ \E r \in Repos, what \in {"active", "covered"} : SwitchRepo(r, what)
         \/ \E steps \in Steps : EditTemplate(steps)
         \/ \E h \in Hands : RolloutAgain(h)
         \/ RolloutStale
         \/ UNCHANGED pipeVars
  PROVE  RolloutInv'
<1>1. hand' = hand /\ rollout \in RolloutRec
  BY DEF SwitchRepo, EditTemplate, RolloutAgain, RolloutStale, pipeVars, PipeTypes
<1>2. ASSUME NEW h \in Hands, RolloutAgain(h) PROVE RolloutInv'
  <2>1. rolloutMsg' = TRUE /\ pipeAgain' = TRUE /\ rollout' = rollout /\ hand[h].batch
    BY <1>2 DEF RolloutAgain
  <2>2. Rolls(h)
    BY <2>1 DEF Rolls, PipeTypes, IsHand
  <2>3. Entrusted'
    BY <2>1 DEF Entrusted
  <2>4. \A g \in Hands : Rolls(g)' => InRollout(hand[g])' /\ rollout'.status # "none"
    BY <1>1, <2>1 DEF RolloutInv, Rolls, InRollout
  <2>5. rollout.status # "none"
    BY <2>2 DEF RolloutInv
  <2> QED BY <2>1, <2>3, <2>4, <2>5 DEF RolloutInv
<1>3. CASE ~\E h \in Hands : RolloutAgain(h)
  <2>1. UNCHANGED <<rolloutMsg, pipeAgain>>
    BY <1>3 DEF SwitchRepo, EditTemplate, RolloutStale, pipeVars
  <2>2. /\ rollout'.item = rollout.item /\ rollout'.count = rollout.count
        /\ rollout.status # "none" => rollout'.status # "none"
    BY <1>1, <1>3 DEF SwitchRepo, EditTemplate, RolloutStale, pipeVars, RolloutRec
  <2>3. \A h \in Hands : Rolls(h)' <=> Rolls(h)
    BY <1>1 DEF Rolls
  <2>4. \A h \in Hands : Rolls(h) => InRollout(hand'[h]) /\ hand'[h].todo = hand[h].todo
    BY <1>1 DEF RolloutInv
  <2> QED BY <2>1, <2>2, <2>3, <2>4, RolloutAlone
<1> QED BY <1>2, <1>3

\* The invariant of the rollout's accounts.
LEMMA RolloutInvariant == PipeSpec => []RolloutInv
<1>1. ASSUME PipeInit PROVE RolloutInv
  <2> DEFINE none == [o \in Outcomes |-> 0]
  <2>1. /\ rollout = [status |-> "none", force |-> FALSE, templated |-> FALSE, item |-> <<>>, count |-> none]
        /\ hand = [h \in Hands |-> IdleHand] /\ rolloutMsg = FALSE /\ pipeAgain = FALSE
    BY <1>1 DEF PipeInit, NoRollout, Outcomes
  <2>2. \A o \in Outcomes : none[o] = 0
    OBVIOUS
  <2> HIDE DEF none
  <2>3. \A h \in Hands : ~Rolls(h)
    BY <2>1, IdleHandType DEF Rolls
  <2>4. rollout.item = <<>> /\ rollout.count = none
    BY <2>1
  <2>5. DOMAIN rollout.item = {}
    BY <2>4
  <2>6. Entrusted
    BY <2>5 DEF Entrusted
  <2>7. ASSUME NEW o \in Outcomes
        PROVE  rollout.count[o] = Cardinality({r \in DOMAIN rollout.item : rollout.item[r] = o})
    <3>1. {r \in DOMAIN rollout.item : rollout.item[r] = o} = {}
      BY <2>5
    <3>2. Cardinality({}) = 0
      BY FS_EmptySet
    <3> QED BY <2>2, <2>4, <3>1, <3>2
  <2>8. TalliedOnce
    BY <2>1, <2>3, <2>7 DEF TalliedOnce
  <2> QED BY <2>1, <2>3, <2>6, <2>8 DEF RolloutInv
<1>2. ASSUME RolloutInv, PipeTypes, [PipeNext]_pipeVars PROVE RolloutInv'
  <2>1. ASSUME NEW h \in Hands, NEW r \in Repos, NEW force \in BOOLEAN, Integrate(h, r, force) PROVE RolloutInv'
    BY <1>2, <2>1, RolloutOpenStep
  <2>2. ASSUME NEW h \in Hands, NEW r \in Repos, Item(h, r) PROVE RolloutInv'
    BY <1>2, <2>2, RolloutItemStep
  <2>3. ASSUME NEW h \in Hands, \E assigned \in {JobTools, {"gosec"}}, go \in BOOLEAN : OpenPipelinePr(h, assigned, go)
        PROVE  RolloutInv'
    BY <1>2, <2>3, RolloutOpenStep
  <2>4. ASSUME NEW h \in Hands, SavePipeline(h) \/ PipelineFails(h) PROVE RolloutInv'
    BY <1>2, <2>4, RolloutSaveStep
  <2>5. ASSUME NEW h \in Hands, StartRollout(h) PROVE RolloutInv'
    BY <1>2, <2>5, StartRolloutStep
  <2>6. ASSUME NEW h \in Hands, EndRollout(h) \/ HandLost(h) PROVE RolloutInv'
    BY <1>2, <2>6, RolloutRestsStep
  <2>7. ASSUME NEW sel \in SUBSET Repos, NEW force \in BOOLEAN, NEW templated \in BOOLEAN,
               Rollout(sel, force, templated)
        PROVE  RolloutInv'
    BY <1>2, <2>7, RolloutCreatedStep
  <2>8. CASE \/ \E r \in Repos, what \in {"active", "covered"} : SwitchRepo(r, what)
             \/ \E steps \in Steps : EditTemplate(steps)
             \/ \E h \in Hands : RolloutAgain(h)
             \/ RolloutStale
             \/ UNCHANGED pipeVars
    BY <1>2, <2>8, RolloutAsideStep
  <2> QED BY <1>2, <2>1, <2>2, <2>3, <2>4, <2>5, <2>6, <2>7, <2>8 DEF PipeNext
<1>3. PipeInv => PipeTypes
  BY DEF PipeInv
<1> QED BY <1>1, <1>2, <1>3, PipeInvariant, PTL DEF PipeSpec

\* run_pipeline_integration_batch, for any number of repositories and threads:
\* a finished rollout nobody works on has an outcome for every target it took,
\* and unless it was started again its four counters are those outcomes
\* (tasks/pipeline_tasks.py 66-178).
THEOREM RolloutAccountsHolds == PipeSpec => []RolloutAccounts
<1>1. ASSUME RolloutInv, PipeInv PROVE RolloutAccounts
  <2>1. rollout \in RolloutRec /\ \A h \in Hands : hand[h].batch \in BOOLEAN
    BY <1>1 DEF PipeInv, PipeTypes, IsHand
  <2>2. DOMAIN rollout.count = Outcomes
    BY <2>1 DEF RolloutRec
  <2> SUFFICES ASSUME rollout.status = "completed", ~rolloutMsg, \A h \in Hands : ~hand[h].batch
               PROVE  /\ \A r \in DOMAIN rollout.item : rollout.item[r] \in DOMAIN rollout.count
                      /\ ~pipeAgain => \A o \in DOMAIN rollout.count :
                           rollout.count[o] = Cardinality({r \in DOMAIN rollout.item : rollout.item[r] = o})
    BY DEF RolloutAccounts
  <2>3. \A h \in Hands : ~Rolls(h)
    BY <2>1 DEF Rolls
  <2>4. \A r \in DOMAIN rollout.item : rollout.item[r] \in Outcomes
    BY <1>1, <2>3 DEF RolloutInv, Entrusted, Finished
  <2>5. ~pipeAgain => TalliedOnce
    BY <1>1 DEF RolloutInv
  <2> QED BY <2>2, <2>4, <2>5 DEF TalliedOnce
<1> QED BY <1>1, PipeInvariant, RolloutInvariant, PTL

-----------------------------------------------------------------------------
(* The pipeline: the workflow of a template.                               *)

\* A set of numbers has an increasing enumeration.
LEMMA IncreasingEnumeration ==
  ASSUME NEW n \in Nat, NEW S \in SUBSET (1..n)
  PROVE  \E f \in [1..Cardinality(S) -> S] : \A i, k \in DOMAIN f : i < k => f[i] < f[k]
<1> DEFINE UpTo(i) == {j \in S : j <= i}
           rank(i) == Cardinality(UpTo(i))
<1>0. \A i \in S : i \in Nat /\ i \in Int
  OBVIOUS
<1>1. IsFiniteSet(S) /\ Cardinality(S) \in Nat
  <2>1. IsFiniteSet(1..n)
    BY FS_Interval
  <2>2. IsFiniteSet(S)
    BY <2>1, FS_Subset
  <2> QED BY <2>2, FS_CardinalityType
<1>2. ASSUME NEW i \in Int PROVE IsFiniteSet(UpTo(i)) /\ rank(i) \in Nat /\ UpTo(i) \subseteq S
  <2>1. UpTo(i) \subseteq S
    OBVIOUS
  <2>2. IsFiniteSet(UpTo(i))
    BY <1>1, <2>1, FS_Subset
  <2> QED BY <2>1, <2>2, FS_CardinalityType
<1>3. ASSUME NEW A \in SUBSET S, A # {}
      PROVE  \E m \in A : \A j \in A : j <= m
  <2>1. A \in SUBSET (0..n)
    OBVIOUS
  <2> QED BY <1>3, <2>1, MaxIsGreatest
\* The element of a rank is the least of those with that rank or more.
<1>4. ASSUME NEW k \in 1..Cardinality(S) PROVE \E i \in S : rank(i) = k
  <2> DEFINE T == {i \in S : rank(i) >= k}
  <2>1. T # {}
    <3>1. S # {}
      BY <1>1, FS_EmptySet
    <3>2. PICK m \in S : \A j \in S : j <= m
      BY <1>3, <3>1
    <3>3. UpTo(m) = S
      BY <3>2
    <3>4. m \in T
      BY <1>1, <3>3
    <3> QED BY <3>4
  <2>2. T \in SUBSET Nat
    <3>1. T \subseteq S
      OBVIOUS
    <3> HIDE DEF T
    <3> QED BY <1>0, <3>1
  <2> HIDE DEF T
  <2>3. PICK i \in T : \A j \in T : i <= j
    BY <2>1, <2>2, LeastNatural
  <2>4. i \in S /\ i \in Int /\ rank(i) >= k /\ rank(i) \in Nat
    BY <1>2, <2>3 DEF T
  <2> DEFINE B == UpTo(i) \ {i}
  <2>5. Cardinality(B) = rank(i) - 1 /\ B \in SUBSET S /\ \A j \in B : j < i
    <3>1. IsFiniteSet(UpTo(i)) /\ i \in UpTo(i)
      BY <1>2, <2>4
    <3>2. Cardinality(B) = Cardinality(UpTo(i)) - 1
      BY <3>1, FS_RemoveElement
    <3> QED BY <2>4, <3>2
  <2>6. ASSUME rank(i) > k PROVE FALSE
    <3> HIDE DEF rank
    <3>1. Cardinality(B) \in Nat /\ Cardinality(B) >= k /\ Cardinality(B) # 0
      BY <2>4, <2>5, <2>6, <1>1
    <3>2. B # {}
      BY <3>1, FS_EmptySet
    <3> HIDE DEF B
    <3>3. PICK m \in B : \A j \in B : j <= m
      BY <1>3, <2>5, <3>2
    <3>4. UpTo(m) = B
      <4>1. m \in S /\ m < i /\ m \in Int /\ i \in Int
        BY <2>4, <2>5, <3>3
      <4>2. B \subseteq UpTo(m)
        BY <2>5, <3>3
      <4>3. ASSUME NEW j \in UpTo(m) PROVE j \in B
        <5>1. j \in S /\ j <= m /\ j \in Int
          OBVIOUS
        <5>2. j <= i /\ j # i
          BY <4>1, <5>1
        <5> QED BY <5>1, <5>2 DEF B
      <4> QED BY <4>2, <4>3
    <3>5. rank(m) >= k
      BY <3>1, <3>4 DEF rank
    <3>6. m \in T /\ m < i
      BY <2>5, <3>3, <3>5 DEF T
    <3> QED BY <2>2, <2>3, <3>6
  <2> HIDE DEF rank
  <2> QED BY <2>4, <2>6
<1> DEFINE f == [k \in 1..Cardinality(S) |-> CHOOSE i \in S : rank(i) = k]
<1>5. \A k \in 1..Cardinality(S) : f[k] \in S /\ rank(f[k]) = k
  BY <1>4
<1>6. f \in [1..Cardinality(S) -> S]
  BY <1>5
<1> HIDE DEF f
<1>7. ASSUME NEW i \in DOMAIN f, NEW k \in DOMAIN f, i < k PROVE f[i] < f[k]
  <2>1. i \in 1..Cardinality(S) /\ k \in 1..Cardinality(S) /\ f[i] \in S /\ f[k] \in S
    BY <1>6
  <2>2. f[i] \in Int /\ f[k] \in Int
    BY <1>0, <2>1
  <2>3. CASE f[k] <= f[i]
    <3>1. ASSUME NEW j \in S, j <= f[k] PROVE j <= f[i]
      BY <1>0, <2>2, <2>3, <3>1
    <3>2. UpTo(f[k]) \subseteq UpTo(f[i])
      BY <3>1
    <3>3. IsFiniteSet(UpTo(f[i]))
      BY <1>2, <2>2
    <3> HIDE DEF UpTo
    <3>4. rank(f[k]) <= rank(f[i])
      BY <3>2, <3>3, FS_Subset
    <3>5. k <= i
      BY <1>5, <2>1, <3>4
    <3> QED BY <1>1, <1>7, <2>1, <3>5
  <2> QED BY <2>2, <2>3
<1> QED BY <1>6, <1>7

StepRec == [tool : JobTools, enabled : BOOLEAN]

\* The enabled steps of a template that was accepted: there is one, and no tool
\* twice.
LEMMA EnabledStepsOfValid ==
  ASSUME NEW steps \in Seq(StepRec), ValidSteps(steps)
  PROVE  EnabledSteps(steps) # <<>> /\ IsInjective(EnabledSteps(steps))
<1> DEFINE on == {i \in DOMAIN steps : steps[i].enabled}
           nth == CHOOSE f \in [1..Cardinality(on) -> on] : \A i, k \in DOMAIN f : i < k => f[i] < f[k]
           c == Cardinality(on)
<1>1. on \in SUBSET (1..Len(steps)) /\ Len(steps) \in Nat /\ on # {}
  BY DEF ValidSteps
<1>2. EnabledSteps(steps) = [k \in DOMAIN nth |-> steps[nth[k]].tool]
  BY DEF EnabledSteps
<1>3. \A i, j \in on : steps[i].tool = steps[j].tool => i = j
  BY DEF ValidSteps
<1> HIDE DEF on
<1>4. \E f \in [1..c -> on] : \A i, k \in DOMAIN f : i < k => f[i] < f[k]
  BY <1>1, IncreasingEnumeration
<1>5. nth \in [1..c -> on] /\ \A i, k \in DOMAIN nth : i < k => nth[i] < nth[k]
  BY <1>4
<1> HIDE DEF nth
<1>6. c \in Nat /\ c # 0
  <2>1. IsFiniteSet(1..Len(steps))
    BY <1>1, FS_Interval
  <2>2. IsFiniteSet(on)
    BY <1>1, <2>1, FS_Subset
  <2> QED BY <1>1, <2>2, FS_CardinalityType, FS_EmptySet
<1> HIDE DEF c
<1>7. \A i, k \in 1..c : nth[i] = nth[k] => i = k
  <2> SUFFICES ASSUME NEW i \in 1..c, NEW k \in 1..c, nth[i] = nth[k], i # k PROVE FALSE
    OBVIOUS
  <2>0. nth[i] \in on /\ nth[k] \in on /\ DOMAIN nth = 1..c
    BY <1>5
  <2>1. nth[i] \in Int /\ nth[k] \in Int /\ DOMAIN nth = 1..c
    <3> DEFINE n == Len(steps)
    <3>1. n \in Nat /\ on \subseteq 1..n
      BY <1>1
    <3> HIDE DEF n
    <3>2. \A j \in 1..n : j \in Int
      BY <3>1
    <3>3. \A j \in on : j \in Int
      BY <3>1, <3>2
    <3> QED BY <2>0, <3>3
  <2>2. i < k \/ k < i
    BY <1>6
  <2>3. nth[i] < nth[k] \/ nth[k] < nth[i]
    BY <1>5, <2>1, <2>2
  <2> QED BY <2>1, <2>3
<1>8. DOMAIN EnabledSteps(steps) = 1..c /\ \A k \in 1..c : EnabledSteps(steps)[k] = steps[nth[k]].tool
  BY <1>2, <1>5
<1>9. IsInjective(EnabledSteps(steps))
  BY <1>3, <1>5, <1>7, <1>8 DEF IsInjective
<1>10. 1 \in DOMAIN EnabledSteps(steps)
  BY <1>6, <1>8
<1> QED BY <1>9, <1>10

\* A worker of the rollout has the steps of a template, and writes those.
WritesTemplate(k) ==
  /\ k.steps # <<>> /\ IsInjective(k.steps)
  /\ k.pc = "save" => k.jobs = k.steps

\* The template is valid, there as long as the rollout refers to it, and what
\* a worker of the rollout has read of it once.
TemplateInv ==
  /\ template \in Seq(StepRec)
  /\ template # <<>> => ValidSteps(template)
  /\ rollout.templated => template # <<>>
  /\ \A h \in Hands : Rolls(h) /\ rollout.templated => WritesTemplate(hand[h])

\* One thread moves: not the rollout's, or with the steps it has read.
LEMMA TemplateAlone ==
  ASSUME TemplateInv, PipeTypes, NEW h \in Hands, NEW k, hand' = [hand EXCEPT ![h] = k],
         UNCHANGED template, rollout'.templated = rollout.templated,
         k.batch = TRUE => Rolls(h) /\ k.steps = hand[h].steps,
         k.batch = TRUE /\ k.pc = "save" => (k.steps # <<>> => k.jobs = k.steps)
  PROVE  TemplateInv'
<1>1. hand'[h] = k /\ \A g \in Hands \ {h} : hand'[g] = hand[g]
  BY DEF PipeTypes
<1>2. ASSUME NEW g \in Hands, Rolls(g)', rollout.templated PROVE WritesTemplate(hand'[g])
  <2>1. CASE g # h
    BY <1>1, <1>2, <2>1 DEF TemplateInv, Rolls
  <2>2. CASE g = h
    BY <1>1, <1>2, <2>2 DEF TemplateInv, Rolls, WritesTemplate
  <2> QED BY <2>1, <2>2
<1>3. \A g \in Hands : WritesTemplate(hand[g])' <=> WritesTemplate(hand'[g])
  BY DEF WritesTemplate
<1> QED BY <1>2, <1>3 DEF TemplateInv

\* The threads but for the start of a rollout.
LEMMA TemplateHandStep ==
  ASSUME TemplateInv, PipeTypes, NEW h \in Hands,
         \/ \E r \in Repos, force \in BOOLEAN : Integrate(h, r, force)
         \/ \E r \in Repos : Item(h, r)
         \/ \E assigned \in {JobTools, {"gosec"}}, go \in BOOLEAN : OpenPipelinePr(h, assigned, go)
         \/ SavePipeline(h) \/ PipelineFails(h) \/ EndRollout(h) \/ HandLost(h)
  PROVE  TemplateInv'
<1>1. /\ UNCHANGED template /\ IsHand(hand[h]) /\ rollout \in RolloutRec /\ hand = [g \in Hands |-> hand[g]]
  BY DEF Integrate, Item, OpenPipelinePr, SavePipeline, PipelineFails, EndRollout, HandLost, PipeTypes
<1>2. rollout'.templated = rollout.templated
  <2>1. ASSUME NEW r, NEW outcome, Tally(r, outcome) PROVE rollout'.templated = rollout.templated
    BY <1>1, <2>1 DEF Tally, RolloutRec
  <2>2. ASSUME NEW r \in Repos, Item(h, r) PROVE rollout'.templated = rollout.templated
    <3>1. (\E outcome : Tally(r, outcome)) \/ rollout' = [rollout EXCEPT !.item[r] = "running"]
      BY <2>2 DEF Item
    <3> QED BY <1>1, <2>1, <3>1 DEF RolloutRec
  <2>3. CASE SavePipeline(h) \/ PipelineFails(h)
    <3>1. (\E r, outcome : Tally(r, outcome)) \/ rollout' = rollout
      BY <2>3 DEF SavePipeline, PipelineFails
    <3> QED BY <2>1, <3>1
  <2>4. CASE EndRollout(h)
    BY <1>1, <2>4 DEF EndRollout, RolloutRec
  <2>5. CASE \/ \E r \in Repos, force \in BOOLEAN : Integrate(h, r, force)
             \/ \E assigned \in {JobTools, {"gosec"}}, go \in BOOLEAN : OpenPipelinePr(h, assigned, go)
             \/ HandLost(h)
    BY <2>5 DEF Integrate, OpenPipelinePr, HandLost
  <2> QED BY <2>2, <2>3, <2>4, <2>5
<1>3. ASSUME NEW r \in Repos, NEW force \in BOOLEAN, Integrate(h, r, force) PROVE TemplateInv'
  <2> DEFINE k == [IdleHand EXCEPT !.pc = "open", !.at = r]
  <2>1. hand' = [hand EXCEPT ![h] = k]
    BY <1>3 DEF Integrate
  <2>2. k.batch = FALSE
    BY DEF IdleHand
  <2> HIDE DEF k
  <2> QED BY <1>1, <1>2, <2>1, <2>2, TemplateAlone
<1>4. ASSUME NEW r \in Repos, Item(h, r) PROVE TemplateInv'
  <2> DEFINE j == [hand[h] EXCEPT !.todo = hand[h].todo \ {r}]
             k == [hand[h] EXCEPT !.pc = "open", !.at = r]
  <2>1. hand[h].pc = "next" /\ (hand' = [hand EXCEPT ![h] = j] \/ hand' = [hand EXCEPT ![h] = k])
    BY <1>1, <1>4 DEF Item
  <2>2. /\ j.pc = "next" /\ j.batch = hand[h].batch /\ j.steps = hand[h].steps
        /\ k.pc = "open" /\ k.batch = hand[h].batch /\ k.steps = hand[h].steps
    BY <1>1, <2>1 DEF IsHand
  <2> HIDE DEF j, k
  <2> QED BY <1>1, <1>2, <2>1, <2>2, TemplateAlone DEF Rolls
<1>5. ASSUME NEW assigned, NEW go, OpenPipelinePr(h, assigned, go) PROVE TemplateInv'
  <2> DEFINE jobs == Workflow(hand[h].steps, assigned, go)
             k == [hand[h] EXCEPT !.pc = "save", !.jobs = jobs]
  <2>1. hand' = [hand EXCEPT ![h] = k]
    BY <1>1, <1>5 DEF OpenPipelinePr
  <2>2. hand[h].steps # <<>> => jobs = hand[h].steps
    BY DEF Workflow
  <2> HIDE DEF jobs
  <2>3. k.batch = hand[h].batch /\ k.steps = hand[h].steps /\ k.jobs = jobs
    BY <1>1 DEF IsHand
  <2> HIDE DEF k
  <2> QED BY <1>1, <1>2, <2>1, <2>2, <2>3, TemplateAlone DEF Rolls
<1>6. CASE SavePipeline(h) \/ PipelineFails(h)
  <2>1. PICK k : /\ IsHand(k) /\ k.pc \in {"idle", "next"} /\ hand' = [hand EXCEPT ![h] = k]
                 /\ hand[h].batch => k.steps = hand[h].steps
                 /\ ~hand[h].batch => k = IdleHand
    BY <1>6, HandDone DEF SavePipeline, PipelineFails
  <2>2. k.batch = TRUE => Rolls(h) /\ k.steps = hand[h].steps
    BY <1>1, <2>1, IdleHandType DEF Rolls, IsHand
  <2> QED BY <1>1, <1>2, <2>1, <2>2, TemplateAlone
<1>7. CASE EndRollout(h) \/ HandLost(h)
  <2>1. hand' = [hand EXCEPT ![h] = IdleHand]
    BY <1>7 DEF EndRollout, HandLost
  <2> QED BY <1>1, <1>2, <2>1, IdleHandType, TemplateAlone
<1> QED BY <1>3, <1>4, <1>5, <1>6, <1>7

\* run_pipeline_integration_batch reads the template.
LEMMA TemplateReadStep ==
  ASSUME TemplateInv, PipeTypes, NEW h \in Hands, StartRollout(h)
  PROVE  TemplateInv'
<1> DEFINE steps == IF rollout.templated THEN EnabledSteps(template) ELSE <<>>
           k == [IdleHand EXCEPT !.pc = "next", !.batch = TRUE, !.todo = DOMAIN rollout.item, !.steps = steps]
<1>1. hand' = [hand EXCEPT ![h] = k] /\ UNCHANGED <<rollout, template>>
  BY DEF StartRollout
<1>2. rollout.templated => steps # <<>> /\ IsInjective(steps)
  BY EnabledStepsOfValid DEF TemplateInv
<1> HIDE DEF steps
<1>3. k.pc = "next" /\ k.steps = steps
  BY IdleHandType DEF IsHand
<1> HIDE DEF k
<1>4. hand'[h] = k /\ \A g \in Hands \ {h} : hand'[g] = hand[g]
  BY <1>1 DEF PipeTypes
<1>5. rollout.templated => WritesTemplate(hand'[h])
  BY <1>2, <1>3, <1>4 DEF WritesTemplate
<1>6. \A g \in Hands : Rolls(g)' /\ rollout.templated => WritesTemplate(hand'[g])
  BY <1>4, <1>5 DEF TemplateInv, Rolls
<1>7. \A g \in Hands : WritesTemplate(hand[g])' <=> WritesTemplate(hand'[g])
  BY DEF WritesTemplate
<1> QED BY <1>1, <1>6, <1>7 DEF TemplateInv

\* The template changes, a batch is made, and the rest.
LEMMA TemplateAsideStep ==
  ASSUME TemplateInv, PipeTypes, RolloutInv,
         \/ \E r \in Repos, what \in {"active", "covered"} : SwitchRepo(r, what)
         \/ \E steps \in Steps : EditTemplate(steps)
         \/ \E sel \in SUBSET Repos, force, templated \in BOOLEAN : Rollout(sel, force, templated)
         \/ \E h \in Hands : RolloutAgain(h)
         \/ RolloutStale
         \/ UNCHANGED pipeVars
  PROVE  TemplateInv'
<1>1. hand' = hand /\ rollout \in RolloutRec
  BY DEF SwitchRepo, EditTemplate, Rollout, RolloutAgain, RolloutStale, pipeVars, PipeTypes
<1>2. \A h \in Hands : /\ Rolls(h)' <=> Rolls(h)
                       /\ WritesTemplate(hand[h])' <=> WritesTemplate(hand[h])
  BY <1>1 DEF Rolls, WritesTemplate
<1>3. ASSUME NEW steps \in Steps, EditTemplate(steps) PROVE TemplateInv'
  <2>1. /\ template' = steps /\ UNCHANGED rollout
        /\ steps = <<>> \/ ValidSteps(steps)
        /\ steps = <<>> => ~rollout.templated
    BY <1>3 DEF EditTemplate
  <2>2. steps \in Seq(StepRec)
    <3>1. CASE steps = <<>>
      BY <3>1
    <3>2. CASE steps # <<>>
      <4>1. PICK a \in JobTools, b \in JobTools, x \in BOOLEAN, y \in BOOLEAN :
              steps = <<[tool |-> a, enabled |-> x], [tool |-> b, enabled |-> y]>>
        BY <3>2 DEF Steps
      <4> DEFINE s == [tool |-> a, enabled |-> x]
                 t == [tool |-> b, enabled |-> y]
      <4>2. s \in StepRec /\ t \in StepRec
        BY DEF StepRec
      <4> HIDE DEF s, t
      <4>3. <<s, t>> \in Seq(StepRec)
        BY <4>2
      <4> QED BY <4>1, <4>3 DEF s, t
    <3> QED BY <3>1, <3>2
  <2>3. ValidSteps(template)' <=> ValidSteps(template')
    BY DEF ValidSteps
  <2> QED BY <1>2, <2>1, <2>2, <2>3 DEF TemplateInv
<1>4. ASSUME NEW sel, NEW force \in BOOLEAN, NEW templated \in BOOLEAN, Rollout(sel, force, templated)
      PROVE  TemplateInv'
  <2>1. /\ rollout.status = "none" /\ UNCHANGED template
        /\ templated => template # <<>>
    BY <1>4 DEF Rollout
  <2>2. \A h \in Hands : ~Rolls(h)
    BY <2>1 DEF RolloutInv
  <2>3. rollout'.templated = templated
    <3> DEFINE item == [r \in Eligible(sel) |-> "pending"]
    <3>1. rollout' = [NoRollout EXCEPT !.status = "running", !.force = force, !.templated = templated,
                                       !.item = item]
      BY <1>4 DEF Rollout
    <3> HIDE DEF item
    <3> QED BY <3>1 DEF NoRollout
  <2> QED BY <1>2, <2>1, <2>2, <2>3 DEF TemplateInv
<1>5. CASE \/ \E r \in Repos, what \in {"active", "covered"} : SwitchRepo(r, what)
           \/ \E h \in Hands : RolloutAgain(h)
           \/ RolloutStale
           \/ UNCHANGED pipeVars
  <2>1. UNCHANGED template /\ rollout'.templated = rollout.templated
    BY <1>1, <1>5 DEF SwitchRepo, RolloutAgain, RolloutStale, pipeVars, RolloutRec
  <2> QED BY <1>2, <2>1 DEF TemplateInv
<1> QED BY <1>3, <1>4, <1>5

\* The invariant of the template.
LEMMA TemplateInvariant == PipeSpec => []TemplateInv
<1>1. ASSUME PipeInit PROVE TemplateInv
  <2>1. /\ template = <<>> /\ rollout = NoRollout /\ hand = [h \in Hands |-> IdleHand]
    BY <1>1 DEF PipeInit
  <2>2. rollout.templated = FALSE /\ template \in Seq(StepRec)
    BY <2>1 DEF NoRollout
  <2> QED BY <2>1, <2>2 DEF TemplateInv
<1>2. ASSUME TemplateInv, PipeTypes, RolloutInv, [PipeNext]_pipeVars PROVE TemplateInv'
  <2>1. ASSUME NEW h \in Hands,
               \/ \E r \in Repos, force \in BOOLEAN : Integrate(h, r, force)
               \/ \E r \in Repos : Item(h, r)
               \/ \E assigned \in {JobTools, {"gosec"}}, go \in BOOLEAN : OpenPipelinePr(h, assigned, go)
               \/ SavePipeline(h) \/ PipelineFails(h) \/ EndRollout(h) \/ HandLost(h)
        PROVE  TemplateInv'
    BY <1>2, <2>1, TemplateHandStep
  <2>2. ASSUME NEW h \in Hands, StartRollout(h) PROVE TemplateInv'
    BY <1>2, <2>2, TemplateReadStep
  <2>3. CASE \/ \E r \in Repos, what \in {"active", "covered"} : SwitchRepo(r, what)
             \/ \E steps \in Steps : EditTemplate(steps)
             \/ \E sel \in SUBSET Repos, force, templated \in BOOLEAN : Rollout(sel, force, templated)
             \/ \E h \in Hands : RolloutAgain(h)
             \/ RolloutStale
             \/ UNCHANGED pipeVars
    BY <1>2, <2>3, TemplateAsideStep
  <2> QED BY <1>2, <2>1, <2>2, <2>3 DEF PipeNext
<1>3. PipeInv => PipeTypes
  BY DEF PipeInv
<1> QED BY <1>1, <1>2, <1>3, PipeInvariant, RolloutInvariant, PTL DEF PipeSpec

\* generate_workflow_yaml and delete_template, whatever happens to the template
\* while a rollout is under way: a workflow written from a template is not
\* empty, has no tool twice, and is what the worker read when it began
\* (api/pipeline_templates.py 41-50, core/pipeline_workflow.py 290-354).
THEOREM TemplateIsWrittenHolds == PipeSpec => []TemplateIsWritten
<1>1. ASSUME TemplateInv, PipeInv PROVE TemplateIsWritten
  <2> SUFFICES ASSUME NEW h \in Hands, hand[h].pc = "save", hand[h].batch, rollout.templated
               PROVE  hand[h].jobs # <<>> /\ IsInjective(hand[h].jobs) /\ hand[h].jobs = hand[h].steps
    BY DEF TemplateIsWritten
  <2>1. Rolls(h)
    BY <1>1 DEF PipeInv, PipeTypes, IsHand, Rolls
  <2>2. WritesTemplate(hand[h])
    BY <1>1, <2>1 DEF TemplateInv
  <2> QED BY <2>2 DEF WritesTemplate
<1> QED BY <1>1, TemplateInvariant, PipeInvariant, PTL


-----------------------------------------------------------------------------
(* The link to GitHub: a delivery acts in the workspace of its installation,*)
(* what counts as covered is scanned, and a repository is imported once.   *)

\* The accounts, and the one LinkInit names when there is none.
Owners == Accounts \cup {CHOOSE o \in Accounts : TRUE}

Scopes == Tenants \cup {"platform"}

AppRec == [scope : Scopes, secret : {"right", "wrong", "unset"}, alive : BOOLEAN]

InstallRec == [app : Nat, owner : Owners, link : Nat, tenant : Tenants]

TargetRec ==
  [tenant : Tenants, repo : Places, life : {"active", "deactivated", "deleted"},
   mode : {"warn", "disabled"}, by : {"sync", "hand"}, scans : BOOLEAN]

SyncRec ==
  [pc : {"idle", "walk", "queue"}, todo : SUBSET InstallRec, urls : SUBSET Places,
   fresh : Seq(Tenants \X Places), queue : SUBSET Nat]

LinkTypes ==
  /\ apps \in Seq(AppRec)
  /\ pending \in Seq(Scopes)
  /\ installs \in SUBSET InstallRec
  /\ repos \in Seq(TargetRec)
  /\ sync \in [Syncs -> SyncRec]
  /\ together \in BOOLEAN

\* The repositories of the targets a sync has made and nobody has deleted.
Imported == {repos[t].repo : t \in {u \in Live : repos[u].by = "sync"}}

OneSync == \A s, z \in Syncs : sync[s].pc # "idle" /\ sync[z].pc # "idle" => s = z

\* A sync knows every repository that is imported, and what it adds is new.
Remembered(z) ==
  z.pc = "walk" =>
    /\ Imported \subseteq z.urls
    /\ \A k \in DOMAIN z.fresh : z.fresh[k][2] \in z.urls /\ z.fresh[k][2] \notin Imported
    /\ \A k, l \in DOMAIN z.fresh : z.fresh[k][2] = z.fresh[l][2] => k = l

Once ==
  \A t, u \in Live :
    (repos[t].by = "sync" /\ repos[u].by = "sync" /\ repos[t].repo = repos[u].repo) => t = u

ImportInv == together \/ (OneSync /\ Once /\ \A s \in Syncs : Remembered(sync[s]))

-----------------------------------------------------------------------------
(* Types.                                                                  *)

\* A sync at rest.
LEMMA IdleSyncType == IdleSync \in SyncRec /\ IdleSync.pc = "idle" /\ IdleSync.fresh = <<>>
<1>1. <<>> \in Seq(Tenants \X Places)
  OBVIOUS
<1> QED BY <1>1 DEF IdleSync, SyncRec

\* The elements of a finite set, each once.
LEMMA Enumerated ==
  ASSUME NEW S, IsFiniteSet(S)
  PROVE  /\ SetToSeq(S) \in Seq(S)
         /\ \A k, l \in DOMAIN SetToSeq(S) : SetToSeq(S)[k] = SetToSeq(S)[l] => k = l
<1> DEFINE n == Cardinality(S)
<1>1. n \in Nat /\ ExistsBijection(1..n, S)
  BY FS_CardinalityType
<1>2. PICK f : f \in Bijection(1..n, S)
  BY <1>1 DEF ExistsBijection
<1>3. f \in [1..n -> S] /\ IsInjective(f)
  BY <1>2 DEF Bijection, Injection, IsInjective
<1>4. SetToSeq(S) \in [1..n -> S] /\ IsInjective(SetToSeq(S))
  BY <1>3 DEF SetToSeq
<1> HIDE DEF n
<1> QED BY <1>1, <1>4 DEF IsInjective

\* A sync begins: its rows, and the repositories that have a target now.
LEMMA BeginType ==
  ASSUME LinkTypes, NEW s \in Syncs, NEW rows \in SUBSET InstallRec, Begin(s, rows)
  PROVE  /\ sync' \in [Syncs -> SyncRec] /\ together' \in BOOLEAN
         /\ sync'[s].pc = "walk" /\ sync'[s].fresh = <<>>
         /\ sync'[s].urls = {repos[t].repo : t \in Live}
         /\ \A z \in Syncs \ {s} : sync'[z] = sync[z]
<1> DEFINE urls == {repos[t].repo : t \in Live}
           k == [IdleSync EXCEPT !.pc = "walk", !.todo = rows, !.urls = urls]
<1>1. sync' = [sync EXCEPT ![s] = k] /\ together' = (together \/ SyncingToo(s))
  BY DEF Begin
<1>2. urls \in SUBSET Places
  <2>1. \A t \in DOMAIN repos : repos[t] \in TargetRec
    BY DEF LinkTypes
  <2>2. \A t \in Live : repos[t].repo \in Places
    BY <2>1 DEF Live, TargetRec
  <2> QED BY <2>2
<1> HIDE DEF urls
<1>3. k \in SyncRec /\ k.pc = "walk" /\ k.fresh = <<>> /\ k.urls = urls
  BY <1>2, IdleSyncType DEF SyncRec
<1> HIDE DEF k
<1>4. together' \in BOOLEAN
  BY <1>1 DEF LinkTypes, SyncingToo
<1> QED BY <1>1, <1>3, <1>4 DEF LinkTypes, urls

\* The step of a walk that adds repositories.
LEMMA WalkType ==
  ASSUME LinkTypes, NEW s \in Syncs, NEW i, WalkInstallation(s, i)
  PROVE  \E new \in Seq(Tenants \X Places) :
           /\ new = <<>> \/ \A k \in DOMAIN new : new[k][2] \notin sync[s].urls
           /\ \A k, l \in DOMAIN new : new[k][2] = new[l][2] => k = l
           /\ sync' \in [Syncs -> SyncRec]
           /\ sync[s].pc = "walk" /\ sync'[s].pc = "walk"
           /\ sync'[s].fresh = sync[s].fresh \o new
           /\ sync'[s].urls = sync[s].urls \cup {new[k][2] : k \in DOMAIN new}
           /\ \A z \in Syncs \ {s} : sync'[z] = sync[z]
<1> DEFINE z == sync[s]
           pairs == {<<i.tenant, r>> : r \in NewRepos(z, i)}
           new == SetToSeq(pairs)
           more == {new[k][2] : k \in DOMAIN new}
           moved == [z EXCEPT !.todo = z.todo \ {i}]
           added == [moved EXCEPT !.fresh = z.fresh \o new, !.urls = z.urls \cup more]
<1>1. /\ z.pc = "walk" /\ i \in z.todo
      /\ sync' = [sync EXCEPT ![s] = moved] \/ sync' = [sync EXCEPT ![s] = added]
  BY DEF WalkInstallation
<1>2. sync \in [Syncs -> SyncRec] /\ z \in SyncRec /\ i \in InstallRec
  BY <1>1 DEF LinkTypes, SyncRec
<1>3. i.tenant \in Tenants /\ NewRepos(z, i) \subseteq Places /\ IsFiniteSet(NewRepos(z, i))
      /\ \A r \in NewRepos(z, i) : r \notin z.urls
  BY <1>2, LinkAssumption, FS_Subset DEF InstallRec, NewRepos
<1>4. IsFiniteSet(pairs) /\ pairs \subseteq Tenants \X Places
      /\ \A p \in pairs : p = <<i.tenant, p[2]>> /\ p[2] \notin z.urls
  <2> DEFINE f == [r \in NewRepos(z, i) |-> <<i.tenant, r>>]
  <2>1. f \in Surjection(NewRepos(z, i), pairs)
    BY DEF Surjection
  <2>2. IsFiniteSet(pairs)
    BY <1>3, <2>1, FS_Surjection
  <2> QED BY <1>3, <2>2
<1> HIDE DEF pairs
<1>5. /\ new \in Seq(pairs)
      /\ \A k, l \in DOMAIN new : new[k] = new[l] => k = l
  BY <1>4, Enumerated
<1> HIDE DEF new
<1>6. new \in Seq(Tenants \X Places) /\ \A k \in DOMAIN new : new[k] \in pairs
  BY <1>4, <1>5
<1>7. /\ \A k \in DOMAIN new : new[k][2] \notin z.urls /\ new[k][2] \in Places
      /\ \A k, l \in DOMAIN new : new[k][2] = new[l][2] => k = l
  BY <1>4, <1>5, <1>6
<1>8. more \subseteq Places
  BY <1>7
<1>9. z.fresh \o new \in Seq(Tenants \X Places)
  BY <1>2, <1>6, ConcatProperties DEF SyncRec
<1>10. CASE sync' = [sync EXCEPT ![s] = moved]
  <2>1. moved \in SyncRec /\ moved.pc = "walk" /\ moved.fresh = z.fresh /\ moved.urls = z.urls
    BY <1>1, <1>2 DEF SyncRec
  <2>2. <<>> \in Seq(Tenants \X Places) /\ z.fresh \o <<>> = z.fresh /\ z.urls \cup {<<>>[k][2] : k \in DOMAIN <<>>} = z.urls
    BY <1>2, ConcatEmptySeq DEF SyncRec
  <2> HIDE DEF moved, z
  <2>3. /\ sync' \in [Syncs -> SyncRec] /\ sync'[s] = moved
        /\ \A y \in Syncs \ {s} : sync'[y] = sync[y]
    BY <1>2, <1>10, <2>1
  <2>4. \A k \in DOMAIN <<>> : FALSE
    OBVIOUS
  <2> WITNESS <<>> \in Seq(Tenants \X Places)
  <2> QED BY <1>1, <2>1, <2>2, <2>3, <2>4 DEF z
<1>11. CASE sync' = [sync EXCEPT ![s] = added]
  <2> HIDE DEF more
  <2>1. added \in SyncRec /\ added.pc = "walk" /\ added.fresh = z.fresh \o new /\ added.urls = z.urls \cup more
    BY <1>1, <1>2, <1>8, <1>9 DEF SyncRec
  <2> HIDE DEF added
  <2>2. /\ sync' \in [Syncs -> SyncRec] /\ sync'[s] = added
        /\ \A y \in Syncs \ {s} : sync'[y] = sync[y]
    BY <1>2, <1>11, <2>1
  <2> QED BY <1>1, <1>6, <1>7, <2>1, <2>2 DEF more
<1> QED BY <1>1, <1>10, <1>11

\* A sync commits: its new targets are the last of the table.
LEMMA CommitType ==
  ASSUME LinkTypes, NEW s \in Syncs, CommitSync(s)
  PROVE  /\ repos' \in Seq(TargetRec) /\ sync' \in [Syncs -> SyncRec]
         /\ sync[s].pc = "walk" /\ sync'[s].pc # "walk"
         /\ \A z \in Syncs \ {s} : sync'[z] = sync[z]
         /\ DOMAIN repos' = 1..(Len(repos) + Len(sync[s].fresh))
         /\ \A t \in 1..Len(repos) : repos'[t] = repos[t]
         /\ \A k \in 1..Len(sync[s].fresh) :
              repos'[Len(repos) + k].repo = sync[s].fresh[k][2]
<1> DEFINE fresh == sync[s].fresh
           rows == [k \in DOMAIN fresh |-> NewTarget(fresh[k][1], fresh[k][2], "sync")]
           ids == {Len(repos) + k : k \in DOMAIN fresh}
           k1 == IF fresh = <<>> THEN IdleSync ELSE [IdleSync EXCEPT !.pc = "queue", !.queue = ids]
<1>1. sync[s].pc = "walk" /\ repos' = repos \o rows /\ sync' = [sync EXCEPT ![s] = k1]
  BY DEF CommitSync
<1>2. sync \in [Syncs -> SyncRec] /\ repos \in Seq(TargetRec) /\ fresh \in Seq(Tenants \X Places)
  BY DEF LinkTypes, SyncRec
<1> HIDE DEF fresh
<1>3. Len(repos) \in Nat /\ Len(fresh) \in Nat /\ DOMAIN fresh = 1..Len(fresh)
  BY <1>2
<1>4. ids \in SUBSET Nat
  BY <1>3
<1> HIDE DEF ids
<1>5. k1 \in SyncRec /\ k1.pc # "walk"
  BY <1>4, IdleSyncType DEF SyncRec
<1> HIDE DEF k1
<1>6. \A k \in DOMAIN fresh : /\ fresh[k][1] \in Tenants /\ fresh[k][2] \in Places
                              /\ NewTarget(fresh[k][1], fresh[k][2], "sync") \in TargetRec
                              /\ NewTarget(fresh[k][1], fresh[k][2], "sync").repo = fresh[k][2]
  BY <1>2 DEF NewTarget, TargetRec
<1>7. rows \in Seq(TargetRec) /\ Len(rows) = Len(fresh) /\ \A k \in 1..Len(fresh) : rows[k].repo = fresh[k][2]
  BY <1>3, <1>6
<1> HIDE DEF rows
<1>8. /\ repos' \in Seq(TargetRec) /\ Len(repos') = Len(repos) + Len(rows)
      /\ \A t \in 1..(Len(repos) + Len(rows)) :
           repos'[t] = IF t <= Len(repos) THEN repos[t] ELSE rows[t - Len(repos)]
  <2> DEFINE both == repos \o rows
  <2>1. repos' = both
    BY <1>1
  <2>2. repos \in Seq(TargetRec)
    BY <1>2
  <2>3. rows \in Seq(TargetRec)
    BY <1>7
  <2>4. /\ both \in Seq(TargetRec) /\ Len(both) = Len(repos) + Len(rows)
        /\ \A t \in 1..(Len(repos) + Len(rows)) :
             both[t] = IF t <= Len(repos) THEN repos[t] ELSE rows[t - Len(repos)]
    BY <2>2, <2>3, ConcatProperties, Zenon
  <2> HIDE DEF both
  <2> QED BY <2>1, <2>4
<1>9. \A t \in 1..Len(repos) : repos'[t] = repos[t]
  BY <1>3, <1>7, <1>8
<1>10. \A k \in 1..Len(fresh) : repos'[Len(repos) + k].repo = fresh[k][2]
  <2> SUFFICES ASSUME NEW k \in 1..Len(fresh) PROVE repos'[Len(repos) + k].repo = fresh[k][2]
    OBVIOUS
  <2>1. /\ Len(repos) + k \in 1..(Len(repos) + Len(rows)) /\ ~(Len(repos) + k <= Len(repos))
        /\ Len(repos) + k - Len(repos) = k
    BY <1>3, <1>7
  <2> QED BY <1>7, <1>8, <2>1
<1>11. DOMAIN repos' = 1..(Len(repos) + Len(fresh))
  BY <1>7, <1>8
<1> QED BY <1>1, <1>2, <1>5, <1>8, <1>9, <1>10, <1>11 DEF fresh

\* queue_full_scan and the worker's round write one column.
LEMMA QueuedType ==
  ASSUME LinkTypes, NEW ts
  PROVE  /\ Queued(ts) \in Seq(TargetRec) /\ DOMAIN Queued(ts) = DOMAIN repos
         /\ \A t \in DOMAIN repos : /\ Queued(ts)[t].repo = repos[t].repo /\ Queued(ts)[t].by = repos[t].by
                                    /\ Queued(ts)[t].life = repos[t].life
<1>1. repos \in Seq(TargetRec) /\ \A t \in DOMAIN repos : repos[t] \in TargetRec
  BY DEF LinkTypes
<1>2. DOMAIN repos = 1..Len(repos) /\ Len(repos) \in Nat
  BY <1>1
<1>3. ASSUME NEW t \in DOMAIN repos
      PROVE  /\ Queued(ts)[t] \in TargetRec /\ Queued(ts)[t].repo = repos[t].repo
             /\ Queued(ts)[t].by = repos[t].by /\ Queued(ts)[t].life = repos[t].life
  <2> DEFINE scans == repos[t].scans \/ (t \in ts /\ repos[t].life = "active")
  <2>1. Queued(ts)[t] = [repos[t] EXCEPT !.scans = scans]
    BY DEF Queued
  <2>2. scans \in BOOLEAN
    OBVIOUS
  <2> HIDE DEF scans
  <2> QED BY <1>1, <2>1, <2>2 DEF TargetRec
<1>4. DOMAIN Queued(ts) = 1..Len(repos)
  BY <1>2 DEF Queued
<1>5. Queued(ts) = [t \in 1..Len(repos) |-> Queued(ts)[t]]
  BY <1>2 DEF Queued
<1> QED BY <1>2, <1>3, <1>4, <1>5

\* What may happen to the table of targets besides a commit of a sync.
KeepsTargets ==
  /\ repos' \in Seq(TargetRec)
  /\ \A t \in DOMAIN repos' : repos'[t].by = "sync" =>
       /\ t \in DOMAIN repos /\ repos'[t].repo = repos[t].repo /\ repos[t].by = "sync"
       /\ repos[t].life = "deleted" => repos'[t].life = "deleted"

\* What may happen to the syncs besides a start and a walk.
KeepsSyncs ==
  /\ sync' \in [Syncs -> SyncRec]
  /\ \A s \in Syncs :
       /\ sync'[s].pc # "idle" => sync[s].pc # "idle"
       /\ sync'[s].pc = "walk" =>
            sync[s].pc = "walk" /\ sync'[s].urls = sync[s].urls /\ sync'[s].fresh = sync[s].fresh

\* Such a step keeps the invariant.
LEMMA KeepsThem ==
  ASSUME ImportInv, KeepsTargets, KeepsSyncs, together' = together
  PROVE  ImportInv'
<1> SUFFICES ASSUME ~together, OneSync, Once, \A s \in Syncs : Remembered(sync[s])
             PROVE  OneSync' /\ Once' /\ \A s \in Syncs : Remembered(sync[s])'
  BY DEF ImportInv
<1>1. OneSync'
  BY DEF OneSync, KeepsSyncs
<1>2. \A t \in Live' : repos'[t].by = "sync" => t \in Live /\ repos[t].by = "sync" /\ repos'[t].repo = repos[t].repo
  BY DEF KeepsTargets, Live
<1>3. Once'
  BY <1>2 DEF Once
<1>4. Imported' \subseteq Imported
  BY <1>2 DEF Imported
<1>5. ASSUME NEW s \in Syncs PROVE Remembered(sync[s])'
  <2> SUFFICES ASSUME sync'[s].pc = "walk"
               PROVE  /\ Imported' \subseteq sync'[s].urls
                      /\ \A k \in DOMAIN sync'[s].fresh :
                           sync'[s].fresh[k][2] \in sync'[s].urls /\ sync'[s].fresh[k][2] \notin Imported'
                      /\ \A k, l \in DOMAIN sync'[s].fresh :
                           sync'[s].fresh[k][2] = sync'[s].fresh[l][2] => k = l
    BY DEF Remembered
  <2>1. /\ sync[s].pc = "walk" /\ sync'[s].urls = sync[s].urls /\ sync'[s].fresh = sync[s].fresh
    BY DEF KeepsSyncs
  <2> QED BY <1>4, <2>1 DEF Remembered
<1> QED BY <1>1, <1>3, <1>5

-----------------------------------------------------------------------------
(* Steps.                                                                  *)

\* A sync begins.
LEMMA BeginStep ==
  ASSUME LinkTypes, ImportInv, NEW s \in Syncs, NEW rows \in SUBSET InstallRec, Begin(s, rows),
         sync[s].pc = "idle", repos' = repos
  PROVE  ImportInv'
<1>1. together' = (together \/ SyncingToo(s))
  BY DEF Begin
<1> SUFFICES ASSUME ~together, ~SyncingToo(s), OneSync, Once, \A z \in Syncs : Remembered(sync[z])
             PROVE  OneSync' /\ Once' /\ \A z \in Syncs : Remembered(sync[z])'
  BY <1>1 DEF ImportInv, LinkTypes
<1>2. /\ sync'[s].pc = "walk" /\ sync'[s].fresh = <<>> /\ sync'[s].urls = {repos[t].repo : t \in Live}
      /\ \A z \in Syncs \ {s} : sync'[z] = sync[z]
  BY BeginType
<1>3. \A z \in Syncs \ {s} : sync'[z].pc = "idle"
  BY <1>2 DEF SyncingToo
<1>4. OneSync'
  BY <1>3 DEF OneSync
<1>5. Live' = Live /\ Imported' = Imported /\ Once'
  BY DEF Live, Imported, Once
<1>6. Imported \subseteq sync'[s].urls
  BY <1>2 DEF Imported
<1>7. \A k \in DOMAIN sync'[s].fresh : FALSE
  BY <1>2
<1>8. Remembered(sync[s])'
  BY <1>5, <1>6, <1>7 DEF Remembered
<1>9. \A z \in Syncs \ {s} : Remembered(sync[z])'
  BY <1>3 DEF Remembered
<1> QED BY <1>4, <1>5, <1>8, <1>9

\* One installation is walked: what it adds is new to this sync, and so new.
LEMMA WalkStep ==
  ASSUME LinkTypes, ImportInv, NEW s \in Syncs, NEW i, WalkInstallation(s, i)
  PROVE  ImportInv'
<1>1. UNCHANGED <<repos, together>>
  BY DEF WalkInstallation
<1> SUFFICES ASSUME ~together, OneSync, Once, \A z \in Syncs : Remembered(sync[z])
             PROVE  OneSync' /\ Once' /\ \A z \in Syncs : Remembered(sync[z])'
  BY <1>1 DEF ImportInv
<1>2. PICK new \in Seq(Tenants \X Places) :
           /\ new = <<>> \/ \A k \in DOMAIN new : new[k][2] \notin sync[s].urls
           /\ \A k, l \in DOMAIN new : new[k][2] = new[l][2] => k = l
           /\ sync' \in [Syncs -> SyncRec]
           /\ sync[s].pc = "walk" /\ sync'[s].pc = "walk"
           /\ sync'[s].fresh = sync[s].fresh \o new
           /\ sync'[s].urls = sync[s].urls \cup {new[k][2] : k \in DOMAIN new}
           /\ \A z \in Syncs \ {s} : sync'[z] = sync[z]
  BY WalkType
<1>3. Live' = Live /\ Imported' = Imported /\ Once'
  BY <1>1 DEF Live, Imported, Once
<1>4. OneSync'
  BY <1>2 DEF OneSync
<1>5. \A z \in Syncs \ {s} : Remembered(sync[z])'
  BY <1>2, <1>3 DEF Remembered
<1>6. Remembered(sync[s])'
  <2> DEFINE old == sync[s].fresh
             all == old \o new
             seen == sync[s].urls
  <2>1. old \in Seq(Tenants \X Places)
    BY DEF LinkTypes, SyncRec
  <2>2. /\ Imported \subseteq seen
        /\ \A k \in DOMAIN old : old[k][2] \in seen /\ old[k][2] \notin Imported
        /\ \A k, l \in DOMAIN old : old[k][2] = old[l][2] => k = l
    BY <1>2 DEF Remembered
  <2>3. \A k \in DOMAIN new : new[k][2] \notin seen
    BY <1>2
  <2> HIDE DEF old, seen
  <2>4. /\ all \in Seq(Tenants \X Places) /\ Len(all) = Len(old) + Len(new)
        /\ \A k \in 1..(Len(old) + Len(new)) : all[k] = IF k <= Len(old) THEN old[k] ELSE new[k - Len(old)]
    BY <2>1, ConcatProperties, Zenon
  <2> HIDE DEF all
  <2>5. Len(old) \in Nat /\ Len(new) \in Nat /\ DOMAIN old = 1..Len(old) /\ DOMAIN new = 1..Len(new)
    BY <2>1
  <2>6. ASSUME NEW k \in DOMAIN all
        PROVE  \/ k \in DOMAIN old /\ all[k] = old[k]
               \/ k - Len(old) \in DOMAIN new /\ all[k] = new[k - Len(old)]
    BY <2>4, <2>5
  <2>7. \A k, l \in DOMAIN all : all[k][2] = all[l][2] => k = l
    <3> SUFFICES ASSUME NEW k \in DOMAIN all, NEW l \in DOMAIN all, all[k][2] = all[l][2] PROVE k = l
      OBVIOUS
    <3>1. CASE k \in DOMAIN old /\ all[k] = old[k] /\ l \in DOMAIN old /\ all[l] = old[l]
      BY <2>2, <3>1
    <3>2. CASE k - Len(old) \in DOMAIN new /\ all[k] = new[k - Len(old)]
               /\ l - Len(old) \in DOMAIN new /\ all[l] = new[l - Len(old)]
      <4>1. k - Len(old) = l - Len(old)
        BY <1>2, <3>2
      <4>2. k \in Nat /\ l \in Nat
        BY <2>4, <2>5
      <4> QED BY <2>5, <4>1, <4>2
    <3>3. CASE k \in DOMAIN old /\ all[k] = old[k] /\ l - Len(old) \in DOMAIN new /\ all[l] = new[l - Len(old)]
      BY <2>2, <2>3, <3>3
    <3>4. CASE l \in DOMAIN old /\ all[l] = old[l] /\ k - Len(old) \in DOMAIN new /\ all[k] = new[k - Len(old)]
      BY <2>2, <2>3, <3>4
    <3> QED BY <2>6, <3>1, <3>2, <3>3, <3>4
  <2>8. \A k \in DOMAIN all : all[k][2] \in seen \cup {new[l][2] : l \in DOMAIN new} /\ all[k][2] \notin Imported
    BY <2>2, <2>3, <2>6
  <2>9. sync'[s].fresh = all /\ sync'[s].urls = seen \cup {new[l][2] : l \in DOMAIN new}
    BY <1>2 DEF all, old, seen
  <2> QED BY <1>3, <2>2, <2>7, <2>8, <2>9 DEF Remembered
<1> QED BY <1>3, <1>4, <1>5, <1>6

\* The commit: this sync knew of everything imported, so each row is the first.
LEMMA CommitStep ==
  ASSUME LinkTypes, ImportInv, NEW s \in Syncs, CommitSync(s)
  PROVE  ImportInv'
<1>1. UNCHANGED together
  BY DEF CommitSync
<1> SUFFICES ASSUME ~together, OneSync, Once, \A z \in Syncs : Remembered(sync[z])
             PROVE  OneSync' /\ Once' /\ \A z \in Syncs : Remembered(sync[z])'
  BY <1>1 DEF ImportInv
<1> DEFINE fresh == sync[s].fresh
           n == Len(repos)
           m == Len(fresh)
<1>2. /\ sync[s].pc = "walk" /\ sync'[s].pc # "walk" /\ \A z \in Syncs \ {s} : sync'[z] = sync[z]
      /\ DOMAIN repos' = 1..(n + m) /\ \A t \in 1..n : repos'[t] = repos[t]
      /\ \A k \in 1..m : repos'[n + k].repo = fresh[k][2]
  BY CommitType
<1>3. /\ n \in Nat /\ m \in Nat /\ DOMAIN repos = 1..n /\ DOMAIN fresh = 1..m
  BY DEF LinkTypes, SyncRec
<1>4. /\ \A k \in 1..m : fresh[k][2] \notin Imported
      /\ \A k, l \in 1..m : fresh[k][2] = fresh[l][2] => k = l
  BY <1>2, <1>3 DEF Remembered
<1> HIDE DEF fresh, n, m
<1>5. \A z \in Syncs \ {s} : sync'[z].pc = "idle"
  BY <1>2 DEF OneSync
<1>6. OneSync'
  BY <1>5 DEF OneSync
<1>7. \A z \in Syncs : Remembered(sync[z])'
  BY <1>2, <1>5 DEF Remembered
<1>8. ASSUME NEW t \in Live', repos'[t].by = "sync"
      PROVE  \/ t \in Live /\ repos[t].by = "sync" /\ repos'[t].repo \in Imported /\ repos'[t].repo = repos[t].repo
             \/ t - n \in 1..m /\ repos'[t].repo = fresh[t - n][2]
  <2>1. t \in 1..(n + m) /\ repos'[t].life # "deleted"
    BY <1>2 DEF Live
  <2>2. CASE t \in 1..n
    BY <1>2, <1>3, <1>8, <2>1, <2>2 DEF Live, Imported
  <2>3. CASE t \notin 1..n
    <3>1. t - n \in 1..m /\ n + (t - n) = t
      BY <1>3, <2>1, <2>3
    <3> QED BY <1>2, <3>1
  <2> QED BY <2>2, <2>3
<1>9. Once'
  <2> SUFFICES ASSUME NEW t \in Live', NEW u \in Live', repos'[t].by = "sync", repos'[u].by = "sync",
                      repos'[t].repo = repos'[u].repo
               PROVE  t = u
    BY DEF Once
  <2>1. t \in 1..(n + m) /\ u \in 1..(n + m)
    BY <1>2 DEF Live
  <2>2. CASE t \in Live /\ repos[t].by = "sync" /\ repos'[t].repo \in Imported /\ repos'[t].repo = repos[t].repo
    BY <1>4, <1>8, <2>2 DEF Once
  <2>3. CASE t - n \in 1..m /\ repos'[t].repo = fresh[t - n][2]
    <3>1. u - n \in 1..m /\ repos'[u].repo = fresh[u - n][2]
      BY <1>4, <1>8, <2>3
    <3>2. t - n = u - n
      BY <1>4, <2>3, <3>1
    <3> QED BY <1>3, <2>1, <3>2
  <2> QED BY <1>8, <2>2, <2>3
<1> QED BY <1>6, <1>7, <1>9

\* An installation is on record once, with the workspace of its App, and is
\* linked to no other.
TieInv ==
  /\ \A i \in installs : /\ i.app \in DOMAIN apps /\ i.link \in {0, i.app}
                         /\ apps[i.app].scope \in {i.tenant, "platform"}
  /\ \A i, j \in installs : i.app = j.app /\ i.owner = j.owner => i = j

LinkInv == LinkTypes /\ ImportInv /\ TieInv

\* Apps keep what they were made for, and no installation is added.
LEMMA TieKept ==
  ASSUME TieInv, installs' \subseteq installs,
         \A a \in DOMAIN apps : a \in DOMAIN apps' /\ apps'[a].scope = apps[a].scope
  PROVE  TieInv'
BY DEF TieInv

\* Apps come and go, and what they may see: the targets and the syncs do not.
LEMMA AppsStep ==
  ASSUME LinkInv,
         \/ \E scope \in Scopes : ManifestData(scope)
         \/ \E k \in DOMAIN pending, converted \in BOOLEAN : AppCallback(k, converted)
         \/ ApiRestart
         \/ \E a \in DOMAIN apps :
              \/ \E r \in Places : Grant(a, r)
              \/ \E o \in Accounts : Uninstall(a, o)
              \/ \E secret \in {"unset", "wrong"} : UpdateWebhookSecret(a, secret)
              \/ DeleteAppConfig(a)
         \/ UNCHANGED linkVars
  PROVE  LinkInv'
<1>1. LinkTypes /\ ImportInv
  BY DEF LinkInv
<1>2. UNCHANGED <<repos, sync, together>>
  BY DEF ManifestData, AppCallback, ApiRestart, Grant, Uninstall, UpdateWebhookSecret, DeleteAppConfig, linkVars
<1>3. KeepsTargets /\ KeepsSyncs
  BY <1>1, <1>2 DEF KeepsTargets, KeepsSyncs, LinkTypes
<1>4. ImportInv'
  BY <1>1, <1>2, <1>3, KeepsThem
<1>5. pending' \in Seq(Scopes) /\ apps' \in Seq(AppRec) /\ installs' \in SUBSET InstallRec
  <2>1. pending \in Seq(Scopes) /\ apps \in Seq(AppRec) /\ installs \in SUBSET InstallRec
    BY <1>1 DEF LinkTypes
  <2>2. ASSUME NEW scope \in Scopes, ManifestData(scope)
        PROVE  pending' \in Seq(Scopes) /\ apps' \in Seq(AppRec) /\ installs' \in SUBSET InstallRec
    BY <2>1, <2>2 DEF ManifestData
  <2>3. ASSUME NEW k \in DOMAIN pending, NEW converted \in BOOLEAN, AppCallback(k, converted)
        PROVE  pending' \in Seq(Scopes) /\ apps' \in Seq(AppRec) /\ installs' \in SUBSET InstallRec
    <3> DEFINE alone == \A a \in Alive : apps[a].scope # pending[k]
               row == [scope |-> pending[k], secret |-> "right", alive |-> alone]
    <3>1. /\ pending' = RemoveAt(pending, k) /\ UNCHANGED installs
          /\ apps' = IF converted THEN Append(apps, row) ELSE apps
      BY <2>3 DEF AppCallback
    <3>2. alone \in BOOLEAN
      OBVIOUS
    <3> HIDE DEF alone
    <3>3. row \in AppRec
      BY <2>1, <2>3, <3>2 DEF AppRec
    <3> HIDE DEF row
    <3>4. apps' \in Seq(AppRec)
      BY <2>1, <3>1, <3>3
    <3>5. /\ k \in 1..Len(pending) /\ Len(pending) \in Nat /\ \A j \in 1..Len(pending) : pending[j] \in Scopes
      BY <2>1, <2>3
    <3> DEFINE front == SubSeq(pending, 1, k - 1)
               back == SubSeq(pending, k + 1, Len(pending))
    <3>6. front \in Seq(Scopes)
      BY <3>5, SubSeqProperties
    <3>7. back \in Seq(Scopes)
      BY <3>5, SubSeqProperties
    <3> HIDE DEF front, back
    <3>8. front \o back \in Seq(Scopes)
      BY <3>6, <3>7
    <3>9. pending' = front \o back
      BY <3>1 DEF RemoveAt, front, back
    <3> QED BY <2>1, <3>1, <3>4, <3>8, <3>9
  <2>4. ASSUME NEW a \in DOMAIN apps, NEW secret \in {"unset", "wrong"}, UpdateWebhookSecret(a, secret)
        PROVE  pending' \in Seq(Scopes) /\ apps' \in Seq(AppRec) /\ installs' \in SUBSET InstallRec
    <3>1. /\ apps' = [apps EXCEPT ![a].secret = secret] /\ UNCHANGED <<pending, installs>>
      BY <2>4 DEF UpdateWebhookSecret
    <3> DEFINE row == [apps[a] EXCEPT !.secret = secret]
    <3>2. apps[a] \in AppRec /\ apps' = [apps EXCEPT ![a] = row]
      BY <2>1, <3>1
    <3>3. row \in AppRec
      BY <3>2 DEF AppRec
    <3> HIDE DEF row
    <3>4. apps' \in Seq(AppRec)
      BY <2>1, <3>2, <3>3
    <3> QED BY <2>1, <3>1, <3>4
  <2>5. ASSUME NEW a \in DOMAIN apps, DeleteAppConfig(a)
        PROVE  pending' \in Seq(Scopes) /\ apps' \in Seq(AppRec) /\ installs' \in SUBSET InstallRec
    <3>1. /\ apps' = [apps EXCEPT ![a].alive = FALSE] /\ UNCHANGED pending
          /\ installs' = {i \in installs : i.link # a}
      BY <2>5 DEF DeleteAppConfig
    <3> DEFINE row == [apps[a] EXCEPT !.alive = FALSE]
    <3>2. apps[a] \in AppRec /\ apps' = [apps EXCEPT ![a] = row]
      BY <2>1, <3>1
    <3>3. row \in AppRec
      BY <3>2 DEF AppRec
    <3> HIDE DEF row
    <3>4. apps' \in Seq(AppRec)
      BY <2>1, <3>2, <3>3
    <3> QED BY <2>1, <3>1, <3>4
  <2>6. CASE ApiRestart
    BY <2>1, <2>6 DEF ApiRestart
  <2>7. CASE UNCHANGED <<pending, apps, installs>>
    BY <2>1, <2>7
  <2>8. (\/ \E a \in DOMAIN apps : (\E r \in Places : Grant(a, r)) \/ \E o \in Accounts : Uninstall(a, o)
         \/ UNCHANGED linkVars) => UNCHANGED <<pending, apps, installs>>
    BY DEF Grant, Uninstall, linkVars
  <2> QED BY <2>2, <2>3, <2>4, <2>5, <2>6, <2>7, <2>8
<1>6. installs' \subseteq installs
  BY DEF ManifestData, AppCallback, ApiRestart, Grant, Uninstall, UpdateWebhookSecret, DeleteAppConfig, linkVars
<1>7. \A a \in DOMAIN apps : a \in DOMAIN apps' /\ apps'[a].scope = apps[a].scope
  <2>1. apps \in Seq(AppRec) /\ \A a \in DOMAIN apps : apps[a] \in AppRec
    BY <1>1 DEF LinkTypes
  <2>2. ASSUME NEW k, NEW converted, AppCallback(k, converted)
        PROVE  \A a \in DOMAIN apps : a \in DOMAIN apps' /\ apps'[a] = apps[a]
    <3>1. PICK row : apps' = Append(apps, row) \/ apps' = apps
      BY <2>2 DEF AppCallback
    <3> QED BY <2>1, <3>1
  <2>3. ASSUME NEW a \in DOMAIN apps, NEW secret, UpdateWebhookSecret(a, secret)
        PROVE  DOMAIN apps' = DOMAIN apps /\ \A c \in DOMAIN apps : apps'[c].scope = apps[c].scope
    BY <2>1, <2>3 DEF UpdateWebhookSecret, AppRec
  <2>4. ASSUME NEW a \in DOMAIN apps, DeleteAppConfig(a)
        PROVE  DOMAIN apps' = DOMAIN apps /\ \A c \in DOMAIN apps : apps'[c].scope = apps[c].scope
    BY <2>1, <2>4 DEF DeleteAppConfig, AppRec
  <2>5. (\/ \E scope \in Scopes : ManifestData(scope)
         \/ ApiRestart
         \/ \E a \in DOMAIN apps : (\E r \in Places : Grant(a, r)) \/ \E o \in Accounts : Uninstall(a, o)
         \/ UNCHANGED linkVars) => UNCHANGED apps
    BY DEF ManifestData, ApiRestart, Grant, Uninstall, linkVars
  <2> QED BY <2>2, <2>3, <2>4, <2>5
<1>8. TieInv'
  BY <1>6, <1>7, TieKept DEF LinkInv
<1> QED BY <1>1, <1>2, <1>4, <1>5, <1>8 DEF LinkInv, LinkTypes

\* One row of the table of targets is replaced by one of the same repository.
LEMMA TargetChanges ==
  ASSUME LinkTypes, NEW t \in DOMAIN repos, NEW row \in TargetRec, repos' = [repos EXCEPT ![t] = row],
         row.repo = repos[t].repo, row.by = repos[t].by, repos[t].life = "deleted" => row.life = "deleted"
  PROVE  KeepsTargets
<1>1. repos \in Seq(TargetRec)
  BY DEF LinkTypes
<1>2. repos' \in Seq(TargetRec) /\ DOMAIN repos' = DOMAIN repos
  BY <1>1
<1>3. repos'[t] = row /\ \A u \in DOMAIN repos \ {t} : repos'[u] = repos[u]
  BY <1>1
<1> QED BY <1>2, <1>3 DEF KeepsTargets

\* Scans are queued, targets made by hand, switched, deleted.
LEMMA TargetsStep ==
  ASSUME LinkInv,
         \/ WorkerReady
         \/ \E a, b, o, r : DeliverPush(a, b, o, r)
         \/ \E w \in Tenants, r \in Places : CreateTarget(w, r)
         \/ \E t \in DOMAIN repos :
              \/ \E life \in {"active", "deactivated", "deleted"} : SwitchTarget(t, life)
              \/ SetMode(t, "disabled")
  PROVE  LinkInv'
<1>1. LinkTypes /\ ImportInv
  BY DEF LinkInv
<1>2. UNCHANGED <<apps, pending, installs, sync, together>>
  BY DEF WorkerReady, DeliverPush, CreateTarget, SwitchTarget, SetMode
<1>3. repos \in Seq(TargetRec) /\ \A t \in DOMAIN repos : repos[t] \in TargetRec
  BY <1>1 DEF LinkTypes
<1>4. KeepsTargets
  <2>1. ASSUME NEW ts, repos' = Queued(ts) PROVE KeepsTargets
    BY <1>1, <2>1, QueuedType DEF KeepsTargets
  <2>2. WorkerReady => \E ts : repos' = Queued(ts)
    BY DEF WorkerReady
  <2>3. ASSUME NEW a, NEW b, NEW o, NEW r, DeliverPush(a, b, o, r) PROVE \E ts : repos' = Queued(ts)
    BY <2>3 DEF DeliverPush
  <2>4. ASSUME NEW w \in Tenants, NEW r \in Places, CreateTarget(w, r) PROVE KeepsTargets
    <3> DEFINE row == NewTarget(w, r, "hand")
    <3>1. row \in TargetRec /\ row.by = "hand"
      BY DEF NewTarget, TargetRec
    <3>2. repos' = Append(repos, row)
      BY <2>4 DEF CreateTarget
    <3> HIDE DEF row
    <3>3. repos' \in Seq(TargetRec) /\ DOMAIN repos' = 1..(Len(repos) + 1) /\ repos'[Len(repos) + 1] = row
          /\ DOMAIN repos = 1..Len(repos) /\ Len(repos) \in Nat
      BY <1>3, <3>1, <3>2
    <3>4. \A t \in DOMAIN repos : repos'[t] = repos[t]
      BY <1>3, <3>1, <3>2
    <3>5. \A t \in DOMAIN repos' : t \in DOMAIN repos \/ t = Len(repos) + 1
      BY <3>3
    <3>6. \A t \in DOMAIN repos' : repos'[t].by = "sync" => t \in DOMAIN repos
      BY <3>1, <3>3, <3>5
    <3> QED BY <3>3, <3>4, <3>6 DEF KeepsTargets
  <2>5. ASSUME NEW t \in DOMAIN repos, NEW life \in {"active", "deactivated", "deleted"}, SwitchTarget(t, life)
        PROVE  KeepsTargets
    <3> DEFINE row == [repos[t] EXCEPT !.life = life]
    <3>1. repos' = [repos EXCEPT ![t] = row] /\ repos[t].life # "deleted"
      BY <1>3, <2>5 DEF SwitchTarget
    <3>2. row \in TargetRec /\ row.repo = repos[t].repo /\ row.by = repos[t].by
      BY <1>3 DEF TargetRec
    <3> HIDE DEF row
    <3> QED BY <1>1, <3>1, <3>2, TargetChanges
  <2>6. ASSUME NEW t \in DOMAIN repos, SetMode(t, "disabled") PROVE KeepsTargets
    <3> DEFINE row == [repos[t] EXCEPT !.mode = "disabled"]
    <3>1. repos' = [repos EXCEPT ![t] = row]
      BY <1>3, <2>6 DEF SetMode
    <3>2. row \in TargetRec /\ row.repo = repos[t].repo /\ row.by = repos[t].by /\ row.life = repos[t].life
      BY <1>3 DEF TargetRec
    <3> HIDE DEF row
    <3> QED BY <1>1, <3>1, <3>2, TargetChanges
  <2> QED BY <2>1, <2>2, <2>3, <2>4, <2>5, <2>6
<1>5. KeepsSyncs
  BY <1>1, <1>2 DEF KeepsSyncs, LinkTypes
<1>6. ImportInv'
  BY <1>1, <1>2, <1>4, <1>5, KeepsThem
<1>7. TieInv'
  BY <1>2, TieKept DEF LinkInv
<1> QED BY <1>1, <1>2, <1>4, <1>6, <1>7 DEF LinkInv, LinkTypes, KeepsTargets

\* A sync queues a scan, is refused a token or dies.
LEMMA SyncsStep ==
  ASSUME LinkInv, NEW s \in Syncs, \/ \E i \in sync[s].todo : TokenRefused(s, i)
                                   \/ QueueScans(s) \/ SyncDies(s)
  PROVE  LinkInv'
<1>1. LinkTypes /\ ImportInv /\ sync[s] \in SyncRec /\ sync \in [Syncs -> SyncRec]
  BY DEF LinkInv, LinkTypes
<1>2. UNCHANGED <<apps, pending, installs, together>>
  BY DEF TokenRefused, QueueScans, SyncDies
<1>3. KeepsTargets
  <2>1. CASE repos' = repos
    BY <1>1, <2>1 DEF KeepsTargets, LinkTypes
  <2>2. ASSUME NEW ts, repos' = Queued(ts) PROVE KeepsTargets
    BY <1>1, <2>2, QueuedType DEF KeepsTargets
  <2>3. QueueScans(s) => \E ts : repos' = Queued(ts)
    BY DEF QueueScans
  <2>4. (SyncDies(s) \/ \E i \in sync[s].todo : TokenRefused(s, i)) => repos' = repos
    BY DEF SyncDies, TokenRefused
  <2> QED BY <2>1, <2>2, <2>3, <2>4
<1>4. PICK k \in SyncRec : /\ k.pc \in {"idle", "queue"} /\ sync' = [sync EXCEPT ![s] = k]
                           /\ sync[s].pc # "idle"
  <2>1. CASE sync' = [sync EXCEPT ![s] = IdleSync] /\ sync[s].pc # "idle"
    BY <2>1, IdleSyncType
  <2>2. CASE QueueScans(s)
    <3>1. PICK t : /\ sync[s].pc = "queue"
                   /\ sync' = [sync EXCEPT ![s] = IF sync[s].queue = {t} THEN IdleSync
                                         ELSE [sync[s] EXCEPT !.queue = sync[s].queue \ {t}]]
      BY <2>2 DEF QueueScans
    <3> DEFINE j == [sync[s] EXCEPT !.queue = sync[s].queue \ {t}]
    <3>2. j \in SyncRec /\ j.pc = "queue"
      BY <1>1, <3>1 DEF SyncRec
    <3>3. sync' = [sync EXCEPT ![s] = IdleSync] \/ sync' = [sync EXCEPT ![s] = j]
      BY <3>1
    <3> HIDE DEF j
    <3> QED BY <2>1, <3>1, <3>2, <3>3
  <2>3. (SyncDies(s) \/ \E i \in sync[s].todo : TokenRefused(s, i)) =>
          sync' = [sync EXCEPT ![s] = IdleSync] /\ sync[s].pc # "idle"
    BY DEF SyncDies, TokenRefused
  <2> QED BY <2>1, <2>2, <2>3
<1>5. KeepsSyncs
  BY <1>1, <1>4 DEF KeepsSyncs
<1>6. ImportInv'
  BY <1>1, <1>2, <1>3, <1>5, KeepsThem
<1>7. TieInv'
  BY <1>2, TieKept DEF LinkInv
<1> QED BY <1>1, <1>2, <1>3, <1>5, <1>6, <1>7 DEF LinkInv, LinkTypes, KeepsTargets, KeepsSyncs

\* setup_callback, sync_now, the tasks and a delivery begin a sync.
LEMMA SyncStartsStep ==
  ASSUME LinkInv, NEW s \in Syncs,
         \/ StartSync(s, installs)
         \/ \E a \in DOMAIN apps, o \in Accounts : SetupCallback(s, a, o)
         \/ \E a, b, o : DeliverAdded(s, a, b, o)
  PROVE  LinkInv'
<1>1. LinkTypes /\ ImportInv /\ installs \in SUBSET InstallRec
  BY DEF LinkInv, LinkTypes
<1>2. /\ UNCHANGED <<apps, pending, repos>> /\ sync[s].pc = "idle"
  BY DEF StartSync, SetupCallback, DeliverAdded
<1>3. ASSUME NEW rows \in SUBSET InstallRec, Begin(s, rows), installs' \in SUBSET InstallRec, TieInv'
      PROVE  LinkInv'
  <2>1. ImportInv'
    BY <1>1, <1>2, <1>3, BeginStep
  <2>2. sync' \in [Syncs -> SyncRec] /\ together' \in BOOLEAN
    BY <1>1, <1>3, BeginType
  <2> QED BY <1>1, <1>2, <1>3, <2>1, <2>2 DEF LinkInv, LinkTypes
<1>7. installs' = installs => TieInv'
  BY <1>2, TieKept DEF LinkInv
<1>4. CASE StartSync(s, installs)
  BY <1>1, <1>3, <1>4, <1>7 DEF StartSync
<1>5. ASSUME NEW a, NEW b, NEW o, DeliverAdded(s, a, b, o) PROVE LinkInv'
  <2>1. Resynced(b, o) \in SUBSET InstallRec
    BY <1>1 DEF Resynced, RowsOf
  <2>2. Begin(s, Resynced(b, o)) /\ installs' = installs
    BY <1>5 DEF DeliverAdded, StartSync
  <2> QED BY <1>1, <1>3, <1>7, <2>1, <2>2
<1>6. ASSUME NEW a \in DOMAIN apps, NEW o \in Accounts, SetupCallback(s, a, o) PROVE LinkInv'
  <2> DEFINE row == [app |-> a, owner |-> o, link |-> a,
                     tenant |-> IF apps[a].scope = "platform" THEN FirstTenant ELSE apps[a].scope]
             linked == {IF i \in RowsOf(a, o) /\ i.link = 0 THEN [i EXCEPT !.link = a] ELSE i : i \in installs}
             rows == IF RowsOf(a, o) = {} THEN installs \cup {row} ELSE linked
  <2>1. installs' = rows /\ Begin(s, rows)
    BY <1>6 DEF SetupCallback
  <2>2. a \in Nat /\ apps[a] \in AppRec
    BY <1>1 DEF LinkTypes
  <2>3. row \in InstallRec
    BY <2>2, LinkAssumption DEF InstallRec, AppRec, Scopes, Owners
  <2>4. linked \in SUBSET InstallRec
    BY <1>1, <2>2 DEF InstallRec
  <2>5. rows \in SUBSET InstallRec
    BY <1>1, <2>3, <2>4
  <2>6. TieInv'
    <3>1. TieInv /\ UNCHANGED apps
      BY <1>2 DEF LinkInv
    <3>2. CASE RowsOf(a, o) = {}
      <4>1. installs' = installs \cup {row}
        BY <2>1, <3>2
      <4>2. /\ row.app = a /\ row.owner = o /\ row.link = a
            /\ apps[a].scope \in {row.tenant, "platform"}
        OBVIOUS
      <4>3. \A i \in installs : ~(i.app = a /\ i.owner = o)
        BY <3>2 DEF RowsOf
      <4> HIDE DEF row
      <4> QED BY <1>6, <3>1, <4>1, <4>2, <4>3 DEF TieInv
    <3>3. CASE RowsOf(a, o) # {}
      <4> DEFINE to(i) == IF i \in RowsOf(a, o) /\ i.link = 0 THEN [i EXCEPT !.link = a] ELSE i
      <4>1. installs' = {to(i) : i \in installs}
        BY <2>1, <3>3
      <4>2. ASSUME NEW i \in installs
            PROVE  /\ to(i).app = i.app /\ to(i).owner = i.owner /\ to(i).tenant = i.tenant
                   /\ to(i).link \in {i.link, i.app}
        <5>1. i \in InstallRec
          BY <1>1
        <5> QED BY <5>1 DEF InstallRec, RowsOf
      <4> HIDE DEF to
      <4> QED BY <3>1, <4>1, <4>2 DEF TieInv
    <3> QED BY <3>2, <3>3
  <2> HIDE DEF rows
  <2> QED BY <1>3, <2>1, <2>5, <2>6
<1> QED BY <1>4, <1>5, <1>6

\* The invariant of the syncs.
LEMMA LinkInvariant == LinkSpec => []LinkInv
<1>1. ASSUME LinkInit PROVE LinkInv
  <2> DEFINE o == CHOOSE x \in Accounts : TRUE
             row == [app |-> 1, owner |-> o, link |-> 0, tenant |-> FirstTenant]
             app == [scope |-> "platform", secret |-> "right", alive |-> TRUE]
  <2>1. /\ apps = <<>> \/ apps = <<app>>
        /\ installs = {} \/ installs = {row}
        /\ pending = <<>> /\ repos = <<>> /\ sync = [s \in Syncs |-> IdleSync] /\ together = FALSE
    BY <1>1 DEF LinkInit
  <2>2. row \in InstallRec
    BY LinkAssumption DEF InstallRec, Owners, Accounts
  <2>3. app \in AppRec
    BY DEF AppRec, Scopes
  <2>9. row.app = 1 /\ row.link = 0 /\ app.scope = "platform"
    OBVIOUS
  <2> HIDE DEF row, app
  <2>10. TieInv
    <3>1. installs = {row} => apps = <<app>>
      BY <1>1 DEF LinkInit, row, app
    <3>2. DOMAIN <<app>> = {1} /\ <<app>>[1] = app
      OBVIOUS
    <3> QED BY <2>1, <2>9, <3>1, <3>2 DEF TieInv
  <2>4. LinkTypes
    <3>1. <<>> \in Seq(AppRec) /\ <<app>> \in Seq(AppRec) /\ <<>> \in Seq(Scopes) /\ <<>> \in Seq(TargetRec)
      BY <2>3
    <3>2. installs \in SUBSET InstallRec
      BY <2>1, <2>2
    <3>3. sync \in [Syncs -> SyncRec] /\ together \in BOOLEAN
      BY <2>1, IdleSyncType
    <3>4. apps \in Seq(AppRec) /\ pending \in Seq(Scopes) /\ repos \in Seq(TargetRec)
      BY <2>1, <3>1
    <3> QED BY <3>2, <3>3, <3>4 DEF LinkTypes
  <2>5. \A s \in Syncs : sync[s].pc = "idle"
    BY <2>1, IdleSyncType
  <2>6. DOMAIN repos = {}
    BY <2>1
  <2>7. Live = {}
    BY <2>6 DEF Live
  <2>8. OneSync /\ Once /\ \A s \in Syncs : Remembered(sync[s])
    BY <2>5, <2>7 DEF OneSync, Once, Remembered
  <2> QED BY <2>4, <2>8, <2>10 DEF LinkInv, ImportInv
<1>2. ASSUME LinkInv, [LinkNext]_linkVars PROVE LinkInv'
  <2>1. ASSUME NEW s \in Syncs, NEW i, WalkInstallation(s, i) PROVE LinkInv'
    <3>1. LinkTypes /\ ImportInv /\ UNCHANGED <<apps, pending, installs, repos, together>>
      BY <1>2, <2>1 DEF LinkInv, WalkInstallation
    <3>2. ImportInv' /\ sync' \in [Syncs -> SyncRec]
      BY <2>1, <3>1, WalkStep, WalkType
    <3>3. TieInv'
      BY <1>2, <3>1, TieKept DEF LinkInv
    <3> QED BY <3>1, <3>2, <3>3 DEF LinkInv, LinkTypes
  <2>2. ASSUME NEW s \in Syncs, CommitSync(s) PROVE LinkInv'
    <3>1. LinkTypes /\ ImportInv /\ UNCHANGED <<apps, pending, installs, together>>
      BY <1>2, <2>2 DEF LinkInv, CommitSync
    <3>2. ImportInv' /\ sync' \in [Syncs -> SyncRec] /\ repos' \in Seq(TargetRec)
      BY <2>2, <3>1, CommitStep, CommitType
    <3>3. TieInv'
      BY <1>2, <3>1, TieKept DEF LinkInv
    <3> QED BY <3>1, <3>2, <3>3 DEF LinkInv, LinkTypes
  <2>3. ASSUME NEW s \in Syncs, SyncStep(s) \/ SyncDies(s) PROVE LinkInv'
    BY <1>2, <2>1, <2>2, <2>3, SyncStartsStep, SyncsStep DEF SyncStep
  <2>4. ASSUME NEW a \in DOMAIN apps, NEW o \in Accounts, NEW s \in Syncs,
               SetupCallback(s, a, o)
        PROVE  LinkInv'
    BY <1>2, <2>4, SyncStartsStep
  <2>9. ASSUME NEW a, NEW b, NEW o, NEW s \in Syncs, DeliverAdded(s, a, b, o) PROVE LinkInv'
    BY <1>2, <2>9, SyncStartsStep
  <2>5. ASSUME NEW a \in DOMAIN apps, \/ \E r \in Places : Grant(a, r)
                                      \/ \E o \in Accounts : Uninstall(a, o)
                                      \/ \E secret \in {"unset", "wrong"} : UpdateWebhookSecret(a, secret)
                                      \/ DeleteAppConfig(a)
        PROVE  LinkInv'
    BY <1>2, <2>5, AppsStep
  <2>6. CASE \/ \E scope \in Scopes : ManifestData(scope)
             \/ \E k \in DOMAIN pending, converted \in BOOLEAN : AppCallback(k, converted)
             \/ ApiRestart
             \/ UNCHANGED linkVars
    BY <1>2, <2>6, AppsStep
  <2>7. ASSUME NEW a, NEW b, NEW o, NEW r \in Places, DeliverPush(a, b, o, r) PROVE LinkInv'
    BY <1>2, <2>7, TargetsStep
  <2>8. CASE \/ WorkerReady
             \/ \E w \in Tenants, r \in Places : CreateTarget(w, r)
             \/ \E t \in DOMAIN repos :
                  \/ \E life \in {"active", "deactivated", "deleted"} : SwitchTarget(t, life)
                  \/ SetMode(t, "disabled")
    BY <1>2, <2>8, TargetsStep
  <2> QED BY <1>2, <2>3, <2>4, <2>5, <2>6, <2>7, <2>8, <2>9 DEF LinkNext, Scopes
<1> QED BY <1>1, <1>2, PTL DEF LinkSpec

-----------------------------------------------------------------------------
(* Theorems.                                                               *)

\* _sync_repos, for any number of Apps, installations, repositories and syncs:
\* as long as no two syncs were under way at once, no two targets that a sync
\* made and nobody deleted are of one repository (api/github_app.py).
THEOREM ImportedOnceHolds == LinkSpec => []ImportedOnce
<1>1. LinkInv => ImportedOnce
  BY DEF LinkInv, ImportInv, Once, ImportedOnce
<1> QED BY <1>1, LinkInvariant, PTL

\* target_has_pr_guardrail_coverage and _handle_pull_request agree, whatever
\* Apps, installations and targets there are: a target that counts as covered
\* by an installation on its repository's account, of the App it resolves to,
\* with a secret that is not a wrong one and no duplicate that is switched off,
\* has its pull requests scanned, whichever row the lookup returns.
THEOREM CoverageScansHolds == LinkSpec => []CoverageScans
<1>1. ASSUME LinkInv PROVE CoverageScans
  <2> SUFFICES ASSUME NEW t \in Live, NEW i \in installs, repos[t].life = "active", HasCoverage(t, i),
                      i.owner = AccountOf[repos[t].repo], ResolveConfig(i) = i.app,
                      apps[i.app].secret # "wrong", \A u \in Duplicates(t) : Scans(u)
               PROVE  /\ Verified(i.app, i.app, i.owner)
                      /\ TargetForRepo(i.app, i.owner, repos[t].repo) # {}
                      /\ \A u \in TargetForRepo(i.app, i.owner, repos[t].repo) :
                           Scans(u) /\ repos[u].tenant = repos[t].tenant
    BY DEF CoverageScans
  <2> DEFINE a == i.app
             r == repos[t].repo
  <2>1. i \in RowsOf(a, i.owner) /\ ResolveConfig(i) # 0 /\ i.tenant = repos[t].tenant
    BY DEF RowsOf, HasCoverage, ResolveInstallation
  <2>2. Narrowed(a, i.owner)
    BY <2>1 DEF Narrowed
  <2>3. a \in Alive
    <3>1. ResolveConfig(i) \in Alive \cup {0}
      BY FS_Singleton DEF ResolveConfig, TheOnly
    <3> QED BY <2>1, <3>1
  <2>4. apps[a].secret = "right"
    <3>1. apps[a] \in AppRec
      BY <1>1, <2>3 DEF Alive, LinkInv, LinkTypes
    <3>2. apps[a].secret # "unset"
      BY DEF HasCoverage
    <3> QED BY <3>1, <3>2 DEF AppRec
  <2>5. Verified(a, a, i.owner)
    BY <2>1, <2>2, <2>4 DEF Verified
  <2>6. t \in TargetForRepo(a, i.owner, r)
    BY <2>1, <2>2 DEF TargetForRepo, InstallationWorkspace
  <2>7. ASSUME NEW u \in TargetForRepo(a, i.owner, r)
        PROVE  Scans(u) /\ repos[u].tenant = repos[t].tenant
    <3>1. u \in Live /\ repos[u].repo = r /\ \E j \in RowsOf(a, i.owner) : j.tenant = repos[u].tenant
      BY <2>2 DEF TargetForRepo, InstallationWorkspace
    <3>2. repos[u].tenant = i.tenant
      BY <1>1, <2>1, <3>1 DEF LinkInv, TieInv, RowsOf
    <3>3. CASE u = t
      BY <2>1, <3>3 DEF Scans, HasCoverage
    <3>4. CASE u # t
      BY <2>1, <3>1, <3>2, <3>4 DEF Duplicates
    <3> QED BY <3>3, <3>4
  <2> QED BY <2>5, <2>6, <2>7
<1> QED BY <1>1, LinkInvariant, PTL

\* The App an unlinked row is matched to.
LEMMA GuessedApp ==
  ASSUME LinkInv, NEW i \in installs, i.link = 0, ResolveConfig(i) # 0
  PROVE  /\ ResolveConfig(i) \in Alive
         /\ \/ apps[ResolveConfig(i)].scope \in {i.tenant, "platform"}
            \/ Alive = {ResolveConfig(i)}
<1> DEFINE ofTenant   == {a \in Alive : apps[a].scope = i.tenant}
           ofPlatform == {a \in Alive : apps[a].scope = "platform"}
<1>1. IsFiniteSet(Alive)
  <2>1. DOMAIN apps = 1..Len(apps) /\ Len(apps) \in Nat
    BY DEF LinkInv, LinkTypes
  <2>2. IsFiniteSet(1..Len(apps))
    BY <2>1, FS_Interval
  <2> QED BY <2>1, <2>2, FS_Subset DEF Alive
<1>2. ResolveConfig(i) = IF ofTenant # {} THEN IF Cardinality(ofTenant) = 1 THEN TheOnly(ofTenant) ELSE 0
                         ELSE IF Cardinality(ofPlatform) = 1 THEN TheOnly(ofPlatform)
                         ELSE IF Cardinality(Alive) = 1 THEN TheOnly(Alive) ELSE 0
  BY DEF ResolveConfig
<1>3. ofTenant \subseteq Alive /\ ofPlatform \subseteq Alive
  OBVIOUS
<1>4. \A c : c \in ofTenant => apps[c].scope = i.tenant
  OBVIOUS
<1>5. \A c : c \in ofPlatform => apps[c].scope = "platform"
  OBVIOUS
<1> HIDE DEF ofTenant, ofPlatform
<1>6. ASSUME NEW S, S \subseteq Alive, Cardinality(S) = 1 PROVE S = {TheOnly(S)}
  <2>1. IsFiniteSet(S)
    BY <1>1, <1>6, FS_Subset
  <2>2. PICK x : S = {x}
    BY <1>6, <2>1, FS_Singleton
  <2> QED BY <2>2 DEF TheOnly
<1> QED BY <1>2, <1>3, <1>4, <1>5, <1>6

\* _candidate_configs, _installation_workspace_id and _target_for_repo: whatever
\* installation and repository a body names, and whatever Apps, installations
\* and targets were made and deleted before, the App whose secret signed it
\* starts work only in a workspace it was set up for, by an installation of its
\* own, or by a row without a link that is matched to it (issue 530).
THEOREM ActsForItsTenantHolds == LinkSpec => []ActsForItsTenant
<1>1. ASSUME LinkInv PROVE ActsForItsTenant
  <2>1. ASSUME NEW a \in DOMAIN apps, NEW b, NEW o, Verified(a, b, o), Narrowed(b, o),
               NEW i \in RowsOf(b, o)
        PROVE  Entitled(a, i)
    <3>1. PICK j \in RowsOf(b, o) : a = ResolveConfig(j)
      BY <2>1 DEF Verified
    <3>2. i = j
      BY <1>1, <3>1 DEF LinkInv, TieInv, RowsOf
    <3>3. i \in installs /\ i.app \in DOMAIN apps /\ i.link \in {0, i.app}
          /\ apps[i.app].scope \in {i.tenant, "platform"}
      BY <1>1 DEF LinkInv, TieInv, RowsOf
    <3>4. a # 0
      BY <1>1 DEF LinkInv, LinkTypes
    <3>5. CASE i.link # 0
      <4>1. a = i.app
        BY <3>1, <3>2, <3>3, <3>4, <3>5 DEF ResolveConfig
      <4> QED BY <3>3, <4>1 DEF Entitled
    <3>6. CASE i.link = 0
      BY <1>1, <3>1, <3>2, <3>3, <3>4, <3>6, GuessedApp DEF Entitled
    <3> QED BY <3>5, <3>6
  <2>2. ASSUME NEW a \in DOMAIN apps, NEW b, NEW o, Verified(a, b, o),
               NEW r \in Places, NEW t \in TargetForRepo(b, o, r)
        PROVE  \E i \in installs : Entitled(a, i) /\ i.tenant = repos[t].tenant
    <3>1. Narrowed(b, o) /\ \E i \in RowsOf(b, o) : i.tenant = repos[t].tenant
      BY DEF TargetForRepo, InstallationWorkspace
    <3>2. RowsOf(b, o) \subseteq installs
      BY DEF RowsOf
    <3> QED BY <2>1, <2>2, <3>1, <3>2
  <2>3. ASSUME NEW a \in DOMAIN apps, NEW b, NEW o, Verified(a, b, o), NEW i \in Resynced(b, o)
        PROVE  Entitled(a, i)
    BY <2>1, <2>3 DEF Resynced
  <2> QED BY <2>2, <2>3 DEF ActsForItsTenant
<1> QED BY <1>1, LinkInvariant, PTL
=============================================================================
