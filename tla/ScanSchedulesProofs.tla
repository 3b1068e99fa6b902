------------------------- MODULE ScanSchedulesProofs -------------------------
(***************************************************************************)
(* The claim of a schedule row is a lock: for any number of overlapping,   *)
(* crashing and redelivered dispatcher passes, of targets, rows, intervals *)
(* and any jitter, no run of a schedule reaches one target twice, the      *)
(* table keeps one row per scope, and the dispatcher implements the ledger *)
(* of runs.                                                                *)
(***************************************************************************)
EXTENDS ScanSchedules, TLAPS

Busy(p) == pass[p].pc \in {"cover", "fanout"}

\* No timestamp is ahead of the clock, and a request sees one tick.
PastOnly ==
  /\ \A r \in RowId : rows[r].last # NULL => rows[r].last <= clock
  /\ \A p \in Passes : pass[p].now <= clock
  /\ put.pc # "idle" => put.now = clock

\* Keys are never reused, and a request in its second half has its row.
FreshKeys ==
  /\ \A r \in RowId : r >= nextId => rows[r] = NoRow
  /\ \A r \in RowId : rows[r].scope = NULL => rows[r] = NoRow
  /\ \A p \in Passes : Busy(p) => pass[p].row < nextId
  /\ \A x \in sent : x[1] < nextId
  /\ put.pc \in {"decide", "reset"} \/ (put.pc = "write" /\ ~put.new)
       => Exists(put.row)

\* A clock that was set stays set, and is ahead of the last run.
ClockSet ==
  /\ \A r \in RowId : rows[r].next = NULL => rows[r].last = NULL
  /\ DueAfterLastRun
  /\ \A p \in Passes : pass[p].pc = "claim" => pass[p].next > pass[p].now

\* Whoever fans a row out, or did, is at or behind the row's last run.
BehindLastRun ==
  /\ \A p \in Passes : Busy(p) /\ Exists(pass[p].row) =>
       rows[pass[p].row].last # NULL /\ pass[p].now <= rows[pass[p].row].last
  /\ \A x \in sent : Exists(x[1]) =>
       rows[x[1]].last # NULL /\ x[2] <= rows[x[1]].last

\* Two passes fanning out one row are two runs of it.
OneOwner ==
  \A p, q \in Passes :
    Busy(p) /\ Busy(q) /\ pass[p].row = pass[q].row /\ pass[p].now = pass[q].now
      => p = q

IndInv ==
  TypeOK /\ PastOnly /\ FreshKeys /\ ClockSet /\ BehindLastRun /\ OneOwner /\ OncePerRun

-----------------------------------------------------------------------------
(* Facts about the operators.                                              *)

\* The effective interval is a positive number whatever is inherited.
LEMMA EffectiveTypes ==
  ASSUME TypeOK, NEW r \in RowId
  PROVE  EffInterval(r) \in Nat \ {0} /\ EffEnabled(r) \in BOOLEAN
<1>1. HasRow(WS) => RowOf(WS) \in RowId
  BY DEF HasRow, RowOf
<1>2. WsInterval \in Nat \ {0}
  BY <1>1, ScheduleAssumption DEF WsInterval, Overlay, TypeOK, Row
<1>3. WsEnabled \in BOOLEAN
  BY <1>1, ScheduleAssumption DEF WsEnabled, Overlay, TypeOK, Row
<1>4. EffInterval(r) \in Nat \ {0}
  BY <1>2, ScheduleAssumption DEF EffInterval, Overlay, TypeOK, Row
<1>5. EffEnabled(r) \in BOOLEAN
  BY <1>3, ScheduleAssumption DEF EffEnabled, Overlay, TypeOK, Row
<1> QED BY <1>4, <1>5

\* next_run_after is strictly after now, because the interval is positive and
\* the jitter is forward-only.
LEMMA NextRunAfterAhead ==
  ASSUME NEW every \in Nat \ {0}, NEW now \in Nat, NEW due \in NextRunAfter(every, now)
  PROVE  due \in Nat /\ due > now
BY ScheduleAssumption DEF NextRunAfter

\* compute_next_run_at is strictly after now on all its branches.
LEMMA NextRunAtAhead ==
  ASSUME TypeOK, NEW r \in RowId, NEW now \in Nat, NEW due \in NextRunAt(r, now)
  PROVE  due \in Nat /\ due > now
<1>1. EffInterval(r) \in Nat \ {0}
  BY EffectiveTypes
<1>2. rows[r].next \in Nat \cup {NULL}
  BY DEF TypeOK, Row
<1>3. CASE rows[r].next # NULL /\ rows[r].next + EffInterval(r) > now
  BY <1>1, <1>2, <1>3 DEF NextRunAt
<1>4. CASE ~(rows[r].next # NULL /\ rows[r].next + EffInterval(r) > now)
  <2>1. due \in NextRunAfter(EffInterval(r), now)
    BY <1>4 DEF NextRunAt
  <2> QED BY <1>1, <2>1, NextRunAfterAhead
<1> QED BY <1>3, <1>4

\* A row lookup that finds a row finds it in the table.
LEMMA RowOfScope ==
  ASSUME NEW s, HasRow(s)
  PROVE  RowOf(s) \in RowId /\ rows[RowOf(s)].scope = s
BY DEF HasRow, RowOf

-----------------------------------------------------------------------------
(* Type correctness.                                                       *)

\* The table starts empty and every pass and request idle.
LEMMA InitType == Init => TypeOK
BY ScheduleAssumption
   DEF Init, TypeOK, RowId, Row, NoRow, IdlePass, IdlePut, PassRec, PutRec, Scopes

\* A row just built is a row, whatever its fields are set to.
LEMMA NewRowType ==
  ASSUME NEW s \in Scopes
  PROVE  /\ \A due \in Nat : [NewRow(s) EXCEPT !.next = due] \in Row
         /\ \A on \in BOOLEAN \cup {NULL}, every \in Intervals \cup {NULL} :
              [NewRow(s) EXCEPT !.enabled = on, !.interval = every] \in Row
BY DEF NewRow, NoRow, Row

\* The column updates of claim_due_schedule, of the report and of _apply.
LEMMA UpdatedRowType ==
  ASSUME NEW q \in Row, NEW now \in Nat, NEW due \in Nat
  PROVE  /\ [q EXCEPT !.last = now, !.next = due, !.count = NULL] \in Row
         /\ [q EXCEPT !.count = now] \in Row
         /\ [q EXCEPT !.next = due] \in Row
         /\ \A on \in BOOLEAN \cup {NULL}, every \in Intervals \cup {NULL} :
              [q EXCEPT !.enabled = on, !.interval = every] \in Row
BY DEF Row

\* The locals of a pass back at the top of its loop, or over.
LEMMA RestType ==
  /\ IdlePass \in PassRec
  /\ \A q \in PassRec : NextRow(q) \in PassRec
<1>1. 1 \in RowId /\ WS \in Scopes
  BY ScheduleAssumption DEF RowId, Scopes
<1> QED BY <1>1 DEF NextRow, IdlePass, PassRec

\* A pass's locals with any of them reassigned.
LEMMA UpdatedPassType ==
  ASSUME NEW q \in PassRec, NEW todo \in SUBSET Targets, NEW n \in Nat
  PROVE  [q EXCEPT !.todo = todo, !.count = n] \in PassRec
BY DEF PassRec

\* Every step of a dispatcher pass keeps the types.
LEMMA PassType ==
  ASSUME TypeOK, NEW p \in Passes, PassStep(p) \/ RowFails(p) \/ Crash(p)
  PROVE  TypeOK'
<1> USE ScheduleAssumption DEF TypeOK
<1>0. pass[p] \in PassRec
  OBVIOUS
<1>1. CASE StartPass(p)
  <2>1. [IdlePass EXCEPT !.pc = IF HasRow(WS) THEN "select" ELSE "insert",
                         !.now = clock] \in PassRec
    BY RestType DEF PassRec
  <2> QED BY <1>1, <2>1 DEF StartPass
<1>2. CASE EnsureDefault(p)
  <2>1. PICK due \in NextRunAfter(ShippedInterval, pass[p].now) : InsertDefault(due)
    BY <1>2 DEF EnsureDefault
  <2>2. due \in Nat
    BY <1>0, <2>1, NextRunAfterAhead DEF PassRec
  <2>3. [NewRow(WS) EXCEPT !.next = due] \in Row
    BY <2>2, NewRowType DEF Scopes
  <2>4. rows' \in [RowId -> Row] /\ nextId' \in 1..(MaxRows + 1)
    <3>1. CASE HasRow(WS)
      BY <2>1, <3>1 DEF InsertDefault
    <3>2. CASE ~HasRow(WS)
      <4>1. nextId \in RowId /\ nextId' \in 1..(MaxRows + 1)
        BY <2>1, <3>2 DEF InsertDefault, RowId
      <4> QED BY <2>1, <2>3, <3>2, <4>1 DEF InsertDefault
    <3> QED BY <3>1, <3>2
  <2>5. pass' \in [Passes -> PassRec]
    BY <1>2 DEF EnsureDefault, PassRec
  <2> QED BY <1>2, <2>4, <2>5 DEF EnsureDefault
<1>3. CASE SelectDue(p)
  <2>1. DueSchedules(pass[p].now) \in SUBSET RowId
    BY DEF DueSchedules
  <2>2. [pass[p] EXCEPT !.pc = "loop", !.due = DueSchedules(pass[p].now)] \in PassRec
    BY <1>0, <2>1 DEF PassRec
  <2> QED BY <1>3, <2>2 DEF SelectDue
<1>4. CASE PickRow(p)
  <2>1. PICK r \in pass[p].due :
          /\ Exists(r)
          /\ \E due \in NextRunAt(r, pass[p].now) :
               pass' = [pass EXCEPT ![p] =
                          [@ EXCEPT !.pc = "claim", !.due = pass[p].due \ {r}, !.row = r,
                                    !.scope = rows[r].scope, !.next = due]]
    BY <1>4 DEF PickRow
  <2>2. PICK due \in NextRunAt(r, pass[p].now) :
               pass' = [pass EXCEPT ![p] =
                          [@ EXCEPT !.pc = "claim", !.due = pass[p].due \ {r}, !.row = r,
                                    !.scope = rows[r].scope, !.next = due]]
    BY <2>1
  <2>3. r \in RowId /\ rows[r].scope \in Scopes
    BY <1>0, <2>1 DEF Exists, Row, PassRec
  <2>4. due \in Nat
    BY <1>0, <2>2, <2>3, NextRunAtAhead DEF PassRec
  <2>5. [pass[p] EXCEPT !.pc = "claim", !.due = pass[p].due \ {r}, !.row = r,
                        !.scope = rows[r].scope, !.next = due] \in PassRec
    BY <1>0, <2>3, <2>4 DEF PassRec
  <2> DEFINE q == [pass[p] EXCEPT !.pc = "claim", !.due = pass[p].due \ {r}, !.row = r,
                                  !.scope = rows[r].scope, !.next = due]
  <2>6. pass' = [pass EXCEPT ![p] = q]
    BY <2>2
  <2> HIDE DEF q
  <2>7. q \in PassRec
    BY <2>5 DEF q
  <2>8. pass' \in [Passes -> PassRec]
    BY <2>6, <2>7
  <2> QED BY <1>4, <2>8 DEF PickRow
<1>5. CASE Claim(p)
  <2>1. pass[p].row \in RowId /\ pass[p].now \in Nat /\ pass[p].next \in Nat
    BY <1>0 DEF PassRec
  <2>2. CASE DueAt(pass[p].row, pass[p].now)
    <3>1. [rows[pass[p].row] EXCEPT !.last = pass[p].now, !.next = pass[p].next,
                                    !.count = NULL] \in Row
      BY <2>1, UpdatedRowType
    <3>2. rows' \in [RowId -> Row]
      BY <1>5, <2>1, <2>2, <3>1 DEF Claim, Stamp
    <3>3. pass' \in [Passes -> PassRec]
      BY <1>5, <2>2 DEF Claim, PassRec
    <3> QED BY <1>5, <3>2, <3>3 DEF Claim
  <2>3. CASE ~DueAt(pass[p].row, pass[p].now)
    BY <1>0, <1>5, <2>3, RestType DEF Claim
  <2> QED BY <2>2, <2>3
<1>6. CASE Cover(p)
  <2>1. CoveredBy(pass[p].scope) \in SUBSET Targets
    BY DEF CoveredBy
  <2>2. [pass[p] EXCEPT !.pc = "fanout", !.count = 0,
                        !.todo = CoveredBy(pass[p].scope)] \in PassRec
    BY <1>0, <2>1 DEF PassRec
  <2> QED BY <1>6, <2>2 DEF Cover
<1>7. ASSUME NEW t \in Targets, Dispatch(p, t)
      PROVE  TypeOK'
  <2>1. [pass[p] EXCEPT !.todo = pass[p].todo \ {t}, !.count = pass[p].count + 1] \in PassRec
    <3>1. pass[p].todo \ {t} \in SUBSET Targets /\ pass[p].count + 1 \in Nat
      BY <1>0 DEF PassRec
    <3> QED BY <1>0, <3>1, UpdatedPassType
  <2>2. [pass[p] EXCEPT !.todo = pass[p].todo \ {t}] \in PassRec
    BY <1>0 DEF PassRec
  <2>3. <<pass[p].row, pass[p].now, t>> \in RowId \X Nat \X Targets
    BY <1>0 DEF PassRec
  <2>4. sent' \subseteq RowId \X Nat \X Targets
    BY <1>7, <2>3 DEF Dispatch
  <2>5. pass' \in [Passes -> PassRec]
    BY <1>7, <2>1, <2>2 DEF Dispatch
  <2> QED BY <1>7, <2>4, <2>5 DEF Dispatch
<1>8. CASE Report(p)
  <2>1. pass[p].row \in RowId /\ pass[p].count \in Nat
    BY <1>0 DEF PassRec
  <2>2. [rows[pass[p].row] EXCEPT !.count = pass[p].count] \in Row
    BY <2>1, UpdatedRowType
  <2>3. rows' \in [RowId -> Row]
    BY <1>8, <2>1, <2>2 DEF Report
  <2> QED BY <1>0, <1>8, <2>3, RestType DEF Report
<1>9. CASE EndPass(p)
  BY <1>9, RestType DEF EndPass
<1>10. CASE RowVanished(p)
  BY <1>10, RestType DEF RowVanished
<1>11. CASE RowFails(p)
  BY <1>0, <1>11, RestType DEF RowFails
<1>12. CASE Crash(p)
  BY <1>12, RestType DEF Crash
<1> QED
  BY <1>1, <1>2, <1>3, <1>4, <1>5, <1>6, <1>7, <1>8, <1>9, <1>10, <1>11, <1>12 DEF PassStep

\* So does every step of the operator and of the clock.
LEMMA OperatorType ==
  ASSUME TypeOK, PutStep \/ Operator \/ Tick
  PROVE  TypeOK'
<1> USE ScheduleAssumption DEF TypeOK
<1>0. IdlePut \in PutRec
  BY DEF IdlePut, PutRec, RowId, Scopes
<1>1. ASSUME NEW s \in Scopes, PutStart(s)
      PROVE  TypeOK'
  <2>1. (IF HasRow(s) THEN RowOf(s) ELSE 1) \in RowId
    BY RowOfScope DEF RowId
  <2>2. HasRow(s) \in BOOLEAN
    BY DEF HasRow
  <2>3. put' \in PutRec
    BY <1>1, <2>1, <2>2, Zenon DEF PutStart, PutRec, IdlePut
  <2> QED BY <1>1, <2>3 DEF PutStart, Request
<1>2. ASSUME NEW on \in BOOLEAN \cup {NULL}, NEW every \in Intervals \cup {NULL},
             PutInsert(on, every)
      PROVE  TypeOK'
  <2>1. CASE HasRow(put.scope)
    BY <1>0, <1>2, <2>1 DEF PutInsert
  <2>2. CASE ~HasRow(put.scope)
    <3>1. [NewRow(put.scope) EXCEPT !.enabled = on, !.interval = every] \in Row
      BY NewRowType DEF PutRec
    <3>2. nextId \in RowId /\ nextId + 1 \in 1..(MaxRows + 1)
      BY <1>2, <2>2 DEF PutInsert, RowId
    <3>3. rows' \in [RowId -> Row]
      BY <1>2, <2>2, <3>1, <3>2 DEF PutInsert
    <3>4. put' \in PutRec
      BY <1>2, <2>2, <3>2 DEF PutInsert, PutRec
    <3> QED BY <1>2, <2>2, <3>2, <3>3, <3>4 DEF PutInsert
  <2> QED BY <2>1, <2>2
<1>3. ASSUME NEW on \in BOOLEAN \cup {NULL}, NEW every \in Intervals \cup {NULL},
             PutUpdate(on, every)
      PROVE  TypeOK'
  <2>1. EffEnabled(put.row) \in BOOLEAN /\ EffInterval(put.row) \in Nat
    BY EffectiveTypes DEF PutRec
  <2>2. put' \in PutRec
    BY <1>3, <2>1 DEF PutUpdate, PutRec
  <2>3. rows' \in [RowId -> Row]
    <3>1. put.row \in RowId
      BY DEF PutRec
    <3>2. [rows[put.row] EXCEPT !.enabled = on, !.interval = every] \in Row
      BY <1>3, <3>1, UpdatedRowType
    <3> QED BY <1>3, <3>1, <3>2 DEF PutUpdate
  <2> QED BY <1>3, <2>2, <2>3 DEF PutUpdate
<1>4. CASE PutDecide
  BY <1>0, <1>4 DEF PutDecide, PutRec
<1>5. CASE PutReset
  <2>1. PICK due \in NextRunAfter(EffInterval(put.row), put.now) :
          rows' = [rows EXCEPT ![put.row].next = due]
    BY <1>5 DEF PutReset
  <2>2. due \in Nat
    BY <2>1, EffectiveTypes, NextRunAfterAhead DEF PutRec
  <2>3. put.row \in RowId /\ [rows[put.row] EXCEPT !.next = due] \in Row
    BY <2>2, UpdatedRowType DEF PutRec
  <2>4. rows' \in [RowId -> Row]
    BY <2>1, <2>3
  <2> QED BY <1>0, <1>5, <2>4 DEF PutReset
<1>6. ASSUME NEW t \in Targets,
             ResetTarget(t) \/ Deactivate(t) \/ Reactivate(t) \/ SoftDelete(t)
      PROVE  TypeOK'
  <2>1. CASE ResetTarget(t)
    <3>1. NoRow \in Row
      BY DEF NoRow, Row
    <3>2. rows' \in [RowId -> Row]
      BY <2>1, <3>1 DEF ResetTarget
    <3> QED BY <2>1, <3>2 DEF ResetTarget, Request
  <2>0. /\ [target[t] EXCEPT !.deactivated = TRUE] \in [deactivated : BOOLEAN, deleted : BOOLEAN]
        /\ [target[t] EXCEPT !.deactivated = FALSE] \in [deactivated : BOOLEAN, deleted : BOOLEAN]
        /\ [target[t] EXCEPT !.deleted = TRUE] \in [deactivated : BOOLEAN, deleted : BOOLEAN]
    OBVIOUS
  <2>2. CASE Deactivate(t)
    BY <2>2, <2>0 DEF Deactivate, Request
  <2>3. CASE Reactivate(t)
    BY <2>3, <2>0 DEF Reactivate, Request
  <2>4. CASE SoftDelete(t)
    BY <2>4, <2>0 DEF SoftDelete, Request
  <2> QED BY <1>6, <2>1, <2>2, <2>3, <2>4
<1>7. CASE Tick
  BY <1>7 DEF Tick
<1> QED BY <1>1, <1>2, <1>3, <1>4, <1>5, <1>6, <1>7 DEF PutStep, Operator

\* Types are inductive on their own.
LEMMA NextType == TypeOK /\ [Next]_vars => TypeOK'
<1>1. TypeOK /\ Next => TypeOK'
  BY PassType, OperatorType DEF Next
<1>2. TypeOK /\ UNCHANGED vars => TypeOK'
  BY DEF vars, TypeOK
<1> QED BY <1>1, <1>2

\* Every reachable state of the scheduler is well typed, for every number of
\* passes, targets and rows.
THEOREM TypeCorrect == Spec => []TypeOK
BY InitType, NextType, PTL DEF Spec

-----------------------------------------------------------------------------
(* The inductive invariant.                                                *)

\* The invariant holds of the empty table.
LEMMA InitInv == Init => IndInv
<1> SUFFICES ASSUME Init PROVE IndInv
  OBVIOUS
<1>1. TypeOK
  BY InitType
<1>2. \A p \in Passes : ~Busy(p) /\ pass[p].pc = "idle" /\ pass[p].now = 0
  BY DEF Init, IdlePass, Busy
<1>3. \A r \in RowId : rows[r] = NoRow /\ rows[r].last = NULL /\ rows[r].next = NULL
  BY DEF Init, NoRow
<1>4. put.pc = "idle" /\ sent = {} /\ clock = 0
  BY DEF Init, IdlePut
<1>5. PastOnly /\ FreshKeys /\ ClockSet /\ BehindLastRun /\ OneOwner /\ OncePerRun
  BY <1>2, <1>3, <1>4
     DEF PastOnly, FreshKeys, ClockSet, DueAfterLastRun, BehindLastRun, OneOwner,
         OncePerRun, Busy
<1> QED BY <1>1, <1>5 DEF IndInv

\* Steps after which a pass neither claims nor fans out, and that touch no row.
LEMMA RestingPass ==
  ASSUME IndInv, TypeOK', NEW p \in Passes, NEW q, pass' = [pass EXCEPT ![p] = q],
         q.pc \notin {"claim", "cover", "fanout"}, q.now <= clock,
         UNCHANGED <<clock, rows, nextId, put, sent>>
  PROVE  IndInv'
<1>1. pass'[p] = q /\ \A x \in Passes : x # p => pass'[x] = pass[x]
  BY DEF IndInv, TypeOK
<1>2. ~Busy(p)' /\ \A x \in Passes : Busy(x)' => Busy(x) /\ pass'[x] = pass[x]
  BY <1>1 DEF Busy
<1>3. PastOnly'
  BY <1>1 DEF IndInv, PastOnly
<1>4. FreshKeys'
  BY <1>2 DEF IndInv, FreshKeys, Exists
<1>5. ClockSet'
  BY <1>1 DEF IndInv, ClockSet, DueAfterLastRun
<1>6. BehindLastRun'
  BY <1>2 DEF IndInv, BehindLastRun, Exists
<1>7. OneOwner'
  BY <1>2 DEF IndInv, OneOwner
<1>8. OncePerRun'
  BY <1>1 DEF IndInv, OncePerRun
<1> QED BY <1>3, <1>4, <1>5, <1>6, <1>7, <1>8 DEF IndInv

\* The insertion of a row at the next key.
LEMMA InsertedRow ==
  ASSUME IndInv, TypeOK', NEW q, q.last = NULL, q.scope # NULL, nextId \in RowId,
         rows' = [rows EXCEPT ![nextId] = q], nextId' = nextId + 1,
         UNCHANGED <<clock, sent>>,
         \A x \in Passes : /\ pass'[x].now = pass[x].now /\ pass'[x].row = pass[x].row
                           /\ pass'[x].next = pass[x].next /\ pass'[x].todo = pass[x].todo
                           /\ \/ pass'[x].pc = pass[x].pc
                              \/ pass'[x].pc = "select",
         put'.pc # "idle" => put'.now = clock,
         put'.pc \in {"decide", "reset"} \/ (put'.pc = "write" /\ ~put'.new)
           => \/ put'.row = nextId
              \/ put'.row \in RowId /\ Exists(put'.row)
  PROVE  IndInv'
<1>0. nextId \in Nat
  BY DEF IndInv, TypeOK
<1>1. rows'[nextId] = q /\ \A r \in RowId : r # nextId => rows'[r] = rows[r]
  BY DEF IndInv, TypeOK
<1>2. \A r \in RowId : r \in Nat
  BY DEF RowId
<1>3. \A x \in Passes : Busy(x)' => Busy(x) /\ pass[x].row # nextId
  BY <1>0 DEF Busy, IndInv, FreshKeys
<1>4. PastOnly'
  BY <1>1 DEF IndInv, PastOnly
<1>5. FreshKeys'
  <2>1. \A r \in RowId : r >= nextId' => rows'[r] = NoRow
    BY <1>0, <1>1, <1>2 DEF IndInv, FreshKeys
  <2>2. \A r \in RowId : rows'[r].scope = NULL => rows'[r] = NoRow
    BY <1>1 DEF IndInv, FreshKeys
  <2>3. \A x \in Passes : Busy(x)' => pass'[x].row < nextId'
    <3> SUFFICES ASSUME NEW x \in Passes, Busy(x)' PROVE pass'[x].row < nextId'
      OBVIOUS
    <3>1. pass[x].row < nextId /\ pass[x].row \in RowId
      BY <1>3 DEF IndInv, FreshKeys, TypeOK, PassRec
    <3>2. pass[x].row \in Nat
      BY <3>1 DEF RowId
    <3>3. \A m, n \in Nat : m < n => m < n + 1
      OBVIOUS
    <3>4. pass[x].row < nextId + 1
      BY <3>1, <3>2, <3>3, <1>0
    <3> QED BY <3>4
  <2>4. \A x \in sent' : x[1] < nextId'
    <3> SUFFICES ASSUME NEW x \in sent PROVE x[1] < nextId + 1
      OBVIOUS
    <3>1. x[1] < nextId /\ x[1] \in RowId
      BY DEF IndInv, FreshKeys, TypeOK
    <3>2. x[1] \in Nat
      BY <3>1 DEF RowId
    <3>3. \A m, n \in Nat : m < n => m < n + 1
      OBVIOUS
    <3> QED BY <3>1, <3>2, <3>3, <1>0
  <2>5. put'.pc \in {"decide", "reset"} \/ (put'.pc = "write" /\ ~put'.new)
           => Exists(put.row)'
    BY <1>1 DEF Exists
  <2> QED BY <2>1, <2>2, <2>3, <2>4, <2>5 DEF FreshKeys
<1>6. ClockSet'
  BY <1>1 DEF IndInv, ClockSet, DueAfterLastRun
<1>7. BehindLastRun'
  <2>1. ASSUME NEW x \in Passes, Busy(x)', Exists(pass[x].row)'
        PROVE  rows'[pass'[x].row].last # NULL /\ pass'[x].now <= rows'[pass'[x].row].last
    <3>1. pass[x].row \in RowId /\ rows'[pass[x].row] = rows[pass[x].row] /\ Busy(x)
      BY <2>1, <1>1, <1>3 DEF IndInv, TypeOK, PassRec
    <3> QED BY <2>1, <3>1 DEF IndInv, BehindLastRun, Exists
  <2>2. ASSUME NEW x \in sent, Exists(x[1])'
        PROVE  rows'[x[1]].last # NULL /\ x[2] <= rows'[x[1]].last
    <3>1. x[1] \in RowId /\ x[1] # nextId
      BY <1>0 DEF IndInv, TypeOK, FreshKeys
    <3> QED BY <2>2, <3>1, <1>1 DEF IndInv, BehindLastRun, Exists
  <2> QED BY <2>1, <2>2 DEF BehindLastRun
<1>8. OneOwner'
  BY <1>3 DEF IndInv, OneOwner
<1>9. OncePerRun'
  BY DEF IndInv, OncePerRun
<1> QED BY <1>4, <1>5, <1>6, <1>7, <1>8, <1>9 DEF IndInv

\* A row that is due last ran strictly before the now it is due at.
LEMMA DueMeansNewRun ==
  ASSUME TypeOK, ClockSet, NEW r \in RowId, NEW now \in Nat, DueAt(r, now),
         rows[r].last # NULL
  PROVE  rows[r].last \in Nat /\ rows[r].last < now
<1>1. rows[r].last \in Nat /\ rows[r].next \in Nat /\ rows[r].next <= now
  BY DEF TypeOK, Row, ClockSet, DueAt
<1>2. rows[r].next > rows[r].last
  BY <1>1, ScheduleAssumption DEF ClockSet, DueAfterLastRun
<1> QED BY <1>1, <1>2

\* The conditional UPDATE that wins: everyone who ran this row before is
\* strictly behind this pass.
LEMMA WonClaim ==
  ASSUME IndInv, TypeOK', NEW p \in Passes, Claim(p), DueAt(pass[p].row, pass[p].now)
  PROVE  IndInv'
<1> DEFINE r == pass[p].row
           n == pass[p].now
<1>0. r \in RowId /\ n \in Nat /\ pass[p].next \in Nat /\ n <= clock /\ clock \in Nat
      /\ pass[p].next > n /\ Exists(r)
  BY DEF IndInv, TypeOK, PassRec, PastOnly, ClockSet, Claim
<1>1. /\ rows'[r] = [rows[r] EXCEPT !.last = n, !.next = pass[p].next, !.count = NULL]
      /\ \A x \in RowId : x # r => rows'[x] = rows[x]
  BY <1>0 DEF Claim, Stamp, IndInv, TypeOK
<1>2. /\ rows'[r].last = n /\ rows'[r].next = pass[p].next
      /\ rows'[r].scope = rows[r].scope
  BY <1>0, <1>1 DEF IndInv, TypeOK, Row
<1>3. /\ pass'[p] = [pass[p] EXCEPT !.pc = "cover"]
      /\ \A x \in Passes : x # p => pass'[x] = pass[x]
      /\ UNCHANGED <<clock, nextId, put, sent>>
  BY DEF Claim, IndInv, TypeOK
<1>4. pass'[p].pc = "cover" /\ pass'[p].row = r /\ pass'[p].now = n
  BY <1>3 DEF IndInv, TypeOK, PassRec
<1>5. rows[r].last # NULL => rows[r].last \in Nat /\ rows[r].last < n
  BY <1>0, DueMeansNewRun DEF IndInv
<1>6. ~(r >= nextId)
  BY <1>0 DEF IndInv, FreshKeys, Exists, NoRow
<1> HIDE DEF r, n
<1>7. PastOnly'
  BY <1>0, <1>1, <1>2, <1>3, <1>4 DEF IndInv, PastOnly
<1>8. FreshKeys'
  <2>1. \A x \in RowId : x >= nextId' => rows'[x] = NoRow
    BY <1>1, <1>3, <1>6 DEF IndInv, FreshKeys
  <2>2. \A x \in RowId : rows'[x].scope = NULL => rows'[x] = NoRow
    BY <1>0, <1>1, <1>2 DEF IndInv, FreshKeys, Exists
  <2>3. r < nextId
    <3>1. r \in Nat /\ nextId \in Nat
      BY <1>0 DEF RowId, IndInv, TypeOK
    <3> QED BY <3>1, <1>6
  <2>4. \A x \in Passes : Busy(x)' => pass'[x].row < nextId'
    BY <1>3, <1>4, <2>3 DEF IndInv, FreshKeys, Busy
  <2>5. put'.pc \in {"decide", "reset"} \/ (put'.pc = "write" /\ ~put'.new)
          => Exists(put.row)'
    <3>1. put.row \in RowId
      BY DEF IndInv, TypeOK, PutRec
    <3> QED BY <1>1, <1>2, <1>3, <3>1 DEF IndInv, FreshKeys, Exists
  <2> QED BY <1>3, <2>1, <2>2, <2>4, <2>5 DEF FreshKeys, IndInv
<1>9. ClockSet'
  <2>1. \A x \in RowId : rows'[x].next = NULL => rows'[x].last = NULL
    BY <1>0, <1>1, <1>2, ScheduleAssumption DEF IndInv, ClockSet
  <2>2. DueAfterLastRun'
    BY <1>0, <1>1, <1>2 DEF IndInv, ClockSet, DueAfterLastRun
  <2>3. \A x \in Passes : pass'[x].pc = "claim" => pass'[x].next > pass'[x].now
    BY <1>3, <1>4 DEF IndInv, ClockSet
  <2> QED BY <2>1, <2>2, <2>3 DEF ClockSet
<1>10. \A x \in Passes : Busy(x) /\ pass[x].row = r => pass[x].now \in Nat /\ pass[x].now < n
  <2> SUFFICES ASSUME NEW x \in Passes, Busy(x), pass[x].row = r
               PROVE  pass[x].now \in Nat /\ pass[x].now < n
    OBVIOUS
  <2>1. pass[x].now \in Nat
    BY DEF IndInv, TypeOK, PassRec
  <2>2. rows[r].last # NULL /\ pass[x].now <= rows[r].last
    BY <1>0 DEF IndInv, BehindLastRun
  <2> QED BY <1>0, <1>5, <2>1, <2>2
<1>11. \A x \in sent : x[1] = r => x[2] \in Nat /\ x[2] < n
  <2> SUFFICES ASSUME NEW x \in sent, x[1] = r PROVE x[2] \in Nat /\ x[2] < n
    OBVIOUS
  <2>1. x[2] \in Nat
    BY DEF IndInv, TypeOK
  <2>2. rows[r].last # NULL /\ x[2] <= rows[r].last
    BY <1>0 DEF IndInv, BehindLastRun
  <2> QED BY <1>0, <1>5, <2>1, <2>2
<1>12. BehindLastRun'
  <2>1. ASSUME NEW x \in Passes, Busy(x)', Exists(pass[x].row)'
        PROVE  rows'[pass'[x].row].last # NULL /\ pass'[x].now <= rows'[pass'[x].row].last
    <3>1. CASE pass'[x].row = r
      <4>1. pass'[x].now \in Nat /\ pass'[x].now <= n
        <5>1. CASE x = p
          BY <1>0, <1>4, <5>1
        <5>2. CASE x # p
          <6>1. pass'[x] = pass[x] /\ Busy(x) /\ pass[x].row = r
            BY <1>3, <2>1, <3>1, <5>2 DEF Busy
          <6> QED BY <1>0, <1>10, <6>1
        <5> QED BY <5>1, <5>2
      <4> QED BY <1>0, <1>2, <3>1, <4>1, ScheduleAssumption
    <3>2. CASE pass'[x].row # r
      <4>1. x # p /\ pass'[x] = pass[x] /\ Busy(x) /\ pass[x].row \in RowId
        BY <1>3, <1>4, <2>1, <3>2 DEF Busy, IndInv, TypeOK, PassRec
      <4> QED BY <1>1, <2>1, <3>2, <4>1 DEF IndInv, BehindLastRun, Exists
    <3> QED BY <3>1, <3>2
  <2>2. ASSUME NEW x \in sent, Exists(x[1])'
        PROVE  rows'[x[1]].last # NULL /\ x[2] <= rows'[x[1]].last
    <3>1. CASE x[1] = r
      BY <1>0, <1>2, <1>11, <3>1, ScheduleAssumption
    <3>2. CASE x[1] # r
      <4>1. x[1] \in RowId
        BY DEF IndInv, TypeOK
      <4> QED BY <1>1, <2>2, <3>2, <4>1 DEF IndInv, BehindLastRun, Exists
    <3> QED BY <3>1, <3>2
  <2> QED BY <1>3, <2>1, <2>2 DEF BehindLastRun
<1>13. OneOwner'
  <2> SUFFICES ASSUME NEW x \in Passes, NEW y \in Passes, Busy(x)', Busy(y)',
                      pass'[x].row = pass'[y].row, pass'[x].now = pass'[y].now
               PROVE  x = y
    BY DEF OneOwner
  <2>1. \A z \in Passes : z # p /\ Busy(z)' => pass'[z] = pass[z] /\ Busy(z)
    BY <1>3 DEF Busy
  <2>2. \A z \in Passes : z # p /\ Busy(z)' => ~(pass'[z].row = r /\ pass'[z].now = n)
    BY <1>0, <1>10, <2>1
  <2>3. CASE x = p \/ y = p
    BY <1>4, <2>2, <2>3
  <2>4. CASE x # p /\ y # p
    BY <2>1, <2>4 DEF IndInv, OneOwner
  <2> QED BY <2>3, <2>4
<1>14. OncePerRun'
  <2>1. \A t \in Targets : <<r, n, t>> \notin sent
    <3> SUFFICES ASSUME NEW t \in Targets, <<r, n, t>> \in sent PROVE FALSE
      OBVIOUS
    <3>1. <<r, n, t>>[1] = r /\ <<r, n, t>>[2] = n
      OBVIOUS
    <3>2. n < n
      BY <1>11, <3>1
    <3> QED BY <1>0, <3>2
  <2> QED BY <1>3, <1>4, <2>1 DEF IndInv, OncePerRun
<1> QED BY <1>7, <1>8, <1>9, <1>12, <1>13, <1>14 DEF IndInv

\* A row written in columns other than last_run_at, its clock moved ahead of
\* the present if at all.
LEMMA TouchedRow ==
  ASSUME IndInv, TypeOK', NEW r \in RowId, NEW q, rows' = [rows EXCEPT ![r] = q],
         Exists(r), q.scope = rows[r].scope, q.last = rows[r].last,
         q.next = rows[r].next \/ (q.next \in Nat /\ q.next > clock),
         UNCHANGED <<clock, nextId, sent>>,
         \A x \in Passes : \/ pass'[x] = pass[x]
                           \/ /\ pass'[x].pc \notin {"claim", "cover", "fanout"}
                              /\ pass'[x].now <= clock,
         put'.pc # "idle" => put'.now = clock,
         put'.pc \in {"decide", "reset"} \/ (put'.pc = "write" /\ ~put'.new)
           => put'.row \in RowId /\ Exists(put'.row)
  PROVE  IndInv'
<1>1. rows'[r] = q /\ \A x \in RowId : x # r => rows'[x] = rows[x]
  BY DEF IndInv, TypeOK
<1>2. \A x \in RowId : rows'[x].last = rows[x].last /\ rows'[x].scope = rows[x].scope
  BY <1>1
<1>3. \A x \in Passes : Busy(x)' => Busy(x) /\ pass'[x] = pass[x] /\ pass[x].row \in RowId
  BY DEF Busy, IndInv, TypeOK, PassRec
<1>4. PastOnly'
  BY <1>2 DEF IndInv, PastOnly
<1>5. FreshKeys'
  <2>1. \A x \in RowId : x >= nextId' => rows'[x] = NoRow
    BY <1>1 DEF IndInv, FreshKeys, Exists, NoRow
  <2>2. \A x \in RowId : rows'[x].scope = NULL => rows'[x] = NoRow
    BY <1>1 DEF IndInv, FreshKeys, Exists
  <2>3. \A x \in Passes : Busy(x)' => pass'[x].row < nextId'
    BY <1>3 DEF IndInv, FreshKeys
  <2>4. put'.pc \in {"decide", "reset"} \/ (put'.pc = "write" /\ ~put'.new)
           => Exists(put.row)'
    BY <1>2 DEF Exists
  <2> QED BY <2>1, <2>2, <2>3, <2>4 DEF IndInv, FreshKeys
<1>6. ClockSet'
  <2>1. \A x \in RowId : rows'[x].next = NULL => rows'[x].last = NULL
    BY <1>1, <1>2, ScheduleAssumption DEF IndInv, ClockSet
  <2>2. DueAfterLastRun'
    <3> SUFFICES ASSUME NEW x \in RowId, rows'[x].last # NULL, rows'[x].next # NULL
                 PROVE  rows'[x].next > rows'[x].last
      BY DEF DueAfterLastRun
    <3>1. CASE rows'[x].next = rows[x].next
      BY <1>2, <3>1 DEF IndInv, ClockSet, DueAfterLastRun
    <3>2. CASE x = r /\ q.next \in Nat /\ q.next > clock
      <4>1. rows[r].last \in Nat /\ rows[r].last <= clock /\ clock \in Nat
        BY <1>2, <3>2 DEF IndInv, PastOnly, TypeOK, Row
      <4> QED BY <1>1, <1>2, <3>2, <4>1
    <3> QED BY <1>1, <3>1, <3>2
  <2>3. \A x \in Passes : pass'[x].pc = "claim" => pass'[x].next > pass'[x].now
    BY DEF IndInv, ClockSet
  <2> QED BY <2>1, <2>2, <2>3 DEF ClockSet
<1>7. BehindLastRun'
  <2>1. \A x \in Passes : Busy(x)' /\ Exists(pass[x].row)' =>
          rows'[pass'[x].row].last # NULL /\ pass'[x].now <= rows'[pass'[x].row].last
    BY <1>2, <1>3 DEF IndInv, BehindLastRun, Exists
  <2>2. \A x \in sent : x[1] \in RowId
    BY DEF IndInv, TypeOK
  <2>3. \A x \in sent : Exists(x[1])' =>
          rows'[x[1]].last # NULL /\ x[2] <= rows'[x[1]].last
    BY <1>2, <2>2 DEF IndInv, BehindLastRun, Exists
  <2> QED BY <2>1, <2>3 DEF BehindLastRun
<1>8. OneOwner'
  BY <1>3 DEF IndInv, OneOwner
<1>9. OncePerRun'
  BY DEF IndInv, OncePerRun
<1> QED BY <1>4, <1>5, <1>6, <1>7, <1>8, <1>9 DEF IndInv

\* Every step of a dispatcher pass keeps the invariant.
LEMMA PassInv ==
  ASSUME IndInv, TypeOK', NEW p \in Passes, PassStep(p) \/ RowFails(p) \/ Crash(p)
  PROVE  IndInv'
<1>0. /\ pass \in [Passes -> PassRec] /\ pass[p] \in PassRec /\ pass[p].now <= clock
      /\ clock \in Nat /\ pass[p].now \in Nat /\ pass[p].row \in RowId
  BY DEF IndInv, TypeOK, PastOnly, PassRec
<1>1. IdlePass.pc = "idle" /\ IdlePass.now <= clock
  BY <1>0 DEF IdlePass
<1>2. NextRow(pass[p]).pc = "loop" /\ NextRow(pass[p]).now <= clock
  BY <1>0 DEF NextRow, IdlePass
<1>3. CASE StartPass(p)
  <2> DEFINE q == [IdlePass EXCEPT !.pc = IF HasRow(WS) THEN "select" ELSE "insert",
                                   !.now = clock]
  <2>1. pass' = [pass EXCEPT ![p] = q] /\ UNCHANGED <<clock, rows, nextId, put, sent>>
    BY <1>3 DEF StartPass
  <2>2. q.pc \notin {"claim", "cover", "fanout"} /\ q.now <= clock
    BY <1>0 DEF IdlePass
  <2> HIDE DEF q
  <2> QED BY <2>1, <2>2, RestingPass
<1>4. CASE EnsureDefault(p)
  <2>1. PICK due \in NextRunAfter(ShippedInterval, pass[p].now) : InsertDefault(due)
    BY <1>4 DEF EnsureDefault
  <2>2. pass' = [pass EXCEPT ![p].pc = "select"] /\ UNCHANGED <<clock, put, sent>>
    BY <1>4 DEF EnsureDefault
  <2>3. CASE HasRow(WS)
    <3>1. UNCHANGED <<rows, nextId>>
      BY <2>1, <2>3 DEF InsertDefault
    <3>2. /\ pass' = [pass EXCEPT ![p] = [pass[p] EXCEPT !.pc = "select"]]
          /\ [pass[p] EXCEPT !.pc = "select"].pc = "select"
          /\ [pass[p] EXCEPT !.pc = "select"].now = pass[p].now
      BY <1>0, <2>2 DEF PassRec
    <3> QED BY <1>0, <2>2, <3>1, <3>2, RestingPass
  <2>4. CASE ~HasRow(WS)
    <3> DEFINE q == [NewRow(WS) EXCEPT !.next = due]
    <3>1. /\ nextId \in RowId /\ nextId' = nextId + 1
          /\ rows' = [rows EXCEPT ![nextId] = q]
      BY <2>1, <2>4 DEF InsertDefault, RowId, IndInv, TypeOK
    <3>2. q.last = NULL /\ q.scope # NULL
      BY ScheduleAssumption DEF NewRow, NoRow, Scopes
    <3> HIDE DEF q
    <3>3. \A x \in Passes : /\ pass'[x].now = pass[x].now /\ pass'[x].row = pass[x].row
                            /\ pass'[x].next = pass[x].next /\ pass'[x].todo = pass[x].todo
                            /\ \/ pass'[x].pc = pass[x].pc
                               \/ pass'[x].pc = "select"
      BY <1>0, <2>2 DEF PassRec
    <3>4. put.row \in RowId
      BY DEF IndInv, TypeOK, PutRec
    <3>5. /\ put'.pc # "idle" => put'.now = clock
          /\ put'.pc \in {"decide", "reset"} \/ (put'.pc = "write" /\ ~put'.new)
               => put'.row \in RowId /\ Exists(put'.row)
      BY <2>2, <3>4 DEF IndInv, PastOnly, FreshKeys
    <3> QED BY <2>2, <3>1, <3>2, <3>3, <3>5, InsertedRow
  <2> QED BY <2>3, <2>4
<1>5. CASE SelectDue(p)
  <2> DEFINE q == [pass[p] EXCEPT !.pc = "loop", !.due = DueSchedules(pass[p].now)]
  <2>1. pass' = [pass EXCEPT ![p] = q] /\ UNCHANGED <<clock, rows, nextId, put, sent>>
    BY <1>5 DEF SelectDue
  <2>2. q.pc = "loop" /\ q.now <= clock
    BY <1>0 DEF PassRec
  <2> HIDE DEF q
  <2> QED BY <2>1, <2>2, RestingPass
<1>6. CASE PickRow(p)
  <2>1. PICK r \in pass[p].due :
          \E due \in NextRunAt(r, pass[p].now) :
            pass' = [pass EXCEPT ![p] =
                       [@ EXCEPT !.pc = "claim", !.due = pass[p].due \ {r}, !.row = r,
                                 !.scope = rows[r].scope, !.next = due]]
    BY <1>6 DEF PickRow
  <2>2. PICK due \in NextRunAt(r, pass[p].now) :
            pass' = [pass EXCEPT ![p] =
                       [@ EXCEPT !.pc = "claim", !.due = pass[p].due \ {r}, !.row = r,
                                 !.scope = rows[r].scope, !.next = due]]
    BY <2>1
  <2>3. due > pass[p].now
    BY <1>0, <2>1, <2>2, NextRunAtAhead DEF IndInv, PassRec
  <2>4. /\ pass'[p].pc = "claim" /\ pass'[p].now = pass[p].now /\ pass'[p].next = due
        /\ \A x \in Passes : x # p => pass'[x] = pass[x]
        /\ UNCHANGED <<clock, rows, nextId, put, sent>>
    BY <1>0, <1>6, <2>2 DEF PickRow, PassRec
  <2>5. \A x \in Passes : Busy(x)' => Busy(x) /\ pass'[x] = pass[x]
    BY <2>4 DEF Busy
  <2>6. PastOnly' /\ FreshKeys' /\ BehindLastRun' /\ OneOwner' /\ OncePerRun'
    BY <1>0, <2>4, <2>5
       DEF IndInv, PastOnly, FreshKeys, BehindLastRun, OneOwner, OncePerRun, Exists, Busy
  <2>7. ClockSet'
    BY <2>3, <2>4 DEF IndInv, ClockSet, DueAfterLastRun
  <2> QED BY <2>6, <2>7 DEF IndInv
<1>7. CASE Claim(p)
  <2>1. CASE DueAt(pass[p].row, pass[p].now)
    BY <1>7, <2>1, WonClaim
  <2>2. CASE ~DueAt(pass[p].row, pass[p].now)
    BY <1>2, <1>7, <2>2, RestingPass DEF Claim
  <2> QED BY <2>1, <2>2
<1>8. CASE Cover(p)
  <2>1. /\ pass[p].pc = "cover" /\ pass'[p].pc = "fanout"
        /\ pass'[p].now = pass[p].now /\ pass'[p].row = pass[p].row
        /\ \A x \in Passes : x # p => pass'[x] = pass[x]
        /\ UNCHANGED <<clock, rows, nextId, put, sent>>
    BY <1>0, <1>8 DEF Cover, PassRec
  <2>2. pass'[p].todo \subseteq Targets
    BY DEF TypeOK, PassRec
  <2>3. \A x \in Passes : /\ Busy(x)' => Busy(x)
                          /\ pass'[x].now = pass[x].now /\ pass'[x].row = pass[x].row
    BY <2>1 DEF Busy
  <2>4. PastOnly' /\ FreshKeys' /\ ClockSet' /\ BehindLastRun' /\ OneOwner'
    BY <2>1, <2>3
       DEF IndInv, PastOnly, FreshKeys, ClockSet, DueAfterLastRun, BehindLastRun,
           OneOwner, Exists
  <2>5. OncePerRun'
    BY <2>1, <2>2 DEF IndInv, OncePerRun
  <2> QED BY <2>4, <2>5 DEF IndInv
<1>9. ASSUME NEW t \in Targets, Dispatch(p, t)
      PROVE  IndInv'
  <2> DEFINE e == <<pass[p].row, pass[p].now, t>>
  <2>1. /\ pass[p].pc = "fanout" /\ pass'[p].pc = "fanout"
        /\ pass'[p].now = pass[p].now /\ pass'[p].row = pass[p].row
        /\ pass'[p].todo = pass[p].todo \ {t}
        /\ \A x \in Passes : x # p => pass'[x] = pass[x]
        /\ UNCHANGED <<clock, rows, nextId, put>>
    <3> DEFINE a == [pass[p] EXCEPT !.todo = pass[p].todo \ {t},
                                    !.count = pass[p].count + 1]
    <3> DEFINE b == [pass[p] EXCEPT !.todo = pass[p].todo \ {t}]
    <3>1. pass[p].pc = "fanout" /\ UNCHANGED <<clock, rows, nextId, put>>
      BY <1>9 DEF Dispatch
    <3>2. /\ a.pc = pass[p].pc /\ a.now = pass[p].now /\ a.row = pass[p].row
          /\ a.todo = pass[p].todo \ {t}
      BY <1>0 DEF PassRec
    <3>3. /\ b.pc = pass[p].pc /\ b.now = pass[p].now /\ b.row = pass[p].row
          /\ b.todo = pass[p].todo \ {t}
      BY <1>0 DEF PassRec
    <3>4. pass' = [pass EXCEPT ![p] = a] \/ pass' = [pass EXCEPT ![p] = b]
      BY <1>9 DEF Dispatch
    <3> HIDE DEF a, b
    <3>5. /\ pass'[p] = a \/ pass'[p] = b
          /\ \A x \in Passes : x # p => pass'[x] = pass[x]
      BY <1>0, <3>4
    <3> QED BY <3>1, <3>2, <3>3, <3>5
  <2>2. sent' = sent \cup {e} \/ sent' = sent
    BY <1>9 DEF Dispatch
  <2>3. \A x \in Passes : /\ Busy(x)' <=> Busy(x)
                          /\ pass'[x].now = pass[x].now /\ pass'[x].row = pass[x].row
    BY <2>1 DEF Busy
  <2>4. Busy(p)
    BY <2>1 DEF Busy
  <2>5. e[1] = pass[p].row /\ e[2] = pass[p].now
    OBVIOUS
  <2>6. PastOnly' /\ ClockSet' /\ OneOwner'
    BY <2>1, <2>3 DEF IndInv, PastOnly, ClockSet, DueAfterLastRun, OneOwner
  <2> HIDE DEF e
  <2>7. FreshKeys'
    BY <2>1, <2>2, <2>3, <2>4, <2>5 DEF IndInv, FreshKeys, Exists
  <2>8. BehindLastRun'
    <3>1. \A x \in Passes : Busy(x)' /\ Exists(pass[x].row)' =>
            rows'[pass'[x].row].last # NULL /\ pass'[x].now <= rows'[pass'[x].row].last
      BY <2>1, <2>3 DEF IndInv, BehindLastRun, Exists
    <3>2. \A x \in sent : Exists(x[1])' => rows'[x[1]].last # NULL /\ x[2] <= rows'[x[1]].last
      BY <2>1 DEF IndInv, BehindLastRun, Exists
    <3>3. rows'[e[1]].scope # NULL => rows'[e[1]].last # NULL /\ e[2] <= rows'[e[1]].last
      BY <2>1, <2>4, <2>5 DEF IndInv, BehindLastRun, Exists
    <3> QED BY <2>2, <3>1, <3>2, <3>3 DEF BehindLastRun, Exists
  <2>9. OncePerRun'
    <3> SUFFICES ASSUME NEW x \in Passes, Busy(x)',
                        NEW u \in (IF pass'[x].pc = "fanout" THEN pass'[x].todo ELSE Targets)
                 PROVE  <<pass'[x].row, pass'[x].now, u>> \notin sent'
      BY DEF OncePerRun, Busy
    <3>1. /\ Busy(x)
          /\ u \in (IF pass[x].pc = "fanout" THEN pass[x].todo ELSE Targets)
          /\ x = p => u # t
      BY <2>1, <2>3
    <3>2. <<pass[x].row, pass[x].now, u>> \notin sent
      BY <3>1 DEF IndInv, OncePerRun, Busy
    <3>3. <<pass[x].row, pass[x].now, u>> # e
      <4>1. CASE x = p
        BY <3>1, <4>1 DEF e
      <4>2. CASE x # p
        BY <2>3, <2>4, <4>2 DEF e, IndInv, OneOwner
      <4> QED BY <4>1, <4>2
    <3> QED BY <2>2, <2>3, <3>2, <3>3
  <2> QED BY <2>6, <2>7, <2>8, <2>9 DEF IndInv
<1>10. CASE Report(p)
  <2> DEFINE q == [rows[pass[p].row] EXCEPT !.count = pass[p].count]
  <2>1. /\ rows' = [rows EXCEPT ![pass[p].row] = q] /\ Exists(pass[p].row)
        /\ UNCHANGED <<clock, nextId, put, sent>>
        /\ pass'[p] = NextRow(pass[p])
        /\ \A x \in Passes : x # p => pass'[x] = pass[x]
    BY <1>0, <1>10 DEF Report
  <2>2. /\ q.scope = rows[pass[p].row].scope /\ q.last = rows[pass[p].row].last
        /\ q.next = rows[pass[p].row].next
    BY <1>0 DEF IndInv, TypeOK, Row
  <2>3. /\ put'.pc # "idle" => put'.now = clock
        /\ put'.pc \in {"decide", "reset"} \/ (put'.pc = "write" /\ ~put'.new)
             => put'.row \in RowId /\ Exists(put'.row)
    BY <2>1 DEF IndInv, PastOnly, FreshKeys, TypeOK, PutRec
  <2> HIDE DEF q
  <2> QED BY <1>0, <1>2, <2>1, <2>2, <2>3, TouchedRow
<1>11. CASE EndPass(p)
  BY <1>1, <1>11, RestingPass DEF EndPass
<1>12. CASE RowVanished(p)
  BY <1>1, <1>12, RestingPass DEF RowVanished
<1>13. CASE RowFails(p)
  BY <1>2, <1>13, RestingPass DEF RowFails
<1>14. CASE Crash(p)
  BY <1>1, <1>14, RestingPass DEF Crash
<1> QED
  BY <1>3, <1>4, <1>5, <1>6, <1>7, <1>8, <1>9, <1>10, <1>11, <1>12, <1>13, <1>14
     DEF PassStep

\* So does every step of the operator and of the clock.
LEMMA OperatorInv ==
  ASSUME IndInv, TypeOK', PutStep \/ Operator \/ Tick
  PROVE  IndInv'
<1>0. /\ put \in PutRec /\ put.row \in RowId /\ put.scope \in Scopes
      /\ clock \in Nat /\ IdlePut.pc = "idle"
      /\ put.pc # "idle" => put.now = clock
  BY DEF IndInv, TypeOK, PutRec, IdlePut, PastOnly
<1>1. ASSUME UNCHANGED <<clock, rows, nextId, pass, sent>>,
             put'.pc # "idle" => put'.now = clock,
             put'.pc \in {"decide", "reset"} \/ (put'.pc = "write" /\ ~put'.new)
               => Exists(put'.row)
      PROVE  IndInv'
  <2>1. PastOnly' /\ FreshKeys'
    BY <1>1 DEF IndInv, PastOnly, FreshKeys, Exists, Busy
  <2>2. ClockSet' /\ BehindLastRun' /\ OneOwner' /\ OncePerRun'
    BY <1>1 DEF IndInv, ClockSet, DueAfterLastRun, BehindLastRun, OneOwner, OncePerRun,
                Exists, Busy
  <2> QED BY <2>1, <2>2 DEF IndInv
<1>2. ASSUME NEW s \in Scopes, PutStart(s)
      PROVE  IndInv'
  <2>1. /\ UNCHANGED <<clock, rows, nextId, pass, sent>>
        /\ put'.pc = "write" /\ put'.now = clock
        /\ put'.row = IF HasRow(s) THEN RowOf(s) ELSE 1
    BY <1>2 DEF PutStart, IdlePut
  <2>2. put'.new = ~HasRow(s)
    BY <1>2, Zenon DEF PutStart, IdlePut
  <2>3. HasRow(s) => Exists(RowOf(s))
    BY RowOfScope, ScheduleAssumption DEF Exists
  <2> QED BY <1>1, <2>1, <2>2, <2>3
<1>3. ASSUME NEW on, NEW every, PutInsert(on, every)
      PROVE  IndInv'
  <2>1. CASE HasRow(put.scope)
    BY <1>0, <1>1, <1>3, <2>1 DEF PutInsert
  <2>2. CASE ~HasRow(put.scope)
    <3> DEFINE q == [NewRow(put.scope) EXCEPT !.enabled = on, !.interval = every]
    <3>1. /\ nextId \in RowId /\ nextId' = nextId + 1
          /\ rows' = [rows EXCEPT ![nextId] = q]
          /\ UNCHANGED <<clock, pass, sent>>
      BY <1>3, <2>2 DEF PutInsert, RowId, IndInv, TypeOK
    <3>2. q.last = NULL /\ q.scope # NULL
      BY <1>0, ScheduleAssumption DEF NewRow, NoRow
    <3>3. put'.pc = "reset" /\ put'.row = nextId /\ put'.now = clock
      BY <1>0, <1>3, <2>2 DEF PutInsert, PutRec
    <3> HIDE DEF q
    <3> QED BY <3>1, <3>2, <3>3, InsertedRow
  <2> QED BY <2>1, <2>2
<1>4. ASSUME NEW on, NEW every, PutUpdate(on, every)
      PROVE  IndInv'
  <2> DEFINE q == [rows[put.row] EXCEPT !.enabled = on, !.interval = every]
  <2>1. Exists(put.row)
    BY <1>4 DEF PutUpdate, IndInv, FreshKeys
  <2>2. rows' = [rows EXCEPT ![put.row] = q] /\ UNCHANGED <<clock, nextId, pass, sent>>
    BY <1>4 DEF PutUpdate
  <2>3. /\ q.scope = rows[put.row].scope /\ q.last = rows[put.row].last
        /\ q.next = rows[put.row].next
    BY <1>0 DEF IndInv, TypeOK, Row
  <2>4. put'.pc = "decide" /\ put'.row = put.row /\ put'.now = clock
    BY <1>0, <1>4 DEF PutUpdate, PutRec
  <2> HIDE DEF q
  <2> QED BY <1>0, <2>1, <2>2, <2>3, <2>4, TouchedRow
<1>5. CASE PutDecide
  <2>1. put'.pc # "idle" => put'.pc = "reset" /\ put'.row = put.row /\ put'.now = put.now
    BY <1>0, <1>5 DEF PutDecide, PutRec
  <2>2. Exists(put.row) /\ put.now = clock
    BY <1>0, <1>5 DEF PutDecide, IndInv, FreshKeys
  <2> QED BY <1>1, <1>5, <2>1, <2>2 DEF PutDecide
<1>6. CASE PutReset
  <2>1. PICK due \in NextRunAfter(EffInterval(put.row), put.now) :
          rows' = [rows EXCEPT ![put.row].next = due]
    BY <1>6 DEF PutReset
  <2> DEFINE q == [rows[put.row] EXCEPT !.next = due]
  <2>2. Exists(put.row) /\ put.now = clock
    BY <1>0, <1>6 DEF PutReset, IndInv, FreshKeys
  <2>3. due \in Nat /\ due > clock
    BY <1>0, <2>1, <2>2, EffectiveTypes, NextRunAfterAhead DEF IndInv
  <2>4. rows' = [rows EXCEPT ![put.row] = q]
    BY <2>1
  <2>5. /\ q.scope = rows[put.row].scope /\ q.last = rows[put.row].last
        /\ q.next = due
    BY <1>0 DEF IndInv, TypeOK, Row
  <2>6. put'.pc = "idle" /\ UNCHANGED <<clock, nextId, pass, sent>>
    BY <1>0, <1>6 DEF PutReset
  <2> HIDE DEF q
  <2> QED BY <1>0, <2>2, <2>3, <2>4, <2>5, <2>6, TouchedRow
<1>7. ASSUME NEW t \in Targets, ResetTarget(t)
      PROVE  IndInv'
  <2>1. /\ RowOf(t) \in RowId /\ rows' = [rows EXCEPT ![RowOf(t)] = NoRow]
        /\ put.pc = "idle" /\ UNCHANGED <<clock, nextId, pass, put, sent>>
    BY <1>7, RowOfScope DEF ResetTarget
  <2>2. \A r \in RowId : rows'[r] = rows[r] \/ rows'[r] = NoRow
    BY <2>1 DEF IndInv, TypeOK
  <2>3. NoRow.scope = NULL /\ NoRow.last = NULL /\ NoRow.next = NULL
    BY DEF NoRow
  <2>4. PastOnly' /\ FreshKeys' /\ ClockSet' /\ OneOwner' /\ OncePerRun'
    BY <2>1, <2>2, <2>3
       DEF IndInv, PastOnly, FreshKeys, ClockSet, DueAfterLastRun, OneOwner, OncePerRun, Busy
  <2>5. BehindLastRun'
    <3>1. /\ \A x \in Passes : pass[x].row \in RowId
          /\ \A x \in sent : x[1] \in RowId
      BY DEF IndInv, TypeOK, PassRec
    <3> QED BY <2>1, <2>2, <2>3, <3>1 DEF IndInv, BehindLastRun, Exists, Busy
  <2> QED BY <2>4, <2>5 DEF IndInv
<1>8. ASSUME NEW t \in Targets, Deactivate(t) \/ Reactivate(t) \/ SoftDelete(t)
      PROVE  IndInv'
  <2>1. UNCHANGED <<clock, rows, nextId, pass, put, sent>>
    BY <1>8 DEF Deactivate, Reactivate, SoftDelete
  <2> QED BY <1>0, <1>1, <2>1 DEF IndInv, FreshKeys
<1>9. CASE Tick
  <2>1. clock' = clock + 1 /\ put.pc = "idle" /\ UNCHANGED <<rows, nextId, pass, put, sent>>
    BY <1>9 DEF Tick
  <2>2. PastOnly'
    <3>1. \A r \in RowId : rows[r].last # NULL => rows[r].last \in Nat
      BY DEF IndInv, TypeOK, Row
    <3>2. \A p \in Passes : pass[p].now \in Nat
      BY DEF IndInv, TypeOK, PassRec
    <3> QED BY <1>0, <2>1, <3>1, <3>2 DEF IndInv, PastOnly
  <2>3. FreshKeys' /\ ClockSet' /\ BehindLastRun' /\ OneOwner' /\ OncePerRun'
    BY <2>1 DEF IndInv, FreshKeys, ClockSet, DueAfterLastRun, BehindLastRun, OneOwner,
                OncePerRun, Exists, Busy
  <2> QED BY <2>2, <2>3 DEF IndInv
<1> QED
  BY <1>2, <1>3, <1>4, <1>5, <1>6, <1>7, <1>8, <1>9 DEF PutStep, Operator

\* The invariant is inductive.
LEMMA NextInv == IndInv /\ [Next]_vars => IndInv'
<1>1. IndInv /\ Next => IndInv'
  <2>1. IndInv /\ Next => TypeOK'
    BY NextType DEF IndInv
  <2> QED BY <2>1, PassInv, OperatorInv DEF Next
<1>2. IndInv /\ UNCHANGED vars => IndInv'
  BY DEF vars, IndInv, TypeOK, PastOnly, FreshKeys, ClockSet, DueAfterLastRun,
         BehindLastRun, OneOwner, OncePerRun, Exists, Busy
<1> QED BY <1>1, <1>2

\* The strengthening behind the lock: clocks are ahead of the last run, no
\* pass is ahead of the row it claimed, and one (row, now) has one owner.
THEOREM InductiveInvariant == Spec => []IndInv
BY InitInv, NextInv, PTL DEF Spec

\* claim_due_schedule is a lock: whatever passes overlap, crash or are
\* redelivered, one run of a schedule is dispatched at most once per target.
THEOREM OncePerRunHolds == Spec => []OncePerRun
<1>1. IndInv => OncePerRun
  BY DEF IndInv
<1> QED BY <1>1, InductiveInvariant, PTL

\* compute_next_run_at's invariant survives every writer of the clock.
THEOREM DueAfterLastRunHolds == Spec => []DueAfterLastRun
<1>1. IndInv => DueAfterLastRun
  BY DEF IndInv, ClockSet
<1> QED BY <1>1, InductiveInvariant, PTL

\* No step rewinds a row's last_run_at: only Claim writes it, and the row it
\* stamps is due at the pass's now, hence last ran before it.
LEMMA StepAdvances ==
  ASSUME IndInv, [Next]_vars, NEW r \in RowId,
         rows[r].last # NULL, rows'[r].last # NULL, rows'[r].last # rows[r].last
  PROVE  rows'[r].last > rows[r].last
<1>0. rows \in [RowId -> Row] /\ \A p \in Passes : pass[p] \in PassRec
  BY DEF IndInv, TypeOK
<1>1. ASSUME NEW q, NEW s \in RowId, rows' = [rows EXCEPT ![s] = q],
             q.last = rows[s].last \/ q.last = NULL
      PROVE  FALSE
  BY <1>0, <1>1
<1>2. NoRow.last = NULL /\ \A s : NewRow(s).last = NULL
  BY DEF NoRow, NewRow
<1>3. ~(rows' = rows)
  OBVIOUS
<1>4. ASSUME NEW p \in Passes, Claim(p)
      PROVE  rows'[r].last > rows[r].last
  <2>1. /\ pass[p].row \in RowId /\ pass[p].now \in Nat /\ DueAt(pass[p].row, pass[p].now)
        /\ rows' = [rows EXCEPT ![pass[p].row] =
                      [@ EXCEPT !.last = pass[p].now, !.next = pass[p].next, !.count = NULL]]
    BY <1>0, <1>3, <1>4 DEF Claim, Stamp, PassRec
  <2>2. r = pass[p].row /\ rows'[r].last = pass[p].now
    BY <1>0, <2>1 DEF Row
  <2>3. rows[r].last \in Nat /\ rows[r].last < pass[p].now
    BY <2>1, <2>2, DueMeansNewRun DEF IndInv
  <2> QED BY <2>1, <2>2, <2>3
<1>5. ASSUME NEW p \in Passes, EnsureDefault(p)
      PROVE  FALSE
  <2>1. PICK due : InsertDefault(due)
    BY <1>5 DEF EnsureDefault
  <2>2. /\ nextId \in RowId
        /\ rows' = [rows EXCEPT ![nextId] = [NewRow(WS) EXCEPT !.next = due]]
    BY <1>3, <2>1 DEF InsertDefault, IndInv, TypeOK, RowId
  <2>3. [NewRow(WS) EXCEPT !.next = due].last = NULL
    BY DEF NewRow, NoRow
  <2> QED BY <1>1, <2>2, <2>3
<1>6. ASSUME NEW p \in Passes, Report(p)
      PROVE  FALSE
  <2>1. /\ pass[p].row \in RowId
        /\ rows' = [rows EXCEPT ![pass[p].row] =
                      [rows[pass[p].row] EXCEPT !.count = pass[p].count]]
    BY <1>0, <1>6 DEF Report, PassRec
  <2>2. [rows[pass[p].row] EXCEPT !.count = pass[p].count].last = rows[pass[p].row].last
    BY <1>0, <2>1 DEF Row
  <2> QED BY <1>1, <2>1, <2>2
<1>7. ASSUME NEW on, NEW every, PutInsert(on, every)
      PROVE  FALSE
  <2>1. /\ nextId \in RowId
        /\ rows' = [rows EXCEPT ![nextId] =
                      [NewRow(put.scope) EXCEPT !.enabled = on, !.interval = every]]
    BY <1>3, <1>7 DEF PutInsert, IndInv, TypeOK, RowId
  <2>2. [NewRow(put.scope) EXCEPT !.enabled = on, !.interval = every].last = NULL
    BY DEF NewRow, NoRow
  <2> QED BY <1>1, <2>1, <2>2
<1>8. put.row \in RowId
  BY DEF IndInv, TypeOK, PutRec
<1>9. ASSUME NEW on, NEW every, PutUpdate(on, every)
      PROVE  FALSE
  <2>1. [rows[put.row] EXCEPT !.enabled = on, !.interval = every].last = rows[put.row].last
    BY <1>0, <1>8 DEF Row
  <2> QED BY <1>1, <1>8, <1>9, <2>1 DEF PutUpdate
<1>10. ASSUME PutReset
       PROVE  FALSE
  <2>1. PICK due : rows' = [rows EXCEPT ![put.row].next = due]
    BY <1>10 DEF PutReset
  <2>2. [rows[put.row] EXCEPT !.next = due].last = rows[put.row].last
    BY <1>0, <1>8 DEF Row
  <2> QED BY <1>1, <1>8, <2>1, <2>2
<1>11. ASSUME NEW t \in Targets, ResetTarget(t)
       PROVE  FALSE
  BY <1>1, <1>2, <1>11, RowOfScope DEF ResetTarget
<1>12. ASSUME NEW p \in Passes,
              \/ StartPass(p) \/ SelectDue(p) \/ PickRow(p) \/ Cover(p)
              \/ (\E t \in Targets : Dispatch(p, t))
              \/ EndPass(p) \/ RowVanished(p) \/ RowFails(p) \/ Crash(p)
       PROVE  rows' = rows
  BY <1>12 DEF StartPass, SelectDue, PickRow, Cover, Dispatch, EndPass, RowVanished,
               RowFails, Crash
<1>13. PutDecide \/ Tick \/ UNCHANGED vars => rows' = rows
  BY DEF PutDecide, Tick, vars
<1>14. (\E s \in Scopes : PutStart(s)) => rows' = rows
  BY DEF PutStart
<1>15. (\E t \in Targets : Deactivate(t) \/ Reactivate(t) \/ SoftDelete(t)) => rows' = rows
  BY DEF Deactivate, Reactivate, SoftDelete
<1> QED
  BY <1>3, <1>4, <1>5, <1>6, <1>7, <1>9, <1>10, <1>11, <1>12, <1>13, <1>14, <1>15
     DEF Next, PassStep, PutStep, Operator

\* claim_due_schedule never rewinds a row: in every behaviour last_run_at only
\* moves strictly forward, however old the now of the pass that writes it.
THEOREM RunsAdvanceHolds == Spec => RunsAdvance
<1>1. IndInv /\ [Next]_vars =>
        [\A r \in RowId :
           rows[r].last # NULL /\ rows'[r].last # NULL /\ rows'[r].last # rows[r].last
             => rows'[r].last > rows[r].last]_vars
  BY StepAdvances
<1> QED BY <1>1, InductiveInvariant, PTL DEF Spec, RunsAdvance

-----------------------------------------------------------------------------
(* The table and the ledger.                                               *)

\* Only a pass that fans out holds targets still to be dispatched.
QuietPasses == \A p \in Passes : pass[p].pc # "fanout" => pass[p].todo = {}

\* The clock keeps its bound.
InTime == clock <= MaxTime

LedgerInv == IndInv /\ QuietPasses /\ InTime

-----------------------------------------------------------------------------
(* One row per scope.                                                      *)

\* What a step does to the scopes of the table: nothing, the insertion of a
\* scope that had no row, or the deletion of a row.
LEMMA ScopeSteps ==
  ASSUME IndInv, [Next]_vars
  PROVE  \/ \A r \in RowId : rows'[r].scope = rows[r].scope
         \/ \E r \in RowId, s \in Scopes :
              /\ ~HasRow(s) /\ rows'[r].scope = s
              /\ \A x \in RowId : x # r => rows'[x].scope = rows[x].scope
         \/ \E r \in RowId :
              /\ rows'[r].scope = NULL
              /\ \A x \in RowId : x # r => rows'[x].scope = rows[x].scope
<1>0. /\ rows \in [RowId -> Row] /\ \A p \in Passes : pass[p] \in PassRec
      /\ put.row \in RowId /\ put.scope \in Scopes /\ WS \in Scopes
      /\ \A p \in Passes : pass[p].row \in RowId
  BY DEF IndInv, TypeOK, PutRec, PassRec, Scopes
<1>1. ASSUME NEW r \in RowId, NEW q, rows' = [rows EXCEPT ![r] = q],
             q.scope = rows[r].scope
      PROVE  \A x \in RowId : rows'[x].scope = rows[x].scope
  BY <1>0, <1>1
<1>2. ASSUME NEW p \in Passes, EnsureDefault(p), ~HasRow(WS)
      PROVE  \E r \in RowId, s \in Scopes :
               /\ ~HasRow(s) /\ rows'[r].scope = s
               /\ \A x \in RowId : x # r => rows'[x].scope = rows[x].scope
  <2>1. PICK due : InsertDefault(due)
    BY <1>2 DEF EnsureDefault
  <2>2. /\ nextId \in RowId
        /\ rows' = [rows EXCEPT ![nextId] = [NewRow(WS) EXCEPT !.next = due]]
    BY <1>2, <2>1 DEF InsertDefault, IndInv, TypeOK, RowId
  <2>3. [NewRow(WS) EXCEPT !.next = due].scope = WS
    BY DEF NewRow, NoRow
  <2>4. /\ rows'[nextId].scope = WS
        /\ \A x \in RowId : x # nextId => rows'[x].scope = rows[x].scope
    BY <1>0, <2>2, <2>3
  <2> QED BY <1>0, <1>2, <2>2, <2>4
<1>3. ASSUME NEW p \in Passes, EnsureDefault(p), HasRow(WS)
      PROVE  rows' = rows
  BY <1>3 DEF EnsureDefault, InsertDefault
<1>4. ASSUME NEW p \in Passes, Claim(p)
      PROVE  \A x \in RowId : rows'[x].scope = rows[x].scope
  <2>1. CASE DueAt(pass[p].row, pass[p].now)
    <3>1. [rows[pass[p].row] EXCEPT !.last = pass[p].now, !.next = pass[p].next,
                                    !.count = NULL].scope = rows[pass[p].row].scope
      BY <1>0 DEF Row
    <3> QED BY <1>0, <1>1, <1>4, <2>1, <3>1 DEF Claim, Stamp
  <2>2. CASE ~DueAt(pass[p].row, pass[p].now)
    BY <1>4, <2>2 DEF Claim
  <2> QED BY <2>1, <2>2
<1>5. ASSUME NEW p \in Passes, Report(p)
      PROVE  \A x \in RowId : rows'[x].scope = rows[x].scope
  <2>1. [rows[pass[p].row] EXCEPT !.count = pass[p].count].scope = rows[pass[p].row].scope
    BY <1>0 DEF Row
  <2> QED BY <1>0, <1>1, <1>5, <2>1 DEF Report
<1>6. ASSUME NEW on, NEW every, PutInsert(on, every), ~HasRow(put.scope)
      PROVE  \E r \in RowId, s \in Scopes :
               /\ ~HasRow(s) /\ rows'[r].scope = s
               /\ \A x \in RowId : x # r => rows'[x].scope = rows[x].scope
  <2>1. /\ nextId \in RowId
        /\ rows' = [rows EXCEPT ![nextId] =
                      [NewRow(put.scope) EXCEPT !.enabled = on, !.interval = every]]
    BY <1>6 DEF PutInsert, IndInv, TypeOK, RowId
  <2>2. [NewRow(put.scope) EXCEPT !.enabled = on, !.interval = every].scope = put.scope
    BY DEF NewRow, NoRow
  <2>3. /\ rows'[nextId].scope = put.scope
        /\ \A x \in RowId : x # nextId => rows'[x].scope = rows[x].scope
    BY <1>0, <2>1, <2>2
  <2> QED BY <1>0, <1>6, <2>1, <2>3
<1>7. ASSUME NEW on, NEW every, PutInsert(on, every), HasRow(put.scope)
      PROVE  rows' = rows
  BY <1>7 DEF PutInsert
<1>8. ASSUME NEW on, NEW every, PutUpdate(on, every)
      PROVE  \A x \in RowId : rows'[x].scope = rows[x].scope
  <2>1. [rows[put.row] EXCEPT !.enabled = on, !.interval = every].scope = rows[put.row].scope
    BY <1>0 DEF Row
  <2> QED BY <1>0, <1>1, <1>8, <2>1 DEF PutUpdate
<1>9. ASSUME PutReset
      PROVE  \A x \in RowId : rows'[x].scope = rows[x].scope
  <2>1. PICK due : rows' = [rows EXCEPT ![put.row].next = due]
    BY <1>9 DEF PutReset
  <2>2. [rows[put.row] EXCEPT !.next = due].scope = rows[put.row].scope
    BY <1>0 DEF Row
  <2> QED BY <1>0, <1>1, <2>1, <2>2
<1>10. ASSUME NEW t \in Targets, ResetTarget(t)
       PROVE  \E r \in RowId :
                /\ rows'[r].scope = NULL
                /\ \A x \in RowId : x # r => rows'[x].scope = rows[x].scope
  <2>1. RowOf(t) \in RowId /\ rows' = [rows EXCEPT ![RowOf(t)] = NoRow] /\ NoRow.scope = NULL
    BY <1>10, RowOfScope DEF ResetTarget, NoRow
  <2>2. /\ rows'[RowOf(t)].scope = NULL
        /\ \A x \in RowId : x # RowOf(t) => rows'[x].scope = rows[x].scope
    BY <1>0, <2>1
  <2> QED BY <2>1, <2>2
<1>11. ASSUME NEW p \in Passes,
              \/ StartPass(p) \/ SelectDue(p) \/ PickRow(p) \/ Cover(p)
              \/ (\E t \in Targets : Dispatch(p, t))
              \/ EndPass(p) \/ RowVanished(p) \/ RowFails(p) \/ Crash(p)
       PROVE  rows' = rows
  BY <1>11 DEF StartPass, SelectDue, PickRow, Cover, Dispatch, EndPass, RowVanished,
               RowFails, Crash
<1>12. PutDecide \/ Tick \/ UNCHANGED vars => rows' = rows
  BY DEF PutDecide, Tick, vars
<1>13. (\E s \in Scopes : PutStart(s)) => rows' = rows
  BY DEF PutStart
<1>14. (\E t \in Targets : Deactivate(t) \/ Reactivate(t) \/ SoftDelete(t)) => rows' = rows
  BY DEF Deactivate, Reactivate, SoftDelete
<1> QED
  BY <1>2, <1>3, <1>4, <1>5, <1>6, <1>7, <1>8, <1>9, <1>10, <1>11, <1>12, <1>13, <1>14
     DEF Next, PassStep, PutStep, Operator

\* The two partial unique indexes hold in the empty table and after each step.
LEMMA ScopeStepInv ==
  ASSUME IndInv, OneRowPerScope, [Next]_vars
  PROVE  OneRowPerScope'
<1>1. CASE \A r \in RowId : rows'[r].scope = rows[r].scope
  BY <1>1 DEF OneRowPerScope, Exists
<1>2. ASSUME NEW r \in RowId, NEW s \in Scopes, ~HasRow(s), rows'[r].scope = s,
             \A x \in RowId : x # r => rows'[x].scope = rows[x].scope
      PROVE  OneRowPerScope'
  BY <1>2 DEF OneRowPerScope, Exists, HasRow
<1>3. ASSUME NEW r \in RowId, rows'[r].scope = NULL,
             \A x \in RowId : x # r => rows'[x].scope = rows[x].scope
      PROVE  OneRowPerScope'
  BY <1>3 DEF OneRowPerScope, Exists
<1> QED BY <1>1, <1>2, <1>3, ScopeSteps

\* The unique indexes of scan_schedule are never relied on in vain: however
\* dispatchers and PUTs race to insert, a scope has at most one row.
THEOREM OneRowPerScopeHolds == Spec => []OneRowPerScope
<1>1. Init => OneRowPerScope
  BY DEF Init, OneRowPerScope, Exists, NoRow
<1>2. IndInv /\ OneRowPerScope /\ [Next]_vars => OneRowPerScope'
  BY ScopeStepInv
<1> QED BY <1>1, <1>2, InductiveInvariant, PTL DEF Spec

-----------------------------------------------------------------------------
(* The ledger's invariant.                                                 *)

\* No pass holds targets outside its fan-out, and the clock keeps its bound.
LEMMA LedgerInvStep == IndInv /\ QuietPasses /\ InTime /\ [Next]_vars => QuietPasses' /\ InTime'
<1> SUFFICES ASSUME IndInv, QuietPasses, InTime, [Next]_vars
             PROVE  QuietPasses' /\ InTime'
  OBVIOUS
<1>0. pass \in [Passes -> PassRec] /\ clock \in Nat
  BY DEF IndInv, TypeOK
<1>1. IdlePass.todo = {} /\ \A q : NextRow(q).todo = {}
  BY DEF NextRow, IdlePass
<1>2. ASSUME NEW p \in Passes, NEW q, pass' = [pass EXCEPT ![p] = q], clock' = clock,
             q.pc = "fanout" \/ q.todo = {}
      PROVE  QuietPasses' /\ InTime'
  BY <1>0, <1>2 DEF QuietPasses, InTime
<1>3. ASSUME NEW p \in Passes, PassStep(p) \/ RowFails(p) \/ Crash(p)
      PROVE  QuietPasses' /\ InTime'
  <2>0. pass[p] \in PassRec /\ (pass[p].pc # "fanout" => pass[p].todo = {})
    BY <1>0 DEF QuietPasses
  <2>1. CASE StartPass(p)
    <3> DEFINE q == [IdlePass EXCEPT !.pc = IF HasRow(WS) THEN "select" ELSE "insert",
                                     !.now = clock]
    <3>1. q.todo = {}
      BY DEF IdlePass
    <3> QED BY <1>2, <2>1, <3>1 DEF StartPass
  <2>2. CASE EnsureDefault(p)
    <3>1. [pass[p] EXCEPT !.pc = "select"].todo = {}
      BY <2>0, <2>2 DEF EnsureDefault, PassRec
    <3> QED BY <1>2, <2>2, <3>1 DEF EnsureDefault
  <2>3. CASE SelectDue(p)
    <3>1. [pass[p] EXCEPT !.pc = "loop", !.due = DueSchedules(pass[p].now)].todo = {}
      BY <2>0, <2>3 DEF SelectDue, PassRec
    <3> QED BY <1>2, <2>3, <3>1 DEF SelectDue
  <2>4. CASE PickRow(p)
    <3>1. PICK r \in pass[p].due : \E due \in NextRunAt(r, pass[p].now) :
            pass' = [pass EXCEPT ![p] =
                       [@ EXCEPT !.pc = "claim", !.due = pass[p].due \ {r}, !.row = r,
                                 !.scope = rows[r].scope, !.next = due]]
      BY <2>4 DEF PickRow
    <3>2. \A due : [pass[p] EXCEPT !.pc = "claim", !.due = pass[p].due \ {r}, !.row = r,
                                   !.scope = rows[r].scope, !.next = due].todo = {}
      BY <2>0, <2>4 DEF PickRow, PassRec
    <3> QED BY <1>2, <2>4, <3>1, <3>2 DEF PickRow
  <2>5. CASE Claim(p)
    <3>1. [pass[p] EXCEPT !.pc = "cover"].todo = {}
      BY <2>0, <2>5 DEF Claim, PassRec
    <3> QED BY <1>1, <1>2, <2>5, <3>1 DEF Claim
  <2>6. CASE Cover(p)
    <3>1. [pass[p] EXCEPT !.pc = "fanout", !.count = 0,
                          !.todo = CoveredBy(pass[p].scope)].pc = "fanout"
      BY <2>0 DEF PassRec
    <3> QED BY <1>2, <2>6, <3>1 DEF Cover
  <2>7. ASSUME NEW t \in Targets, Dispatch(p, t)
        PROVE  QuietPasses' /\ InTime'
    <3>1. /\ [pass[p] EXCEPT !.todo = pass[p].todo \ {t},
                             !.count = pass[p].count + 1].pc = "fanout"
          /\ [pass[p] EXCEPT !.todo = pass[p].todo \ {t}].pc = "fanout"
      BY <2>0, <2>7 DEF Dispatch, PassRec
    <3> QED BY <1>2, <2>7, <3>1 DEF Dispatch
  <2>8. CASE Report(p) \/ RowFails(p)
    BY <1>1, <1>2, <2>8 DEF Report, RowFails
  <2>9. CASE EndPass(p) \/ RowVanished(p) \/ Crash(p)
    BY <1>1, <1>2, <2>9 DEF EndPass, RowVanished, Crash
  <2> QED
    BY <1>3, <2>1, <2>2, <2>3, <2>4, <2>5, <2>6, <2>7, <2>8, <2>9 DEF PassStep
<1>4. CASE PutStep \/ Operator
  <2>1. UNCHANGED <<clock, pass>>
    BY <1>4 DEF PutStep, Operator, PutInsert, PutUpdate, PutDecide, PutReset, PutStart,
                ResetTarget, Deactivate, Reactivate, SoftDelete
  <2> QED BY <2>1 DEF QuietPasses, InTime
<1>5. CASE Tick
  BY <1>0, <1>5, ScheduleAssumption DEF Tick, QuietPasses, InTime
<1>6. CASE UNCHANGED vars
  BY <1>6 DEF vars, QuietPasses, InTime
<1> QED BY <1>3, <1>4, <1>5, <1>6 DEF Next

\* The ledger's invariant holds of every reachable state.
LEMMA LedgerInvariant == Spec => []LedgerInv
<1>1. Init => QuietPasses /\ InTime
  BY ScheduleAssumption DEF Init, QuietPasses, InTime, IdlePass
<1> QED BY <1>1, LedgerInvStep, InductiveInvariant, PTL DEF Spec, LedgerInv

-----------------------------------------------------------------------------
(* The dispatcher implements the ledger.                                   *)

\* What one pass still holds to be dispatched.
OwedBy(p) ==
  IF pass[p].pc = "cover" THEN {<<pass[p].row, pass[p].now, t>> : t \in Targets}
  ELSE {<<pass[p].row, pass[p].now, t>> : t \in pass[p].todo}

\* Owed is what the passes hold, pass by pass.
LEMMA OwedIsShared == Owed = UNION {OwedBy(p) : p \in Passes}
BY DEF Owed, OwedBy

\* A pass that neither covers nor fans out holds nothing.
LEMMA OwedWhenBusy ==
  ASSUME LedgerInv, NEW p \in Passes, NEW e \in OwedBy(p)
  PROVE  Busy(p) /\ e[1] = pass[p].row /\ e[2] = pass[p].now
<1>1. PICK t : e = <<pass[p].row, pass[p].now, t>>
  BY DEF OwedBy
<1>2. pass[p].pc = "cover" \/ pass[p].todo # {}
  BY DEF OwedBy
<1>3. Busy(p)
  BY <1>2 DEF Busy, LedgerInv, QuietPasses
<1> QED BY <1>1, <1>3

\* A step of one pass that gives some of what it held up is a Cancel.
LEMMA GivesUp ==
  ASSUME NEW p \in Passes, OwedBy(p)' \subseteq OwedBy(p),
         \A x \in Passes : x # p => pass'[x] = pass[x],
         \A r \in RowId : rows'[r].last = rows[r].last, UNCHANGED sent
  PROVE  Ledger!Cancel
<1>1. \A x \in Passes : x # p => OwedBy(x)' = OwedBy(x)
  BY DEF OwedBy
<1>2. Owed' = UNION {OwedBy(x)' : x \in Passes}
  BY OwedIsShared DEF Owed, OwedBy
<1>3. Owed' \subseteq Owed
  BY <1>1, <1>2, OwedIsShared
<1>4. [r \in RowId |-> rows[r].last]' = [r \in RowId |-> rows[r].last]
  OBVIOUS
<1> QED BY <1>3, <1>4 DEF Ledger!Cancel

\* A step of one pass after which it holds nothing is a Cancel.
LEMMA LetsGo ==
  ASSUME NEW p \in Passes, pass \in [Passes -> PassRec], NEW q,
         pass' = [pass EXCEPT ![p] = q], q.pc # "cover", q.todo = {},
         \A r \in RowId : rows'[r].last = rows[r].last, UNCHANGED sent
  PROVE  Ledger!Cancel
<1>1. pass'[p] = q /\ \A x \in Passes : x # p => pass'[x] = pass[x]
  OBVIOUS
<1>2. OwedBy(p)' = {}
  BY <1>1 DEF OwedBy
<1> QED BY <1>1, <1>2, GivesUp

\* The conditional UPDATE that wins begins a run later than the last one.
LEMMA ClaimBegins ==
  ASSUME LedgerInv, NEW p \in Passes, Claim(p), DueAt(pass[p].row, pass[p].now)
  PROVE  Ledger!BeginRun(pass[p].row, pass[p].now) /\ pass[p].row \in RowId
         /\ pass[p].now \in 0..MaxTime
<1> DEFINE r == pass[p].row
           n == pass[p].now
<1>0. /\ r \in RowId /\ n \in Nat /\ n <= clock /\ clock \in Nat /\ n \in 0..MaxTime
      /\ rows \in [RowId -> Row] /\ pass \in [Passes -> PassRec] /\ pass[p] \in PassRec
  <2>1. r \in RowId /\ n \in Nat /\ n <= clock /\ clock \in Nat /\ clock <= MaxTime
    BY DEF LedgerInv, InTime, IndInv, TypeOK, PassRec, PastOnly
  <2>2. n \in 0..MaxTime
    BY <2>1, ScheduleAssumption
  <2> QED BY <2>1, <2>2 DEF LedgerInv, IndInv, TypeOK
<1>1. rows[r].last = NULL \/ rows[r].last < n
  BY <1>0, DueMeansNewRun DEF LedgerInv, IndInv
<1>2. [x \in RowId |-> rows[x].last]' = [[x \in RowId |-> rows[x].last] EXCEPT ![r] = n]
  <2>1. /\ rows'[r] = [rows[r] EXCEPT !.last = n, !.next = pass[p].next, !.count = NULL]
        /\ \A x \in RowId : x # r => rows'[x] = rows[x]
    BY <1>0 DEF Claim, Stamp
  <2>2. rows'[r].last = n
    BY <1>0, <2>1 DEF Row
  <2> QED BY <1>0, <2>1, <2>2
<1>3. /\ pass'[p].pc = "cover" /\ pass'[p].row = r /\ pass'[p].now = n
      /\ \A x \in Passes : x # p => pass'[x] = pass[x]
      /\ pass[p].pc = "claim" /\ UNCHANGED sent
  BY <1>0 DEF Claim, PassRec
<1>4. OwedBy(p) = {}
  BY <1>3 DEF OwedBy, LedgerInv, QuietPasses
<1>5. OwedBy(p)' = {<<r, n, t>> : t \in Targets}
  BY <1>3 DEF OwedBy
<1>6. \A x \in Passes : x # p => OwedBy(x)' = OwedBy(x)
  BY <1>3 DEF OwedBy
<1>7. Owed' = UNION {OwedBy(x)' : x \in Passes}
  BY DEF Owed, OwedBy
<1>8. Owed' = Owed \cup {<<r, n, t>> : t \in Targets}
  <2> HIDE DEF r, n
  <2> QED BY <1>4, <1>5, <1>6, <1>7, OwedIsShared
<1>9. [x \in RowId |-> rows[x].last][r] = rows[r].last
  BY <1>0
<1> QED BY <1>0, <1>1, <1>2, <1>3, <1>8, <1>9 DEF Ledger!BeginRun

\* A dispatch hands out something owed by this pass alone.
LEMMA DispatchHandsOut ==
  ASSUME LedgerInv, NEW p \in Passes, NEW t \in Targets, Dispatch(p, t), sent' # sent
  PROVE  <<pass[p].row, pass[p].now, t>> \in Owed
         /\ Ledger!HandOut(<<pass[p].row, pass[p].now, t>>)
<1> DEFINE e == <<pass[p].row, pass[p].now, t>>
<1>0. pass \in [Passes -> PassRec] /\ pass[p] \in PassRec
  BY DEF LedgerInv, IndInv, TypeOK
<1>1. /\ pass[p].pc = "fanout" /\ t \in pass[p].todo /\ sent' = sent \cup {e}
      /\ UNCHANGED rows
  BY DEF Dispatch
<1>2. pass' = [pass EXCEPT ![p] = [pass[p] EXCEPT !.todo = pass[p].todo \ {t},
                                                  !.count = pass[p].count + 1]]
  BY DEF Dispatch
<1>3. /\ pass'[p].pc = "fanout" /\ pass'[p].todo = pass[p].todo \ {t}
      /\ pass'[p].row = pass[p].row /\ pass'[p].now = pass[p].now
  BY <1>0, <1>1, <1>2 DEF PassRec
<1>4. \A x \in Passes : x # p => pass'[x] = pass[x]
  BY <1>0, <1>2
<1>5. Busy(p)
  BY <1>1 DEF Busy
<1>6. e \in OwedBy(p) /\ OwedBy(p)' = OwedBy(p) \ {e}
  BY <1>1, <1>3 DEF OwedBy
<1>7. \A x \in Passes : x # p => OwedBy(x)' = OwedBy(x)
  BY <1>4 DEF OwedBy
<1>8. \A x \in Passes : x # p => e \notin OwedBy(x)
  <2> SUFFICES ASSUME NEW x \in Passes, x # p, e \in OwedBy(x) PROVE FALSE
    OBVIOUS
  <2>1. Busy(x) /\ e[1] = pass[x].row /\ e[2] = pass[x].now
    BY OwedWhenBusy
  <2> QED BY <1>5, <2>1 DEF LedgerInv, IndInv, OneOwner
<1>9. e \notin sent
  BY <1>1 DEF LedgerInv, IndInv, OncePerRun
<1>10. Owed' = UNION {OwedBy(x)' : x \in Passes}
  BY DEF Owed, OwedBy
<1>11. e \in Owed /\ Owed' = Owed \ {e}
  <2> HIDE DEF e
  <2> QED BY <1>6, <1>7, <1>8, <1>10, OwedIsShared
<1>12. [r \in RowId |-> rows[r].last]' = [r \in RowId |-> rows[r].last]
  BY <1>1
<1> QED BY <1>1, <1>9, <1>11, <1>12 DEF Ledger!HandOut

\* Every step of a dispatcher pass is a step of the ledger.
LEMMA PassImplements ==
  ASSUME LedgerInv, NEW p \in Passes, PassStep(p) \/ RowFails(p) \/ Crash(p)
  PROVE  Ledger!LedgerNext
<1>0. /\ pass \in [Passes -> PassRec] /\ pass[p] \in PassRec /\ rows \in [RowId -> Row]
      /\ pass[p].row \in RowId
      /\ pass[p].pc # "fanout" => pass[p].todo = {}
  BY DEF LedgerInv, IndInv, TypeOK, QuietPasses, PassRec
<1>1. /\ IdlePass.todo = {} /\ IdlePass.pc = "idle"
      /\ \A q : NextRow(q).todo = {} /\ NextRow(q).pc = "loop"
  BY DEF NextRow, IdlePass
<1> SUFFICES \/ Ledger!Cancel
             \/ \E e \in Owed : Ledger!HandOut(e)
             \/ \E s \in RowId, now \in 0..MaxTime : Ledger!BeginRun(s, now)
  BY DEF Ledger!LedgerNext
<1>2. CASE StartPass(p)
  <2> DEFINE q == [IdlePass EXCEPT !.pc = IF HasRow(WS) THEN "select" ELSE "insert",
                                   !.now = clock]
  <2>1. q.todo = {} /\ q.pc # "cover"
    BY DEF IdlePass
  <2>2. pass' = [pass EXCEPT ![p] = q] /\ rows' = rows /\ sent' = sent
    BY <1>2 DEF StartPass
  <2> HIDE DEF q
  <2> QED BY <1>0, <2>1, <2>2, LetsGo
<1>3. CASE EnsureDefault(p)
  <2> DEFINE q == [pass[p] EXCEPT !.pc = "select"]
  <2>1. q.todo = {} /\ q.pc # "cover"
    BY <1>0, <1>3 DEF EnsureDefault, PassRec
  <2>2. pass' = [pass EXCEPT ![p] = q] /\ sent' = sent
    BY <1>3 DEF EnsureDefault
  <2>3. \A r \in RowId : rows'[r].last = rows[r].last
    <3>1. PICK due : InsertDefault(due)
      BY <1>3 DEF EnsureDefault
    <3>2. [NewRow(WS) EXCEPT !.next = due].last = NULL
      BY DEF NewRow, NoRow
    <3>3. nextId \in RowId => rows[nextId].last = NULL
      BY DEF LedgerInv, IndInv, TypeOK, FreshKeys, NoRow
    <3> QED BY <1>0, <3>1, <3>2, <3>3 DEF InsertDefault
  <2> HIDE DEF q
  <2> QED BY <1>0, <2>1, <2>2, <2>3, LetsGo
<1>4. CASE SelectDue(p)
  <2> DEFINE q == [pass[p] EXCEPT !.pc = "loop", !.due = DueSchedules(pass[p].now)]
  <2>1. q.todo = {} /\ q.pc # "cover"
    BY <1>0, <1>4 DEF SelectDue, PassRec
  <2>2. pass' = [pass EXCEPT ![p] = q] /\ rows' = rows /\ sent' = sent
    BY <1>4 DEF SelectDue
  <2> HIDE DEF q
  <2> QED BY <1>0, <2>1, <2>2, LetsGo
<1>5. CASE PickRow(p)
  <2> DEFINE q(r, due) == [pass[p] EXCEPT !.pc = "claim", !.due = pass[p].due \ {r}, !.row = r,
                                          !.scope = rows[r].scope, !.next = due]
  <2>1. PICK r, due : pass' = [pass EXCEPT ![p] = q(r, due)]
    BY <1>5 DEF PickRow
  <2>2. q(r, due).todo = {} /\ q(r, due).pc # "cover"
    BY <1>0, <1>5 DEF PickRow, PassRec
  <2>3. rows' = rows /\ sent' = sent
    BY <1>5 DEF PickRow
  <2> HIDE DEF q
  <2> QED BY <1>0, <2>1, <2>2, <2>3, LetsGo
<1>6. CASE Claim(p)
  <2>1. CASE DueAt(pass[p].row, pass[p].now)
    BY <1>6, <2>1, ClaimBegins DEF Ledger!BeginRun
  <2>2. CASE ~DueAt(pass[p].row, pass[p].now)
    <3>1. pass' = [pass EXCEPT ![p] = NextRow(pass[p])] /\ rows' = rows /\ sent' = sent
      BY <1>6, <2>2 DEF Claim
    <3> QED BY <1>0, <1>1, <3>1, LetsGo
  <2> QED BY <2>1, <2>2
<1>7. CASE Cover(p)
  <2>1. /\ pass[p].pc = "cover" /\ pass'[p].pc = "fanout"
        /\ pass'[p].now = pass[p].now /\ pass'[p].row = pass[p].row
        /\ pass'[p].todo = CoveredBy(pass[p].scope)
        /\ \A x \in Passes : x # p => pass'[x] = pass[x]
        /\ UNCHANGED <<rows, sent>>
    BY <1>0, <1>7 DEF Cover, PassRec
  <2>2. CoveredBy(pass[p].scope) \subseteq Targets
    BY DEF CoveredBy
  <2>3. OwedBy(p)' \subseteq OwedBy(p)
    BY <2>1, <2>2 DEF OwedBy
  <2> QED BY <2>1, <2>3, GivesUp
<1>8. ASSUME NEW t \in Targets, Dispatch(p, t)
      PROVE  Ledger!Cancel \/ \E e \in Owed : Ledger!HandOut(e)
  <2>1. CASE sent' # sent
    BY <1>8, <2>1, DispatchHandsOut
  <2>2. CASE sent' = sent
    <3> DEFINE a == [pass[p] EXCEPT !.todo = pass[p].todo \ {t},
                                    !.count = pass[p].count + 1]
               b == [pass[p] EXCEPT !.todo = pass[p].todo \ {t}]
    <3>1. /\ pass[p].pc = "fanout" /\ UNCHANGED rows
          /\ pass' = [pass EXCEPT ![p] = a] \/ pass' = [pass EXCEPT ![p] = b]
      BY <1>8 DEF Dispatch
    <3>2. /\ a.pc = pass[p].pc /\ a.now = pass[p].now /\ a.row = pass[p].row
          /\ a.todo = pass[p].todo \ {t}
      BY <1>0 DEF PassRec
    <3>3. /\ b.pc = pass[p].pc /\ b.now = pass[p].now /\ b.row = pass[p].row
          /\ b.todo = pass[p].todo \ {t}
      BY <1>0 DEF PassRec
    <3> HIDE DEF a, b
    <3>4. /\ pass'[p] = a \/ pass'[p] = b
          /\ \A x \in Passes : x # p => pass'[x] = pass[x]
      BY <1>0, <3>1
    <3>5. OwedBy(p)' \subseteq OwedBy(p)
      BY <3>1, <3>2, <3>3, <3>4 DEF OwedBy
    <3> QED BY <2>2, <3>1, <3>4, <3>5, GivesUp
  <2> QED BY <2>1, <2>2
<1>9. CASE Report(p)
  <2>1. [rows[pass[p].row] EXCEPT !.count = pass[p].count].last = rows[pass[p].row].last
    BY <1>0 DEF Row
  <2>2. \A r \in RowId : rows'[r].last = rows[r].last
    BY <1>0, <1>9, <2>1 DEF Report
  <2>3. pass' = [pass EXCEPT ![p] = NextRow(pass[p])] /\ sent' = sent
    BY <1>9 DEF Report
  <2> QED BY <1>0, <1>1, <2>2, <2>3, LetsGo
<1>10. CASE RowFails(p)
  <2>1. pass' = [pass EXCEPT ![p] = NextRow(pass[p])] /\ rows' = rows /\ sent' = sent
    BY <1>10 DEF RowFails
  <2> QED BY <1>0, <1>1, <2>1, LetsGo
<1>11. CASE EndPass(p) \/ RowVanished(p) \/ Crash(p)
  <2>1. pass' = [pass EXCEPT ![p] = IdlePass] /\ rows' = rows /\ sent' = sent
    BY <1>11 DEF EndPass, RowVanished, Crash
  <2> QED BY <1>0, <1>1, <2>1, LetsGo
<1> QED
  BY <1>2, <1>3, <1>4, <1>5, <1>6, <1>7, <1>8, <1>9, <1>10, <1>11 DEF PassStep

\* Of the operator's requests the ledger sees the deletion of a row, which
\* forgets its last run; the others, and the clock, it does not see.
LEMMA OperatorImplements ==
  ASSUME LedgerInv, PutStep \/ Operator \/ Tick \/ UNCHANGED vars
  PROVE  [Ledger!LedgerNext]_(Ledger!ledgerVars)
<1>0. rows \in [RowId -> Row] /\ put.row \in RowId
  BY DEF LedgerInv, IndInv, TypeOK, PutRec
<1>1. ASSUME \A r \in RowId : rows'[r].last = rows[r].last, UNCHANGED <<pass, sent>>
      PROVE  UNCHANGED Ledger!ledgerVars
  <2>1. [r \in RowId |-> rows[r].last]' = [r \in RowId |-> rows[r].last]
    BY <1>1
  <2>2. Owed' = Owed
    BY <1>1 DEF Owed
  <2> QED BY <1>1, <2>1, <2>2 DEF Ledger!ledgerVars
<1>2. ASSUME NEW on, NEW every, PutInsert(on, every)
      PROVE  UNCHANGED Ledger!ledgerVars
  <2>1. [NewRow(put.scope) EXCEPT !.enabled = on, !.interval = every].last = NULL
    BY DEF NewRow, NoRow
  <2>2. nextId \in RowId => rows[nextId].last = NULL
    BY DEF LedgerInv, IndInv, TypeOK, FreshKeys, NoRow
  <2>3. \A r \in RowId : rows'[r].last = rows[r].last
    BY <1>0, <1>2, <2>1, <2>2 DEF PutInsert
  <2> QED BY <1>1, <1>2, <2>3 DEF PutInsert
<1>3. ASSUME NEW on, NEW every, PutUpdate(on, every)
      PROVE  UNCHANGED Ledger!ledgerVars
  <2>1. [rows[put.row] EXCEPT !.enabled = on, !.interval = every].last = rows[put.row].last
    BY <1>0 DEF Row
  <2>2. \A r \in RowId : rows'[r].last = rows[r].last
    BY <1>0, <1>3, <2>1 DEF PutUpdate
  <2> QED BY <1>1, <1>3, <2>2 DEF PutUpdate
<1>4. CASE PutReset
  <2>1. PICK due : rows' = [rows EXCEPT ![put.row].next = due]
    BY <1>4 DEF PutReset
  <2>2. [rows[put.row] EXCEPT !.next = due].last = rows[put.row].last
    BY <1>0 DEF Row
  <2>3. \A r \in RowId : rows'[r].last = rows[r].last
    BY <1>0, <2>1, <2>2
  <2> QED BY <1>1, <1>4, <2>3 DEF PutReset
<1>5. ASSUME NEW t \in Targets, ResetTarget(t)
      PROVE  Ledger!LedgerNext
  <2>1. /\ RowOf(t) \in RowId /\ rows' = [rows EXCEPT ![RowOf(t)] = NoRow]
        /\ NoRow.last = NULL /\ UNCHANGED <<pass, sent>>
    BY <1>5, RowOfScope DEF ResetTarget, NoRow
  <2>2. [r \in RowId |-> rows[r].last]'
          = [[r \in RowId |-> rows[r].last] EXCEPT ![RowOf(t)] = NULL]
    BY <1>0, <2>1
  <2>3. Owed' = Owed
    BY <2>1 DEF Owed
  <2>4. Ledger!Remove(RowOf(t))
    BY <2>1, <2>2, <2>3 DEF Ledger!Remove
  <2> QED BY <2>1, <2>4 DEF Ledger!LedgerNext, Ledger!Remove
<1>6. ASSUME \/ PutDecide \/ Tick \/ UNCHANGED vars
             \/ \E s \in Scopes : PutStart(s)
             \/ \E t \in Targets : Deactivate(t) \/ Reactivate(t) \/ SoftDelete(t)
      PROVE  UNCHANGED Ledger!ledgerVars
  <2>1. UNCHANGED <<rows, pass, sent>>
    BY <1>6 DEF PutDecide, Tick, vars, PutStart, Deactivate, Reactivate, SoftDelete
  <2> QED BY <1>1, <2>1
<1> QED BY <1>2, <1>3, <1>4, <1>5, <1>6 DEF PutStep, Operator

\* Seen from the table and from what is handed out, passes that overlap, hold
\* stale rows, die or run again are one sequence of runs: each begins once,
\* later than the last, and reaches a target at most once; a failure only
\* cancels what was not handed out.
THEOREM DispatcherImplementsLedger == Spec => ImplementsLedger
<1>1. Init => Ledger!LedgerInit
  <2> SUFFICES ASSUME Init PROVE Ledger!LedgerInit
    OBVIOUS
  <2>1. sent = {} /\ \A r \in RowId : rows[r].last = NULL
    BY DEF Init, NoRow
  <2>2. \A p \in Passes : pass[p].pc = "idle" /\ pass[p].todo = {}
    BY DEF Init, IdlePass
  <2>3. Owed = {}
    BY <2>2 DEF Owed
  <2> QED BY <2>1, <2>3 DEF Ledger!LedgerInit
<1>2. LedgerInv /\ [Next]_vars => [Ledger!LedgerNext]_(Ledger!ledgerVars)
  BY PassImplements, OperatorImplements DEF Next
<1> QED
  BY <1>1, <1>2, LedgerInvariant, PTL DEF Spec, ImplementsLedger, Ledger!LedgerSpec
=============================================================================
