---------------------------- MODULE ScanSchedules ----------------------------
(***************************************************************************)
(* The configurable scan scheduler: ScanSchedule rows, the beat dispatcher *)
(* that fires the due ones (tasks/schedule_tasks.py, core/scan_schedules), *)
(* and the operator who edits them (api/scan_schedules.py) and switches    *)
(* targets off (api/targets.py).                                           *)
(*                                                                         *)
(* One workspace and one scan type: rows of different workspaces or types  *)
(* share nothing but the dispatcher's loop.  Time is counted in dispatcher *)
(* ticks; an HTTP request ends within the tick it started in, a dispatcher *)
(* pass may last any number of ticks, and several passes may overlap.      *)
(***************************************************************************)
EXTENDS Naturals, FiniteSets

CONSTANTS
  Targets,          \* the workspace's targets
  Passes,           \* dispatcher passes that may be running at once
  Intervals,        \* the interval_hours an operator may set, in ticks
  ShippedEnabled,   \* SHIPPED_DEFAULTS[scan_type].enabled
  ShippedInterval,  \* SHIPPED_DEFAULTS[scan_type].interval_hours, in ticks
  MaxJitter,        \* the forward spread of _jittered_interval
  WS,               \* the scope of the workspace-default row
  NULL,             \* SQL NULL
  MaxTime,          \* bound on the clock
  MaxRows,          \* bound on the rows ever inserted
  MaxEdits,         \* bound on operator requests
  MaxFaults         \* bound on worker crashes and database errors

Scopes == Targets \cup {WS}

ASSUME ScheduleAssumption ==
  /\ WS \notin Targets
  /\ NULL \notin Scopes
  /\ NULL \notin Nat
  /\ NULL \notin BOOLEAN
  /\ Intervals \subseteq Nat \ {0}
  /\ ShippedInterval \in Nat \ {0}
  /\ ShippedEnabled \in BOOLEAN
  /\ MaxJitter \in Nat
  /\ MaxTime \in Nat
  /\ MaxRows \in Nat \ {0}
  /\ MaxEdits \in Nat
  /\ MaxFaults \in Nat

VARIABLES
  clock,    \* utcnow()
  rows,     \* the scan_schedule table, by primary key
  nextId,   \* its sequence
  target,   \* the lifecycle columns of the target table
  pass,     \* the dispatcher passes and their locals
  put,      \* the operator's PUT request and its locals
  edits,    \* operator requests so far
  faults,   \* crashes and database errors so far
  sent      \* history: <<row, the pass's now, target>> of every dispatch

vars == <<clock, rows, nextId, target, pass, put, edits, faults, sent>>

RowId == 1..MaxRows

Row == [scope    : Scopes \cup {NULL},
        enabled  : BOOLEAN \cup {NULL},
        interval : Intervals \cup {NULL},
        last     : Nat \cup {NULL},
        next     : Nat \cup {NULL},
        count    : Nat \cup {NULL}]

\* A primary key that holds no row (never inserted, or deleted).
NoRow == [scope |-> NULL, enabled |-> NULL, interval |-> NULL,
          last |-> NULL, next |-> NULL, count |-> NULL]

NewRow(s) == [NoRow EXCEPT !.scope = s]

IdlePass == [pc |-> "idle", now |-> 0, due |-> {}, row |-> 1, scope |-> WS,
             next |-> 0, todo |-> {}, count |-> 0]

\* Back at the top of the loop: the locals of the row just left are dead.
NextRow(q) == [IdlePass EXCEPT !.pc = "loop", !.now = q.now, !.due = q.due]

IdlePut == [pc |-> "idle", now |-> 0, scope |-> WS, row |-> 1, new |-> FALSE,
            wasOn |-> FALSE, wasEvery |-> 0]

-----------------------------------------------------------------------------
(* Resolution: shipped default -> workspace row -> target row, per field.  *)

Exists(r) == rows[r].scope # NULL

HasRow(s) == \E r \in RowId : rows[r].scope = s

RowOf(s) == CHOOSE r \in RowId : rows[r].scope = s

\* _overlay: a NULL field inherits, a set one wins, field by field.
Overlay(own, base) == IF own = NULL THEN base ELSE own

WsEnabled ==
  IF HasRow(WS) THEN Overlay(rows[RowOf(WS)].enabled, ShippedEnabled)
                ELSE ShippedEnabled

WsInterval ==
  IF HasRow(WS) THEN Overlay(rows[RowOf(WS)].interval, ShippedInterval)
                ELSE ShippedInterval

\* effective_for_row.
EffEnabled(r) ==
  Overlay(rows[r].enabled,
          IF rows[r].scope = WS THEN ShippedEnabled ELSE WsEnabled)

EffInterval(r) ==
  Overlay(rows[r].interval,
          IF rows[r].scope = WS THEN ShippedInterval ELSE WsInterval)

\* next_run_at IS NULL OR next_run_at <= now.
DueAt(r, now) == rows[r].next = NULL \/ rows[r].next <= now

\* Mutant: the jitter spreads runs around the interval, not after it.
CentredJitter(every, now) == {(now + every + j) - MaxJitter : j \in 0..(2 * MaxJitter)}

\* next_run_after(..., jitter=True): forward-only.
NextRunAfter(every, now) == {now + every + j : j \in 0..MaxJitter}

\* Mutant: an anchored due time equal to now still counts as ahead.
NextRunAtNow(r, now) ==
  LET anchored == rows[r].next + EffInterval(r)
  IN  IF rows[r].next # NULL /\ anchored >= now
      THEN {anchored}
      ELSE NextRunAfter(EffInterval(r), now)

\* compute_next_run_at: anchored to the stored due time while that is ahead
\* of now, a fresh jittered interval otherwise.
NextRunAt(r, now) ==
  LET anchored == rows[r].next + EffInterval(r)
  IN  IF rows[r].next # NULL /\ anchored > now
      THEN {anchored}
      ELSE NextRunAfter(EffInterval(r), now)

\* is_dispatchable_target / scan_refusal_reason.
Dispatchable(t) == ~target[t].deleted /\ ~target[t].deactivated

\* Mutant: a workspace row covers its own scope.
CoversItself(s) == {t \in Scopes : t = s}

\* targets_covered_by.
CoveredBy(s) ==
  {t \in Targets : /\ Dispatchable(t)
                   /\ IF s = WS THEN ~HasRow(t) ELSE t = s}

-----------------------------------------------------------------------------
(* The beat dispatcher: dispatch_due_scan_schedules.                       *)

\* Mutant: no unique index behind the insert.
InsertUnchecked(due) ==
  /\ nextId <= MaxRows
  /\ rows' = [rows EXCEPT ![nextId] = [NewRow(WS) EXCEPT !.next = due]]
  /\ nextId' = nextId + 1

\* The insert of ensure_workspace_default_rows.  The partial unique index
\* turns a lost race into an IntegrityError and a rollback.
InsertDefault(due) ==
  IF HasRow(WS)
  THEN UNCHANGED <<rows, nextId>>
  ELSE /\ nextId <= MaxRows
       /\ rows' = [rows EXCEPT ![nextId] = [NewRow(WS) EXCEPT !.next = due]]
       /\ nextId' = nextId + 1

\* The conditional UPDATE of claim_due_schedule on a row that is due.
Stamp(r, now, due) ==
  rows' = [rows EXCEPT ![r] = [@ EXCEPT !.last = now, !.next = due, !.count = NULL]]

\* A tick reaches a worker: now = utcnow(), and the existence check of
\* ensure_workspace_default_rows.
StartPass(p) ==
  /\ pass[p].pc = "idle"
  /\ pass' = [pass EXCEPT ![p] =
                [IdlePass EXCEPT !.pc = IF HasRow(WS) THEN "select" ELSE "insert",
                                 !.now = clock]]
  /\ UNCHANGED <<clock, rows, nextId, target, put, edits, faults, sent>>

EnsureDefault(p) ==
  /\ pass[p].pc = "insert"
  /\ \E due \in NextRunAfter(ShippedInterval, pass[p].now) : InsertDefault(due)
  /\ pass' = [pass EXCEPT ![p].pc = "select"]
  /\ UNCHANGED <<clock, target, put, edits, faults, sent>>

\* Mutant: a row's own enabled column, inheritance ignored.
OwnEnabledDue(now) == {r \in RowId : Exists(r) /\ DueAt(r, now) /\ rows[r].enabled = TRUE}

\* due_schedules: the rows both due and effectively enabled.
DueSchedules(now) == {r \in RowId : Exists(r) /\ DueAt(r, now) /\ EffEnabled(r)}

\* The whole list is materialised here, once.
SelectDue(p) ==
  /\ pass[p].pc = "select"
  /\ pass' = [pass EXCEPT ![p] = [@ EXCEPT !.pc = "loop", !.due = DueSchedules(pass[p].now)]]
  /\ UNCHANGED <<clock, rows, nextId, target, put, edits, faults, sent>>

\* The loop reaches the next row, ordered by id, and claim_due_schedule
\* computes its next due time from what it reads of it.
PickRow(p) ==
  /\ pass[p].pc = "loop"
  /\ \E r \in pass[p].due :
       /\ \A s \in pass[p].due : r <= s
       /\ Exists(r)
       /\ \E due \in NextRunAt(r, pass[p].now) :
            pass' = [pass EXCEPT ![p] =
                       [@ EXCEPT !.pc = "claim", !.due = pass[p].due \ {r}, !.row = r,
                                 !.scope = rows[r].scope, !.next = due]]
  /\ UNCHANGED <<clock, rows, nextId, target, put, edits, faults, sent>>

\* Mutant: an unconditional UPDATE.
ClaimBlind(p) ==
  /\ pass[p].pc = "claim"
  /\ Exists(pass[p].row)
  /\ Stamp(pass[p].row, pass[p].now, pass[p].next)
  /\ pass' = [pass EXCEPT ![p].pc = "cover"]
  /\ UNCHANGED <<clock, nextId, target, put, edits, faults, sent>>

\* claim_due_schedule's UPDATE ... WHERE, and its rowcount.
Claim(p) ==
  /\ pass[p].pc = "claim"
  /\ Exists(pass[p].row)
  /\ IF DueAt(pass[p].row, pass[p].now)
     THEN /\ Stamp(pass[p].row, pass[p].now, pass[p].next)
          /\ pass' = [pass EXCEPT ![p].pc = "cover"]
     ELSE /\ pass' = [pass EXCEPT ![p] = NextRow(@)]
          /\ UNCHANGED rows
  /\ UNCHANGED <<clock, nextId, target, put, edits, faults, sent>>

Cover(p) ==
  /\ pass[p].pc = "cover"
  /\ pass' = [pass EXCEPT ![p] = [@ EXCEPT !.pc = "fanout", !.count = 0,
                                           !.todo = CoveredBy(pass[p].scope)]]
  /\ UNCHANGED <<clock, rows, nextId, target, put, edits, faults, sent>>

\* _dispatch_for_target: queue_full_scan / queue_api_scan re-check the target;
\* refusing, having no tool to run and raising all dispatch nothing.  A row
\* deleted meanwhile is noticed once a commit has expired it.
Dispatch(p, t) ==
  /\ pass[p].pc = "fanout"
  /\ t \in pass[p].todo
  /\ Exists(pass[p].row) \/ pass[p].count = 0
  /\ \/ /\ Dispatchable(t)
        /\ sent' = sent \cup {<<pass[p].row, pass[p].now, t>>}
        /\ pass' = [pass EXCEPT ![p] = [@ EXCEPT !.todo = pass[p].todo \ {t},
                                                 !.count = pass[p].count + 1]]
     \/ /\ pass' = [pass EXCEPT ![p] = [@ EXCEPT !.todo = pass[p].todo \ {t}]]
        /\ UNCHANGED sent
  /\ UNCHANGED <<clock, rows, nextId, target, put, edits, faults>>

\* row.last_dispatched_count = dispatched; session.commit().
Report(p) ==
  /\ pass[p].pc = "fanout"
  /\ pass[p].todo = {}
  /\ Exists(pass[p].row)
  /\ rows' = [rows EXCEPT ![pass[p].row].count = pass[p].count]
  /\ pass' = [pass EXCEPT ![p] = NextRow(@)]
  /\ UNCHANGED <<clock, nextId, target, put, edits, faults, sent>>

EndPass(p) ==
  /\ pass[p].pc = "loop"
  /\ pass[p].due = {}
  /\ pass' = [pass EXCEPT ![p] = IdlePass]
  /\ UNCHANGED <<clock, rows, nextId, target, put, edits, faults, sent>>

\* The row was deleted under the pass: reading an attribute of it raises, and
\* so does the handler's own row.id, which ends the whole pass.
RowVanished(p) ==
  /\ \/ /\ pass[p].pc = "loop"
        /\ \E r \in pass[p].due : ~Exists(r) /\ \A s \in pass[p].due : r <= s
     \/ pass[p].pc \in {"claim", "fanout"} /\ ~Exists(pass[p].row)
  /\ pass' = [pass EXCEPT ![p] = IdlePass]
  /\ UNCHANGED <<clock, rows, nextId, target, put, edits, faults, sent>>

\* Any other exception while handling a row: log, roll back, next row.
RowFails(p) ==
  /\ faults < MaxFaults
  /\ pass[p].pc \in {"claim", "cover", "fanout"}
  /\ faults' = faults + 1
  /\ pass' = [pass EXCEPT ![p] = NextRow(@)]
  /\ UNCHANGED <<clock, rows, nextId, target, put, edits, sent>>

\* The worker dies.  task_acks_late and task_reject_on_worker_lost redeliver
\* the task, which starts again from the top.
Crash(p) ==
  /\ faults < MaxFaults
  /\ pass[p].pc # "idle"
  /\ faults' = faults + 1
  /\ pass' = [pass EXCEPT ![p] = IdlePass]
  /\ UNCHANGED <<clock, rows, nextId, target, put, edits, sent>>

PassStep(p) ==
  \/ StartPass(p) \/ EnsureDefault(p) \/ SelectDue(p) \/ PickRow(p)
  \/ Claim(p) \/ Cover(p) \/ (\E t \in Targets : Dispatch(p, t))
  \/ Report(p) \/ EndPass(p) \/ RowVanished(p)

-----------------------------------------------------------------------------
(* The operator: upsert_workspace_schedule, upsert_target_schedule (both   *)
(* through _apply), reset_target_schedule and the target lifecycle routes. *)

\* One more operator request, within the bound.
Request == edits < MaxEdits /\ edits' = edits + 1

\* The route looks the row up and _apply reads the clock.
PutStart(s) ==
  /\ Request
  /\ put.pc = "idle"
  /\ put' = [IdlePut EXCEPT !.pc = "write", !.now = clock, !.scope = s,
                            !.new = ~HasRow(s),
                            !.row = IF HasRow(s) THEN RowOf(s) ELSE 1]
  /\ HasRow(s) \/ nextId < MaxRows     \* bound; one id is left for WS
  /\ UNCHANGED <<clock, rows, nextId, target, pass, faults, sent>>

\* _apply's first commit, of a row it inserts: next_run_at is still NULL.
\* Losing the insert to the dispatcher violates the unique index (a 500).
PutInsert(on, every) ==
  /\ put.pc = "write" /\ put.new
  /\ IF HasRow(put.scope)
     THEN put' = IdlePut /\ UNCHANGED <<rows, nextId>>
     ELSE /\ nextId <= MaxRows
          /\ rows' = [rows EXCEPT ![nextId] =
                        [NewRow(put.scope) EXCEPT !.enabled = on, !.interval = every]]
          /\ nextId' = nextId + 1
          /\ put' = [put EXCEPT !.pc = "reset", !.row = nextId]
  /\ UNCHANGED <<clock, target, pass, edits, faults, sent>>

\* _apply's first commit, of a row that exists; before is read first.  A
\* field absent from the payload keeps its value.
PutUpdate(on, every) ==
  /\ put.pc = "write" /\ ~put.new
  /\ put' = [put EXCEPT !.pc = "decide", !.wasOn = EffEnabled(put.row),
                        !.wasEvery = EffInterval(put.row)]
  /\ rows' = [rows EXCEPT ![put.row] = [@ EXCEPT !.enabled = on, !.interval = every]]
  /\ UNCHANGED <<clock, nextId, target, pass, edits, faults, sent>>

\* interval_changed or resumed_while_overdue.
PutDecide ==
  /\ put.pc = "decide"
  /\ put' = IF \/ put.wasEvery # EffInterval(put.row)
               \/ EffEnabled(put.row) /\ ~put.wasOn /\ DueAt(put.row, put.now)
            THEN [put EXCEPT !.pc = "reset"]
            ELSE IdlePut
  /\ UNCHANGED <<clock, rows, nextId, target, pass, edits, faults, sent>>

\* _apply's second commit.
PutReset ==
  /\ put.pc = "reset"
  /\ \E due \in NextRunAfter(EffInterval(put.row), put.now) :
       rows' = [rows EXCEPT ![put.row].next = due]
  /\ put' = IdlePut
  /\ UNCHANGED <<clock, nextId, target, pass, edits, faults, sent>>

ResetTarget(t) ==
  /\ Request
  /\ put.pc = "idle"
  /\ HasRow(t)
  /\ rows' = [rows EXCEPT ![RowOf(t)] = NoRow]
  /\ UNCHANGED <<clock, nextId, target, pass, put, faults, sent>>

Deactivate(t) ==
  /\ Request
  /\ ~target[t].deleted /\ ~target[t].deactivated
  /\ target' = [target EXCEPT ![t].deactivated = TRUE]
  /\ UNCHANGED <<clock, rows, nextId, pass, put, faults, sent>>

Reactivate(t) ==
  /\ Request
  /\ ~target[t].deleted /\ target[t].deactivated
  /\ target' = [target EXCEPT ![t].deactivated = FALSE]
  /\ UNCHANGED <<clock, rows, nextId, pass, put, faults, sent>>

SoftDelete(t) ==
  /\ Request
  /\ ~target[t].deleted
  /\ target' = [target EXCEPT ![t].deleted = TRUE]
  /\ UNCHANGED <<clock, rows, nextId, pass, put, faults, sent>>

PutStep ==
  \/ \E on \in BOOLEAN \cup {NULL}, every \in Intervals \cup {NULL} :
       PutInsert(on, every) \/ PutUpdate(on, every)
  \/ PutDecide
  \/ PutReset

Operator ==
  \/ \E s \in Scopes : PutStart(s)
  \/ \E t \in Targets : ResetTarget(t) \/ Deactivate(t) \/ Reactivate(t) \/ SoftDelete(t)

Tick ==
  /\ clock < MaxTime
  /\ put.pc = "idle"
  /\ clock' = clock + 1
  /\ UNCHANGED <<rows, nextId, target, pass, put, edits, faults, sent>>

-----------------------------------------------------------------------------
Init ==
  /\ clock = 0
  /\ rows = [r \in RowId |-> NoRow]
  /\ nextId = 1
  /\ target = [t \in Targets |-> [deactivated |-> FALSE, deleted |-> FALSE]]
  /\ pass = [p \in Passes |-> IdlePass]
  /\ put = IdlePut
  /\ edits = 0
  /\ faults = 0
  /\ sent = {}

Next ==
  \/ \E p \in Passes : PassStep(p) \/ RowFails(p) \/ Crash(p)
  \/ PutStep
  \/ Operator
  \/ Tick

Spec == Init /\ [][Next]_vars

\* Beat keeps ticking and a worker that took a pass goes on with it; a request
\* that started ends.  Nothing obliges operators, crashes or the clock.
Fairness ==
  /\ \A p \in Passes : WF_vars(PassStep(p))
  /\ WF_vars(PutStep)

FairSpec == Spec /\ Fairness

-----------------------------------------------------------------------------
(* Properties.                                                             *)

PassRec == [pc    : {"idle", "insert", "select", "loop", "claim", "cover", "fanout"},
            now   : Nat,
            due   : SUBSET RowId,
            row   : RowId,
            scope : Scopes,
            next  : Nat,
            todo  : SUBSET Targets,
            count : Nat]

PutRec == [pc       : {"idle", "write", "decide", "reset"},
           now      : Nat,
           scope    : Scopes,
           row      : RowId,
           new      : BOOLEAN,
           wasOn    : BOOLEAN,
           wasEvery : Nat]

\* Every variable holds a value of its type.
TypeOK ==
  /\ clock \in Nat
  /\ rows \in [RowId -> Row]
  /\ nextId \in 1..(MaxRows + 1)
  /\ target \in [Targets -> [deactivated : BOOLEAN, deleted : BOOLEAN]]
  /\ pass \in [Passes -> PassRec]
  /\ put \in PutRec
  /\ edits \in Nat
  /\ faults \in Nat
  /\ sent \subseteq (RowId \X Nat \X Targets)

\* compute_next_run_at's promise seen from the table, whoever wrote the clock
\* last (a pass with an old now, or a PUT): a row that ran is due again only
\* strictly after that run.  It is what makes the conditional UPDATE a lock.
DueAfterLastRun ==
  \A r \in RowId :
    rows[r].last # NULL /\ rows[r].next # NULL => rows[r].next > rows[r].last

\* dispatch_due_scan_schedules: overlapping passes, a redelivered pass and a
\* pass slower than the interval never dispatch one run of a schedule to one
\* target twice (claim first, then fan out).
OncePerRun ==
  \A p \in Passes :
    pass[p].pc \in {"cover", "fanout"} =>
      \A t \in (IF pass[p].pc = "fanout" THEN pass[p].todo ELSE Targets) :
        <<pass[p].row, pass[p].now, t>> \notin sent

\* The two unique indexes of scan_schedule, under concurrent dispatchers and
\* PUTs: a second row for one scope would scan its targets twice per cycle.
OneRowPerScope ==
  \A r, s \in RowId : Exists(r) /\ rows[r].scope = rows[s].scope => r = s

\* claim_due_schedule: every claim moves last_run_at strictly forward, so a
\* pass that read the row long ago never rewinds it.
RunsAdvance ==
  [][\A r \in RowId :
       rows[r].last # NULL /\ rows'[r].last # NULL /\ rows'[r].last # rows[r].last
         => rows'[r].last > rows[r].last]_vars

\* What the passes still hold to be dispatched.
Owed ==
  UNION {IF pass[p].pc = "cover" THEN {<<pass[p].row, pass[p].now, t>> : t \in Targets}
         ELSE {<<pass[p].row, pass[p].now, t>> : t \in pass[p].todo} : p \in Passes}

Ledger == INSTANCE RunLedger
            WITH Schedules <- RowId, Recipients <- Targets, Times <- 0..MaxTime, None <- NULL,
                 last <- [r \in RowId |-> rows[r].last], owed <- Owed, handed <- sent

\* The dispatcher implements the ledger of runs: seen from the table and from
\* what is handed out, passes that overlap, hold stale rows, die or run again
\* are one sequence of runs, each begun once and handed to a target at most
\* once, and a failure only cancels what was not handed out.
ImplementsLedger == Ledger!LedgerSpec

Overdue(r) == Exists(r) /\ EffEnabled(r) /\ DueAt(r, clock)

\* A schedule that is due is fired (or paused, reset or deleted), whatever
\* crashed in between: a lost pass loses at most the cycles it had claimed.
DueIsServed == \A r \in RowId : Overdue(r) ~> ~Overdue(r)
=============================================================================
