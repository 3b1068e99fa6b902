------------------------------ MODULE RunLedger ------------------------------
(***************************************************************************)
(* What the dispatcher of scan schedules promises, without passes, stale   *)
(* reads, crashes or redelivery: a run of a schedule begins once, later    *)
(* than the one before it, and is handed to a target at most once.  What   *)
(* may still be handed out is owed; failures only ever cancel it.          *)
(***************************************************************************)
EXTENDS Naturals

CONSTANTS
  Schedules,   \* their primary keys
  Recipients,  \* targets
  Times,       \* when a run may begin
  None         \* a schedule that has not run, or is gone

VARIABLES
  last,    \* when each schedule ran last
  owed,    \* <<schedule, run, target>> that may still be handed out
  handed   \* those that were

ledgerVars == <<last, owed, handed>>

LedgerInit ==
  /\ last = [s \in Schedules |-> None]
  /\ owed = {} /\ handed = {}

\* A run begins, and is owed to every target.
BeginRun(s, now) ==
  /\ last[s] = None \/ last[s] < now
  /\ last' = [last EXCEPT ![s] = now]
  /\ owed' = owed \cup {<<s, now, t>> : t \in Recipients}
  /\ UNCHANGED handed

\* What is owed reaches its target.
HandOut(e) ==
  /\ e \in owed /\ e \notin handed
  /\ handed' = handed \cup {e}
  /\ owed' = owed \ {e}
  /\ UNCHANGED last

\* Failures, crashes, and targets that do not want it: some of it is dropped.
Cancel ==
  /\ owed' \subseteq owed
  /\ UNCHANGED <<last, handed>>

\* The row is deleted; a run under way goes on.
Remove(s) ==
  /\ last' = [last EXCEPT ![s] = None]
  /\ UNCHANGED <<owed, handed>>

LedgerNext ==
  \/ Cancel
  \/ \E e \in owed : HandOut(e)
  \/ \E s \in Schedules, now \in Times : BeginRun(s, now)
  \/ \E s \in Schedules : Remove(s)

LedgerSpec == LedgerInit /\ [][LedgerNext]_ledgerVars
=============================================================================
