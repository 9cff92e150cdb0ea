------------------------------ MODULE RowLocks ------------------------------
(***************************************************************************)
(* The row locks the transactions of persistence/transactions.py take in   *)
(* PostgreSQL, in the order of their statements.  The rows of one workflow *)
(* execution are its workflow row and, per task, the task row and the row  *)
(* of the task's active attempt.                                           *)
(*                                                                         *)
(*   UPDATE of non-key columns      FOR NO KEY UPDATE on its row           *)
(*   SELECT ... with_for_update()   FOR UPDATE                             *)
(*   INSERT of a history entry      FOR KEY SHARE on the workflow row, by  *)
(*                                  its foreign key                        *)
(*                                                                         *)
(* Locks are kept until the transaction ends.  The key-share locks that    *)
(* the foreign keys of history_entries take on the task and attempt rows   *)
(* conflict with no lock taken there and are left out.  So are the         *)
(* transactions that cannot be part of a circle: the start of an execution *)
(* only inserts rows nobody else sees yet, and the UPDATE by which a drain *)
(* writes a cancellation deadline is alone in its transaction.             *)
(***************************************************************************)
EXTENDS Integers, Sequences

CONSTANTS
    Tasks,     \* tasks of the workflow
    Txns,      \* transactions that can be open at the same time
    Kinds      \* the kinds of transaction that run

\* attempt and task row, settled together by a callback or by a sweep
Settlements == {"start_ack", "success", "retry", "cancel_ack",
                "cancellation_deadline", "attempt_failure"}

\* the task row alone
TaskMoves == {"readiness", "retry_ready", "ownership", "drain_cancellation"}

WorkflowMoves == {"workflow_direction", "workflow_verdict"}

AllKinds == Settlements \cup TaskMoves \cup WorkflowMoves \cup {"definitive_failure"}

ASSUME LocksAssumption ==
    /\ Tasks # {}
    /\ Kinds \subseteq AllKinds

VARIABLE txn   \* txn[x]: kind and task of transaction x, and the locks it has

locksVars == <<txn>>

-----------------------------------------------------------------------------
Modes == {"KEY SHARE", "NO KEY UPDATE", "UPDATE"}

Conflicts(m, n) ==
    \/ "UPDATE" \in {m, n}
    \/ m = "NO KEY UPDATE" /\ n = "NO KEY UPDATE"

AttemptUpdate(t) == [row |-> <<"attempt", t>>, mode |-> "NO KEY UPDATE"]
TaskUpdate(t) == [row |-> <<"task", t>>, mode |-> "NO KEY UPDATE"]
Workflow(mode) == [row |-> <<"workflow">>, mode |-> mode]
HistoryInsert == Workflow("KEY SHARE")

\* Plausible error: the task row is updated before its attempt.
SettleTaskFirst(t) == <<TaskUpdate(t), AttemptUpdate(t), HistoryInsert>>

SettleDrained(t) == <<AttemptUpdate(t), TaskUpdate(t), HistoryInsert>>

SettleCallback(t) == <<AttemptUpdate(t), TaskUpdate(t), HistoryInsert>>

\* report_callback directs the workflow in the transaction that failed the
\* task, after the history entry of the failure was flushed.
SettleDefinitive(t) ==
    <<AttemptUpdate(t), TaskUpdate(t), HistoryInsert, Workflow("UPDATE")>>

Plan(kind, t) ==
    CASE kind = "start_ack" -> <<AttemptUpdate(t), HistoryInsert>>
      [] kind \in {"success", "retry", "cancel_ack"} -> SettleCallback(t)
      [] kind \in {"cancellation_deadline", "attempt_failure"} -> SettleDrained(t)
      [] kind \in TaskMoves -> <<TaskUpdate(t), HistoryInsert>>
      [] kind = "definitive_failure" -> SettleDefinitive(t)
      [] kind = "workflow_direction" -> <<Workflow("UPDATE"), HistoryInsert>>
      [] kind = "workflow_verdict" -> <<Workflow("NO KEY UPDATE"), HistoryInsert>>

NoTxn == [kind |-> "none"]

Open(x) == txn[x].kind # "none"

PlanOf(x) == Plan(txn[x].kind, txn[x].task)

Holds(x, row, mode) ==
    /\ Open(x)
    /\ \E k \in 1..txn[x].got : PlanOf(x)[k] = [row |-> row, mode |-> mode]

Wants(x) == PlanOf(x)[txn[x].got + 1]

Unfinished(x) == Open(x) /\ txn[x].got < Len(PlanOf(x))

WaitsFor(x, y) ==
    /\ x # y
    /\ Unfinished(x)
    /\ \E m \in Modes : Holds(y, Wants(x).row, m) /\ Conflicts(Wants(x).mode, m)

-----------------------------------------------------------------------------
LocksInit == txn = [x \in Txns |-> NoTxn]

Begin(x) ==
    /\ ~Open(x)
    /\ \E k \in Kinds, t \in Tasks :
         txn' = [txn EXCEPT ![x] = [kind |-> k, task |-> t, got |-> 0]]

Lock(x) ==
    /\ Unfinished(x)
    /\ \A y \in Txns : ~WaitsFor(x, y)
    /\ txn' = [txn EXCEPT ![x].got = @ + 1]

Commit(x) ==
    /\ Open(x)
    /\ ~Unfinished(x)
    /\ txn' = [txn EXCEPT ![x] = NoTxn]

\* A transaction whose predicates match no row ends early.
GiveUp(x) ==
    /\ Unfinished(x)
    /\ \A y \in Txns : ~WaitsFor(x, y)
    /\ txn' = [txn EXCEPT ![x] = NoTxn]

Circle(S) == S # {} /\ \A x \in S : \E y \in S : WaitsFor(x, y)

\* PostgreSQL aborts a transaction of a smallest circle of waiting ones.
DeadlockDetected(x) ==
    /\ \E S \in SUBSET Txns :
         /\ x \in S
         /\ Circle(S)
         /\ \A R \in SUBSET S : Circle(R) => R = S
    /\ txn' = [txn EXCEPT ![x] = NoTxn]

LocksNext ==
    \E x \in Txns :
        Begin(x) \/ Lock(x) \/ Commit(x) \/ GiveUp(x) \/ DeadlockDetected(x)

LocksSpec == LocksInit /\ [][LocksNext]_locksVars

-----------------------------------------------------------------------------
(***************************************************************************)
(* Transactions that wait for each other in a circle include the           *)
(* definitive failures of two tasks.  That circle exists: each failure     *)
(* holds the workflow row by its history entry and asks for it FOR UPDATE, *)
(* and PostgreSQL aborts one of two correct callbacks.  There is no other  *)
(* one, as docs/design/lld-02 section 3 ("Deadlock-Free Ordering") says.   *)
(***************************************************************************)
OnlyFailuresDeadlock ==
    \A S \in SUBSET Txns :
        Circle(S) =>
            \E x, y \in S :
                /\ txn[x].kind = "definitive_failure"
                /\ txn[y].kind = "definitive_failure"
                /\ txn[x].task # txn[y].task
=============================================================================
