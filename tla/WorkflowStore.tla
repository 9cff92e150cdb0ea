--------------------------- MODULE WorkflowStore ---------------------------
(***************************************************************************)
(* The durable rows of one workflow execution and the transactions of      *)
(* persistence/transactions.py that move them.                             *)
(*                                                                         *)
(* PostgreSQL runs at READ COMMITTED.  A conditional UPDATE locks its row  *)
(* and re-evaluates its WHERE clause on the newest committed version, so   *)
(* the UPDATEs of one transaction take effect together, at its commit:     *)
(* each commit_* operator below is that atomic part.  The SELECTs that     *)
(* precede the UPDATEs take no lock; the callers (module ControlPlane)     *)
(* perform them in an earlier step.                                        *)
(*                                                                         *)
(* A commit_* operator describes every outcome of the transaction: when    *)
(* the predicates match no row the rows stay as they are.                  *)
(***************************************************************************)
EXTENDS Integers, FiniteSets

CONSTANTS
    Tasks,          \* task_definition_ids of the registered definition
    Deps,           \* Deps[t]: the direct dependencies of t
    MaxAttempts,    \* MaxAttempts[t]: task_executions.max_attempts
    AttemptLimit,   \* the admission limit on max_attempts (definition/validator.py)
    Sessions,       \* worker session ids
    NoSession

ASSUME StoreAssumption ==
    /\ IsFiniteSet(Tasks)
    /\ Tasks # {}
    /\ AttemptLimit \in Nat \ {0}
    /\ Deps \in [Tasks -> SUBSET Tasks]
    /\ MaxAttempts \in [Tasks -> 1..AttemptLimit]
    /\ NoSession \notin Sessions

VARIABLES
    workflow,   \* the workflow_executions row
    task,       \* task[t]: the task_executions row of t
    attempt     \* attempt[t][o]: the execution_attempts row with ordinal o

rows == <<workflow, task, attempt>>

Ordinals == 1..AttemptLimit

(***************************************************************************)
(* Row types.  "ABSENT" stands for a row that is not there yet.  The       *)
(* INITIALIZING state of the schema is missing on purpose: start_execution *)
(* creates, populates and starts the workflow in one transaction, so that  *)
(* state is never committed.  A timestamp column is abstracted to its      *)
(* relation with the clock.                                                *)
(***************************************************************************)
Draining == {"FAILING", "CANCELLING"}

WorkflowStates ==
    {"ABSENT", "RUNNING", "SUCCEEDED", "FAILED", "CANCELLED"} \cup Draining

Unstarted == {"PENDING", "RUNNABLE", "RETRY_WAIT"}

Terminal == {"SUCCEEDED", "FAILED", "CANCELLED"}

TaskStates == {"ABSENT", "RUNNING"} \cup Unstarted \cup Terminal

Active == {"CLAIMED", "RUNNING"}

AttemptStates == {"ABSENT"} \cup Active \cup Terminal

Timers == {"none", "pending", "due"}

WorkflowRow == [state : WorkflowStates, revision : Nat]

TaskRow == [state : TaskStates,
            revision : Nat,
            next_attempt_ordinal : Nat,
            retry_ready_at : Timers]

AttemptRow == [state : AttemptStates,
               revision : Nat,
               worker_session_id : Sessions \cup {NoSession},
               start_deadline : Timers,
               cancellation_deadline : Timers]

NoAttempt == [state |-> "ABSENT",
              revision |-> 0,
              worker_session_id |-> NoSession,
              start_deadline |-> "none",
              cancellation_deadline |-> "none"]

StoreInit ==
    /\ workflow = [state |-> "ABSENT", revision |-> 0]
    /\ task = [t \in Tasks |-> [state |-> "ABSENT",
                                revision |-> 0,
                                next_attempt_ordinal |-> 1,
                                retry_ready_at |-> "none"]]
    /\ attempt = [t \in Tasks |-> [o \in Ordinals |-> NoAttempt]]

(***************************************************************************)
(* A transaction names the rows it expects by an item: the task, the       *)
(* attempt ordinal and the revisions read before the transaction.          *)
(***************************************************************************)
TaskIs(i, states) ==
    /\ task[i.task].state \in states
    /\ task[i.task].revision = i.trev

AttemptIs(i, states) ==
    /\ attempt[i.task][i.ordinal].state \in states
    /\ attempt[i.task][i.ordinal].revision = i.arev

HasActiveAttempt(t) == \E o \in Ordinals : attempt[t][o].state \in Active

\* Plausible error: one retry too many.
BudgetOffByOne(t) == task[t].next_attempt_ordinal <= MaxAttempts[t] + 1

BudgetRemains(t) == task[t].next_attempt_ordinal <= MaxAttempts[t]

AllTasks(states) == \A t \in Tasks : task[t].state \in states

\* UPDATE ... SET state, retry_ready_at_utc, revision = revision + 1
TaskTo(t, state, timer) ==
    [task EXCEPT ![t].state = state,
                 ![t].revision = @ + 1,
                 ![t].retry_ready_at = timer]

AttemptTo(i, state) ==
    [attempt EXCEPT ![i.task][i.ordinal].state = state,
                    ![i.task][i.ordinal].revision = @ + 1]

WorkflowTo(state) == [state |-> state, revision |-> workflow.revision + 1]

-----------------------------------------------------------------------------
(***************************************************************************)
(* Creation: commit_workflow_creation (revision 1), commit_task_population *)
(* and commit_initialization_complete (revision 2) are savepoints of the   *)
(* one transaction of start_execution.                                     *)
(***************************************************************************)
commit_initialization ==
    /\ workflow' = [state |-> "RUNNING", revision |-> 2]
    /\ task' = [t \in Tasks |-> [state |-> "PENDING",
                                 revision |-> 1,
                                 next_attempt_ordinal |-> 1,
                                 retry_ready_at |-> "none"]]
    /\ UNCHANGED attempt

(***************************************************************************)
(* Scheduling transactions.                                                *)
(***************************************************************************)
commit_task_readiness(i) ==
    /\ task' = IF TaskIs(i, {"PENDING"})
               THEN TaskTo(i.task, "RUNNABLE", "none")
               ELSE task
    /\ UNCHANGED <<workflow, attempt>>

commit_retry_ready(i) ==
    /\ task' = IF TaskIs(i, {"RETRY_WAIT"}) /\ task[i.task].retry_ready_at = "due"
               THEN TaskTo(i.task, "RUNNABLE", "none")
               ELSE task
    /\ UNCHANGED <<workflow, attempt>>

ClaimedBy(s) == [state |-> "CLAIMED",
                 revision |-> 1,
                 worker_session_id |-> s,
                 start_deadline |-> "pending",
                 cancellation_deadline |-> "none"]

\* A second active attempt breaks uq_single_active_attempt_per_task: the
\* INSERT fails and the transaction is rolled back.
commit_attempt_ownership(i) ==
    LET t == i.task
        o == task[t].next_attempt_ordinal
    IN  /\ IF TaskIs(i, {"RUNNABLE"}) /\ ~HasActiveAttempt(t)
           THEN /\ task' = [task EXCEPT ![t].state = "RUNNING",
                                        ![t].revision = @ + 1,
                                        ![t].next_attempt_ordinal = @ + 1]
                /\ attempt' = [attempt EXCEPT ![t][o] = ClaimedBy(i.who)]
           ELSE UNCHANGED <<task, attempt>>
        /\ UNCHANGED workflow

(***************************************************************************)
(* Worker transactions.  Start does not look at the workflow; success and  *)
(* definitive failure do not either.  The callers of the settlements raise *)
(* when the outcome is not COMMITTED, which rolls both UPDATEs back.       *)
(***************************************************************************)
commit_worker_execution_start(i) ==
    /\ attempt' = IF AttemptIs(i, {"CLAIMED"})
                  THEN AttemptTo(i, "RUNNING")
                  ELSE attempt
    /\ UNCHANGED <<workflow, task>>

SuccessMatches(i) == AttemptIs(i, {"RUNNING"}) /\ TaskIs(i, {"RUNNING"})

commit_worker_task_success(i) ==
    /\ attempt' = AttemptTo(i, "SUCCEEDED")
    /\ task' = TaskTo(i.task, "SUCCEEDED", "none")
    /\ UNCHANGED workflow

ActiveMatches(i) == AttemptIs(i, Active) /\ TaskIs(i, {"RUNNING"})

RetryMatches(i) == ActiveMatches(i) /\ BudgetRemains(i.task)

\* Plausible error: the task's new state is written to the attempt as well.
RetryStateOnAttempt(i) ==
    /\ attempt' = AttemptTo(i, "RETRY_WAIT")
    /\ task' = TaskTo(i.task, "RETRY_WAIT", "pending")
    /\ UNCHANGED workflow

commit_worker_failure_with_retry(i) ==
    /\ attempt' = AttemptTo(i, "FAILED")
    /\ task' = TaskTo(i.task, "RETRY_WAIT", "pending")
    /\ UNCHANGED workflow

\* report_callback directs the workflow to FAILING in the same transaction.
commit_worker_definitive_failure(i) ==
    /\ attempt' = AttemptTo(i, "FAILED")
    /\ task' = TaskTo(i.task, "FAILED", "none")
    /\ workflow' = IF workflow.state = "RUNNING" THEN WorkflowTo("FAILING")
                                                 ELSE workflow

CancelAckMatches(i) == workflow.state \in Draining /\ ActiveMatches(i)

commit_worker_cancellation_ack(i) ==
    /\ attempt' = AttemptTo(i, "CANCELLED")
    /\ task' = TaskTo(i.task, "CANCELLED", "none")
    /\ UNCHANGED workflow

(***************************************************************************)
(* Internal settlements.  They run as top-level transactions whose early   *)
(* return after the first UPDATE commits it: when the attempt matches and  *)
(* the task does not, the attempt alone is settled.                        *)
(***************************************************************************)
commit_internal_cancellation_deadline(i) ==
    /\ IF /\ workflow.state \in Draining
          /\ AttemptIs(i, Active)
          /\ attempt[i.task][i.ordinal].cancellation_deadline = "due"
       THEN /\ attempt' = AttemptTo(i, "CANCELLED")
            /\ task' = IF TaskIs(i, {"RUNNING"})
                       THEN TaskTo(i.task, "CANCELLED", "none")
                       ELSE task
       ELSE UNCHANGED <<task, attempt>>
    /\ UNCHANGED workflow

\* Plausible error: the loss of a session settles its attempts by session
\* alone, whatever happened to them since the sweep read them.
LossBySessionOnly(i) ==
    LET a == attempt[i.task][i.ordinal]
    IN  \/ /\ i.op = "START_DEADLINE_EXPIRED"
           /\ AttemptIs(i, {"CLAIMED"})
           /\ a.start_deadline = "due"
        \/ /\ i.op = "WORKER_LOSS"
           /\ a.worker_session_id = i.who

\* The WHERE clause of the attempt UPDATE depends on the cause.
CauseMatches(i) ==
    LET a == attempt[i.task][i.ordinal]
    IN  \/ /\ i.op = "START_DEADLINE_EXPIRED"
           /\ AttemptIs(i, {"CLAIMED"})
           /\ a.start_deadline = "due"
        \/ /\ i.op = "WORKER_LOSS"
           /\ AttemptIs(i, Active)
           /\ a.worker_session_id = i.who

\* Plausible error: no early return when the attempt UPDATE matched no row.
RetriesUnsettled(i, running) ==
    TaskIs(i, {"RUNNING"}) /\ running /\ BudgetRemains(i.task)

\* running: what the unlocked SELECT of the workflow state returned
RetriesTask(i, running) ==
    /\ CauseMatches(i)
    /\ TaskIs(i, {"RUNNING"})
    /\ running /\ BudgetRemains(i.task)

FailsTask(i, running) ==
    /\ CauseMatches(i)
    /\ TaskIs(i, {"RUNNING"})
    /\ ~(running /\ BudgetRemains(i.task))

commit_internal_attempt_failure(i, running) ==
    /\ attempt' = IF CauseMatches(i) THEN AttemptTo(i, "FAILED") ELSE attempt
    /\ task' = CASE RetriesTask(i, running) -> TaskTo(i.task, "RETRY_WAIT", "pending")
                 [] FailsTask(i, running) -> TaskTo(i.task, "FAILED", "none")
                 [] OTHER -> task
    /\ UNCHANGED workflow

(***************************************************************************)
(* Workflow direction (SELECT ... FOR UPDATE) and drain.                   *)
(***************************************************************************)
\* Plausible error: the state read FOR UPDATE is not looked at.
DirectUnchecked ==
    /\ workflow' = WorkflowTo("FAILING")
    /\ UNCHANGED <<task, attempt>>

\* Plausible error: failure takes precedence over an earlier cancellation.
FailureOverridesCancel ==
    /\ workflow' = IF workflow.state \in {"RUNNING", "CANCELLING"}
                   THEN WorkflowTo("FAILING")
                   ELSE workflow
    /\ UNCHANGED <<task, attempt>>

commit_workflow_failure_direction ==
    /\ workflow' = IF workflow.state = "RUNNING" THEN WorkflowTo("FAILING")
                                                 ELSE workflow
    /\ UNCHANGED <<task, attempt>>

commit_workflow_cancellation_direction ==
    /\ workflow' = IF workflow.state = "RUNNING" THEN WorkflowTo("CANCELLING")
                                                 ELSE workflow
    /\ UNCHANGED <<task, attempt>>

commit_drain_task_cancellation(i) ==
    /\ task' = IF workflow.state \in Draining /\ TaskIs(i, Unstarted)
               THEN TaskTo(i.task, "CANCELLED", "none")
               ELSE task
    /\ UNCHANGED <<workflow, attempt>>

\* The UPDATE of drain_workflow that materialises the cancellation deadline
\* has no predicate but the attempt id and does not bump the revision.
set_cancellation_deadline(i) ==
    /\ attempt' = [attempt EXCEPT
                     ![i.task][i.ordinal].cancellation_deadline = "pending"]
    /\ UNCHANGED <<workflow, task>>

(***************************************************************************)
(* Terminalisation.                                                        *)
(***************************************************************************)
\* Plausible error: the revision before initialization is expected.
SuccessAtOldRevision(wrev) ==
    /\ workflow' = IF /\ workflow.state = "RUNNING"
                      /\ workflow.revision = wrev - 1
                      /\ AllTasks({"SUCCEEDED"})
                   THEN WorkflowTo("SUCCEEDED")
                   ELSE workflow
    /\ UNCHANGED <<task, attempt>>

commit_workflow_success(wrev) ==
    /\ workflow' = IF /\ workflow.state = "RUNNING"
                      /\ workflow.revision = wrev
                      /\ AllTasks({"SUCCEEDED"})
                   THEN WorkflowTo("SUCCEEDED")
                   ELSE workflow
    /\ UNCHANGED <<task, attempt>>

commit_workflow_failure ==
    /\ workflow' = IF workflow.state = "FAILING" /\ AllTasks(Terminal)
                   THEN WorkflowTo("FAILED")
                   ELSE workflow
    /\ UNCHANGED <<task, attempt>>

\* Plausible error: only tasks that never started hold the verdict back.
CancelBesideRunning ==
    /\ workflow' = IF workflow.state = "CANCELLING" /\ AllTasks(TaskStates \ Unstarted)
                   THEN WorkflowTo("CANCELLED")
                   ELSE workflow
    /\ UNCHANGED <<task, attempt>>

commit_workflow_cancellation ==
    /\ workflow' = IF workflow.state = "CANCELLING" /\ AllTasks(Terminal)
                   THEN WorkflowTo("CANCELLED")
                   ELSE workflow
    /\ UNCHANGED <<task, attempt>>
=============================================================================
