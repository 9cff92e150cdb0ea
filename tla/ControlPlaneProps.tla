------------------------- MODULE ControlPlaneProps -------------------------
(***************************************************************************)
(* What must hold of the control plane.                                    *)
(***************************************************************************)
EXTENDS ControlPlane

\* Every row and every handler has its type.
TypeOK ==
    /\ workflow \in WorkflowRow
    /\ task \in [Tasks -> TaskRow]
    /\ attempt \in [Tasks -> [Ordinals -> AttemptRow]]
    /\ worker \in [Sessions -> WorkerStates]
    /\ proc \in [Handlers -> Proc]

LastOrdinal(t) == task[t].next_attempt_ordinal - 1

(***************************************************************************)
(* A task is RUNNING exactly while its latest attempt, and no other, is    *)
(* active.  The two rows are settled by two UPDATEs, and the internal      *)
(* settlements commit the first one even when the second matches no row    *)
(* (transactional_scope commits on an early return), so this depends on    *)
(* the second UPDATE never missing.                                        *)
(***************************************************************************)
ExclusiveOwnership ==
    \A t \in Tasks :
        /\ task[t].state = "RUNNING" =>
             \E o \in Ordinals : o = LastOrdinal(t) /\ attempt[t][o].state \in Active
        /\ \A o \in Ordinals :
             attempt[t][o].state \in Active =>
                 task[t].state = "RUNNING" /\ o = LastOrdinal(t)

(***************************************************************************)
(* The attempts of a task tell one story: ordinals are allocated without   *)
(* gaps, every attempt before the latest FAILED, and the outcome of the    *)
(* latest is the outcome of the task.  A late callback or a late sweep     *)
(* that settled a superseded attempt would break it.                       *)
(***************************************************************************)
OutcomesAgree ==
    \A t \in Tasks :
        /\ \A o \in Ordinals :
             /\ o > LastOrdinal(t) <=> attempt[t][o].state = "ABSENT"
             /\ o < LastOrdinal(t) => attempt[t][o].state = "FAILED"
        /\ \A o \in Ordinals : o = LastOrdinal(t) =>
             /\ task[t].state = "SUCCEEDED" <=> attempt[t][o].state = "SUCCEEDED"
             /\ task[t].state \in {"FAILED", "RETRY_WAIT"} => attempt[t][o].state = "FAILED"
             /\ attempt[t][o].state = "CANCELLED" => task[t].state = "CANCELLED"
        /\ task[t].state \in {"SUCCEEDED", "FAILED", "RETRY_WAIT"} => LastOrdinal(t) >= 1

(***************************************************************************)
(* No task gets more attempts than max_attempts, and a task that can still *)
(* be dispatched has an attempt left: the budget is checked when a retry   *)
(* is granted (next_attempt_ordinal <= max_attempts), never when the       *)
(* ordinal is allocated.                                                   *)
(***************************************************************************)
RetryBudget ==
    \A t \in Tasks :
        /\ LastOrdinal(t) <= MaxAttempts[t]
        /\ task[t].state \in Unstarted => BudgetRemains(t)

(***************************************************************************)
(* A task leaves PENDING towards execution only after all its direct       *)
(* dependencies SUCCEEDED, although readiness is evaluated on rows read    *)
(* several awaits before the commit.                                       *)
(***************************************************************************)
DependenciesFirst ==
    \A t \in Tasks :
        task[t].state \notin {"ABSENT", "PENDING", "CANCELLED"} =>
            \A d \in Deps[t] : task[d].state = "SUCCEEDED"

(***************************************************************************)
(* The verdict of the workflow matches its tasks: SUCCEEDED only when all  *)
(* succeeded, FAILED and CANCELLED only when every task is terminal and no *)
(* attempt is active, and a failing workflow has a failed task.            *)
(***************************************************************************)
VerdictMatchesTasks ==
    /\ workflow.state = "SUCCEEDED" => AllTasks({"SUCCEEDED"})
    /\ workflow.state \in Terminal =>
         AllTasks(Terminal) /\ \A t \in Tasks : ~HasActiveAttempt(t)
    /\ workflow.state \in {"FAILING", "FAILED"} => ~AllTasks(TaskStates \ {"FAILED"})

-----------------------------------------------------------------------------
\* A row in a terminal state keeps it (a settled attempt may still be given
\* a cancellation deadline by a drain that read it while active).
TerminalStep ==
    /\ workflow.state \in Terminal => workflow' = workflow
    /\ \A t \in Tasks :
         /\ task[t].state \in Terminal => task'[t] = task[t]
         /\ \A o \in Ordinals :
              attempt[t][o].state \in Terminal =>
                  attempt'[t][o].state = attempt[t][o].state

(***************************************************************************)
(* A terminal row never changes again, whatever is still in flight:        *)
(* duplicate and late callbacks, sweeps and drains that read it before.    *)
(***************************************************************************)
TerminalIsFinal == [][TerminalStep]_vars

(***************************************************************************)
(* The control plane implements the lifecycle it promises: every step is,  *)
(* on the current state, a step of TaskLifecycle or invisible to it.  In   *)
(* one point that lifecycle promises less than lld-06 section 9.1, which   *)
(* forbids promotions, claims and retries in a draining workflow: the      *)
(* lock-free check of the workflow state lets one commit after a direction *)
(* (UnstartedAreCancelled is violated by such a promotion).                *)
(***************************************************************************)
ActiveOwner(t) ==
    IF HasActiveAttempt(t)
    THEN attempt[t][CHOOSE o \in Ordinals : attempt[t][o].state \in Active].worker_session_id
    ELSE NoSession

Lifecycle == INSTANCE TaskLifecycle WITH
    wf <- workflow.state,
    state <- [t \in Tasks |-> task[t].state],
    used <- [t \in Tasks |-> LastOrdinal(t)],
    owner <- [t \in Tasks |-> ActiveOwner(t)]

ImplementsLifecycle == Lifecycle!Spec

-----------------------------------------------------------------------------
(***************************************************************************)
(* Liveness of the application as it is deployed.  A coroutine that has    *)
(* been admitted keeps being scheduled by the event loop until it returns; *)
(* nothing forces clients or workers to call, nor the scheduler's sweeps   *)
(* to run.                                                                 *)
(***************************************************************************)
DeployedSpec ==
    /\ Init
    /\ [][NextDeployed]_vars
    /\ \A h \in Handlers : WF_vars(Continue(h))

\* The same with workers that start in time and stay alive, but may let a
\* cancellation deadline pass.
PromptSpec ==
    /\ Init
    /\ [][ \/ \E h \in Handlers : Continue(h) \/ Request(h)
           \/ \E s \in Sessions : register_worker(s)
           \/ \E t \in Tasks, o \in Ordinals : CancellationDeadlinePasses(t, o) ]_vars
    /\ \A h \in Handlers : WF_vars(Continue(h))

(***************************************************************************)
(* No lost wakeup: a PENDING task whose dependencies have all SUCCEEDED is *)
(* released, although every success callback evaluates readiness on its    *)
(* own snapshot and the last two dependencies may finish together.         *)
(***************************************************************************)
ReadyTasksAreReleased ==
    \A t \in Tasks :
        (workflow.state = "RUNNING" /\ evaluate_task_readiness(t))
            ~> (task[t].state # "PENDING" \/ workflow.state # "RUNNING")

\* A RUNNING workflow whose tasks all SUCCEEDED gets its verdict.
SuccessIsSettled ==
    (workflow.state = "RUNNING" /\ AllTasks({"SUCCEEDED"}))
        ~> workflow.state # "RUNNING"

(***************************************************************************)
(* A draining workflow whose tasks are all terminal is closed: whichever   *)
(* transaction ends the last task, its handler drains again afterwards.    *)
(***************************************************************************)
DrainedIsClosed ==
    (workflow.state \in Draining /\ AllTasks(Terminal))
        ~> workflow.state \in Terminal

(***************************************************************************)
(* docs/design/lld-06 section 9.1: once a workflow drains, "Tasks in       *)
(* PENDING, RUNNABLE, or RETRY_WAIT are transitioned to CANCELLED".        *)
(***************************************************************************)
UnstartedAreCancelled ==
    \A t \in Tasks :
        (workflow.state \in Draining /\ task[t].state \in Unstarted)
            ~> task[t].state \notin Unstarted

(***************************************************************************)
(* docs/design/lld-04: on "RetryReadyDue" the engine commits RETRY_WAIT -> *)
(* RUNNABLE, with a sweeper that "detects overdue timers".                 *)
(***************************************************************************)
OverdueRetriesAreReleased ==
    \A t \in Tasks :
        (workflow.state = "RUNNING" /\ RetryIsDue(t))
            ~> (task[t].state # "RETRY_WAIT" \/ workflow.state # "RUNNING")

=============================================================================
