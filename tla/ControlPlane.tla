---------------------------- MODULE ControlPlane ----------------------------
(***************************************************************************)
(* The control plane of NexusFlow over the rows of WorkflowStore: the HTTP *)
(* routes for executions and workers, the ExecutionScheduler they call and *)
(* the liveness part of the WorkerRegistry.                                *)
(*                                                                         *)
(* A handler is one coroutine serving one request (or one call of a        *)
(* scheduler entry point).  It yields at every await, so handlers          *)
(* interleave between any two database statements.  A handler keeps what   *)
(* it read: row revisions, and the fact that an unlocked SELECT saw the    *)
(* workflow RUNNING.  Two consecutive reads share a step only where no     *)
(* write between them could be told apart (README, "Atomicity").           *)
(***************************************************************************)
EXTENDS WorkflowStore

CONSTANT Handlers   \* coroutines that can be in flight at the same time

ASSUME HandlersAssumption == Handlers # {}

VARIABLES
    worker,   \* worker[s]: registry view of session s
    proc      \* proc[h]: where handler h is and what it has read

vars == <<workflow, task, attempt, worker, proc>>

-----------------------------------------------------------------------------
(***************************************************************************)
(* Handler state.                                                          *)
(***************************************************************************)
WorkerStates == {"unknown", "live", "lost"}

\* Control points at which a handler holds the rows of one attempt.
Settling == {"start", "success", "retry_check", "retry", "fail", "cancel_ack",
             "expire", "sweep_running", "sweep_draining"}

PCs == {"idle", "advance", "promote", "promote_commit", "dispatch", "claim",
        "succeed", "drain", "cancel", "notify", "direct"} \cup Settling

Ops == {"none", "retry_ready", "readiness", "expire", "mark",
        "START_DEADLINE_EXPIRED", "WORKER_LOSS"}

Item == [op : Ops,
         task : Tasks,
         ordinal : Nat,
         trev : Nat,
         arev : Nat,
         who : Sessions \cup {NoSession}]

NoItem == [op |-> "none"]

Proc == [pc : PCs,
         todo : SUBSET Item,
         item : Item \cup {NoItem},
         wrev : Nat,
         elapsed : SUBSET (Tasks \X Ordinals)]

Idle == [pc |-> "idle", todo |-> {}, item |-> NoItem, wrev |-> 0, elapsed |-> {}]

TaskItem(op, t) ==
    [op |-> op, task |-> t, ordinal |-> 0,
     trev |-> task[t].revision, arev |-> 0, who |-> NoSession]

AttemptItem(op, t, o) ==
    [op |-> op, task |-> t, ordinal |-> o,
     trev |-> task[t].revision, arev |-> attempt[t][o].revision,
     who |-> attempt[t][o].worker_session_id]

Become(h, p) == proc' = [proc EXCEPT ![h] = p]

Goto(h, pc) == Become(h, [Idle EXCEPT !.pc = pc])

\* Leave item i of the loop; the next control point is pc.
DoneWith(h, i, pc) ==
    Become(h, [proc[h] EXCEPT !.pc = pc, !.todo = @ \ {i}, !.item = NoItem])

\* Take item i of the loop and hold it (as j) at control point pc.
Hold(h, i, j, pc) ==
    Become(h, [proc[h] EXCEPT !.pc = pc, !.todo = @ \ {i}, !.item = j])

Begin(h, item, pc) ==
    /\ proc[h].pc = "idle"
    /\ Become(h, [Idle EXCEPT !.pc = pc, !.item = item])

At(h, pc) == proc[h].pc = pc

Init ==
    /\ StoreInit
    /\ worker = [s \in Sessions |-> "unknown"]
    /\ proc = [h \in Handlers |-> Idle]

-----------------------------------------------------------------------------
(***************************************************************************)
(* advance_workflow: promote what is due or ready, then dispatch.          *)
(***************************************************************************)
RetryIsDue(t) == task[t].state = "RETRY_WAIT" /\ task[t].retry_ready_at = "due"

\* Plausible error: a dependency counts once it is over.
ReadyAfterAnyOutcome(t) ==
    /\ task[t].state = "PENDING"
    /\ \A d \in Deps[t] : task[d].state \in Terminal

\* evaluate_task_readiness, on the task rows just read
evaluate_task_readiness(t) ==
    /\ task[t].state = "PENDING"
    /\ \A d \in Deps[t] : task[d].state = "SUCCEEDED"

Promotions ==
    {TaskItem("retry_ready", t) : t \in {u \in Tasks : RetryIsDue(u)}}
    \cup
    {TaskItem("readiness", t) : t \in {u \in Tasks : evaluate_task_readiness(u)}}

AdvanceRead(h) ==
    /\ At(h, "advance")
    /\ CASE workflow.state \in Draining -> Goto(h, "drain")
         [] workflow.state = "RUNNING" /\ AllTasks({"SUCCEEDED"}) ->
              Become(h, [Idle EXCEPT !.pc = "succeed", !.wrev = workflow.revision])
         [] workflow.state = "RUNNING" /\ ~AllTasks({"SUCCEEDED"}) ->
              Become(h, [Idle EXCEPT !.pc = "promote", !.todo = Promotions])
         [] OTHER -> Goto(h, "idle")
    /\ UNCHANGED <<rows, worker>>

\* _try_succeed_workflow
SucceedCommit(h) ==
    /\ At(h, "succeed")
    /\ commit_workflow_success(proc[h].wrev)
    /\ Goto(h, "idle")
    /\ UNCHANGED worker

\* The unlocked SELECT of commit_retry_ready and commit_task_readiness.
\* Overdue retries are promoted before pending tasks are evaluated.
PromoteCheck(h) ==
    /\ At(h, "promote")
    /\ \E i \in proc[h].todo :
         /\ i.op = "readiness" => \A j \in proc[h].todo : j.op = "readiness"
         /\ IF workflow.state = "RUNNING"
            THEN Hold(h, i, i, "promote_commit")
            ELSE DoneWith(h, i, "promote")
    /\ UNCHANGED <<rows, worker>>

PromoteCommit(h) ==
    /\ At(h, "promote_commit")
    /\ LET i == proc[h].item
       IN  /\ IF i.op = "retry_ready" THEN commit_retry_ready(i)
                                      ELSE commit_task_readiness(i)
           /\ DoneWith(h, i, "promote")
    /\ UNCHANGED worker

\* _dispatch_runnable_tasks reads the RUNNABLE rows afresh.
DispatchRead(h) ==
    /\ At(h, "promote")
    /\ proc[h].todo = {}
    /\ Become(h, [Idle EXCEPT
                    !.pc = "dispatch",
                    !.todo = {TaskItem("none", t) :
                                t \in {u \in Tasks : task[u].state = "RUNNABLE"}}])
    /\ UNCHANGED <<rows, worker>>

\* A worker is chosen, then commit_attempt_ownership checks without a lock
\* that the workflow is RUNNING and that the task has no active attempt.
\* find_eligible_worker_for_activity may find none: a live session need not
\* accept new work nor advertise the activity type.
DispatchCheck(h) ==
    /\ At(h, "dispatch")
    /\ \E i \in proc[h].todo :
         \/ DoneWith(h, i, "dispatch")
         \/ \E s \in Sessions :
              /\ worker[s] = "live"
              /\ workflow.state = "RUNNING"
              /\ ~HasActiveAttempt(i.task)
              /\ Hold(h, i, [i EXCEPT !.who = s], "claim")
    /\ UNCHANGED <<rows, worker>>

ClaimCommit(h) ==
    /\ At(h, "claim")
    /\ commit_attempt_ownership(proc[h].item)
    /\ DoneWith(h, proc[h].item, "dispatch")
    /\ UNCHANGED worker

DispatchDone(h) ==
    /\ At(h, "dispatch")
    /\ proc[h].todo = {}
    /\ Goto(h, "idle")
    /\ UNCHANGED <<rows, worker>>

-----------------------------------------------------------------------------
(***************************************************************************)
(* drain_workflow.                                                         *)
(***************************************************************************)
DrainRead(h) ==
    /\ At(h, "drain")
    /\ IF workflow.state \in Draining
       THEN Become(h, [Idle EXCEPT
                         !.pc = "cancel",
                         !.todo = {TaskItem("none", t) :
                                     t \in {u \in Tasks : task[u].state \in Unstarted}},
                         !.elapsed = {e \in Tasks \X Ordinals :
                           attempt[e[1]][e[2]].cancellation_deadline = "due"}])
       ELSE Goto(h, "idle")
    /\ UNCHANGED <<rows, worker>>

\* One cancellation per unstarted task, with the revision read by
\* DrainRead; the outcome is ignored.
DrainCancel(h) ==
    /\ At(h, "cancel")
    /\ \E i \in proc[h].todo :
         /\ commit_drain_task_cancellation(i)
         /\ DoneWith(h, i, "cancel")
    /\ UNCHANGED worker

ActiveAttempts(deadline) ==
    {e \in Tasks \X Ordinals :
        /\ attempt[e[1]][e[2]].state \in Active
        /\ attempt[e[1]][e[2]].cancellation_deadline = deadline}

DrainNotifyRead(h) ==
    /\ At(h, "cancel")
    /\ proc[h].todo = {}
    /\ Become(h, [Idle EXCEPT
         !.pc = "notify",
         !.todo = {AttemptItem("mark", e[1], e[2]) : e \in ActiveAttempts("none")}
                  \cup
                  {AttemptItem("expire", e[1], e[2]) :
                      e \in ActiveAttempts("due") \cap proc[h].elapsed}])
    /\ UNCHANGED <<rows, worker>>

DrainMark(h) ==
    /\ At(h, "notify")
    /\ \E i \in proc[h].todo :
         /\ i.op = "mark"
         /\ set_cancellation_deadline(i)
         /\ DoneWith(h, i, "notify")
    /\ UNCHANGED worker

\* The task row is read again before an elapsed deadline is settled.
DrainExpireRead(h) ==
    /\ At(h, "notify")
    /\ \E i \in proc[h].todo :
         /\ i.op = "expire"
         /\ IF task[i.task].state = "RUNNING"
            THEN Hold(h, i, [i EXCEPT !.trev = task[i.task].revision], "expire")
            ELSE DoneWith(h, i, "notify")
    /\ UNCHANGED <<rows, worker>>

DrainExpireCommit(h) ==
    /\ At(h, "expire")
    /\ commit_internal_cancellation_deadline(proc[h].item)
    /\ DoneWith(h, proc[h].item, "notify")
    /\ UNCHANGED worker

\* Terminalisation, once every task is terminal.
DrainSettle(h) ==
    /\ At(h, "notify")
    /\ proc[h].todo = {}
    /\ IF workflow.state = "FAILING" THEN commit_workflow_failure
                                     ELSE commit_workflow_cancellation
    /\ Goto(h, "idle")
    /\ UNCHANGED worker

-----------------------------------------------------------------------------
(***************************************************************************)
(* routes/executions.py                                                    *)
(***************************************************************************)
start_execution(h) ==
    /\ At(h, "idle")
    /\ workflow.state = "ABSENT"
    /\ commit_initialization
    /\ Goto(h, "advance")
    /\ UNCHANGED worker

\* A request that finds the workflow in another state changes nothing.
cancel_execution(h) ==
    /\ At(h, "idle")
    /\ workflow.state = "RUNNING"
    /\ commit_workflow_cancellation_direction
    /\ Goto(h, "drain")
    /\ UNCHANGED worker

-----------------------------------------------------------------------------
(***************************************************************************)
(* routes/worker.py.  A worker may call for any attempt of its session, at *)
(* any time, any number of times.  A call whose first read already finds   *)
(* the attempt in another state is refused with 409 and changes nothing.   *)
(***************************************************************************)
acknowledge_start(h) ==
    /\ \E t \in Tasks, o \in Ordinals :
         LET a == attempt[t][o]
         IN  /\ a.state = "CLAIMED"
             /\ worker[a.worker_session_id] = "live"
             /\ a.start_deadline = "pending"
             /\ Begin(h, [AttemptItem("none", t, o) EXCEPT !.arev = 1], "start")
    /\ UNCHANGED <<rows, worker>>

StartCommit(h) ==
    /\ At(h, "start")
    /\ commit_worker_execution_start(proc[h].item)
    /\ Goto(h, "idle")
    /\ UNCHANGED worker

\* report_callback reads the attempt and its task, then branches.
ReceiveSuccess(h) ==
    /\ \E t \in Tasks, o \in Ordinals :
         /\ attempt[t][o].state = "RUNNING"
         /\ Begin(h, AttemptItem("none", t, o), "success")
    /\ UNCHANGED <<rows, worker>>

\* Plausible error: the callback returns without advancing the workflow.
SuccessWithoutAdvance(h) ==
    /\ At(h, "success")
    /\ LET i == proc[h].item
       IN  IF SuccessMatches(i) THEN commit_worker_task_success(i)
                                ELSE UNCHANGED rows
    /\ Goto(h, "idle")
    /\ UNCHANGED worker

SuccessCommit(h) ==
    /\ At(h, "success")
    /\ LET i == proc[h].item
       IN  IF SuccessMatches(i)
           THEN commit_worker_task_success(i) /\ Goto(h, "advance")
           ELSE UNCHANGED rows /\ Goto(h, "idle")
    /\ UNCHANGED worker

\* A repeated success with the committed output is accepted, and advances.
DuplicateSuccess(h) ==
    /\ At(h, "idle")
    /\ \E t \in Tasks, o \in Ordinals : attempt[t][o].state = "SUCCEEDED"
    /\ Goto(h, "advance")
    /\ UNCHANGED <<rows, worker>>

evaluate_retry_eligibility(t, retryable) ==
    workflow.state = "RUNNING" /\ retryable /\ BudgetRemains(t)

ReceiveFailure(h) ==
    /\ \E t \in Tasks, o \in Ordinals, retryable \in BOOLEAN :
         /\ attempt[t][o].state \in Active
         /\ Begin(h, AttemptItem("none", t, o),
                  IF evaluate_retry_eligibility(t, retryable)
                  THEN "retry_check" ELSE "fail")
    /\ UNCHANGED <<rows, worker>>

\* The unlocked SELECT of commit_worker_failure_with_retry.
RetryCheck(h) ==
    /\ At(h, "retry_check")
    /\ IF workflow.state = "RUNNING"
       THEN Become(h, [proc[h] EXCEPT !.pc = "retry"])
       ELSE Goto(h, "idle")
    /\ UNCHANGED <<rows, worker>>

\* No advance_workflow follows: the retry waits for somebody else's.
RetryCommit(h) ==
    /\ At(h, "retry")
    /\ LET i == proc[h].item
       IN  IF RetryMatches(i) THEN commit_worker_failure_with_retry(i)
                              ELSE UNCHANGED rows
    /\ Goto(h, "idle")
    /\ UNCHANGED worker

FailureCommit(h) ==
    /\ At(h, "fail")
    /\ LET i == proc[h].item
       IN  IF ActiveMatches(i)
           THEN commit_worker_definitive_failure(i) /\ Goto(h, "drain")
           ELSE UNCHANGED rows /\ Goto(h, "idle")
    /\ UNCHANGED worker

ReceiveCancelAck(h) ==
    /\ \E t \in Tasks, o \in Ordinals :
         /\ attempt[t][o].state \in Active
         /\ Begin(h, AttemptItem("none", t, o), "cancel_ack")
    /\ UNCHANGED <<rows, worker>>

\* Plausible error: the callback returns without draining again.
CancelAckWithoutDrain(h) ==
    /\ At(h, "cancel_ack")
    /\ LET i == proc[h].item
       IN  IF CancelAckMatches(i) THEN commit_worker_cancellation_ack(i)
                                  ELSE UNCHANGED rows
    /\ Goto(h, "idle")
    /\ UNCHANGED worker

CancelAckCommit(h) ==
    /\ At(h, "cancel_ack")
    /\ LET i == proc[h].item
       IN  IF CancelAckMatches(i)
           THEN commit_worker_cancellation_ack(i) /\ Goto(h, "drain")
           ELSE UNCHANGED rows /\ Goto(h, "idle")
    /\ UNCHANGED worker

-----------------------------------------------------------------------------
(***************************************************************************)
(* sweep_timeouts_and_deadlines and sweep_worker_loss.  A sweep reads a    *)
(* batch of rows and settles them one by one; here every row of a batch    *)
(* has a handler of its own.  The workflow state that decides between      *)
(* retry and failure is read without a lock.                               *)
(***************************************************************************)
SweepRead(h) ==
    /\ \E t \in Tasks, o \in Ordinals :
         LET a == attempt[t][o]
             pc == IF workflow.state = "RUNNING" THEN "sweep_running"
                                                 ELSE "sweep_draining"
         IN  \/ /\ a.state = "CLAIMED"
                /\ a.start_deadline = "due"
                /\ Begin(h, AttemptItem("START_DEADLINE_EXPIRED", t, o), pc)
             \/ /\ a.state \in Active
                /\ worker[a.worker_session_id] = "lost"
                /\ Begin(h, AttemptItem("WORKER_LOSS", t, o), pc)
    /\ UNCHANGED <<rows, worker>>

\* An exhausted budget or a draining workflow fails the task; the workflow
\* is directed to FAILING by a transaction of its own, later.
SweepCommit(h) ==
    /\ \E pc \in {"sweep_running", "sweep_draining"} :
         LET i == proc[h].item
         IN  /\ At(h, pc)
             /\ commit_internal_attempt_failure(i, pc = "sweep_running")
             /\ IF FailsTask(i, pc = "sweep_running")
                THEN Goto(h, "direct")
                ELSE Goto(h, "idle")
    /\ UNCHANGED worker

DirectCommit(h) ==
    /\ At(h, "direct")
    /\ commit_workflow_failure_direction
    /\ Goto(h, "drain")
    /\ UNCHANGED worker

\* advance_workflow called from outside a request (startup recovery, an
\* embedding that runs the scheduler periodically).
CallAdvance(h) ==
    /\ At(h, "idle")
    /\ Goto(h, "advance")
    /\ UNCHANGED <<rows, worker>>

-----------------------------------------------------------------------------
(***************************************************************************)
(* The registry: a session is lost when its heartbeats stop for the        *)
(* liveness timeout, and live again with the next heartbeat.               *)
(***************************************************************************)
register_worker(s) ==
    /\ worker[s] = "unknown"
    /\ worker' = [worker EXCEPT ![s] = "live"]
    /\ UNCHANGED <<rows, proc>>

HeartbeatsStop(s) ==
    /\ worker[s] = "live"
    /\ worker' = [worker EXCEPT ![s] = "lost"]
    /\ UNCHANGED <<rows, proc>>

heartbeat_worker(s) ==
    /\ worker[s] = "lost"
    /\ worker' = [worker EXCEPT ![s] = "live"]
    /\ UNCHANGED <<rows, proc>>

(***************************************************************************)
(* The clock passes the instants stored in the rows.                       *)
(***************************************************************************)
RetryFallsDue(t) ==
    /\ task[t].retry_ready_at = "pending"
    /\ task' = [task EXCEPT ![t].retry_ready_at = "due"]
    /\ UNCHANGED <<workflow, attempt, worker, proc>>

StartDeadlinePasses(t, o) ==
    /\ attempt[t][o].state = "CLAIMED"
    /\ attempt[t][o].start_deadline = "pending"
    /\ attempt' = [attempt EXCEPT ![t][o].start_deadline = "due"]
    /\ UNCHANGED <<workflow, task, worker, proc>>

CancellationDeadlinePasses(t, o) ==
    /\ attempt[t][o].state \in Active
    /\ attempt[t][o].cancellation_deadline = "pending"
    /\ attempt' = [attempt EXCEPT ![t][o].cancellation_deadline = "due"]
    /\ UNCHANGED <<workflow, task, worker, proc>>

-----------------------------------------------------------------------------
\* What a request that has been admitted does until its response.
Continue(h) ==
    \/ AdvanceRead(h) \/ SucceedCommit(h) \/ PromoteCheck(h) \/ PromoteCommit(h)
    \/ DispatchRead(h) \/ DispatchCheck(h) \/ ClaimCommit(h) \/ DispatchDone(h)
    \/ DrainRead(h) \/ DrainCancel(h) \/ DrainNotifyRead(h) \/ DrainMark(h)
    \/ DrainExpireRead(h) \/ DrainExpireCommit(h) \/ DrainSettle(h)
    \/ StartCommit(h) \/ SuccessCommit(h) \/ RetryCheck(h) \/ RetryCommit(h)
    \/ FailureCommit(h) \/ CancelAckCommit(h)

\* The requests clients and workers make.
Request(h) ==
    \/ start_execution(h) \/ cancel_execution(h)
    \/ acknowledge_start(h) \/ ReceiveSuccess(h) \/ DuplicateSuccess(h)
    \/ ReceiveFailure(h) \/ ReceiveCancelAck(h)

\* Scheduler entry points that no route and no task of the application calls.
Housekeeping(h) ==
    \/ SweepRead(h) \/ SweepCommit(h) \/ DirectCommit(h) \/ CallAdvance(h)

Registry == \E s \in Sessions :
    register_worker(s) \/ HeartbeatsStop(s) \/ heartbeat_worker(s)

Clock ==
    \/ \E t \in Tasks : RetryFallsDue(t)
    \/ \E t \in Tasks, o \in Ordinals :
         StartDeadlinePasses(t, o) \/ CancellationDeadlinePasses(t, o)

\* The application as main:app runs it.
NextDeployed ==
    \/ \E h \in Handlers : Continue(h) \/ Request(h)
    \/ Registry
    \/ Clock

\* The application with every scheduler entry point in use.
Next ==
    \/ NextDeployed
    \/ \E h \in Handlers : Housekeeping(h)

Spec == Init /\ [][Next]_vars
=============================================================================
