--------------------------- MODULE FinalityProofs ---------------------------
(***************************************************************************)
(* What handlers know when they act, the ways a step of the control plane  *)
(* can change the rows, and what follows first: terminal rows are final.   *)
(***************************************************************************)
EXTENDS ControlPlaneProofs

\* A retry timer is set only while the task waits for its retry.
TimersOK ==
    \A t \in Tasks :
        task[t].retry_ready_at \in {"pending", "due"} => task[t].state = "RETRY_WAIT"

\* What a handler has concluded from its reads, and acts on later.
DependenciesDone(t) == \A d \in Deps[t] : task[d].state = "SUCCEEDED"

\* A promotion is for a retry, or for a task whose dependencies SUCCEEDED.
Justified(i) == i.op = "retry_ready" \/ DependenciesDone(i.task)

KnowsOK(p) ==
    /\ p.pc = "direct" => \E t \in Tasks : task[t].state = "FAILED"
    /\ p.pc \in {"promote", "promote_commit"} => \A i \in p.todo : Justified(i)
    /\ p.pc = "promote_commit" => Justified(p.item)
    /\ p.pc = "claim" => p.item.who \in Sessions

Knowledge == \A h \in Handlers : KnowsOK(proc[h])

-----------------------------------------------------------------------------
(***************************************************************************)
(* The moves, each with what is true of the committed rows when it is      *)
(* made, whatever the handler that makes it read and when.                 *)
(***************************************************************************)
\* A direction or a verdict.
WorkflowMove ==
    /\ UNCHANGED <<task, attempt>>
    /\ workflow'.revision = workflow.revision + 1
    /\ \/ workflow.state = "RUNNING" /\ workflow'.state = "CANCELLING"
       \/ /\ workflow.state = "RUNNING" /\ workflow'.state = "FAILING"
          /\ \E t \in Tasks : task[t].state = "FAILED"
       \/ /\ workflow.state = "RUNNING" /\ workflow'.state = "SUCCEEDED"
          /\ AllTasks({"SUCCEEDED"})
       \/ /\ workflow.state = "FAILING" /\ workflow'.state = "FAILED"
          /\ AllTasks(Terminal)
       \/ /\ workflow.state = "CANCELLING" /\ workflow'.state = "CANCELLED"
          /\ AllTasks(Terminal)

\* Readiness, or an overdue retry.
ReleaseMove(t) ==
    /\ \/ task[t].state = "RETRY_WAIT"
       \/ task[t].state = "PENDING" /\ DependenciesDone(t)
    /\ task' = TaskTo(t, "RUNNABLE", "none")
    /\ UNCHANGED <<workflow, attempt>>

\* The drain of an unstarted task.
DrainMove(t) ==
    /\ workflow.state \in Draining
    /\ task[t].state \in Unstarted
    /\ task' = TaskTo(t, "CANCELLED", "none")
    /\ UNCHANGED <<workflow, attempt>>

\* The allocation of the next ordinal to a session.
ClaimMove(t, o, s) ==
    /\ task[t].state = "RUNNABLE"
    /\ o = task[t].next_attempt_ordinal
    /\ task' = [task EXCEPT ![t].state = "RUNNING",
                            ![t].revision = @ + 1,
                            ![t].next_attempt_ordinal = @ + 1]
    /\ attempt' = [attempt EXCEPT ![t][o] = ClaimedBy(s)]
    /\ UNCHANGED workflow

\* What the settlement of an attempt as s may make of its task.
Settles(i, s, u, timer) ==
    \/ s = "SUCCEEDED" /\ u = "SUCCEEDED" /\ timer = "none" /\ UNCHANGED workflow
    \/ /\ s = "FAILED" /\ u = "RETRY_WAIT" /\ timer = "pending" /\ UNCHANGED workflow
       /\ BudgetRemains(i.task)
    \/ /\ s = "FAILED" /\ u = "FAILED" /\ timer = "none"
       /\ \/ UNCHANGED workflow
          \/ /\ workflow.state = "RUNNING" /\ workflow'.state = "FAILING"
             /\ workflow'.revision = workflow.revision + 1
    \/ /\ s = "CANCELLED" /\ u = "CANCELLED" /\ timer = "none" /\ UNCHANGED workflow
       /\ workflow.state \in Draining

\* The settlement of an active attempt and its task.
SettleMove(i, s, u, timer) ==
    /\ Allocated(i)
    /\ attempt[i.task][i.ordinal].state \in Active
    /\ task[i.task].state = "RUNNING"
    /\ Settles(i, s, u, timer)
    /\ attempt' = AttemptTo(i, s)
    /\ task' = TaskTo(i.task, u, timer)

\* The acknowledgement of a start.
StartMove(i) ==
    /\ Allocated(i)
    /\ attempt[i.task][i.ordinal].state \in Active
    /\ attempt' = AttemptTo(i, "RUNNING")
    /\ UNCHANGED <<workflow, task>>

\* The clock, or a drain that sets a cancellation deadline.
AttemptTimerMove ==
    /\ \A t \in Tasks, o \in Ordinals :
         /\ attempt'[t][o].state = attempt[t][o].state
         /\ attempt'[t][o].revision = attempt[t][o].revision
         /\ attempt'[t][o].worker_session_id = attempt[t][o].worker_session_id
    /\ UNCHANGED <<workflow, task>>

RowMove ==
    \/ UNCHANGED rows
    \/ WorkflowMove
    \/ workflow.state = "ABSENT" /\ commit_initialization
    \/ \E t \in Tasks : ReleaseMove(t) \/ DrainMove(t)
    \/ \E t \in Tasks, o \in Ordinals, s \in Sessions : ClaimMove(t, o, s)
    \/ \E i \in Item, s \in Terminal, u \in TaskStates, timer \in Timers :
         SettleMove(i, s, u, timer)
    \/ \E i \in Item : StartMove(i)
    \/ AttemptTimerMove
    \/ \E t \in Tasks : RetryFallsDue(t)

-----------------------------------------------------------------------------
(***************************************************************************)
(* Every step is one of these moves.  First the steps that only read.      *)
(***************************************************************************)
LEMMA ReadsMove ==
    ASSUME NEW h \in Handlers,
           \/ AdvanceRead(h) \/ PromoteCheck(h) \/ DispatchRead(h) \/ DispatchCheck(h)
           \/ DispatchDone(h) \/ DrainRead(h) \/ DrainNotifyRead(h) \/ DrainExpireRead(h)
           \/ RetryCheck(h) \/ acknowledge_start(h) \/ ReceiveSuccess(h)
           \/ DuplicateSuccess(h) \/ ReceiveFailure(h) \/ ReceiveCancelAck(h)
           \/ SweepRead(h) \/ CallAdvance(h)
    PROVE  RowMove
<1>1. UNCHANGED rows
  BY DEF AdvanceRead, PromoteCheck, DispatchRead, DispatchCheck, DispatchDone, DrainRead,
         DrainNotifyRead, DrainExpireRead, RetryCheck, acknowledge_start, ReceiveSuccess,
         DuplicateSuccess, ReceiveFailure, ReceiveCancelAck, SweepRead, CallAdvance
<1>. QED
  BY <1>1 DEF RowMove

\* Directions, verdicts and the start of the execution.
LEMMA WorkflowCommitsMove ==
    ASSUME IInv, Knowledge, NEW h \in Handlers,
           \/ SucceedCommit(h) \/ DrainSettle(h) \/ DirectCommit(h)
           \/ start_execution(h) \/ cancel_execution(h)
    PROVE  RowMove
<1>1. CASE start_execution(h)
  BY <1>1 DEF start_execution, RowMove
<1>2. CASE SucceedCommit(h)
  BY <1>2 DEF SucceedCommit, commit_workflow_success, WorkflowTo, RowMove, WorkflowMove, rows
<1>3. CASE DrainSettle(h)
  BY <1>3 DEF DrainSettle, commit_workflow_failure, commit_workflow_cancellation, WorkflowTo,
              RowMove, WorkflowMove, rows
<1>4. CASE DirectCommit(h)
  <2>1. \E t \in Tasks : task[t].state = "FAILED"
    BY <1>4 DEF DirectCommit, At, Knowledge, KnowsOK
  <2>. QED
    BY <1>4, <2>1 DEF DirectCommit, commit_workflow_failure_direction, WorkflowTo, RowMove,
                      WorkflowMove, rows
<1>5. CASE cancel_execution(h)
  BY <1>5 DEF cancel_execution, commit_workflow_cancellation_direction, WorkflowTo, RowMove,
              WorkflowMove, rows
<1>. QED
  BY <1>1, <1>2, <1>3, <1>4, <1>5

\* Promotion, dispatch and the drain of unstarted tasks.
LEMMA TaskCommitsMove ==
    ASSUME IInv, Knowledge, NEW h \in Handlers,
           PromoteCommit(h) \/ ClaimCommit(h) \/ DrainCancel(h)
    PROVE  RowMove
<1>1. CASE PromoteCommit(h)
  <2>1. PICK i \in Item : i = proc[h].item
    BY <1>1, HeldItem, Points DEF PromoteCommit, At
  <2>2. i.task \in Tasks /\ Justified(i)
    BY <1>1, <2>1 DEF PromoteCommit, At, Knowledge, KnowsOK, Justified, DependenciesDone, Item
  <2>3. IF i.op = "retry_ready" THEN commit_retry_ready(i) ELSE commit_task_readiness(i)
    BY <1>1, <2>1 DEF PromoteCommit
  <2>4. UNCHANGED rows \/ ReleaseMove(i.task)
    BY <2>2, <2>3 DEF Justified, commit_retry_ready, commit_task_readiness, TaskIs,
                      ReleaseMove, rows
  <2>. QED
    BY <2>2, <2>4 DEF RowMove
<1>2. CASE ClaimCommit(h)
  <2>1. PICK i \in Item : i = proc[h].item
    BY <1>2, HeldItem, Points DEF ClaimCommit, At
  <2>2. i.who \in Sessions /\ i.task \in Tasks
    BY <1>2, <2>1 DEF ClaimCommit, At, Knowledge, KnowsOK, Item
  <2>3. PICK t \in Tasks, s \in Sessions : t = i.task /\ s = i.who
    BY <2>2
  <2>4. CASE UNCHANGED <<task, attempt>>
    BY <1>2, <2>4 DEF ClaimCommit, commit_attempt_ownership, RowMove, rows
  <2>5. CASE ~UNCHANGED <<task, attempt>>
    <3>1. PICK o : o = task[t].next_attempt_ordinal
      OBVIOUS
    <3>2. ClaimMove(t, o, s)
      BY <1>2, <2>1, <2>3, <2>5, <3>1
         DEF ClaimCommit, commit_attempt_ownership, TaskIs, ClaimMove
    <3>3. TaskOK(t) /\ task[t] \in TaskRow
      BY DEF IInv, RowsInv, RowsOK
    <3>4. o \in Nat /\ o >= 1 /\ o <= MaxAttempts[t]
      BY <3>1, <3>2, <3>3 DEF ClaimMove, TaskOK, TaskRow, Unstarted
    <3>5. MaxAttempts[t] \in 1..AttemptLimit /\ AttemptLimit \in Nat
      BY StoreAssumption DEF StoreAssumption
    <3>6. o \in Ordinals
      BY <3>4, <3>5 DEF Ordinals
    <3>. QED
      BY <3>2, <3>6 DEF RowMove
  <2>. QED
    BY <2>4, <2>5
<1>3. CASE DrainCancel(h)
  <2>1. PICK i \in proc[h].todo : commit_drain_task_cancellation(i)
    BY <1>3 DEF DrainCancel
  <2>2. i \in Item /\ i.task \in Tasks
    BY <2>1 DEF IInv, Proc, Item
  <2>3. UNCHANGED rows \/ DrainMove(i.task)
    BY <2>1 DEF commit_drain_task_cancellation, TaskIs, DrainMove, rows
  <2>. QED
    BY <2>2, <2>3 DEF RowMove
<1>. QED
  BY <1>1, <1>2, <1>3

\* The settlements there are.
LEMMA SettlementsMove ==
    ASSUME NEW i \in Item,
           \/ SettleMove(i, "SUCCEEDED", "SUCCEEDED", "none")
           \/ SettleMove(i, "FAILED", "RETRY_WAIT", "pending")
           \/ SettleMove(i, "FAILED", "FAILED", "none")
           \/ SettleMove(i, "CANCELLED", "CANCELLED", "none")
    PROVE  RowMove
<1>1. /\ {"SUCCEEDED", "FAILED", "CANCELLED"} \subseteq Terminal
      /\ {"SUCCEEDED", "FAILED", "CANCELLED", "RETRY_WAIT"} \subseteq TaskStates
      /\ {"none", "pending"} \subseteq Timers
  BY DEF Terminal, TaskStates, Unstarted, Timers
<1>2. PICK s \in Terminal, u \in TaskStates, timer \in Timers : SettleMove(i, s, u, timer)
  BY <1>1
<1>. QED
  BY <1>2 DEF RowMove

\* The callbacks of the workers.
LEMMA CallbackCommitsMove ==
    ASSUME IInv, NEW h \in Handlers,
           \/ StartCommit(h) \/ SuccessCommit(h) \/ RetryCommit(h) \/ FailureCommit(h)
           \/ CancelAckCommit(h)
    PROVE  RowMove
<1>1. PICK i \in Item : i = proc[h].item /\ Fresh(i)
  BY HeldItem, Points
     DEF StartCommit, SuccessCommit, RetryCommit, FailureCommit, CancelAckCommit, At,
         Settling
<1>2. Allocated(i)
  BY <1>1 DEF Fresh
<1>3. CASE StartCommit(h)
  <2>1. UNCHANGED rows \/ StartMove(i)
    BY <1>1, <1>2, <1>3
       DEF StartCommit, commit_worker_execution_start, AttemptIs, Active, StartMove, rows
  <2>. QED
    BY <2>1 DEF RowMove
<1>4. CASE ~UNCHANGED rows /\ ~StartCommit(h)
  <2>1. ActiveMatches(i) \/ SuccessMatches(i)
    BY <1>1, <1>4 DEF SuccessCommit, RetryCommit, FailureCommit, CancelAckCommit,
                      RetryMatches, CancelAckMatches
  <2>2. attempt[i.task][i.ordinal].state \in Active /\ task[i.task].state = "RUNNING"
    BY <2>1 DEF ActiveMatches, SuccessMatches, AttemptIs, TaskIs, Active
  <2>3. CASE SuccessCommit(h)
    <3>1. SettleMove(i, "SUCCEEDED", "SUCCEEDED", "none")
      BY <1>1, <1>2, <1>4, <2>2, <2>3
         DEF SuccessCommit, commit_worker_task_success, SettleMove, Settles
    <3>. QED
      BY <3>1, SettlementsMove
  <2>4. CASE RetryCommit(h)
    <3>1. SettleMove(i, "FAILED", "RETRY_WAIT", "pending")
      BY <1>1, <1>2, <1>4, <2>2, <2>4
         DEF RetryCommit, RetryMatches, commit_worker_failure_with_retry, SettleMove, Settles
    <3>. QED
      BY <3>1, SettlementsMove
  <2>5. CASE FailureCommit(h)
    <3>1. SettleMove(i, "FAILED", "FAILED", "none")
      BY <1>1, <1>2, <1>4, <2>2, <2>5
         DEF FailureCommit, commit_worker_definitive_failure, WorkflowTo, SettleMove, Settles
    <3>. QED
      BY <3>1, SettlementsMove
  <2>6. CASE CancelAckCommit(h)
    <3>1. SettleMove(i, "CANCELLED", "CANCELLED", "none")
      BY <1>1, <1>2, <1>4, <2>2, <2>6
         DEF CancelAckCommit, CancelAckMatches, commit_worker_cancellation_ack, SettleMove,
             Settles
    <3>. QED
      BY <3>1, SettlementsMove
  <2>. QED
    BY <1>4, <2>3, <2>4, <2>5, <2>6
<1>. QED
  BY <1>3, <1>4 DEF RowMove

\* The settlements nobody called for: cancellation deadline and sweeps.
LEMMA InternalCommitsMove ==
    ASSUME IInv, NEW h \in Handlers, DrainExpireCommit(h) \/ SweepCommit(h)
    PROVE  RowMove
<1>1. PICK i \in Item : i = proc[h].item /\ Fresh(i)
  BY HeldItem, Points DEF DrainExpireCommit, SweepCommit, At, Settling
<1>2. Allocated(i) /\ RowsInv
  BY <1>1 DEF Fresh, IInv
<1>3. CASE UNCHANGED rows
  BY <1>3 DEF RowMove
<1>4. CASE ~UNCHANGED rows /\ DrainExpireCommit(h)
  <2>1. commit_internal_cancellation_deadline(i)
    BY <1>1, <1>4 DEF DrainExpireCommit
  <2>2. attempt[i.task][i.ordinal].state \in Active
    BY <1>4, <2>1 DEF commit_internal_cancellation_deadline, AttemptIs, rows
  <2>3. TaskIs(i, {"RUNNING"})
    BY <1>1, <1>2, <2>2, ActiveMeansMatching
  <2>4. SettleMove(i, "CANCELLED", "CANCELLED", "none")
    BY <1>2, <1>4, <2>1, <2>2, <2>3
       DEF commit_internal_cancellation_deadline, SettleMove, Settles, TaskIs, rows
  <2>. QED
    BY <2>4, SettlementsMove
<1>5. CASE ~UNCHANGED rows /\ SweepCommit(h)
  <2>1. PICK running \in BOOLEAN : commit_internal_attempt_failure(i, running)
    BY <1>1, <1>5 DEF SweepCommit
  <2>2. CauseMatches(i)
    BY <1>5, <2>1 DEF commit_internal_attempt_failure, RetriesTask, FailsTask, rows
  <2>3. attempt[i.task][i.ordinal].state \in Active
    BY <2>2 DEF CauseMatches, AttemptIs, Active
  <2>4. TaskIs(i, {"RUNNING"})
    BY <1>1, <1>2, <2>3, ActiveMeansMatching
  <2>5. CASE running /\ BudgetRemains(i.task)
    <3>1. SettleMove(i, "FAILED", "RETRY_WAIT", "pending")
      BY <1>2, <2>1, <2>2, <2>3, <2>4, <2>5
         DEF commit_internal_attempt_failure, RetriesTask, FailsTask, SettleMove, Settles,
             TaskIs
    <3>. QED
      BY <3>1, SettlementsMove
  <2>6. CASE ~(running /\ BudgetRemains(i.task))
    <3>1. SettleMove(i, "FAILED", "FAILED", "none")
      BY <1>2, <2>1, <2>2, <2>3, <2>4, <2>6
         DEF commit_internal_attempt_failure, RetriesTask, FailsTask, SettleMove, Settles,
             TaskIs
    <3>. QED
      BY <3>1, SettlementsMove
  <2>. QED
    BY <2>5, <2>6
<1>. QED
  BY <1>3, <1>4, <1>5

\* The cancellation deadlines a drain sets, and the clock.
LEMMA AttemptTimersMove ==
    ASSUME IInv,
           \/ \E t \in Tasks, o \in Ordinals :
                StartDeadlinePasses(t, o) \/ CancellationDeadlinePasses(t, o)
           \/ \E h \in Handlers : DrainMark(h)
    PROVE  AttemptTimerMove
<1>1. RowsOK
  BY DEF IInv, RowsInv
<1>2. ASSUME NEW t \in Tasks, NEW o \in Ordinals, StartDeadlinePasses(t, o)
      PROVE  AttemptTimerMove
  BY <1>1, <1>2 DEF StartDeadlinePasses, AttemptTimerMove, RowsOK, AttemptRow
<1>3. ASSUME NEW t \in Tasks, NEW o \in Ordinals, CancellationDeadlinePasses(t, o)
      PROVE  AttemptTimerMove
  BY <1>1, <1>3 DEF CancellationDeadlinePasses, AttemptTimerMove, RowsOK, AttemptRow
<1>4. ASSUME NEW h \in Handlers, DrainMark(h) PROVE AttemptTimerMove
  <2>1. PICK i \in proc[h].todo : set_cancellation_deadline(i)
    BY <1>4 DEF DrainMark
  <2>. QED
    BY <1>1, <2>1 DEF set_cancellation_deadline, AttemptTimerMove, RowsOK, AttemptRow
<1>. QED
  BY <1>2, <1>3, <1>4

\* Timers, of tasks too.
LEMMA TimersAreMoves ==
    ASSUME IInv, Clock \/ \E h \in Handlers : DrainMark(h)
    PROVE  RowMove
BY AttemptTimersMove DEF Clock, RowMove

\* Every step of the control plane is one of the moves.
LEMMA StepsMove ==
    ASSUME IInv, Knowledge, [Next]_vars
    PROVE  RowMove
<1>1. CASE UNCHANGED vars \/ Registry
  <2>1. UNCHANGED rows
    BY <1>1 DEF vars, rows, Registry, register_worker, HeartbeatsStop, heartbeat_worker
  <2>. QED
    BY <2>1 DEF RowMove
<1>2. ASSUME NEW h \in Handlers, Continue(h) \/ Request(h) \/ Housekeeping(h)
      PROVE  RowMove
  BY <1>2, ReadsMove, WorkflowCommitsMove, TaskCommitsMove, CallbackCommitsMove,
     InternalCommitsMove, TimersAreMoves
     DEF Continue, Request, Housekeeping
<1>. QED
  BY <1>1, <1>2, TimersAreMoves DEF Next, NextDeployed

-----------------------------------------------------------------------------
(***************************************************************************)
(* No move changes a terminal row, nor sets a timer that outlives the      *)
(* wait for the retry.                                                     *)
(***************************************************************************)
LEMMA ReleaseFacts ==
    ASSUME RowsOK, NEW t \in Tasks, ReleaseMove(t) \/ DrainMove(t)
    PROVE  /\ UNCHANGED <<workflow, attempt>>
           /\ task[t].state \in Unstarted
           /\ task'[t].state \in {"RUNNABLE", "CANCELLED"}
           /\ task'[t].state = "RUNNABLE" <=> ReleaseMove(t)
           /\ task'[t].next_attempt_ordinal = task[t].next_attempt_ordinal
           /\ task'[t].retry_ready_at = "none"
           /\ \A u \in Tasks \ {t} : task'[u] = task[u]
<1>1. {"RUNNABLE", "CANCELLED"} \subseteq TaskStates /\ "none" \in Timers
  BY DEF TaskStates, Unstarted, Terminal, Timers
<1>2. CASE ReleaseMove(t)
  BY <1>1, <1>2, TaskToFacts DEF ReleaseMove, Unstarted
<1>3. CASE DrainMove(t)
  <2>1. task' = TaskTo(t, "CANCELLED", "none") /\ UNCHANGED <<workflow, attempt>>
    BY <1>3 DEF DrainMove
  <2>2. task'[t].state = "CANCELLED"
    BY <1>1, <2>1, TaskToFacts
  <2>3. ~ReleaseMove(t)
    <3>1. SUFFICES ASSUME ReleaseMove(t) PROVE FALSE
      OBVIOUS
    <3>2. task'[t].state = "RUNNABLE"
      BY <1>1, <3>1, TaskToFacts DEF ReleaseMove
    <3>. QED
      BY <2>2, <3>2
  <2>. QED
    BY <1>1, <1>3, <2>1, <2>2, <2>3, TaskToFacts DEF DrainMove
<1>. QED
  BY <1>2, <1>3

\* A claim fills the next ordinal and nothing else.
LEMMA ClaimFacts ==
    ASSUME RowsInv, NEW t \in Tasks, NEW o \in Ordinals, NEW s \in Sessions,
           ClaimMove(t, o, s)
    PROVE  /\ attempt[t][o].state = "ABSENT"
           /\ attempt'[t][o] = ClaimedBy(s)
           /\ \A u \in Tasks, p \in Ordinals :
                u # t \/ p # o => attempt'[u][p] = attempt[u][p]
           /\ task'[t].state = "RUNNING"
           /\ task'[t].next_attempt_ordinal = o + 1
           /\ task'[t].retry_ready_at = task[t].retry_ready_at
           /\ \A u \in Tasks \ {t} : task'[u] = task[u]
<1>1. RowsOK /\ TaskOK(t) /\ task[t] \in TaskRow
  BY DEF RowsInv, RowsOK
<1>2. attempt[t][o].state = "ABSENT"
  BY <1>1 DEF ClaimMove, TaskOK, Ordinals
<1>3. /\ attempt'[t][o] = ClaimedBy(s)
      /\ \A u \in Tasks, p \in Ordinals :
           u # t \/ p # o => attempt'[u][p] = attempt[u][p]
  BY <1>1 DEF ClaimMove, RowsOK
<1>4. /\ task'[t].state = "RUNNING"
      /\ task'[t].next_attempt_ordinal = o + 1
      /\ task'[t].retry_ready_at = task[t].retry_ready_at
      /\ \A u \in Tasks \ {t} : task'[u] = task[u]
  BY <1>1 DEF ClaimMove, RowsOK, TaskRow
<1>. QED
  BY <1>2, <1>3, <1>4

\* A settlement changes the attempt and its task, nothing else.
LEMMA SettleFacts ==
    ASSUME RowsOK, NEW i \in Item, NEW s \in Terminal, NEW u \in TaskStates,
           NEW timer \in Timers, SettleMove(i, s, u, timer)
    PROVE  /\ i.task \in Tasks /\ i.ordinal \in Ordinals
           /\ attempt'[i.task][i.ordinal].state = s
           /\ \A v \in Tasks, o \in Ordinals :
                v # i.task \/ o # i.ordinal => attempt'[v][o] = attempt[v][o]
           /\ task'[i.task].state = u
           /\ task'[i.task].retry_ready_at = timer
           /\ task'[i.task].next_attempt_ordinal = task[i.task].next_attempt_ordinal
           /\ \A v \in Tasks \ {i.task} : task'[v] = task[v]
<1>1. i.task \in Tasks /\ i.ordinal \in Ordinals /\ s \in AttemptStates
  BY DEF SettleMove, Allocated, Item, AttemptStates
<1>2. /\ attempt'[i.task][i.ordinal].state = s
      /\ \A v \in Tasks, o \in Ordinals :
           v # i.task \/ o # i.ordinal => attempt'[v][o] = attempt[v][o]
  BY <1>1, AttemptToFacts DEF SettleMove
<1>3. /\ task'[i.task].state = u
      /\ task'[i.task].retry_ready_at = timer
      /\ task'[i.task].next_attempt_ordinal = task[i.task].next_attempt_ordinal
      /\ \A v \in Tasks \ {i.task} : task'[v] = task[v]
  BY <1>1, TaskToFacts DEF SettleMove
<1>. QED
  BY <1>1, <1>2, <1>3

\* A start touches the state and the revision of one attempt.
LEMMA StartFacts ==
    ASSUME RowsOK, NEW i \in Item, StartMove(i)
    PROVE  /\ i.task \in Tasks /\ i.ordinal \in Ordinals
           /\ attempt[i.task][i.ordinal].state \in Active
           /\ attempt'[i.task][i.ordinal].state = "RUNNING"
           /\ attempt'[i.task][i.ordinal].worker_session_id =
                attempt[i.task][i.ordinal].worker_session_id
           /\ \A v \in Tasks, o \in Ordinals :
                v # i.task \/ o # i.ordinal => attempt'[v][o] = attempt[v][o]
<1>1. i.task \in Tasks /\ i.ordinal \in Ordinals /\ "RUNNING" \in AttemptStates
  BY DEF StartMove, Allocated, Item, AttemptStates, Active
<1>2. /\ attempt'[i.task][i.ordinal].state = "RUNNING"
      /\ \A v \in Tasks, o \in Ordinals :
           v # i.task \/ o # i.ordinal => attempt'[v][o] = attempt[v][o]
  BY <1>1, AttemptToFacts DEF StartMove
<1>3. attempt'[i.task][i.ordinal].worker_session_id =
        attempt[i.task][i.ordinal].worker_session_id
  BY <1>1 DEF StartMove, AttemptTo, RowsOK, AttemptRow
<1>. QED
  BY <1>1, <1>2, <1>3 DEF StartMove

\* An instant that passes changes the timer of one task.
LEMMA RetryFallsDueFacts ==
    ASSUME RowsOK, NEW t \in Tasks, RetryFallsDue(t)
    PROVE  /\ UNCHANGED <<workflow, attempt>>
           /\ task'[t].state = task[t].state
           /\ task'[t].next_attempt_ordinal = task[t].next_attempt_ordinal
           /\ task'[t].retry_ready_at = "due"
           /\ \A u \in Tasks \ {t} : task'[u] = task[u]
BY DEF RetryFallsDue, RowsOK, TaskRow

\* Terminal rows stay, timers are for retries.
LEMMA MovesAreFinal ==
    ASSUME IInv, TimersOK, RowMove
    PROVE  TerminalStep /\ TimersOK'
<1>1. RowsInv /\ RowsOK
  BY DEF IInv, RowsInv
<1>2. CASE UNCHANGED rows
  BY <1>2 DEF TerminalStep, TimersOK, rows
<1>3. CASE WorkflowMove
  BY <1>3 DEF WorkflowMove, TerminalStep, TimersOK, Terminal
<1>4. CASE workflow.state = "ABSENT" /\ commit_initialization
  BY <1>1, <1>4
     DEF RowsInv, NothingBeforeStart, commit_initialization, TerminalStep, TimersOK, Terminal
<1>5. ASSUME NEW t \in Tasks, ReleaseMove(t) \/ DrainMove(t)
      PROVE  TerminalStep /\ TimersOK'
  BY <1>1, <1>5, ReleaseFacts DEF TerminalStep, TimersOK, Unstarted, Terminal
<1>6. ASSUME NEW t \in Tasks, NEW o \in Ordinals, NEW s \in Sessions, ClaimMove(t, o, s)
      PROVE  TerminalStep /\ TimersOK'
  <2>1. task[t].state = "RUNNABLE" /\ UNCHANGED workflow
    BY <1>6 DEF ClaimMove
  <2>2. TerminalStep
    BY <1>1, <1>6, <2>1, ClaimFacts DEF TerminalStep, Terminal
  <2>3. TimersOK'
    BY <1>1, <1>6, <2>1, ClaimFacts DEF TimersOK
  <2>. QED
    BY <2>2, <2>3
<1>7. ASSUME NEW i \in Item, NEW s \in Terminal, NEW u \in TaskStates,
             NEW timer \in Timers, SettleMove(i, s, u, timer)
      PROVE  TerminalStep /\ TimersOK'
  <2>1. /\ attempt[i.task][i.ordinal].state \in Active
        /\ task[i.task].state = "RUNNING"
        /\ workflow' = workflow \/ workflow.state = "RUNNING"
        /\ timer = "none" \/ u = "RETRY_WAIT"
    BY <1>7 DEF SettleMove, Settles
  <2>2. TerminalStep
    BY <1>1, <1>7, <2>1, SettleFacts DEF TerminalStep, Terminal, Active
  <2>3. TimersOK'
    BY <1>1, <1>7, <2>1, SettleFacts DEF TimersOK
  <2>. QED
    BY <2>2, <2>3
<1>8. ASSUME NEW i \in Item, StartMove(i)
      PROVE  TerminalStep /\ TimersOK'
  <2>1. UNCHANGED <<workflow, task>>
    BY <1>8 DEF StartMove
  <2>. QED
    BY <1>1, <1>8, <2>1, StartFacts DEF TerminalStep, TimersOK, Terminal, Active
<1>9. CASE AttemptTimerMove
  BY <1>9 DEF AttemptTimerMove, TerminalStep, TimersOK
<1>10. ASSUME NEW t \in Tasks, RetryFallsDue(t)
       PROVE  TerminalStep /\ TimersOK'
  <2>1. task[t].state = "RETRY_WAIT"
    BY <1>10 DEF RetryFallsDue, TimersOK
  <2>. QED
    BY <1>1, <1>10, <2>1, RetryFallsDueFacts DEF TerminalStep, TimersOK, Terminal
<1>. QED
  BY <1>2, <1>3, <1>4, <1>5, <1>6, <1>7, <1>8, <1>9, <1>10 DEF RowMove

-----------------------------------------------------------------------------
(***************************************************************************)
(* What a handler has concluded stays true until it acts on it: it rests   *)
(* on terminal rows only.                                                  *)
(***************************************************************************)
LEMMA JustifiedStays ==
    ASSUME TerminalStep, NEW i \in Item, Justified(i)
    PROVE  Justified(i)'
<1>1. Deps[i.task] \subseteq Tasks
  BY StoreAssumption DEF StoreAssumption, Item
<1>2. \A d \in Tasks : task[d].state = "SUCCEEDED" => task'[d] = task[d]
  BY DEF TerminalStep, Terminal
<1>. QED
  BY <1>1, <1>2 DEF Justified, DependenciesDone

\* Whoever does not move keeps its knowledge.
LEMMA KnowledgeStays ==
    ASSUME TerminalStep, NEW p \in Proc, KnowsOK(p),
           p.pc = "promote_commit" => p.item \in Item
    PROVE  KnowsOK(p)'
<1>1. p.pc = "direct" => \E t \in Tasks : task'[t].state = "FAILED"
  BY DEF KnowsOK, TerminalStep, Terminal
<1>2. p.todo \in SUBSET Item
  BY DEF Proc
<1>. QED
  BY <1>1, <1>2, JustifiedStays DEF KnowsOK

\* The handlers that do not move.
LEMMA OthersKnow ==
    ASSUME IInv, Knowledge, TerminalStep, NEW g \in Handlers, proc'[g] = proc[g]
    PROVE  KnowsOK(proc[g])'
<1>1. PICK q \in Proc : q = proc[g] /\ proc'[g] = q
  BY DEF IInv
<1>2. KnowsOK(q)
  BY <1>1 DEF Knowledge, KnowsOK, Justified, DependenciesDone
<1>3. q.pc = "promote_commit" => q.item \in Item
  BY <1>1, HeldItem, Points
<1>4. KnowsOK(q)'
  BY <1>2, <1>3, KnowledgeStays
<1>. QED
  BY <1>1, <1>4 DEF KnowsOK, Justified, DependenciesDone

\* One handler moves.
LEMMA KnowledgeMoves ==
    ASSUME IInv, Knowledge, TerminalStep, NEW h \in Handlers, NEW p,
           KnowsOK(p)', Become(h, p)
    PROVE  Knowledge'
<1>1. proc' = [proc EXCEPT ![h] = p] /\ proc \in [Handlers -> Proc]
  BY DEF Become, IInv
<1>2. ASSUME NEW g \in Handlers PROVE KnowsOK(proc[g])'
  <2>1. CASE g = h
    <3>1. proc'[g] = p
      BY <1>1, <2>1
    <3>. QED
      BY <3>1 DEF KnowsOK, Justified, DependenciesDone
  <2>2. CASE g # h
    BY <1>1, <2>2, OthersKnow
  <2>. QED
    BY <2>1, <2>2
<1>. QED
  BY <1>2 DEF Knowledge

\* Control points at which a handler acts on nothing it concluded earlier.
Plain == PCs \ {"direct", "promote", "promote_commit", "claim"}

\* A handler that goes to a plain point has nothing to know.
LEMMA PlainMoves ==
    ASSUME IInv, Knowledge, TerminalStep, NEW h \in Handlers, NEW p,
           Become(h, p), p.pc \in Plain
    PROVE  Knowledge'
<1>1. KnowsOK(p)'
  BY DEF KnowsOK, Plain
<1>. QED
  BY <1>1, KnowledgeMoves

\* The forms in which handlers go to plain points.
LEMMA PlainForms ==
    ASSUME IInv, Knowledge, TerminalStep, NEW h \in Handlers, NEW pc \in Plain,
           \/ Goto(h, pc)
           \/ \E i : DoneWith(h, i, pc)
           \/ \E i, j : Hold(h, i, j, pc)
           \/ \E j : Begin(h, j, pc)
    PROVE  Knowledge'
<1>1. PICK q \in Proc : q = proc[h]
  BY DEF IInv
<1>2. CASE Goto(h, pc)
  <2>1. [Idle EXCEPT !.pc = pc].pc = pc
    BY DEF Idle
  <2>. QED
    BY <1>2, <2>1, PlainMoves DEF Goto
<1>3. ASSUME NEW i, DoneWith(h, i, pc) PROVE Knowledge'
  <2>1. PICK p : p = [q EXCEPT !.pc = pc, !.todo = q.todo \ {i}, !.item = NoItem]
    OBVIOUS
  <2>2. p.pc = pc /\ Become(h, p)
    BY <1>1, <1>3, <2>1 DEF Proc, DoneWith
  <2>. QED
    BY <2>2, PlainMoves
<1>4. ASSUME NEW i, NEW j, Hold(h, i, j, pc) PROVE Knowledge'
  <2>1. PICK p : p = [q EXCEPT !.pc = pc, !.todo = q.todo \ {i}, !.item = j]
    OBVIOUS
  <2>2. p.pc = pc /\ Become(h, p)
    BY <1>1, <1>4, <2>1 DEF Proc, Hold
  <2>. QED
    BY <2>2, PlainMoves
<1>5. ASSUME NEW j, Begin(h, j, pc) PROVE Knowledge'
  <2>1. PICK p : p = [Idle EXCEPT !.pc = pc, !.item = j]
    OBVIOUS
  <2>2. p.pc = pc
    BY <2>1 DEF Idle
  <2>. QED
    BY <1>5, <2>1, <2>2, PlainMoves DEF Begin
<1>. QED
  BY <1>2, <1>3, <1>4, <1>5

\* Which points are plain.
LEMMA PlainPoints ==
    {"idle", "advance", "dispatch", "succeed", "drain", "cancel", "notify"} \cup Settling
        \subseteq Plain
BY DEF Plain, PCs, Settling

\* The ends of requests, and the handlers that start over.
LEMMA GotoKnows ==
    ASSUME IInv, Knowledge, TerminalStep, NEW h \in Handlers,
           \/ SucceedCommit(h) \/ DispatchDone(h) \/ DrainSettle(h)
           \/ start_execution(h) \/ cancel_execution(h) \/ DuplicateSuccess(h)
           \/ StartCommit(h) \/ SuccessCommit(h) \/ RetryCommit(h) \/ FailureCommit(h)
           \/ CancelAckCommit(h) \/ DirectCommit(h) \/ CallAdvance(h)
    PROVE  Knowledge'
<1>1. Goto(h, "idle") \/ Goto(h, "advance") \/ Goto(h, "drain")
  BY DEF SucceedCommit, DispatchDone, DrainSettle, start_execution, cancel_execution,
         DuplicateSuccess, StartCommit, SuccessCommit, RetryCommit, FailureCommit,
         CancelAckCommit, DirectCommit, CallAdvance
<1>. QED
  BY <1>1, PlainForms, PlainPoints

\* The loops of a drain, and a claim.
LEMMA LoopsKnow ==
    ASSUME IInv, Knowledge, TerminalStep, NEW h \in Handlers,
           \/ DrainCancel(h) \/ DrainMark(h) \/ DrainExpireRead(h) \/ DrainExpireCommit(h)
           \/ ClaimCommit(h)
    PROVE  Knowledge'
<1>1. \/ \E i : DoneWith(h, i, "cancel") \/ DoneWith(h, i, "notify") \/ DoneWith(h, i, "dispatch")
      \/ \E i, j : Hold(h, i, j, "expire")
  BY DEF DrainCancel, DrainMark, DrainExpireRead, DrainExpireCommit, ClaimCommit
<1>2. {"cancel", "notify", "dispatch", "expire"} \subseteq Plain
  BY PlainPoints DEF Settling
<1>. QED
  BY <1>1, <1>2, PlainForms

\* What requests and sweeps read.
LEMMA ReceiveKnows ==
    ASSUME IInv, Knowledge, TerminalStep, NEW h \in Handlers,
           \/ acknowledge_start(h) \/ ReceiveSuccess(h) \/ ReceiveFailure(h)
           \/ ReceiveCancelAck(h) \/ SweepRead(h)
    PROVE  Knowledge'
<1>1. \E pc \in Settling : \E j : Begin(h, j, pc)
  <2>1. {"start", "success", "retry_check", "fail", "cancel_ack", "sweep_running",
         "sweep_draining"} \subseteq Settling
    BY DEF Settling
  <2>2. CASE acknowledge_start(h)
    BY <2>1, <2>2 DEF acknowledge_start
  <2>3. CASE ReceiveSuccess(h)
    BY <2>1, <2>3 DEF ReceiveSuccess
  <2>4. CASE ReceiveFailure(h)
    BY <2>1, <2>4 DEF ReceiveFailure
  <2>5. CASE ReceiveCancelAck(h)
    BY <2>1, <2>5 DEF ReceiveCancelAck
  <2>6. CASE SweepRead(h)
    BY <2>1, <2>6 DEF SweepRead
  <2>. QED
    BY <2>2, <2>3, <2>4, <2>5, <2>6
<1>. QED
  BY <1>1, PlainForms, PlainPoints

\* The reads that fill a loop.
LEMMA LoopReadsKnow ==
    ASSUME IInv, Knowledge, TerminalStep, NEW h \in Handlers,
           DispatchRead(h) \/ DrainRead(h) \/ DrainNotifyRead(h) \/ RetryCheck(h)
    PROVE  Knowledge'
<1>1. CASE Goto(h, "idle")
  BY <1>1, PlainForms, PlainPoints
<1>2. CASE ~Goto(h, "idle")
  <2>1. PICK p : Become(h, p) /\ p.pc \in {"dispatch", "cancel", "notify", "retry"}
    <3>1. \A x : /\ [Idle EXCEPT !.pc = "dispatch", !.todo = x].pc = "dispatch"
                 /\ [Idle EXCEPT !.pc = "notify", !.todo = x].pc = "notify"
      BY DEF Idle
    <3>2. CASE DispatchRead(h)
      <4>1. PICK x : Become(h, [Idle EXCEPT !.pc = "dispatch", !.todo = x])
        BY <3>2, Zenon DEF DispatchRead
      <4>. QED
        BY <3>1, <4>1, Zenon
    <3>3. CASE DrainRead(h)
      <4>1. workflow.state \in Draining
        BY <1>2, <3>3 DEF DrainRead
      <4>2. PICK x : x = {TaskItem("none", t) :
                            t \in {u \in Tasks : task[u].state \in Unstarted}}
        OBVIOUS
      <4>3. PICK y : y = {e \in Tasks \X Ordinals :
                            attempt[e[1]][e[2]].cancellation_deadline = "due"}
        OBVIOUS
      <4>4. PICK p : p = [Idle EXCEPT !.pc = "cancel", !.todo = x, !.elapsed = y]
        OBVIOUS
      <4>5. Become(h, p)
        BY <3>3, <4>1, <4>2, <4>3, <4>4 DEF DrainRead
      <4>6. p.pc = "cancel"
        BY <4>4 DEF Idle
      <4>. QED
        BY <4>5, <4>6
    <3>4. CASE DrainNotifyRead(h)
      <4>1. PICK x : Become(h, [Idle EXCEPT !.pc = "notify", !.todo = x])
        BY <3>4, Zenon DEF DrainNotifyRead
      <4>. QED
        BY <3>1, <4>1, Zenon
    <3>5. CASE RetryCheck(h)
      <4>1. PICK q \in Proc : q = proc[h]
        BY DEF IInv
      <4>2. [q EXCEPT !.pc = "retry"].pc = "retry"
        BY DEF Proc
      <4>. QED
        BY <1>2, <3>5, <4>1, <4>2 DEF RetryCheck
    <3>. QED
      BY <3>2, <3>3, <3>4, <3>5
  <2>2. p.pc \in Plain
    BY <2>1, PlainPoints DEF Settling
  <2>. QED
    BY <2>1, <2>2, PlainMoves
<1>. QED
  BY <1>1, <1>2

\* advance_workflow: what it reads justifies what it will promote.
LEMMA AdvanceReadKnows ==
    ASSUME IInv, Knowledge, TerminalStep, NEW h \in Handlers, AdvanceRead(h)
    PROVE  Knowledge'
<1>1. CASE Goto(h, "drain") \/ Goto(h, "idle")
  BY <1>1, PlainForms, PlainPoints
<1>2. CASE Become(h, [Idle EXCEPT !.pc = "succeed", !.wrev = workflow.revision])
  <2>1. [Idle EXCEPT !.pc = "succeed", !.wrev = workflow.revision].pc = "succeed"
    BY DEF Idle
  <2>. QED
    BY <1>2, <2>1, PlainMoves, PlainPoints
<1>3. CASE Become(h, [Idle EXCEPT !.pc = "promote", !.todo = Promotions])
  <2>1. PICK p : p = [Idle EXCEPT !.pc = "promote", !.todo = Promotions]
    OBVIOUS
  <2>2. p.pc = "promote" /\ p.todo = Promotions
    BY <2>1 DEF Idle
  <2>3. ASSUME NEW i \in Promotions PROVE Justified(i)
    <3>1. PICK t \in Tasks : \/ i = TaskItem("retry_ready", t)
                             \/ i = TaskItem("readiness", t) /\ evaluate_task_readiness(t)
      BY DEF Promotions
    <3>. QED
      BY <3>1 DEF TaskItem, Justified, DependenciesDone, evaluate_task_readiness
  <2>4. UNCHANGED task
    BY DEF AdvanceRead, rows
  <2>5. KnowsOK(p)'
    BY <2>2, <2>3, <2>4 DEF KnowsOK, Justified, DependenciesDone
  <2>. QED
    BY <1>3, <2>1, <2>5, KnowledgeMoves
<1>. QED
  BY <1>1, <1>2, <1>3 DEF AdvanceRead

\* The promotions: an item is taken from the list, or left.
LEMMA PromotesKnow ==
    ASSUME IInv, Knowledge, TerminalStep, NEW h \in Handlers,
           PromoteCheck(h) \/ PromoteCommit(h)
    PROVE  Knowledge'
<1>1. PICK q \in Proc : q = proc[h]
  BY DEF IInv
<1>2. q.pc \in {"promote", "promote_commit"} /\ q.todo \in SUBSET Item
  BY <1>1 DEF PromoteCheck, PromoteCommit, At, Proc
<1>3. \A i \in q.todo : Justified(i)
  BY <1>1, <1>2 DEF Knowledge, KnowsOK, Justified, DependenciesDone
<1>4. \A i \in q.todo : Justified(i)'
  BY <1>2, <1>3, JustifiedStays
<1>5. ASSUME NEW i, DoneWith(h, i, "promote") PROVE Knowledge'
  <2>1. PICK p : p = [q EXCEPT !.pc = "promote", !.todo = q.todo \ {i}, !.item = NoItem]
    OBVIOUS
  <2>2. p.pc = "promote" /\ p.todo \subseteq q.todo /\ Become(h, p)
    BY <1>1, <1>5, <2>1 DEF Proc, DoneWith
  <2>3. KnowsOK(p)'
    BY <1>4, <2>2 DEF KnowsOK
  <2>. QED
    BY <2>2, <2>3, KnowledgeMoves
<1>6. ASSUME NEW i \in q.todo, Hold(h, i, i, "promote_commit") PROVE Knowledge'
  <2>1. PICK p : p = [q EXCEPT !.pc = "promote_commit", !.todo = q.todo \ {i}, !.item = i]
    OBVIOUS
  <2>2. p.pc = "promote_commit" /\ p.todo \subseteq q.todo /\ p.item = i /\ Become(h, p)
    BY <1>1, <1>6, <2>1 DEF Proc, Hold
  <2>3. KnowsOK(p)'
    BY <1>4, <2>2 DEF KnowsOK
  <2>. QED
    BY <2>2, <2>3, KnowledgeMoves
<1>. QED
  BY <1>1, <1>5, <1>6 DEF PromoteCheck, PromoteCommit

\* Dispatch holds the session it chose.
LEMMA DispatchCheckKnows ==
    ASSUME IInv, Knowledge, TerminalStep, NEW h \in Handlers, DispatchCheck(h)
    PROVE  Knowledge'
<1>1. PICK q \in Proc : q = proc[h]
  BY DEF IInv
<1>2. PICK i \in q.todo :
        \/ DoneWith(h, i, "dispatch")
        \/ \E s \in Sessions : Hold(h, i, [i EXCEPT !.who = s], "claim")
  BY <1>1 DEF DispatchCheck
<1>3. CASE DoneWith(h, i, "dispatch")
  BY <1>3, PlainForms, PlainPoints
<1>4. ASSUME NEW s \in Sessions, Hold(h, i, [i EXCEPT !.who = s], "claim")
      PROVE  Knowledge'
  <2>1. i \in Item
    BY <1>2 DEF Proc
  <2>2. PICK j : j = [i EXCEPT !.who = s]
    OBVIOUS
  <2>. j.who = s
    BY <2>1, <2>2 DEF Item
  <2>3. PICK p : p = [q EXCEPT !.pc = "claim", !.todo = q.todo \ {i}, !.item = j]
    OBVIOUS
  <2>4. p.pc = "claim" /\ p.item = j /\ Become(h, p)
    BY <1>1, <1>4, <2>2, <2>3 DEF Proc, Hold
  <2>5. KnowsOK(p)'
    BY <2>2, <2>4 DEF KnowsOK
  <2>. QED
    BY <2>4, <2>5, KnowledgeMoves
<1>. QED
  BY <1>2, <1>3, <1>4

\* A sweep directs the workflow only after it failed a task.
LEMMA SweepCommitKnows ==
    ASSUME IInv, Knowledge, TerminalStep, NEW h \in Handlers, SweepCommit(h)
    PROVE  Knowledge'
<1>1. PICK i \in Item : i = proc[h].item /\ Fresh(i)
  BY HeldItem, Points DEF SweepCommit, At, Settling
<1>2. PICK running \in BOOLEAN :
        /\ commit_internal_attempt_failure(i, running)
        /\ IF FailsTask(i, running) THEN Goto(h, "direct") ELSE Goto(h, "idle")
  BY <1>1 DEF SweepCommit
<1>3. CASE ~FailsTask(i, running)
  BY <1>2, <1>3, PlainForms, PlainPoints
<1>4. CASE FailsTask(i, running)
  <2>1. RowsOK /\ i.task \in Tasks /\ "FAILED" \in TaskStates /\ "none" \in Timers
    BY DEF IInv, RowsInv, Item, TaskStates, Terminal, Timers
  <2>2. task' = TaskTo(i.task, "FAILED", "none")
    BY <1>2, <1>4 DEF commit_internal_attempt_failure, FailsTask, RetriesTask
  <2>3. task'[i.task].state = "FAILED"
    BY <2>1, <2>2, TaskToFacts
  <2>4. PICK p : p = [Idle EXCEPT !.pc = "direct"]
    OBVIOUS
  <2>5. p.pc = "direct" /\ Become(h, p)
    BY <1>2, <1>4, <2>4 DEF Goto, Idle
  <2>6. KnowsOK(p)'
    BY <2>1, <2>3, <2>5 DEF KnowsOK
  <2>. QED
    BY <2>5, <2>6, KnowledgeMoves
<1>. QED
  BY <1>3, <1>4

\* Every step keeps what the handlers know.
LEMMA StepsKnow ==
    ASSUME IInv, Knowledge, TerminalStep, [Next]_vars
    PROVE  Knowledge'
<1>1. CASE UNCHANGED vars \/ Registry \/ Clock
  <2>1. UNCHANGED proc
    BY <1>1 DEF vars, Registry, register_worker, HeartbeatsStop, heartbeat_worker, Clock,
                RetryFallsDue, StartDeadlinePasses, CancellationDeadlinePasses
  <2>. QED
    BY <2>1, OthersKnow DEF Knowledge
<1>2. ASSUME NEW h \in Handlers, Continue(h) \/ Request(h) \/ Housekeeping(h)
      PROVE  Knowledge'
  BY <1>2, GotoKnows, LoopsKnow, ReceiveKnows, LoopReadsKnow, AdvanceReadKnows,
     PromotesKnow, DispatchCheckKnows, SweepCommitKnows
     DEF Continue, Request, Housekeeping
<1>. QED
  BY <1>1, <1>2 DEF Next, NextDeployed

-----------------------------------------------------------------------------
\* The inductive invariant, with what handlers know.
KInv ==
    /\ IInv
    /\ TimersOK
    /\ Knowledge

\* Nobody knows anything at first.
LEMMA InitKnows == Init => KInv
<1>. SUFFICES ASSUME Init PROVE KInv
  OBVIOUS
<1>1. TimersOK
  BY DEF Init, StoreInit, TimersOK
<1>2. Knowledge
  BY DEF Init, Idle, Knowledge, KnowsOK
<1>. QED
  BY <1>1, <1>2, InitEstablishes DEF KInv

\* A step keeps the invariant, makes one of the moves, and ends nothing twice.
LEMMA NextKnows == KInv /\ [Next]_vars => KInv' /\ RowMove /\ TerminalStep
<1>. SUFFICES ASSUME KInv, [Next]_vars PROVE KInv' /\ RowMove /\ TerminalStep
  OBVIOUS
<1>1. IInv /\ TimersOK /\ Knowledge
  BY DEF KInv
<1>2. IInv'
  BY <1>1, NextKeeps
<1>3. RowMove
  BY <1>1, StepsMove
<1>4. TerminalStep /\ TimersOK'
  BY <1>1, <1>3, MovesAreFinal
<1>5. Knowledge'
  BY <1>1, <1>4, StepsKnow
<1>. QED
  BY <1>2, <1>3, <1>4, <1>5 DEF KInv

(***************************************************************************)
(* What a handler has concluded from its reads still holds when it acts on *)
(* it, however many transactions were committed in between: dependencies   *)
(* it saw SUCCEEDED, the failure it directs the workflow for.              *)
(***************************************************************************)
THEOREM KnowledgeHolds == Spec => []KInv
BY InitKnows, NextKnows, PTL DEF Spec

(***************************************************************************)
(* A terminal workflow or task row never changes again and a settled       *)
(* attempt keeps its outcome, whatever callbacks, sweeps and drains are    *)
(* still in flight with what they read before.                             *)
(***************************************************************************)
THEOREM Finality == Spec => TerminalIsFinal
<1>1. KInv /\ [Next]_vars => [TerminalStep]_vars
  BY NextKnows
<1>. QED
  BY <1>1, KnowledgeHolds, PTL DEF Spec, TerminalIsFinal
=============================================================================
