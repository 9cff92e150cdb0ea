-------------------------- MODULE StartupRecovery --------------------------
(***************************************************************************)
(* Crash and restart of the control plane, and StartupRecoveryEngine       *)
(* (orchestration/recovery.py), which runs before the application serves   *)
(* requests.                                                               *)
(*                                                                         *)
(* A crash loses the process memory: the coroutines in flight, the worker  *)
(* registry and every transaction that has not committed.  Worker session  *)
(* ids are generated at registration, so a session of an earlier process   *)
(* is never registered again.                                              *)
(*                                                                         *)
(* Each pass of recovery runs its phases in one session.  Its first SELECT *)
(* opens a transaction, so the transactional_scope of the commit_* calls   *)
(* is a SAVEPOINT and their writes stay uncommitted until the next         *)
(* session.commit().  The variables s... hold the rows as that session     *)
(* sees them; workflow, task and attempt are the committed rows, the only  *)
(* ones that advance_workflow and drain_workflow see, because they open    *)
(* sessions of their own.                                                  *)
(***************************************************************************)
EXTENDS ControlPlaneProps

CONSTANTS
    BatchSize,    \* settings.recovery.keyset_batch_size
    MaxPasses,    \* settings.recovery.convergence_max_passes
    MaxCrashes    \* bound on the crashes of a behaviour

ASSUME RecoveryAssumption ==
    /\ BatchSize \in Nat \ {0}
    /\ MaxPasses \in Nat \ {0}
    /\ MaxCrashes \in Nat

VARIABLES
    sworkflow, stask, sattempt,   \* the rows as recovery's session sees them
    locked,    \* that session holds the workflow row FOR UPDATE
    boot,      \* where recovery is
    retired,   \* sessions registered with an earlier process
    crashes

srows == <<sworkflow, stask, sattempt>>

bootVars == <<sworkflow, stask, sattempt, locked, boot, retired, crashes>>

rvars == <<vars, bootVars>>

Session == INSTANCE WorkflowStore WITH
    workflow <- sworkflow, task <- stask, attempt <- sattempt

\* _phase_1_repair_initializing finds nothing: no INITIALIZING row is ever
\* committed.  The control points are those of phases 2 to 8.
Phases == {"resume_draining", "settle_claimed", "settle_running",
           "promote_retry_wait", "rediscover_runnable",
           "repair_pending_readiness", "repair_terminalization"}

Following == [resume_draining          |-> "settle_claimed",
              settle_claimed           |-> "settle_running",
              settle_running           |-> "promote_retry_wait",
              promote_retry_wait       |-> "rediscover_runnable",
              rediscover_runnable      |-> "repair_pending_readiness",
              repair_pending_readiness |-> "repair_terminalization",
              repair_terminalization   |-> "end_pass"]

Boot == [phase : Phases \cup {"end_pass", "recovered", "serving"},
         read : BOOLEAN,          \* the phase has run its SELECT
         todo : SUBSET (Item \cup {NoItem}),
         direct : BOOLEAN,        \* a task just failed: direct its workflow
         mutated : BOOLEAN,       \* mutations > 0
         pass : 1..MaxPasses]

FirstPass == [phase |-> "resume_draining", read |-> FALSE, todo |-> {},
              direct |-> FALSE, mutated |-> FALSE, pass |-> 1]

RecoveryInit ==
    /\ Init
    /\ sworkflow = workflow /\ stask = task /\ sattempt = attempt
    /\ locked = FALSE
    /\ boot = [FirstPass EXCEPT !.phase = "serving"]
    /\ retired = {}
    /\ crashes = 0

-----------------------------------------------------------------------------
(***************************************************************************)
(* The serving process.                                                    *)
(***************************************************************************)
\* Plausible error: the session goes on with the rows it has in memory.
StaleSession == UNCHANGED srows

\* The session's rows after a step that wrote committed rows: a row that
\* the session has not written is read afresh by its next statement.
Refresh ==
    /\ sworkflow' = IF sworkflow = workflow THEN workflow' ELSE sworkflow
    /\ stask' = [t \in Tasks |-> IF stask[t] = task[t] THEN task'[t] ELSE stask[t]]
    /\ sattempt' = [t \in Tasks |-> [o \in Ordinals |->
          IF sattempt[t][o] = attempt[t][o] THEN attempt'[t][o] ELSE sattempt[t][o]]]

Serving(step) ==
    /\ boot.phase = "serving"
    /\ step
    /\ \A s \in retired : worker'[s] = worker[s]
    /\ Refresh
    /\ UNCHANGED <<locked, boot, retired, crashes>>

Crash ==
    /\ crashes < MaxCrashes
    /\ crashes' = crashes + 1
    /\ proc' = [h \in Handlers |-> Idle]
    /\ worker' = [s \in Sessions |-> "unknown"]
    /\ retired' = retired \cup {s \in Sessions : worker[s] # "unknown"}
    /\ sworkflow' = workflow /\ stask' = task /\ sattempt' = attempt
    /\ locked' = FALSE
    /\ boot' = FirstPass
    /\ UNCHANGED rows

-----------------------------------------------------------------------------
(***************************************************************************)
(* What the phases select, and the calls they make.                        *)
(***************************************************************************)
\* Plausible error: only attempts past their start deadline are orphans.
ExpiredAttempts(state) ==
    {[op |-> "WORKER_LOSS", task |-> e[1], ordinal |-> e[2], trev |-> 0,
      arev |-> sattempt[e[1]][e[2]].revision,
      who |-> sattempt[e[1]][e[2]].worker_session_id] :
        e \in {f \in Tasks \X Ordinals :
                 /\ sattempt[f[1]][f[2]].state = state
                 /\ sattempt[f[1]][f[2]].start_deadline = "due"}}

OwnedAttempts(state) ==
    {[op |-> "WORKER_LOSS", task |-> e[1], ordinal |-> e[2], trev |-> 0,
      arev |-> sattempt[e[1]][e[2]].revision,
      who |-> sattempt[e[1]][e[2]].worker_session_id] :
        e \in {f \in Tasks \X Ordinals : sattempt[f[1]][f[2]].state = state}}

TasksIn(states) ==
    {[op |-> "none", task |-> t, ordinal |-> 0, trev |-> stask[t].revision,
      arev |-> 0, who |-> NoSession] : t \in {u \in Tasks : stask[u].state \in states}}

TheWorkflow(states) == IF sworkflow.state \in states THEN {NoItem} ELSE {}

Found(phase) ==
    CASE phase = "resume_draining" -> TheWorkflow(Draining)
      [] phase = "settle_claimed" -> OwnedAttempts("CLAIMED")
      [] phase = "settle_running" -> OwnedAttempts("RUNNING")
      [] phase = "promote_retry_wait" ->
           {i \in TasksIn({"RETRY_WAIT"}) : stask[i.task].retry_ready_at = "due"}
      [] phase = "rediscover_runnable" -> TasksIn({"RUNNABLE"})
      [] phase = "repair_pending_readiness" -> TasksIn({"PENDING"})
      [] phase = "repair_terminalization" -> TheWorkflow(Draining \cup {"RUNNING"})

\* ORDER BY ... LIMIT batch_size; the order is arbitrary here.
Batches(found) ==
    {b \in SUBSET found :
        \/ b = found /\ Cardinality(found) <= BatchSize
        \/ Cardinality(b) = BatchSize}

\* Recovery awaits the scheduler call it made before it goes on.
InPhase(phase) ==
    /\ boot.phase = phase
    /\ ~boot.direct
    /\ \A h \in Handlers : At(h, "idle")

Call(pc) == \E h \in Handlers : Goto(h, pc)

Drop(i) == [boot EXCEPT !.todo = @ \ {i}]

PhaseRead ==
    /\ \E p \in Phases :
         /\ InPhase(p)
         /\ ~boot.read
         /\ \E b \in Batches(Found(p)) :
              boot' = [boot EXCEPT !.read = TRUE, !.todo = b]
    /\ UNCHANGED <<vars, srows, locked, retired, crashes>>

PhaseDone ==
    /\ \E p \in Phases :
         /\ InPhase(p)
         /\ boot.read
         /\ boot.todo = {}
         /\ boot' = [boot EXCEPT !.phase = Following[p], !.read = FALSE]
    /\ UNCHANGED <<vars, srows, locked, retired, crashes>>

-----------------------------------------------------------------------------
\* drain_workflow returns None, so this phase never counts a mutation.
_phase_2_resume_draining ==
    /\ InPhase("resume_draining")
    /\ \E i \in boot.todo : boot' = Drop(i)
    /\ Call("drain")
    /\ UNCHANGED <<rows, worker, srows, locked, retired, crashes>>

\* Plausible error: only retries count as mutations.
FailureNotCounted(phase) ==
    /\ InPhase(phase)
    /\ \E i \in boot.todo :
         LET j == [i EXCEPT !.trev = stask[i.task].revision]
             running == sworkflow.state = "RUNNING"
         IN  /\ Session!commit_internal_attempt_failure(j, running)
             /\ boot' = [Drop(i) EXCEPT
                           !.direct = Session!FailsTask(j, running),
                           !.mutated = @ \/ Session!RetriesTask(j, running)]
    /\ UNCHANGED <<vars, locked, retired, crashes>>

\* The registry is empty, so every session is dead: phases 3 and 4 settle
\* as WORKER_LOSS whatever they find.
SettleOrphan(phase) ==
    /\ InPhase(phase)
    /\ \E i \in boot.todo :
         LET j == [i EXCEPT !.trev = stask[i.task].revision]
             running == sworkflow.state = "RUNNING"
             fails == Session!FailsTask(j, running)
         IN  /\ Session!commit_internal_attempt_failure(j, running)
             /\ boot' = [Drop(i) EXCEPT
                           !.direct = fails,
                           !.mutated = @ \/ fails \/ Session!RetriesTask(j, running)]
    /\ UNCHANGED <<vars, locked, retired, crashes>>

_phase_3_settle_claimed_attempts == SettleOrphan("settle_claimed")

_phase_4_settle_running_attempts == SettleOrphan("settle_running")

\* SELECT ... FOR UPDATE takes the lock whatever the state turns out to be,
\* and drain_workflow is called whatever the outcome was.
DirectOrphan ==
    /\ boot.direct
    /\ Session!commit_workflow_failure_direction
    /\ locked' = TRUE
    /\ boot' = [boot EXCEPT !.direct = FALSE]
    /\ Call("drain")
    /\ UNCHANGED <<rows, worker, retired, crashes>>

\* Everything the session wrote becomes visible and its locks are released.
SessionCommit ==
    /\ workflow' = sworkflow' /\ task' = stask' /\ attempt' = sattempt'
    /\ locked' = FALSE

\* commit_retry_ready checks that the workflow is RUNNING; the row may have
\* been promoted by the advance_workflow of an earlier item.
_phase_5_promote_retry_wait ==
    /\ InPhase("promote_retry_wait")
    /\ \E i \in boot.todo :
         IF sworkflow.state = "RUNNING" /\ Session!TaskIs(i, {"RETRY_WAIT"})
         THEN /\ Session!commit_retry_ready(i)
              /\ SessionCommit
              /\ boot' = [Drop(i) EXCEPT !.mutated = TRUE]
              /\ Call("advance")
         ELSE /\ boot' = Drop(i)
              /\ UNCHANGED <<rows, srows, locked, proc>>
    /\ UNCHANGED <<worker, retired, crashes>>

_phase_6_rediscover_runnable ==
    /\ InPhase("rediscover_runnable")
    /\ \E i \in boot.todo : boot' = Drop(i)
    /\ Call("advance")
    /\ UNCHANGED <<rows, worker, srows, locked, retired, crashes>>

\* seen_wf_ids: one call per workflow.
_phase_7_repair_pending_readiness ==
    /\ InPhase("repair_pending_readiness")
    /\ boot.todo # {}
    /\ boot' = [boot EXCEPT !.todo = {}]
    /\ Call("advance")
    /\ UNCHANGED <<rows, worker, srows, locked, retired, crashes>>

\* The verdict, with every task terminal.
CloseDrained ==
    /\ sworkflow.state \in Draining
    /\ IF sworkflow.state = "FAILING" THEN Session!commit_workflow_failure
                                      ELSE Session!commit_workflow_cancellation
    /\ UNCHANGED <<locked, proc>>

DirectFailed ==
    /\ sworkflow.state = "RUNNING"
    /\ \E t \in Tasks : stask[t].state = "FAILED"
    /\ Session!commit_workflow_failure_direction
    /\ locked' = TRUE
    /\ Call("drain")

\* The output is {}: the bindings of the definition are not resolved.
CloseSucceeded ==
    /\ sworkflow.state = "RUNNING"
    /\ Session!AllTasks({"SUCCEEDED"})
    /\ Session!commit_workflow_success(sworkflow.revision)
    /\ UNCHANGED <<locked, proc>>

_phase_8_repair_terminalization ==
    /\ InPhase("repair_terminalization")
    /\ \E i \in boot.todo :
         IF Session!AllTasks(Terminal)
         THEN /\ CloseDrained \/ DirectFailed \/ CloseSucceeded
              /\ boot' = [Drop(i) EXCEPT !.mutated = TRUE]
         ELSE /\ boot' = Drop(i)
              /\ UNCHANGED <<srows, locked, proc>>
    /\ UNCHANGED <<rows, worker, retired, crashes>>

\* Plausible error: one pass more than convergence_max_passes.
OnePassTooMany ==
    /\ InPhase("end_pass")
    /\ UNCHANGED srows
    /\ SessionCommit
    /\ boot' = IF boot.mutated /\ boot.pass <= MaxPasses
               THEN [FirstPass EXCEPT !.pass = boot.pass + 1]
               ELSE [FirstPass EXCEPT !.phase = "recovered"]
    /\ UNCHANGED <<proc, worker, retired, crashes>>

\* session.commit(), then another pass unless this one was clean.
EndPass ==
    /\ InPhase("end_pass")
    /\ UNCHANGED srows
    /\ SessionCommit
    /\ boot' = IF boot.mutated /\ boot.pass < MaxPasses
               THEN [FirstPass EXCEPT !.pass = boot.pass + 1]
               ELSE [FirstPass EXCEPT !.phase = "recovered"]
    /\ UNCHANGED <<proc, worker, retired, crashes>>

\* gate.mark_recovery_completed(), and the application starts to serve.
OpenGate ==
    /\ InPhase("recovered")
    /\ boot' = [boot EXCEPT !.phase = "serving"]
    /\ UNCHANGED <<vars, srows, locked, retired, crashes>>

-----------------------------------------------------------------------------
(***************************************************************************)
(* The scheduler calls recovery awaits.  A statement that changes a row    *)
(* the session has written waits for that session; so does the INSERT of a *)
(* history entry while the session holds the workflow row FOR UPDATE,      *)
(* because its foreign key asks for FOR KEY SHARE.  Every transaction of   *)
(* these calls writes history when it changes a task or the workflow.      *)
(***************************************************************************)
NotBlocked ==
    /\ workflow' # workflow => ~locked /\ sworkflow = workflow
    /\ \A t \in Tasks :
         /\ task'[t] # task[t] => ~locked /\ stask[t] = task[t]
         /\ \A o \in Ordinals :
              attempt'[t][o] # attempt[t][o] => sattempt[t][o] = attempt[t][o]

Scheduler ==
    /\ boot.phase # "serving"
    /\ \E h \in Handlers : Continue(h)
    /\ NotBlocked
    /\ Refresh
    /\ UNCHANGED <<locked, boot, retired, crashes>>

\* The clock passes stored instants, also those not yet committed.
BootClock ==
    /\ boot.phase # "serving"
    /\ \/ Clock /\ Refresh
       \/ \E t \in Tasks :
            /\ stask[t] # task[t]
            /\ stask[t].retry_ready_at = "pending"
            /\ stask' = [stask EXCEPT ![t].retry_ready_at = "due"]
            /\ UNCHANGED <<vars, sworkflow, sattempt>>
    /\ UNCHANGED <<locked, boot, retired, crashes>>

Recover ==
    \/ PhaseRead \/ PhaseDone \/ _phase_2_resume_draining
    \/ _phase_3_settle_claimed_attempts \/ _phase_4_settle_running_attempts
    \/ DirectOrphan \/ _phase_5_promote_retry_wait \/ _phase_6_rediscover_runnable
    \/ _phase_7_repair_pending_readiness \/ _phase_8_repair_terminalization
    \/ EndPass \/ OpenGate \/ Scheduler

\* The application as main:app runs it, with crashes.
RecoveryNext == Serving(NextDeployed) \/ Crash \/ Recover \/ BootClock

RecoverySpec == RecoveryInit /\ [][RecoveryNext]_rvars

\* The event loop keeps running the coroutine of recover_system; no stored
\* instant passes meanwhile.
PromptRecovery ==
    /\ RecoveryInit
    /\ [][Serving(NextDeployed) \/ Crash \/ Recover]_rvars
    /\ WF_rvars(Recover)

-----------------------------------------------------------------------------
\* Recovery's state has its type.
RecoveryTypeOK ==
    /\ TypeOK
    /\ Session!AllTasks(TaskStates)
    /\ sworkflow \in WorkflowRow
    /\ stask \in [Tasks -> TaskRow]
    /\ sattempt \in [Tasks -> [Ordinals -> AttemptRow]]
    /\ locked \in BOOLEAN
    /\ boot \in Boot
    /\ retired \subseteq Sessions
    /\ crashes \in 0..MaxCrashes

(***************************************************************************)
(* docs/design/lld-07 section 7.1: recovery is complete only when "Every   *)
(* pre-restart CLAIMED and RUNNING attempt has been reconciled".  Nobody   *)
(* else would: the owner of such an attempt is unknown to the registry, so *)
(* sweep_worker_loss never finds it.                                       *)
(***************************************************************************)
OrphansAreSettled ==
    boot.phase = "recovered" => \A t \in Tasks : ~HasActiveAttempt(t)

(***************************************************************************)
(* What a crash interrupted is finished when the gate opens: a draining    *)
(* workflow is closed, although the phase that drains comes before the     *)
(* phases that end its last attempts and drains do not count as mutations; *)
(* a workflow whose tasks all SUCCEEDED has its verdict; and a RUNNING     *)
(* workflow has neither a failed task nor a ready task left in PENDING.    *)
(***************************************************************************)
InterruptedWorkIsFinished ==
    boot.phase = "recovered" =>
        /\ workflow.state \notin Draining
        /\ workflow.state = "RUNNING" =>
             /\ ~AllTasks({"SUCCEEDED"})
             /\ \A t \in Tasks :
                  task[t].state # "FAILED" /\ ~evaluate_task_readiness(t)

(***************************************************************************)
(* A crash loses no committed decision: across crashes and recoveries no   *)
(* row goes back, although recovery works on rows that it read before the  *)
(* scheduler calls it makes and commits them all at the end of a pass.     *)
(***************************************************************************)
NothingIsUndone ==
    [][ /\ TerminalStep
        /\ workflow'.revision >= workflow.revision
        /\ \A t \in Tasks : /\ task'[t].revision >= task[t].revision
                            /\ task'[t].next_attempt_ordinal >=
                                   task[t].next_attempt_ordinal ]_rvars

(***************************************************************************)
(* src/nexusflow/orchestration/recovery.py:54, "Deterministic bounded      *)
(* recovery engine": the gate opens after every restart.                   *)
(***************************************************************************)
RecoveryCompletes == boot.phase # "serving" ~> boot.phase = "serving"

=============================================================================
