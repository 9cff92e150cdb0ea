# NexusFlow in TLA+

NexusFlow is a durable workflow engine: a FastAPI control plane over PostgreSQL that
runs workflow executions made of dependent tasks on long-polling workers. These
modules model its control plane at the granularity of database statements, its startup
recovery, its worker protocol, its definition pipeline and its idempotency ledger, and check
them with TLC on small instances. With TLAPS they prove, for every workflow graph, retry
budget, set of worker sessions and number of concurrent handlers, the safety properties of
the control plane and that it implements its abstract specification, that these properties
survive crashes and recovery, and the safety of the row locks, of the worker protocol and of
the ledger.

Paths below are relative to `src/src/nexusflow/`.

## Inventory

| Component | State | Operations | Interacts with |
|---|---|---|---|
| Transactions (`persistence/transactions.py`, `orm.py`) | rows of `workflow_executions`, `task_executions`, `execution_attempts`, each with `state` and `revision`; history, idempotency and definition rows | the `commit_*` functions, every one a conditional UPDATE on state and expected revision | called by routes, scheduler, recovery |
| Scheduler (`orchestration/scheduler.py`, `domain/readiness.py`) | none of its own | `advance_workflow`, `drain_workflow`, `sweep_timeouts_and_deadlines`, `sweep_worker_loss` | transactions; registry for workers and delivery hints |
| Execution routes (`interfaces/http/routes/executions.py`) | none | start, cancel, read | transactions, then scheduler |
| Worker routes (`routes/worker.py`, `domain/failure.py`) | none | register, heartbeat, poll, start, callback (success, failure, cancel ACK) | registry; transactions, then scheduler |
| Registry (`orchestration/registry.py`) | sessions, last heartbeat, delivery queues; in memory, lost on restart | register, heartbeat, find eligible worker, find lost sessions, queue and poll | scheduler, worker routes |
| Recovery (`orchestration/recovery.py`) | gate; one database session kept for eight phases | `recover_system` | transactions, scheduler |
| Worker runtime (`worker/runtime.py`) | session id, the activity it runs | `start`, `run_once` (poll, acknowledge, run, callback), heartbeat and poll loops | worker routes |
| Definition pipeline (`definition/*`, `domain/graph.py`, `routes/definitions.py`) | none; writes definition and idempotency rows | parse, normalise, validate, fingerprint, serialise, load | transactions; the scheduler loads what was stored |
| Shell (`interfaces/http/app.py`, security, settings, observability) | configuration, counters | lifespan, authentication | all routes |

What is hard. Every handler is a coroutine: it yields at each `await`, so between any two
statements of one request any statement of another can run. Decisions are taken on rows
read several awaits earlier; what keeps them safe is the expected revision in each UPDATE.
The workflow row and the task rows are written by different transactions, so checks of the
workflow state that take no lock can be stale. Attempt and task are settled by two UPDATEs,
and in the internal settlements an early return after the first one *commits* it. Workers
call late, twice, or after they were declared lost. Progress depends on the callbacks of
the workers: after recovery the application runs no periodic task.

What makes each part correct:

* transactions and worker routes: one active attempt per task, its outcome is the
  outcome of the task, the budget holds, terminal rows are final;
* scheduler: dependencies first, no lost wakeup when several dependencies finish
  together, a verdict that matches the tasks, a drain that closes the workflow;
* recovery: the same facts across a crash between any two transactions, no orphan and no
  interrupted decision left when the gate opens, and no waiting for itself;
* registry and worker runtime: a claimed attempt reaches its worker and is executed, once,
  and never after its start deadline has passed unacknowledged;
* definitions: accepted exactly when every reference resolves and the tasks can be
  scheduled, and loaded as they were accepted;
* idempotency: one resource per key, whatever races, fails or is repeated.

## Modules

| Module | Content |
|---|---|
| `WorkflowStore` | the rows of one execution and every `commit_*` transaction on them |
| `ControlPlane` | handlers (routes and scheduler) as control points over `WorkflowStore`, the registry's view of liveness, the clock; `Init`, `Next`, `Spec` |
| `TaskLifecycle` | the abstract specification: what the engine promises, with atomic steps decided on the current state |
| `ControlPlaneProps` | the properties, the refinement mapping to `TaskLifecycle`, and the two fair specifications |
| `MCControlPlane` | graphs and budgets for TLC |
| `ControlPlaneProofs` | the inductive invariant, types, ownership and budget |
| `FinalityProofs` | what handlers know when they act, the moves a step can make on the rows; terminal rows are final |
| `OutcomeProofs` | outcomes of attempts and tasks, dependencies, the verdict; the control plane implements `TaskLifecycle` |
| `StartupRecovery`, `MCRecovery` | crash and restart, phases 2 to 8 of `recover_system` with their shared session; extends `ControlPlaneProps`, so the crash may come at any step of any handler |
| `RecoveryProofs` | the rows of recovery's session against the committed ones; what survives a crash |
| `RowLocks`, `MCRowLocks` | the PostgreSQL row locks of every transaction, in the order of its statements |
| `RowLocksProofs` | the only deadlock |
| `WorkerProtocol`, `MCWorkerProtocol` | one worker process, the registry, the delivery queues and the worker routes between them over a network that loses calls |
| `WorkerProtocolProofs` | types; when a handler runs once; an expired assignment never runs |
| `DefinitionPipeline`, `MCDefinitionPipeline` | normaliser, validator, Kahn's reduction, codec |
| `DefinitionProofs` | what the validator, the reduction and the codec compute for every document |
| `Idempotency`, `MCIdempotency` | concurrent, repeated and failing calls of `register_definition` and `start_execution` |
| `IdempotencyProofs` | the ledger invariant and what follows from it |

`ControlPlane`, `StartupRecovery` and `WorkerProtocol` see the same rows at different grain.
`ControlPlane` has every transaction and takes the calls of workers as an environment that
may call anything at any time. `WorkerProtocol` has the worker that makes those calls and
reduces a row to what the protocol reads and writes; the changes the control plane makes by
itself are one action per kind. `StartupRecovery` adds the crash to the former and its
effect, that everything active has been settled, is `ControlPlaneRestarts` in the latter.

### Control plane: state

* `workflow`, `task[t]`, `attempt[t][o]`: the rows. `"ABSENT"` is a row not yet inserted.
  A timestamp column keeps only its relation to the clock: `"none"`, `"pending"`, `"due"`.
  Payload columns, failure details and history rows are left out.
* `worker[s]`: `"unknown"`, `"live"` or `"lost"` (heartbeat older than the liveness timeout).
* `proc[h]`: a handler's control point, the rows it still has to treat (`todo`), the one it
  holds (`item`, with the revisions it read), the workflow revision it read (`wrev`) and
  the deadlines already elapsed at its `now_utc` (`elapsed`).

### Control plane: actions

`Request(h)` are the first reads of the HTTP routes, `Continue(h)` what an admitted request
does until its response, `Housekeeping(h)` the scheduler entry points nothing in the
application calls (both sweeps, and `advance_workflow` from outside a request),
`Registry` and `Clock` the environment. `NextDeployed` is the application as `main:app`
runs it; `Next` adds `Housekeeping`. A call that is refused at its first read (404, 403,
409) changes nothing and is not an action.

A handler that leaves through an exception is rolled back: `report_callback` raises when a
settlement is not `COMMITTED`, so success, retry, definitive failure and cancel ACK write
both rows or none. The sweeps and the drain open a session per row and call the transaction
at top level, where `transactional_scope` commits on return: `commit_internal_attempt_failure`
and `commit_internal_cancellation_deadline` therefore keep the partial outcome. That it never
occurs is what `OwnershipIsExclusive` proves.

### Control plane: atomicity

A commit is one step, for row locks make the UPDATEs of a transaction take effect together.
The SELECT before it is a step of its own wherever its staleness can matter (`PromoteCheck`,
`DispatchCheck`, `RetryCheck`, `SweepRead`). Where a read shares a step with another
statement, no write in between can be told apart:

* `AdvanceRead` reads workflow and tasks together: each later commit checks again.
* the callbacks read attempt, task and workflow together: while the attempt keeps its
  revision the task row does not change, and if the attempt changes the commit fails;
* `SweepRead` includes the workflow SELECT of the commit: the attempt's revision is checked
  after it, and heartbeats in between change nothing the commit looks at;
* `DrainCancel`, `CancelAckCommit` and `DrainExpireCommit` include their check that the
  workflow drains: a draining workflow can only become terminal, which needs every task
  terminal, and then the task predicate fails;
* `DrainSettle` includes the read of the tasks: terminal tasks do not change, and a task
  that ends after the read is followed by the drain of its own handler. `SucceedCommit`
  includes the commit's re-reads: the UPDATE is conditional on the revision read before;
* `commit_worker_definitive_failure` includes the direction of the workflow, which
  `report_callback` performs in the same transaction before `session.commit()`. In the
  sweeps direction is a transaction of its own: `DirectCommit`;
* creation, population and start of an execution are savepoints of one transaction, so
  `INITIALIZING` is never committed.

ORM details that matter: `expire_on_commit` is off and a row already in a session's identity
map is not refreshed by a later SELECT, so a concurrent duplicate success is answered 409
and a sequential one is accepted and advances (`DuplicateSuccess`); and a stale
`wf_row.state` in the direction transactions is harmless because the UPDATE repeats the
predicate. `now_utc` is taken when a handler begins: a start acknowledgement admitted before
the deadline commits after it, and a drain settles only deadlines elapsed at its start.

A sweep reads up to 50 rows and settles them in turn; each row has a handler of its own,
which allows more interleavings than the code. `DispatchCheck` may find no worker for any
task, because capabilities and `accepting_work` are abstracted.

### Recovery

`recover_system` keeps one session for all phases of a pass. Its first SELECT opens a
transaction, so each `transactional_scope` of a `commit_*` call inside is a SAVEPOINT: what
the phases write stays invisible to others, and locked, until the next `session.commit()`,
which is in phase 5 and at the end of the pass. `advance_workflow` and `drain_workflow`,
which the phases await, open sessions of their own. `sworkflow`, `stask` and `sattempt` are
the rows as recovery's session sees them, `workflow`, `task` and `attempt` the committed
ones; `locked` says that the session has the workflow row FOR UPDATE, and `NotBlocked` is
the condition under which a statement of another session does not wait for it. `Refresh`
keeps the session's view of rows it has not written up to date: they are read again by the
next statement (READ COMMITTED).

Every phase is its SELECT (`PhaseRead`, at most `BatchSize` rows), one action per row and
`PhaseDone`. The registry is empty after a restart, so phases 3 and 4 find every session
dead. Phase 1 is left out: `INITIALIZING` is never committed. Session ids are generated at
registration, hence `retired`: a session of an earlier process is never registered again.

### Row locks

A transaction is the list of locks its statements take (`Plan`); it takes them in order,
waits where another one holds a conflicting one, and may end early where a predicate
matches no row. Two transactions that cannot be in a circle have no plan: the start of an
execution only inserts rows nobody else sees yet, and the UPDATE of a cancellation deadline
by a drain is the only statement of its transaction. The insert of a history entry takes FOR KEY SHARE on the workflow row by
its foreign key. PostgreSQL aborts a transaction of a smallest waiting circle
(`DeadlockDetected`).

### Worker protocol

`run_once` is one control point per await: poll, start acknowledgement, handler, callback.
The server's commit of a start (`StartServed`) and the arrival of its response, at which the
handler is called (`StartAnswered`), are separate steps: the attempt may be settled in between.
`_poll_loop` swallows its exceptions, so every way out leads to the next poll. A lost call
is served or not, and its answer is not seen; a poll whose client has gone goes on and may
take a message from the queue. `poll_work` first waits on the queue and then reads the
oldest CLAIMED attempt of the session. A handler may return, raise, raise TypeError (and is
then called again with one argument) or return what is not JSON. `DrainAttempt` is the
UPDATE by which `drain_workflow` writes a cancellation deadline; it asks neither for the
state nor for the absence of a deadline, so up to `MaxDrains` drains that read the same row
write it and send a CANCEL_COMMAND each.

### Definitions

A document is what the parser and Pydantic let through. `validate` reports errors in the
order of the code and stops at `max_errors`; the reduction is one step per popped task and
takes the freed tasks in any order, since the code iterates over sets; it runs over the
candidate or, while loading, over the stored row (`graph`). `Load` checks a
stored row again, as `deserialize_validated_spec` does, also one that this version did not
write (`RowFromElsewhere`). The reference definitions (`Schedulable`, `Sound`, `Stuck`) say
what the code computes without its loops.

### Idempotency

`INSERT ... ON CONFLICT DO NOTHING` on the primary key of `idempotency_records` waits for an
open transaction that has inserted the same key (`InsertWins`); if that one rolls back, it
wins. A body has a JSON type and the text of its members in the order received.
A registration is digested canonically (`Canonical`: no order, `json.dumps` with sorted keys),
a start as Python prints its input (`Fingerprint`): in the order received, and without the
quotes that tell the string `"1"` from the number 1 at the top level. `Restart` includes recovery, which advances every workflow with PENDING tasks.

## Runs

| Run | Instance | Checks | Distinct states |
|---|---|---|---|
| `chain` | `ta` before `tb`, one retry of `ta` | `TypeOK`, `DependenciesFirst`, `VerdictMatchesTasks`, `ExclusiveOwnership`, `OutcomesAgree`, `RetryBudget`, `TerminalIsFinal`, `ImplementsLifecycle` | 377,140 |
| `fan_in` | two tasks joined by a third, `PromptSpec` | `ReadyTasksAreReleased`, `SuccessIsSettled`, `DrainedIsClosed` | 105,330 |
| `recovery` | `ta` before `tc`, beside `tb`; one retry of `ta`, two crashes | `RecoveryTypeOK`, `OrphansAreSettled`, `InterruptedWorkIsFinished`, `NothingIsUndone` | 538,042 |
| `locks` | two tasks, three transactions of all kinds | `OnlyFailuresDeadlock` | 36,287 |
| `worker_faults` | two attempts, two sessions, a lost poll or start, a crash, a restart | `WorkerTypeOK`, `RunsOnce`, `ExpiredNeverRuns`, `AckedMeansStopped` | 3,993,640 |
| `delivery` | two attempts, two lost polls, starts or callbacks, `FairProtocol` | `ClaimsAreStarted` | 256,523 |
| `definitions` | all graphs on four tasks, all pairs of tasks with their references | `VerdictIsRight`, `RejectionIsExplained`, `ReductionIsTopological`, `LoadsBack` | 205,314 |
| `idempotency` | three starts and two registrations under one key, a start of an unknown definition, two faults, `FairIdem` | `OneResourcePerKey`, `AnswersAgree`, `CallsEnd`, `StartedIsScheduled` | 190,325 |
| `lost_drain` | chain, `DeployedSpec` | `UnstartedAreCancelled`: violated | |
| `retry_timer` | chain with a retry, `DeployedSpec` | `OverdueRetriesAreReleased`: violated | |
| `recovery_deadlock` | `ta` before `tc`, beside `tb`; one crash, `PromptRecovery` | `RecoveryCompletes`: violated | |
| `wrong_handler` | two attempts, one lost poll, `FairProtocol` | `ClaimsAreExecuted`: violated | |

**Bounds.** `AttemptLimit` is the admission limit on `max_attempts`
(`definition/validator.py`), here 1 or 2 instead of the configured value. No counter of the
control plane needs a further bound: revisions grow only with state changes, which the
budget limits. In `chain` the budget of `tb` is one below the limit, so that an attempt beyond it
would be visible. `Handlers` is the number of coroutines in flight: two reach every race
between a pair of statements; a single task was also explored with three (1.8 million states)
with the same results. `chain` has one session; with two, where a retry can go to another
worker than the first attempt, it was explored once (2.8 million states) and all its
properties hold. They are proved for any number of sessions and handlers. Two tasks suffice for stale snapshots, three for a join, whose first two
tasks also run side by side.

`BatchSize`, `MaxPasses` and `MaxCrashes` are settings of recovery and the number of
crashes: a batch of three holds all rows a phase finds in the instance, and the second crash
can hit recovery itself. Two passes are needed because phase 2 drains before phases 3 and 4
end attempts. It shows when the last attempt of a task is orphaned while another task is
PENDING: here `tb` keeps the workflow moving, so that the retry of `ta` runs before `tc` can.
With `MaxPasses = 1` the run violates `InterruptedWorkIsFinished`. One handler is enough:
recovery awaits its calls one at a time, and of a handler in flight a crash leaves what it
has committed. The chain with a retry of `ta`, two handlers and two sessions was also
explored (655,546 states) with the same results, and so was this graph with two sessions (3.7
million states), where workers run again between the crashes. Three transactions allow a
circle of two beside a bystander and a circle of three. `MaxLosses`, `MaxCrashes` and `MaxRestarts` bound the faults of `WorkerProtocol`;
a lost poll that is still served is a second reader of the queue. `MaxDrains` is 1 in
`worker_faults`, where one attempt is drained; with 2 it was explored once (11.3 million states)
with the same results, and so was `delivery` with one attempt drained twice and one loss
(1.3 million states). In both runs one task is named like its activity and the other is not.
Four tasks give every
shape of cycle with a tail and a diamond; `MaxErrors` is 2 so that the cut-off happens.
`MaxFaults` is 2: a call can be rolled back and its repetition crash.

Handlers, sessions and transactions are interchangeable and nothing chooses among them, so
their symmetry is used, in the safety runs only. `CHECK_DEADLOCK FALSE` marks the systems
that may stop: all requests made and no session left to register (`fan_in`,
`worker_faults`, `delivery`), all documents or calls treated (`definitions`, `idempotency`),
and recovery that waits for itself (`recovery`, `recovery_deadlock`).

**Fairness.** `DeployedSpec` and `PromptSpec` assume weak fairness of `Continue(h)`: the
event loop keeps scheduling a coroutine that was admitted until it returns. Nothing is
assumed of clients, workers, the clock or the sweeps. `PromptSpec` is the same system with
workers that start in time and stay alive, which makes three tasks affordable.
`PromptRecovery` assumes the same of the coroutine of `recover_system`. `FairProtocol`
assumes that the two loops of a worker keep running, that a handler returns and that a
request being served is served; nothing of the sweeps, which no task of the application
runs. `FairIdem` assumes that a handler that can go on does, and that a stopped control
plane is restarted.

## What the checks show

The revision discipline works: with stale reads everywhere, the rows evolve as if every
decision had been taken on the current state (`ImplementsLifecycle`), and no wakeup is lost
when dependencies finish together. Recovery, wherever the crash was and also if it is itself
interrupted, leaves no orphan, finishes what was begun and commits no row it has not read
again. The start acknowledgement is a sufficient fence: whatever is delivered twice or late,
an expired assignment is never executed, and as long as callbacks get through no handler runs
twice; every claim in time is started. It is no fence against what happens while its response
is on the way (see below). The
validator and the codec agree with the reference definitions and with each other. A key
stands for one resource under every interleaving.

`TaskLifecycle` is stated as strongly as that is true: its `Release`, `Claim` and the retry
of `End` are possible while the workflow drains, which lld-06 section 9.1 forbids
(Divergences, first of the others).

### Divergences

Four runs show behaviour that the documents or comments of the repository exclude:

* **`lost_drain`**. The drain has read a task at its old revision, its cancellation
  conflicts with a concurrent promotion, the conflict is ignored, the terminal check fails
  and nothing drains again. The workflow stays CANCELLING with a task no one may dispatch.
* **`retry_timer`**. `report_callback` schedules a retry and does not advance the workflow;
  no sweeper runs. The retry waits for another request of the same workflow.
* **`recovery_deadlock`**. Phase 3 or 4 fails an orphan and directs its workflow, which
  leaves the workflow row locked FOR UPDATE in recovery's session. The `drain_workflow` awaited
  next reads the workflow still RUNNING and returns. Phase 7 awaits `advance_workflow`
  (`recovery.py:327`), which promotes a ready PENDING task of that workflow; its history INSERT
  waits for the lock, and the coroutine for itself. The gate never opens.
* **`wrong_handler`**. The durable fallback labels an assignment with the name of the task
  (`routes/worker.py:204`), the hint with its activity type. If the hint was consumed by a poll
  whose response got lost and the names differ, as in
  `examples/workflows/01_linear_success.yaml`, the worker acknowledges the start and finds no
  handler. The attempt stays RUNNING and no fallback offers it again, although lld-05 section
  5.4 "guarantees that no committed task is ever stranded by an in-memory queue loss".

Others were met while modelling. The models contain the behaviour and the properties above
are stated around it:

* the workflow state is checked without a lock before a task is promoted, claimed or
  retried (`transactions.py:409`), so this can still commit after a direction. lld-06 section
  9.1 excludes it once a workflow drains ("no tasks become `RUNNABLE`; no new attempts are
  allocated", "Failed tasks are never transitioned to `RETRY_WAIT`"), and so does lld-02 section
  5 ("no subsequent scheduling, retry, or ownership mutation can commit").
  `ImplementsLifecycle` is weaker than these rules there, because a refinement of them is
  false; the trace of `lost_drain` is one of the promotions they forbid;
* two drains that read an attempt without a cancellation deadline both write one and send a
  command, and the write also hits an attempt settled meanwhile (`scheduler.py:403`); lld-06
  section 8.1 says that repeated passes "do **not** overwrite an existing deadline";
* the handler is called when the response of the start arrives, without another look at the
  attempt (`runtime.py:195`): one that was settled by worker loss, a cancellation deadline or
  a recovery while the response was on the way is still executed, beside its retry. Only the
  start deadline is fenced (`ExpiredNeverRuns`);
* a start whose response is lost leaves the attempt RUNNING (`transactions.py:602`), and the
  fallback offers only CLAIMED ones: it is started, as `ClaimsAreStarted` says, and not executed;
* an elapsed cancellation deadline is settled only by another drain (`scheduler.py:385`),
  which a silent worker never causes; adr-008 promises "Guaranteed Drain Convergence via
  Finite Deadlines";
* two definitive failures of one workflow deadlock (`transactions.py:1017`): the circle
  `OnlyFailuresDeadlock` excepts;
* the sweeps fail a task and direct the workflow in two transactions
  (`scheduler.py:510`); after a crash in between, phase 8 repairs the workflow only if all
  its tasks are terminal. No deployed code calls the sweeps;
* phase 8 commits the success of a workflow with the output `{}` (`recovery.py:420`) where
  lld-07 section 6.8 asks for the resolved bindings;
* with more orphans than passes times batch size, recovery gives up and the gate opens
  (`recovery.py:100`); phases 2, 6, 7 and 8 always select the oldest rows, so rows that are
  rightly waiting can keep younger ones out (`recovery.py:318`);
* a callback whose request or response is lost is not repeated (`runtime.py:257`; lld-05
  section 8 describes retries with backoff): the attempt stays RUNNING, a hint still queued
  makes the handler run again, and a cancel command is then acknowledged as
  COOPERATIVELY_STOPPED. `worker_faults` therefore loses polls and starts only, `delivery`
  loses callbacks too and asks only that claims are started;
* a claim past its start deadline stays at the head of the fallback and hides younger ones
  (`routes/worker.py:177`), an exception in `ClaimsAreStarted`;
* a worker never registers again after a 409 (`runtime.py:276`; lld-05 section 9: "Re-register
  as a new session"), and a late heartbeat revives an expired session (`registry.py:84`);
* the error message about a cycle also names tasks that only depend on one
  (`graph.py:82`), and an invalid identifier raises in the normaliser, whose docstring says
  it preserves them for the validator (`normalizer.py:34`; stage `"raised"`);
* when the scheduler call of a start raises, its repetition answers 201 and schedules
  nothing (`routes/executions.py:176`), the exception in `StartedIsScheduled`;
* the fingerprint of a start digests `str()` of its input (`routes/executions.py:90`), not the
  "normalized request payload" of `identifiers.py:129`: inputs that differ in the order of keys
  are refused as different requests, and `"1"` and `1`, or `"None"` and `null`, are taken for
  one and replayed. `AnswersAgree` is about equal fingerprints, not equal meanings;
* a replayed registration reports its own time as the creation time
  (`routes/definitions.py:168`).

## Proofs

**Control plane.** `ControlPlaneProofs` and `FinalityProofs` prove, from `StoreAssumption` (finite non-empty `Tasks`, `Deps` and
`MaxAttempts` of the right type, budgets between 1 and the admission limit, `NoSession` not a
session) and nothing about the graph, the number of sessions or of handlers:

* `Invariance`: `Spec => []IInv`;
* `TypeCorrectness`: `Spec => []TypeOK`. It is not immediate: no attempt may be written
  outside `Ordinals`, which is the budget argument;
* `OwnershipIsExclusive`: `Spec => []ExclusiveOwnership`;
* `BudgetIsKept`: `Spec => []RetryBudget`;
* `Finality`: `Spec => TerminalIsFinal`, an action property.

None of these is inductive by itself. A handler settles an attempt and its task with revisions it
read earlier, so `IInv` must say what those still mean:

* `ProcOK`: a handler at a control point that settles an attempt names an existing attempt
  (`Allocated`), and *if* that attempt is still active, the task row still has the revision
  the handler read (`Fresh`). Thus whenever the first UPDATE of a settlement matches, so
  does the second, and the partial commit cannot arise;
* `TaskOK`: RUNNING exactly with the latest attempt active; ordinals allocated without gaps;
  a budget left in every unstarted state;
* `NothingBeforeStart`: before the execution exists no task row does and no ordinal has been
  allocated, so `commit_initialization` disturbs no handler.

The proof has a lemma per kind of row update, a lemma per way a handler moves (take an item,
leave it, jump), one `...Keeps` lemma per action, and `NextKeeps` over the disjuncts of
`Next`. `RowStep` captures what every change of the rows guarantees to *all* handlers in
flight: the row invariant holds again, and whatever item was `Fresh` or `Allocated` stays so.

`FinalityProofs` then classifies the steps: under the invariant every step changes the rows
by one of nine moves (`RowMove`), such as the settlement of an *active* attempt together
with its RUNNING task. A move says what is true of the committed rows when it is made, not
of what the handler read before; the expected revisions and the handlers disappear from the
argument here. Some of that truth is more than a revision can guard, because it is about
other rows than the one updated: a promotion is guarded by the revision of the task and
decided on its dependencies. Hence `KInv`, which adds to `IInv`

* `Knowledge`: before a handler directs the workflow to FAILING a task has FAILED; what it
  promotes is a retry, or a task whose dependencies SUCCEEDED; what it claims is for a session;
* `TimersOK`: a retry timer exists only in RETRY_WAIT.

These stay true while the handler waits because SUCCEEDED and FAILED are final, and this is
proved together (`KnowledgeHolds`).

`OutcomeProofs` has one induction over the moves for each of three invariants, beside `KInv`:

* `OneStory`: `Spec => []OutcomesAgree`. A settlement applies to the latest attempt, since
  only that one can be active;
* `Precedence`: `Spec => []DependenciesFirst`;
* `VerdictIsTrue`: `Spec => []VerdictMatchesTasks`. `Verdicts`, the part about tasks, is
  inductive: a terminal verdict is written when all tasks are terminal, and those are final;
  that no attempt is active then is `ExclusiveOwnership`.

**Refinement.** `OutcomeProofs` proves `Refinement`: `Spec => ImplementsLifecycle`, the
abstract specification under the mapping of `ControlPlaneProps`. `MovesSimulate` has a case
per move: each is a step of `TaskLifecycle` decided on the current state, or changes nothing
it shows (timers, a start that is acknowledged). The mapping chooses the owner of a task
among its active attempts; `OwnerFacts` shows that there is one candidate, and the invariant
`Owners` that it is a session.

**Recovery.** `RecoveryProofs` takes `StoreAssumption` and the assumption on recovery's
settings, and nothing about the number of crashes, passes, handlers or the size of a batch
but what the last two theorems say:

* `RecoveryInvariance`: `RecoverySpec => []BootInv`;
* `RecoveryTypes`: `RecoverySpec => []RecoveryTypeOK`;
* `NothingLost`: `RecoverySpec => NothingIsUndone`;
* `GuaranteesSurvive`: `ExclusiveOwnership`, `RetryBudget`, `OutcomesAgree` and
  `DependenciesFirst` are invariants of `RecoverySpec`;
* `VerdictSurvives`: `RecoverySpec => []VerdictMatchesTasks`;
* `OrphansReconciled`: `RecoverySpec => []OrphansAreSettled`, if
  `Cardinality(Tasks) <= BatchSize`;
* `InterruptedIsFinished`: `RecoverySpec => []InterruptedWorkIsFinished`, if
  `Cardinality(Tasks) <= BatchSize` and `MaxPasses >= 2`.

The difficulty is the session that recovery holds open while the scheduler calls it awaits
commit in sessions of their own. `Overlay`, in `BootInv`, bounds the distance: the session's
rows of a task are the committed ones (`Same`), or the committed task is RUNNING and the
session has failed its active attempt (`Settled`); the session's workflow row is the
committed one or a newer one. A scheduler call cannot disturb a `Settled` task: it does not
settle an attempt whose row is locked. Committing the session is then itself a settlement
move for each such task, so `KInv` and the history of every task (`Agrees`,
`DependenciesFirst`) hold again. For the verdict, which recovery takes on rows nobody else
sees yet, `VerdictInv` states it of both views. The orphans need one more fact, `Alone`: until
the gate opens no worker is registered, so nothing is claimed or started and the list that
phases 3 and 4 read stays complete. It is complete only if the batch took all rows; an active
attempt per task bounds them (`SelectsAll`), hence the hypothesis. Without it the theorem is
false: what the batch leaves out waits for another pass and there may be none.

`InterruptedIsFinished` follows work from the scan that finds it to the scheduler call that
does it (`FinishInv`). An unstarted task of a draining workflow is going to be cancelled by a
call in flight (`WillCancel`), or phase 2 is over and there is none (`Drained`); a ready task
of a RUNNING workflow likewise (`WillPromote`, `Promoted`). A failed task is known to its
workflow, or recovery is about to direct it (`FailureIsKnown`). A verdict is due when both
views of the workflow are draining or all tasks have succeeded (`VerdictDue`); then phase 8
has it on its list and takes it, because by then every task is terminal (`DueIsTerminal`).
What is left are workflows that the session has directed and not committed: phase 2 has not
seen them, so their verdict falls to the next pass. `OrphansAtFirst` says that only the first
pass directs any, since no attempt becomes active until the gate opens, and that it then
counts a mutation; so there is a next pass if `MaxPasses >= 2`. The setting may be 1
(`settings.py:87`; the default is 10), and then the theorem is false.

**Locks.** `RowLocksProofs` proves `NoOtherDeadlock`: `LocksSpec => []OnlyFailuresDeadlock`,
for any tasks and any number of transactions. `LocksInv` says that the locks held are those
of a prefix of each plan and that none conflict. All plans take attempt, task and workflow
rows in that order; so a circle leads to the workflow row, and who holds that row and asks
for it again is a definitive failure.

**Worker protocol.** `WorkerProtocolProofs` proves, for any number of attempts, sessions,
losses, crashes and restarts:

* `ProtocolTypes`: `ProtocolSpec => []WorkerTypeOK`;
* `OneExecution`: `ProtocolSpec => []RunsOnce`, and `AcknowledgedIsStopped`:
  `ProtocolSpec => AckedMeansStopped`, both if `Reliable`: handlers return or raise an
  ordinary error, and callbacks are not lost;
* `NoExpiredExecution`: `ProtocolSpec => []ExpiredNeverRuns`, with any outcomes and losses.

The hypotheses of the second are what the code needs: a handler that raises TypeError is called a second
time with other arguments, and an attempt whose callback is lost stays RUNNING while its
worker polls on, so that a second delivery is acknowledged again. `RInv` adds to the types
that the worker at work owns its attempt (`AtWork`) and that an attempt whose handler was
called is settled, or being executed, or of a session that is gone (`Executed`). For the
expiry `EInv` adds that a start deadline passes only while the attempt is CLAIMED, and that an
attempt whose start the worker has heard of, or will (`UnderWay`), or that ever ran, was
acknowledged in time: after that the deadline no longer passes.

**Ledger.** `IdempotencyProofs` proves, from `IdempotencyAssumption` (requests have their fields and a
known operation) and nothing about the number of calls, the keys or the faults:

* `OneResource`: `IdemSpec => []OneResourcePerKey`;
* `Agreement`: `IdemSpec => []AnswersAgree`.

They follow from one inductive invariant, `IdemInv` (`LedgerInvariant`). Ledger and
resources determine each other (`LedgerIsSound`, `LedgerIsComplete`); that a commit keeps
this needs `KeysAreExclusive`: an open transaction that has inserted a key is the only one,
and no record has the key, which is where the waiting INSERT enters. Answers are messages
already sent, so the invariant relates them to what can still be read:
`AnswersFollowLedger` says that every 201 names the resource of the record and every 409
another fingerprint. `AnswersStayTrue` is the reason it lasts: records are never changed.

**Definitions.** `DefinitionProofs` takes `PipelineAssumption` (the limits are positive) and
`DocumentsAssumption` (a document has its fields, and no two tasks have one name, since
`tasks` is a mapping, `dto.py:53`), and proves for documents of any size:

* `PipelineInvariance`: `PipelineSpec => []PipelineInv`;
* `Verdict`: `PipelineSpec => []VerdictIsRight`;
* `Explanation`: `PipelineSpec => []RejectionIsExplained`;
* `TopologicalReduction`: `PipelineSpec => []ReductionIsTopological`;
* `RoundTrip`: `PipelineSpec => []LoadsBack`.

For the loop over `ready_queue` the invariant is `Reducing`: the in-degree of a task is the
number of its dependencies not yet popped; a task has been queued exactly when that number
is 0; no task is queued twice; and every dependency of a popped task was popped before it.
When the queue is empty the tasks left over each wait for another one left over, so they
are `Stuck`, and a task that is `Stuck` is never queued. `AllErrorsFacts` says that the loops
of `validate` report an error exactly when some reference does not resolve, and `CutOffFacts`
that `max_errors` shortens the list without emptying it. For the round trip `SerializeFacts`
shows that the sorted row describes the same graph as the specification, and the checks of
`deserialize_validated_spec` are those of the validator.

The definitions fold and flatten sequences of any length, and the library's induction
theorems take an operator. `Least` and `Descent` replace them: the set of the lengths for
which a claim fails is a set, so it has a least element (`WFMin` with
`NatLessThanWellFounded`), and the claim for the length before leads to a contradiction.
`UnfoldingExists` shows in this way that the recursive function in `FlattenSeq` exists, and
`SortedExists` that the ascending order of a finite set does.

**Only model-checked.** All liveness (`ReadyTasksAreReleased`, `SuccessIsSettled`,
`DrainedIsClosed`, `ClaimsAreStarted`, `CallsEnd`, `StartedIsScheduled`, and the four
violations), which the prover does not do. Every invariant and every other action property
that a run checks is also a theorem.

## Not modelled

Several executions at once (the rows of two executions are disjoint; they share sessions
only, and the batches of recovery), phase 1 of recovery, history rows, JSON payloads and
outputs, the execution-timeout sweep (`execution_timeout_utc` is set nowhere in the
repository), the connection pool, capabilities of workers and several workers competing for
one queue; parsing of YAML and structural validation, which Pydantic does; the migrations,
examples and tests; authentication, settings, error mapping and observability, which do not
affect the state of executions. In `idempotency` no call has a malformed key or none at all;
both are in the module and in the proofs.
