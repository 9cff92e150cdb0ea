--------------------------- MODULE RecoveryProofs ---------------------------
(***************************************************************************)
(* Crash and recovery, for every workflow graph, retry budget, batch size, *)
(* number of passes, of crashes and of handlers.  Recovery's session holds *)
(* uncommitted rows while the scheduler calls it awaits change committed   *)
(* ones; the invariant says how far the two can be apart.                  *)
(***************************************************************************)
EXTENDS StartupRecovery, OutcomeProofs, FiniteSetTheorems

\* A task whose rows the session has not written.
Same(t) == stask[t] = task[t] /\ \A o \in Ordinals : sattempt[t][o] = attempt[t][o]

\* A task whose active attempt the session has failed and not yet committed.
Settled(t) ==
    /\ task[t].state = "RUNNING"
    /\ stask[t].state \in {"RETRY_WAIT", "FAILED"}
    /\ stask[t].state = "RETRY_WAIT" => BudgetRemains(t)
    /\ stask[t].state = "FAILED" => stask[t].retry_ready_at = "none"
    /\ stask[t].revision = task[t].revision + 1
    /\ stask[t].next_attempt_ordinal = task[t].next_attempt_ordinal
    /\ \A o \in Ordinals :
         /\ o = LastOrdinal(t) => sattempt[t][o].state = "FAILED"
         /\ o # LastOrdinal(t) => sattempt[t][o] = attempt[t][o]

\* The workflow row of the session is the committed one or a newer one.
Ahead ==
    \/ sworkflow = workflow
    \/ /\ workflow.state \notin Terminal \cup {"ABSENT"}
       /\ sworkflow.state # "ABSENT"
       /\ sworkflow.revision > workflow.revision

Overlay == Ahead /\ \A t \in Tasks : Same(t) \/ Settled(t)

SessionTypes ==
    /\ sworkflow \in WorkflowRow
    /\ stask \in [Tasks -> TaskRow]
    /\ sattempt \in [Tasks -> [Ordinals -> AttemptRow]]

BootTypes ==
    /\ locked \in BOOLEAN
    /\ boot \in Boot
    /\ retired \subseteq Sessions
    /\ crashes \in 0..MaxCrashes

\* What phases 3 to 5 work on are attempts and tasks that exist, and only
\* phases 3 and 4 direct a workflow.
TodoOK ==
    /\ boot.direct => boot.phase \in {"settle_claimed", "settle_running"}
    /\ boot.phase \in {"settle_claimed", "settle_running"} =>
         \A i \in boot.todo : i \in Item /\ Allocated(i)
    /\ boot.phase = "promote_retry_wait" => boot.todo \subseteq Item

\* Outside a pass nothing is uncommitted.
Quiet == boot.phase \in {"serving", "recovered"} => srows = rows

\* Rows that are not there have not been written.
NotWritten ==
    workflow.state = "ABSENT" =>
        workflow.revision = 0 /\ \A t \in Tasks : task[t].revision = 0

\* What the attempts and the dependencies of the tasks say.
History == (\A t \in Tasks : Agrees(t)) /\ DependenciesFirst

Durable == KInv /\ NotWritten /\ History

BootInv == Durable /\ SessionTypes /\ Overlay /\ BootTypes /\ TodoOK /\ Quiet

\* No row goes back.
Grows ==
    /\ workflow'.revision >= workflow.revision
    /\ \A t \in Tasks :
         /\ task'[t].revision >= task[t].revision
         /\ task'[t].next_attempt_ordinal >= task[t].next_attempt_ordinal

-----------------------------------------------------------------------------
(***************************************************************************)
(* The steps of the control plane.                                         *)
(***************************************************************************)
\* A task row that changes gets a higher revision.
LEMMA TaskGrows ==
    ASSUME RowsOK, NEW t \in Tasks, NEW s \in TaskStates, NEW timer \in Timers,
           task' = TaskTo(t, s, timer)
    PROVE  \A u \in Tasks :
             /\ task'[u].revision >= task[u].revision
             /\ task'[u].next_attempt_ordinal >= task[u].next_attempt_ordinal
<1>1. \A u \in Tasks : task[u].revision \in Nat /\ task[u].next_attempt_ordinal \in Nat
  BY DEF RowsOK, TaskRow
<1>2. /\ task'[t].revision = task[t].revision + 1
      /\ task'[t].next_attempt_ordinal = task[t].next_attempt_ordinal
      /\ \A u \in Tasks \ {t} : task'[u] = task[u]
  BY TaskToFacts
<1>. QED
  BY <1>1, <1>2

\* Every move of the control plane goes forward.
LEMMA MovesGrow ==
    ASSUME KInv, NotWritten, RowMove
    PROVE  Grows
<1>1. RowsInv /\ RowsOK /\ workflow.revision \in Nat
  BY DEF KInv, IInv, RowsInv, RowsOK, WorkflowRow
<1>2. \A t \in Tasks : task[t].revision \in Nat /\ task[t].next_attempt_ordinal \in Nat
  BY <1>1 DEF RowsOK, TaskRow
<1>3. {"RUNNABLE", "CANCELLED"} \subseteq TaskStates /\ "none" \in Timers
  BY DEF TaskStates, Unstarted, Terminal, Timers
<1>4. CASE UNCHANGED <<workflow, task>>
  BY <1>1, <1>2, <1>4 DEF Grows
<1>5. CASE WorkflowMove
  BY <1>1, <1>2, <1>5 DEF WorkflowMove, Grows
<1>6. CASE workflow.state = "ABSENT" /\ commit_initialization
  <2>1. /\ workflow.revision = 0
        /\ \A t \in Tasks : task[t].revision = 0 /\ task[t].next_attempt_ordinal = 1
    BY <1>1, <1>6 DEF NotWritten, RowsInv, NothingBeforeStart
  <2>2. /\ workflow'.revision = 2
        /\ \A t \in Tasks : task'[t].revision = 1 /\ task'[t].next_attempt_ordinal = 1
    BY <1>6 DEF commit_initialization
  <2>. QED
    BY <2>1, <2>2 DEF Grows
<1>7. ASSUME NEW t \in Tasks, ReleaseMove(t) \/ DrainMove(t)
      PROVE  Grows
  <2>1. UNCHANGED workflow
    BY <1>7 DEF ReleaseMove, DrainMove
  <2>2. task' = TaskTo(t, "RUNNABLE", "none") \/ task' = TaskTo(t, "CANCELLED", "none")
    BY <1>7 DEF ReleaseMove, DrainMove
  <2>. QED
    BY <1>1, <1>3, <2>1, <2>2, TaskGrows DEF Grows
<1>8. ASSUME NEW t \in Tasks, NEW o \in Ordinals, NEW s \in Sessions, ClaimMove(t, o, s)
      PROVE  Grows
  <2>1. /\ UNCHANGED workflow
        /\ task[t] \in TaskRow
        /\ task' = [task EXCEPT ![t].state = "RUNNING",
                                ![t].revision = @ + 1,
                                ![t].next_attempt_ordinal = @ + 1]
    BY <1>1, <1>8 DEF ClaimMove, RowsOK
  <2>2. PICK n \in Nat, k \in Nat : /\ n = task[t].revision + 1
                                    /\ k = task[t].next_attempt_ordinal + 1
    BY <1>2
  <2>3. PICK row \in TaskRow : row = [task[t] EXCEPT !.state = "RUNNING", !.revision = n,
                                                     !.next_attempt_ordinal = k]
    BY <2>1 DEF TaskRow, TaskStates
  <2>4. task' = [task EXCEPT ![t] = row]
    BY <1>1, <2>1, <2>2, <2>3 DEF RowsOK
  <2>5. task'[t] = row /\ \A u \in Tasks \ {t} : task'[u] = task[u]
    BY <1>1, <2>4 DEF RowsOK
  <2>6. row.revision = n /\ row.next_attempt_ordinal = k
    BY <2>1, <2>3 DEF TaskRow
  <2>7. workflow'.revision >= workflow.revision
    BY <1>1, <1>8 DEF ClaimMove
  <2>. QED
    BY <1>2, <2>2, <2>5, <2>6, <2>7 DEF Grows
<1>9. ASSUME NEW i \in Item, NEW s \in Terminal, NEW u \in TaskStates,
             NEW timer \in Timers, SettleMove(i, s, u, timer)
      PROVE  Grows
  <2>1. i.task \in Tasks /\ task' = TaskTo(i.task, u, timer)
    BY <1>9 DEF SettleMove, Item
  <2>2. workflow' = workflow \/ workflow'.revision = workflow.revision + 1
    BY <1>9 DEF SettleMove, Settles
  <2>3. workflow'.revision >= workflow.revision
    BY <1>1, <2>2
  <2>. QED
    BY <1>1, <2>1, <2>3, TaskGrows DEF Grows
<1>10. ASSUME NEW t \in Tasks, RetryFallsDue(t)
       PROVE  Grows
  <2>1. /\ UNCHANGED workflow
        /\ task[t] \in TaskRow
        /\ task' = [task EXCEPT ![t].retry_ready_at = "due"]
    BY <1>1, <1>10 DEF RetryFallsDue, RowsOK
  <2>2. /\ task'[t].revision = task[t].revision
        /\ task'[t].next_attempt_ordinal = task[t].next_attempt_ordinal
        /\ \A u \in Tasks \ {t} : task'[u] = task[u]
    BY <1>1, <2>1 DEF RowsOK, TaskRow
  <2>. QED
    BY <1>1, <1>2, <2>1, <2>2 DEF Grows
<1>11. CASE UNCHANGED rows \/ AttemptTimerMove \/ \E i \in Item : StartMove(i)
  BY <1>4, <1>11 DEF rows, AttemptTimerMove, StartMove
<1>. QED
  BY <1>5, <1>6, <1>7, <1>8, <1>9, <1>10, <1>11 DEF RowMove

\* As long as there is no workflow row, no step writes one of its tasks.
LEMMA NothingIsWritten ==
    ASSUME KInv, NotWritten, RowMove
    PROVE  NotWritten'
<1>. SUFFICES ASSUME workflow'.state = "ABSENT" PROVE UNCHANGED <<workflow, task>>
  BY DEF NotWritten
<1>1. RowsInv /\ RowsOK /\ TimersOK
  BY DEF KInv, IInv, RowsInv
<1>2. ~WorkflowMove /\ ~commit_initialization
  BY DEF WorkflowMove, commit_initialization
<1>3. CASE workflow.state = "ABSENT"
  <2>1. \A t \in Tasks : task[t].state = "ABSENT"
    BY <1>1, <1>3 DEF RowsInv, NothingBeforeStart
  <2>2. /\ \A t \in Tasks : ~ReleaseMove(t) /\ ~DrainMove(t) /\ ~RetryFallsDue(t)
        /\ \A t \in Tasks, o \in Ordinals, s \in Sessions : ~ClaimMove(t, o, s)
    BY <1>1, <2>1 DEF ReleaseMove, DrainMove, Unstarted, ClaimMove, RetryFallsDue, TimersOK
  <2>3. ASSUME NEW i \in Item, NEW s \in Terminal, NEW u \in TaskStates,
               NEW timer \in Timers, SettleMove(i, s, u, timer)
        PROVE  FALSE
    BY <2>1, <2>3 DEF SettleMove, Item
  <2>4. UNCHANGED rows \/ AttemptTimerMove \/ \E i \in Item : StartMove(i)
    BY <1>2, <2>2, <2>3 DEF RowMove
  <2>. QED
    BY <2>4 DEF rows, AttemptTimerMove, StartMove
<1>4. CASE workflow.state # "ABSENT"
  <2>1. UNCHANGED workflow \/ \E i \in Item, s \in Terminal, u \in TaskStates, timer \in Timers :
                                SettleMove(i, s, u, timer)
    BY <1>2 DEF RowMove, rows, ReleaseMove, DrainMove, ClaimMove, StartMove,
                AttemptTimerMove, RetryFallsDue
  <2>2. workflow'.state = workflow.state \/ workflow'.state = "FAILING"
    BY <2>1 DEF SettleMove, Settles
  <2>. QED
    BY <1>4, <2>2
<1>. QED
  BY <1>3, <1>4

\* Every move of the control plane keeps the history true.
LEMMA MovesKeepHistory ==
    ASSUME KInv, History, RowMove, TerminalStep
    PROVE  History'
<1>1. IInv /\ OutcomesAgree
  BY DEF KInv, History, OutcomesAgree, Agrees
<1>2. OutcomesAgree'
  BY <1>1, MovesAgree
<1>3. \A t \in Tasks : Agrees(t)'
  BY <1>2 DEF OutcomesAgree, Agrees
<1>4. ASSUME NEW t \in Tasks, Beyond(task'[t].state), NEW d \in Deps[t]
      PROVE  task'[d].state = "SUCCEEDED"
  <2>1. d \in Tasks
    BY StoreAssumption DEF StoreAssumption
  <2>2. task[d].state = "SUCCEEDED"
    BY <1>1, <1>4, MovesRelease DEF History, DependenciesFirst, DependenciesDone, Beyond
  <2>. QED
    BY <2>1, <2>2 DEF TerminalStep, Terminal
<1>. QED
  BY <1>3, <1>4 DEF History, DependenciesFirst, Beyond

\* A step of the application keeps what is durable, and undoes nothing.
LEMMA NextIsDurable ==
    ASSUME Durable, Next \/ UNCHANGED vars
    PROVE  Durable' /\ TerminalStep /\ Grows
<1>1. KInv /\ NotWritten /\ History /\ [Next]_vars
  BY DEF Durable
<1>2. KInv' /\ RowMove /\ TerminalStep
  BY <1>1, NextKnows
<1>. QED
  BY <1>1, <1>2, MovesGrow, NothingIsWritten, MovesKeepHistory DEF Durable

-----------------------------------------------------------------------------
(***************************************************************************)
(* The commit of the session.                                              *)
(***************************************************************************)
\* t as the session has it when it commits: phase 5 may have released it.
Committed(t) ==
    \/ task'[t] = stask[t]
    \/ /\ stask[t].state = "RETRY_WAIT"
       /\ task'[t].state = "RUNNABLE"
       /\ task'[t].retry_ready_at = "none"
       /\ task'[t].revision = stask[t].revision + 1
       /\ task'[t].next_attempt_ordinal = stask[t].next_attempt_ordinal

\* What the session commits of one task is what a serving process could
\* have committed.
LEMMA TaskCommits ==
    ASSUME RowsInv, TimersOK, SessionTypes, NEW t \in Tasks, Same(t) \/ Settled(t),
           attempt' = sattempt, Committed(t)
    PROVE  /\ TaskOK(t)'
           /\ task'[t].retry_ready_at \in {"pending", "due"} => task'[t].state = "RETRY_WAIT"
           /\ task[t].state \in Terminal => task'[t] = task[t]
           /\ task[t].state = "ABSENT" => task'[t] = task[t]
           /\ \A o \in Ordinals : attempt[t][o].state \in Terminal =>
                attempt'[t][o].state = attempt[t][o].state
           /\ task'[t].revision >= task[t].revision
           /\ task'[t].next_attempt_ordinal = task[t].next_attempt_ordinal
<1>1. /\ TaskOK(t)
      /\ task[t] \in TaskRow /\ stask[t] \in TaskRow
      /\ task[t].revision \in Nat /\ task[t].next_attempt_ordinal \in Nat
      /\ \A o \in Ordinals : attempt'[t][o] = sattempt[t][o] /\ o \in Nat
  BY DEF RowsInv, RowsOK, SessionTypes, TaskRow, Ordinals
<1>2. CASE Same(t)
  <2>1. \A o \in Ordinals : attempt'[t][o] = attempt[t][o]
    BY <1>1, <1>2 DEF Same
  <2>2. CASE task'[t] = task[t]
    BY <1>1, <2>1, <2>2 DEF TaskOK, TimersOK
  <2>3. CASE task'[t] # task[t]
    <3>1. /\ task[t].state = "RETRY_WAIT"
          /\ task'[t].state = "RUNNABLE"
          /\ task'[t].retry_ready_at = "none"
          /\ task'[t].revision = task[t].revision + 1
          /\ task'[t].next_attempt_ordinal = task[t].next_attempt_ordinal
      BY <1>2, <2>3 DEF Same, Committed
    <3>2. TaskOK(t)'
      BY <1>1, <2>1, <3>1 DEF TaskOK, Unstarted
    <3>. QED
      BY <1>1, <2>1, <3>1, <3>2 DEF Terminal
  <2>. QED
    BY <2>2, <2>3
<1>3. CASE Settled(t)
  <2>1. /\ task[t].state = "RUNNING"
        /\ task'[t].next_attempt_ordinal = task[t].next_attempt_ordinal
        /\ \/ task'[t].state \in {"RETRY_WAIT", "RUNNABLE"} /\ BudgetRemains(t)
           \/ task'[t].state = "FAILED"
        /\ task'[t].retry_ready_at \in {"pending", "due"} => task'[t].state = "RETRY_WAIT"
        /\ \/ task'[t].revision = task[t].revision + 1
           \/ task'[t].revision = (task[t].revision + 1) + 1
    BY <1>3 DEF Settled, Committed
  <2>2. \A o \in Ordinals :
          /\ o = task[t].next_attempt_ordinal - 1 => attempt'[t][o].state = "FAILED"
          /\ o # task[t].next_attempt_ordinal - 1 => attempt'[t][o] = attempt[t][o]
    BY <1>1, <1>3 DEF Settled, LastOrdinal
  <2>3. TaskOK(t)'
    BY <1>1, <2>1, <2>2 DEF TaskOK, Unstarted, BudgetRemains, Active
  <2>4. \A o \in Ordinals : attempt[t][o].state \in Terminal =>
                attempt'[t][o].state = attempt[t][o].state
    <3>1. attempt[t][task[t].next_attempt_ordinal - 1].state \in Active
      BY <1>1, <2>1 DEF TaskOK
    <3>. QED
      BY <2>2, <3>1 DEF Terminal, Active
  <2>5. task'[t].revision >= task[t].revision
    BY <1>1, <2>1
  <2>. QED
    BY <2>1, <2>3, <2>4, <2>5 DEF Terminal
<1>. QED
  BY <1>2, <1>3

\* The session commits no task whose attempts or dependencies say otherwise.
LEMMA HistoryCommits ==
    ASSUME RowsInv, History, NEW t \in Tasks, Same(t) \/ Settled(t),
           attempt' = sattempt, Committed(t)
    PROVE  Agrees(t)' /\ (Beyond(task'[t].state) => Beyond(task[t].state))
<1>1. Agrees(t) /\ \A o \in Ordinals : attempt'[t][o] = sattempt[t][o]
  BY DEF History
<1>2. CASE Same(t)
  <2>1. \A o \in Ordinals : attempt'[t][o] = attempt[t][o]
    BY <1>1, <1>2 DEF Same
  <2>2. CASE task'[t] = task[t]
    BY <1>1, <2>1, <2>2 DEF Agrees, LastOrdinal
  <2>3. CASE task'[t] # task[t]
    <3>1. /\ task[t].state = "RETRY_WAIT"
          /\ task'[t].state = "RUNNABLE"
          /\ task'[t].next_attempt_ordinal = task[t].next_attempt_ordinal
      BY <1>2, <2>3 DEF Same, Committed
    <3>. QED
      BY <1>1, <2>1, <3>1 DEF Agrees, LastOrdinal, Beyond
  <2>. QED
    BY <2>2, <2>3
<1>3. CASE Settled(t)
  <2>1. /\ task[t].state = "RUNNING"
        /\ task'[t].state \in {"RETRY_WAIT", "RUNNABLE", "FAILED"}
        /\ task'[t].next_attempt_ordinal = task[t].next_attempt_ordinal
    BY <1>3 DEF Settled, Committed
  <2>2. \A o \in Ordinals :
          /\ o = LastOrdinal(t) => attempt'[t][o].state = "FAILED"
          /\ o # LastOrdinal(t) => attempt'[t][o] = attempt[t][o]
    BY <1>1, <1>3 DEF Settled
  <2>3. LastOrdinal(t)' = LastOrdinal(t)
    BY <2>1 DEF LastOrdinal
  <2>4. LastOrdinal(t) \in Nat /\ LastOrdinal(t) >= 1
    BY <2>1, OrdinalFacts DEF RowsInv, TaskOK, LastOrdinal
  <2>5. \A o \in Ordinals : o \in Nat
    BY DEF Ordinals
  <2>6. Agrees(t)'
    BY <1>1, <2>1, <2>2, <2>3, <2>4, <2>5 DEF Agrees
  <2>. QED
    BY <2>1, <2>6 DEF Beyond
<1>. QED
  BY <1>2, <1>3

\* The commit as a whole.
LEMMA CommitKeeps ==
    ASSUME Durable, SessionTypes, Overlay,
           workflow' = sworkflow, attempt' = sattempt, task' \in [Tasks -> TaskRow],
           \A t \in Tasks : Committed(t)
    PROVE  RowsInv' /\ TimersOK' /\ NotWritten' /\ History' /\ TerminalStep /\ Grows
<1>1. RowsInv /\ TimersOK /\ NotWritten /\ History
  BY DEF Durable, KInv, IInv
<1>2. ASSUME NEW t \in Tasks
      PROVE  /\ TaskOK(t)'
             /\ task'[t].retry_ready_at \in {"pending", "due"} => task'[t].state = "RETRY_WAIT"
             /\ task[t].state \in Terminal => task'[t] = task[t]
             /\ task[t].state = "ABSENT" => task'[t] = task[t]
             /\ \A o \in Ordinals : attempt[t][o].state \in Terminal =>
                  attempt'[t][o].state = attempt[t][o].state
             /\ task'[t].revision >= task[t].revision
             /\ task'[t].next_attempt_ordinal = task[t].next_attempt_ordinal
  BY <1>1, TaskCommits DEF Overlay
<1>3. \A t \in Tasks : task[t].next_attempt_ordinal \in Nat
  BY <1>1 DEF RowsInv, RowsOK, TaskRow
<1>4. RowsOK'
  BY DEF RowsOK, SessionTypes
<1>5. workflow'.state = "ABSENT" => workflow' = workflow
  BY DEF Overlay, Ahead
<1>6. NothingBeforeStart' /\ NotWritten'
  BY <1>1, <1>2, <1>5 DEF RowsInv, NothingBeforeStart, NotWritten
<1>7. TimersOK'
  BY <1>2 DEF TimersOK
<1>8. TerminalStep
  BY <1>2 DEF TerminalStep, Overlay, Ahead
<1>9. workflow'.revision >= workflow.revision
  <2>1. workflow.revision \in Nat /\ sworkflow.revision \in Nat
    BY <1>1 DEF RowsInv, RowsOK, SessionTypes, WorkflowRow
  <2>. QED
    BY <2>1 DEF Overlay, Ahead
<1>10. Grows
  BY <1>2, <1>3, <1>9 DEF Grows
<1>11. ASSUME NEW t \in Tasks
       PROVE  Agrees(t)' /\ (Beyond(task'[t].state) => Beyond(task[t].state))
  BY <1>1, HistoryCommits DEF Overlay
<1>12. DependenciesFirst'
  <2>1. ASSUME NEW t \in Tasks, Beyond(task'[t].state), NEW d \in Deps[t]
        PROVE  task'[d].state = "SUCCEEDED"
    <3>1. d \in Tasks
      BY StoreAssumption DEF StoreAssumption
    <3>2. task[d].state = "SUCCEEDED"
      BY <1>1, <1>11, <2>1 DEF History, DependenciesFirst, Beyond
    <3>. QED
      BY <1>8, <3>1, <3>2 DEF TerminalStep, Terminal
  <2>. QED
    BY <2>1 DEF DependenciesFirst, Beyond
<1>. QED
  BY <1>2, <1>4, <1>6, <1>7, <1>8, <1>10, <1>11, <1>12 DEF RowsInv, History

-----------------------------------------------------------------------------
(***************************************************************************)
(* The session's view after a step that committed rows.                    *)
(***************************************************************************)
LEMMA RefreshKeeps ==
    ASSUME RowsInv, SessionTypes, Overlay, RowsInv', Refresh,
           sworkflow # workflow => workflow' = workflow,
           \A t \in Tasks : Settled(t) => task'[t] = task[t]
    PROVE  SessionTypes' /\ Overlay' /\ (srows = rows => srows' = rows')
<1>1. RowsOK /\ RowsOK'
  BY DEF RowsInv
<1>2. /\ \A t \in Tasks : stask'[t] = IF stask[t] = task[t] THEN task'[t] ELSE stask[t]
      /\ \A t \in Tasks, o \in Ordinals :
           sattempt'[t][o] = IF sattempt[t][o] = attempt[t][o] THEN attempt'[t][o]
                                                               ELSE sattempt[t][o]
  BY DEF Refresh
<1>3. SessionTypes'
  <2>1. sworkflow' \in WorkflowRow
    BY <1>1 DEF Refresh, RowsOK, SessionTypes
  <2>2. stask' \in [Tasks -> TaskRow]
    BY <1>1 DEF Refresh, RowsOK, SessionTypes
  <2>3. sattempt' \in [Tasks -> [Ordinals -> AttemptRow]]
    BY <1>1 DEF Refresh, RowsOK, SessionTypes
  <2>. QED
    BY <2>1, <2>2, <2>3 DEF SessionTypes
<1>4. Ahead'
  <2>1. CASE sworkflow = workflow
    BY <2>1 DEF Refresh, Ahead
  <2>2. CASE sworkflow # workflow
    BY <2>2 DEF Refresh, Ahead, Overlay
  <2>. QED
    BY <2>1, <2>2
<1>5. ASSUME NEW t \in Tasks PROVE Same(t)' \/ Settled(t)'
  <2>1. CASE Same(t)
    BY <1>2, <2>1 DEF Same
  <2>2. CASE Settled(t)
    <3>1. task'[t] = task[t] /\ task[t].state = "RUNNING" /\ TaskOK(t)
      BY <2>2 DEF Settled, RowsInv
    <3>2. stask'[t] = stask[t]
      BY <1>2, <2>2 DEF Settled
    <3>3. ASSUME NEW o \in Ordinals
          PROVE  /\ o = LastOrdinal(t) => sattempt'[t][o].state = "FAILED"
                 /\ o # LastOrdinal(t) => sattempt'[t][o] = attempt'[t][o]
      <4>1. CASE o = LastOrdinal(t)
        <5>1. attempt[t][o].state \in Active /\ sattempt[t][o].state = "FAILED"
          BY <2>2, <3>1, <4>1 DEF TaskOK, Settled, LastOrdinal
        <5>2. sattempt[t][o] # attempt[t][o]
          BY <5>1 DEF Active
        <5>3. sattempt'[t][o] = sattempt[t][o]
          BY <1>2, <5>2
        <5>. QED
          BY <4>1, <5>1, <5>3
      <4>2. CASE o # LastOrdinal(t)
        <5>1. sattempt[t][o] = attempt[t][o]
          BY <2>2, <4>2 DEF Settled
        <5>. QED
          BY <1>2, <4>2, <5>1
      <4>. QED
        BY <4>1, <4>2
    <3>. QED
      BY <2>2, <3>1, <3>2, <3>3 DEF Settled, LastOrdinal, BudgetRemains
  <2>. QED
    BY <2>1, <2>2 DEF Overlay
<1>6. srows = rows => srows' = rows'
  <2>. SUFFICES ASSUME srows = rows PROVE srows' = rows'
    OBVIOUS
  <2>1. sworkflow = workflow /\ stask = task /\ sattempt = attempt
    BY DEF srows, rows
  <2>2. sworkflow' = workflow'
    BY <2>1 DEF Refresh
  <2>3. stask' = task'
    <3>1. stask' = [t \in Tasks |-> task'[t]]
      BY <2>1 DEF Refresh
    <3>. QED
      BY <1>1, <3>1 DEF RowsOK
  <2>4. sattempt' = attempt'
    <3>1. sattempt' = [t \in Tasks |-> [o \in Ordinals |-> attempt'[t][o]]]
      BY <2>1 DEF Refresh
    <3>2. ASSUME NEW t \in Tasks PROVE attempt'[t] = [o \in Ordinals |-> attempt'[t][o]]
      BY <1>1 DEF RowsOK
    <3>. QED
      BY <1>1, <3>1, <3>2 DEF RowsOK
  <2>. QED
    BY <2>2, <2>3, <2>4 DEF srows, rows
<1>. QED
  BY <1>3, <1>4, <1>5, <1>6 DEF Overlay

-----------------------------------------------------------------------------
(***************************************************************************)
(* What the session writes.                                                *)
(***************************************************************************)
LEMMA SessionTaskTo ==
    ASSUME SessionTypes, NEW t \in Tasks, NEW s \in TaskStates, NEW timer \in Timers,
           stask' = Session!TaskTo(t, s, timer)
    PROVE  /\ stask' \in [Tasks -> TaskRow]
           /\ stask'[t].state = s
           /\ stask'[t].revision = stask[t].revision + 1
           /\ stask'[t].next_attempt_ordinal = stask[t].next_attempt_ordinal
           /\ stask'[t].retry_ready_at = timer
           /\ \A u \in Tasks \ {t} : stask'[u] = stask[u]
<1>1. stask[t] \in TaskRow
  BY DEF SessionTypes
<1>2. PICK n \in Nat : n = stask[t].revision + 1
  BY <1>1 DEF TaskRow
<1>3. PICK row \in TaskRow :
        row = [stask[t] EXCEPT !.state = s, !.revision = n, !.retry_ready_at = timer]
  BY <1>1 DEF TaskRow
<1>4. stask' = [stask EXCEPT ![t] = row]
  BY <1>2, <1>3 DEF SessionTypes, Session!TaskTo
<1>5. /\ row.state = s
      /\ row.revision = n
      /\ row.next_attempt_ordinal = stask[t].next_attempt_ordinal
      /\ row.retry_ready_at = timer
  BY <1>1, <1>3 DEF TaskRow
<1>. QED
  BY <1>2, <1>4, <1>5 DEF SessionTypes

\* The session fails an attempt.
LEMMA SessionAttemptTo ==
    ASSUME SessionTypes, NEW i \in Item, i.ordinal \in Ordinals,
           sattempt' = Session!AttemptTo(i, "FAILED")
    PROVE  /\ sattempt' \in [Tasks -> [Ordinals -> AttemptRow]]
           /\ sattempt'[i.task][i.ordinal].state = "FAILED"
           /\ \A u \in Tasks, o \in Ordinals :
                u # i.task \/ o # i.ordinal => sattempt'[u][o] = sattempt[u][o]
<1>1. PICK t \in Tasks, o \in Ordinals : t = i.task /\ o = i.ordinal
  BY DEF Item
<1>2. sattempt[t][o] \in AttemptRow
  BY DEF SessionTypes
<1>3. PICK n \in Nat : n = sattempt[t][o].revision + 1
  BY <1>2 DEF AttemptRow
<1>4. PICK row \in AttemptRow :
        row = [sattempt[t][o] EXCEPT !.state = "FAILED", !.revision = n]
  BY <1>2 DEF AttemptRow, AttemptStates, Terminal
<1>5. sattempt' = [sattempt EXCEPT ![t][o] = row]
  BY <1>1, <1>3, <1>4 DEF SessionTypes, Session!AttemptTo
<1>6. row.state = "FAILED"
  BY <1>2, <1>4 DEF AttemptRow
<1>. QED
  BY <1>1, <1>5, <1>6 DEF SessionTypes

\* What the session still sees active nobody has touched.
LEMMA ActiveIsSame ==
    ASSUME RowsInv, Overlay, NEW t \in Tasks, NEW o \in Ordinals,
           sattempt[t][o].state \in Active
    PROVE  Same(t) /\ task[t].state = "RUNNING" /\ o = LastOrdinal(t)
<1>1. TaskOK(t)
  BY DEF RowsInv
<1>2. CASE Same(t)
  BY <1>1, <1>2 DEF Same, TaskOK, LastOrdinal
<1>3. CASE Settled(t)
  <2>1. o # LastOrdinal(t)
    BY <1>3 DEF Settled, Active
  <2>2. attempt[t][o].state \in Active
    BY <1>3, <2>1 DEF Settled
  <2>. QED
    BY <1>1, <2>1, <2>2 DEF TaskOK, LastOrdinal
<1>. QED
  BY <1>2, <1>3 DEF Overlay

\* Phases 3 and 4 leave the rows as they were or settle both of them.
LEMMA SessionSettles ==
    ASSUME RowsInv, SessionTypes, Overlay, UNCHANGED rows,
           NEW j \in Item, Allocated(j), j.trev = stask[j.task].revision,
           NEW running \in BOOLEAN,
           Session!commit_internal_attempt_failure(j, running)
    PROVE  /\ SessionTypes' /\ Overlay'
           /\ UNCHANGED sworkflow
           /\ \A t \in Tasks : stask[t].state \in Terminal => stask'[t] = stask[t]
           /\ Session!FailsTask(j, running) => stask'[j.task].state = "FAILED"
           /\ Session!FailsTask(j, running) => sattempt[j.task][j.ordinal].state \in Active
           /\ \A t \in Tasks : \/ stask'[t] = stask[t]
                               \/ stask'[t].state = "RETRY_WAIT" /\ running
                               \/ stask'[t].state = "FAILED" /\ Session!FailsTask(j, running)
           /\ \A t \in Tasks, o \in Ordinals :
                \/ sattempt'[t][o] = sattempt[t][o]
                \/ sattempt'[t][o].state = "FAILED"
           /\ j.op = "WORKER_LOSS" /\ sattempt[j.task][j.ordinal].state \in Active
                /\ sattempt[j.task][j.ordinal].revision = j.arev
                /\ sattempt[j.task][j.ordinal].worker_session_id = j.who
              => sattempt'[j.task][j.ordinal].state = "FAILED"
<1>1. PICK t \in Tasks, o \in Ordinals : t = j.task /\ o = j.ordinal
  BY DEF Allocated, Item
<1>2. UNCHANGED sworkflow
  BY DEF Session!commit_internal_attempt_failure
<1>3. CASE ~Session!CauseMatches(j)
  <2>1. ~Session!RetriesTask(j, running) /\ ~Session!FailsTask(j, running)
    BY <1>3 DEF Session!RetriesTask, Session!FailsTask
  <2>2. sattempt' = sattempt
    BY <1>3 DEF Session!commit_internal_attempt_failure
  <2>3. stask' = stask
    BY <2>1, Zenon DEF Session!commit_internal_attempt_failure
  <2>4. ~(/\ j.op = "WORKER_LOSS" /\ sattempt[j.task][j.ordinal].state \in Active
          /\ sattempt[j.task][j.ordinal].revision = j.arev
          /\ sattempt[j.task][j.ordinal].worker_session_id = j.who)
    BY <1>3 DEF Session!CauseMatches, Session!AttemptIs, Session!Active, Active
  <2>5. SessionTypes' /\ Overlay'
    BY <1>2, <2>2, <2>3 DEF SessionTypes, Overlay, Ahead, Same, Settled, BudgetRemains,
                            LastOrdinal, rows
  <2>. QED
    BY <1>2, <2>1, <2>2, <2>3, <2>4, <2>5
<1>4. CASE Session!CauseMatches(j)
  <2>1. sattempt[t][o].state \in Active
    BY <1>1, <1>4 DEF Session!CauseMatches, Session!AttemptIs, Session!Active, Active
  <2>2. Same(t) /\ task[t].state = "RUNNING" /\ o = LastOrdinal(t)
    BY <2>1, ActiveIsSame
  <2>3. Session!TaskIs(j, {"RUNNING"})
    BY <1>1, <2>2 DEF Session!TaskIs, Same
  <2>4. sattempt' = Session!AttemptTo(j, "FAILED")
    BY <1>4 DEF Session!commit_internal_attempt_failure
  <2>5. /\ sattempt' \in [Tasks -> [Ordinals -> AttemptRow]]
        /\ sattempt'[t][o].state = "FAILED"
        /\ \A u \in Tasks, p \in Ordinals :
             u # t \/ p # o => sattempt'[u][p] = sattempt[u][p]
    BY <1>1, <2>4, SessionAttemptTo
  <2>6. {"RETRY_WAIT", "FAILED"} \subseteq TaskStates /\ {"none", "pending"} \subseteq Timers
    BY DEF TaskStates, Unstarted, Terminal, Timers
  <2>7. /\ stask' \in [Tasks -> TaskRow]
        /\ \/ stask'[t].state = "RETRY_WAIT" /\ BudgetRemains(t) /\ running
           \/ /\ stask'[t].state = "FAILED" /\ stask'[t].retry_ready_at = "none"
              /\ Session!FailsTask(j, running)
        /\ stask'[t].revision = stask[t].revision + 1
        /\ stask'[t].next_attempt_ordinal = stask[t].next_attempt_ordinal
        /\ \A u \in Tasks \ {t} : stask'[u] = stask[u]
        /\ Session!FailsTask(j, running) => stask'[t].state = "FAILED"
    <3>1. CASE running /\ Session!BudgetRemains(t)
      <4>1. Session!RetriesTask(j, running) /\ ~Session!FailsTask(j, running)
        BY <1>1, <1>4, <2>3, <3>1 DEF Session!RetriesTask, Session!FailsTask
      <4>2. stask' = Session!TaskTo(t, "RETRY_WAIT", "pending")
        BY <1>1, <4>1, Zenon DEF Session!commit_internal_attempt_failure
      <4>3. BudgetRemains(t)
        BY <2>2, <3>1 DEF Session!BudgetRemains, BudgetRemains, Same
      <4>. QED
        BY <2>6, <3>1, <4>1, <4>2, <4>3, SessionTaskTo
    <3>2. CASE ~(running /\ Session!BudgetRemains(t))
      <4>1. ~Session!RetriesTask(j, running) /\ Session!FailsTask(j, running)
        BY <1>1, <1>4, <2>3, <3>2 DEF Session!RetriesTask, Session!FailsTask
      <4>2. stask' = Session!TaskTo(t, "FAILED", "none")
        BY <1>1, <4>1, Zenon DEF Session!commit_internal_attempt_failure
      <4>. QED
        BY <2>6, <4>1, <4>2, SessionTaskTo
    <3>. QED
      BY <3>1, <3>2
  <2>8. ASSUME NEW u \in Tasks PROVE Same(u)' \/ Settled(u)'
    <3>1. CASE u # t
      <4>1. stask'[u] = stask[u] /\ \A p \in Ordinals : sattempt'[u][p] = sattempt[u][p]
        BY <2>5, <2>7, <3>1
      <4>. QED
        BY <4>1 DEF Overlay, Same, Settled, BudgetRemains, LastOrdinal, rows
    <3>2. CASE u = t
      BY <2>2, <2>5, <2>7, <3>2 DEF Same, Settled, BudgetRemains, LastOrdinal, rows
    <3>. QED
      BY <3>1, <3>2
  <2>9. Ahead'
    BY <1>2 DEF Overlay, Ahead, rows
  <2>10. SessionTypes'
    BY <1>2, <2>5, <2>7 DEF SessionTypes
  <2>11. stask[t].state \notin Terminal
    BY <2>2 DEF Same, Terminal
  <2>. QED
    BY <1>1, <1>2, <2>1, <2>5, <2>7, <2>8, <2>9, <2>10, <2>11 DEF Overlay
<1>. QED
  BY <1>3, <1>4

\* A direction or a verdict in the session.
SessionDirects ==
    \/ UNCHANGED sworkflow
    \/ /\ sworkflow.state \in Draining \cup {"RUNNING"}
       /\ \E s \in Draining \cup Terminal : sworkflow' = Session!WorkflowTo(s)

\* The workflow row of the session can only get newer.
LEMMA SessionDirectsKeeps ==
    ASSUME RowsOK, SessionTypes, Overlay, UNCHANGED <<rows, stask, sattempt>>, SessionDirects
    PROVE  SessionTypes' /\ Overlay'
<1>1. \A t \in Tasks : Same(t)' \/ Settled(t)'
  BY DEF Overlay, Same, Settled, LastOrdinal, BudgetRemains, rows
<1>2. CASE UNCHANGED sworkflow
  BY <1>1, <1>2 DEF SessionTypes, Overlay, Ahead, rows
<1>3. ASSUME sworkflow.state \in Draining \cup {"RUNNING"},
             NEW s \in Draining \cup Terminal, sworkflow' = Session!WorkflowTo(s)
      PROVE  SessionTypes' /\ Overlay'
  <2>1. sworkflow.revision \in Nat /\ s \in WorkflowStates /\ s # "ABSENT"
    BY DEF SessionTypes, WorkflowRow, WorkflowStates, Draining, Terminal
  <2>2. /\ sworkflow' = [state |-> s, revision |-> sworkflow.revision + 1]
        /\ sworkflow'.state = s
        /\ sworkflow'.revision = sworkflow.revision + 1
    BY <1>3 DEF Session!WorkflowTo
  <2>3. sworkflow' \in WorkflowRow
    BY <2>1, <2>2 DEF WorkflowRow
  <2>4. CASE sworkflow = workflow
    <3>1. workflow.state \notin Terminal \cup {"ABSENT"}
      BY <1>3, <2>4 DEF Draining, Terminal
    <3>2. Ahead'
      BY <2>1, <2>2, <2>4, <3>1 DEF Ahead, rows
    <3>. QED
      BY <1>1, <2>3, <3>2 DEF SessionTypes, Overlay
  <2>5. CASE sworkflow # workflow
    <3>1. /\ workflow.state \notin Terminal \cup {"ABSENT"}
          /\ sworkflow.revision > workflow.revision
      BY <2>5 DEF Overlay, Ahead
    <3>2. workflow' = workflow /\ workflow.revision \in Nat
      BY DEF rows, RowsOK, WorkflowRow
    <3>3. Ahead'
      BY <2>1, <2>2, <3>1, <3>2 DEF Ahead
    <3>. QED
      BY <1>1, <2>3, <3>3 DEF SessionTypes, Overlay
  <2>. QED
    BY <2>4, <2>5
<1>. QED
  BY <1>2, <1>3 DEF SessionDirects

-----------------------------------------------------------------------------
(***************************************************************************)
(* Handlers while recovery runs.                                           *)
(***************************************************************************)
\* A step that leaves the rows alone undoes nothing.
LEMMA SameRowsGrow ==
    ASSUME RowsOK, UNCHANGED rows
    PROVE  TerminalStep /\ Grows
<1>1. workflow.revision \in Nat
  BY DEF RowsOK, WorkflowRow
<1>2. \A t \in Tasks : task[t].revision \in Nat /\ task[t].next_attempt_ordinal \in Nat
  BY DEF RowsOK, TaskRow
<1>. QED
  BY <1>1, <1>2 DEF TerminalStep, Grows, rows

\* The history is in the rows.
LEMMA SameHistory ==
    ASSUME History, UNCHANGED rows
    PROVE  History'
BY DEF History, Agrees, LastOrdinal, DependenciesFirst, rows

\* A call of the scheduler starts from nothing.
LEMMA CallIsDurable ==
    ASSUME Durable, UNCHANGED <<rows, worker>>, NEW pc \in {"advance", "drain"}, Call(pc)
    PROVE  Durable'
<1>1. IInv /\ RowsInv /\ RowsOK /\ TimersOK /\ Knowledge /\ NotWritten /\ History
  BY DEF Durable, KInv, IInv, RowsInv
<1>2. RowStep /\ TerminalStep
  BY <1>1, SameRows, SameRowsGrow
<1>3. PICK h \in Handlers : Goto(h, pc)
  BY DEF Call
<1>4. pc \in Free /\ pc \in Plain
  BY PlainPoints DEF Free, PCs, HoldsItem, Settling
<1>5. IInv'
  BY <1>1, <1>2, <1>3, <1>4, GotoMoves
<1>6. Knowledge'
  BY <1>1, <1>2, <1>3, <1>4, PlainForms
<1>7. TimersOK' /\ NotWritten'
  BY <1>1 DEF TimersOK, NotWritten, rows
<1>8. History'
  BY <1>1, SameHistory
<1>. QED
  BY <1>5, <1>6, <1>7, <1>8 DEF Durable, KInv

\* Handlers that start over know nothing that could be wrong.
LEMMA FreshIsDurable ==
    ASSUME RowsInv', TimersOK', NotWritten', History',
           worker' \in [Sessions -> WorkerStates], proc' \in [Handlers -> Proc],
           \A h \in Handlers : proc'[h].pc \in {"idle", "advance"}
    PROVE  Durable'
<1>1. ASSUME NEW h \in Handlers PROVE ProcOK(proc[h])' /\ KnowsOK(proc[h])'
  <2>1. proc'[h].pc \notin HoldsItem \cup Settling \cup
          {"notify", "expire", "direct", "promote", "promote_commit", "claim"}
    BY DEF HoldsItem, Settling
  <2>. QED
    BY <2>1 DEF ProcOK, KnowsOK
<1>. QED
  BY <1>1 DEF Durable, KInv, IInv, Knowledge

\* Items of attempts that exist keep naming attempts that exist.
LEMMA AllocatedStays ==
    ASSUME RowsOK, RowsOK', Grows, NEW i \in Item, Allocated(i)
    PROVE  Allocated(i)'
<1>1. /\ task[i.task].next_attempt_ordinal \in Nat
      /\ task'[i.task].next_attempt_ordinal \in Nat
      /\ task'[i.task].next_attempt_ordinal >= task[i.task].next_attempt_ordinal
  BY DEF RowsOK, TaskRow, Item, Grows
<1>. QED
  BY <1>1 DEF Allocated, Ordinals

-----------------------------------------------------------------------------
(***************************************************************************)
(* The steps of RecoveryNext, one lemma each or one for a kind.            *)
(***************************************************************************)
StepOK == BootInv' /\ TerminalStep /\ Grows

\* The parts of the invariant that the steps start from.
LEMMA BootFacts ==
    ASSUME BootInv
    PROVE  /\ RowsInv /\ RowsOK /\ TimersOK
           /\ worker \in [Sessions -> WorkerStates]
           /\ proc \in [Handlers -> Proc]
           /\ Durable /\ SessionTypes /\ Overlay /\ BootTypes /\ TodoOK /\ Quiet
BY DEF BootInv, Durable, KInv, IInv, RowsInv

\* The set of items a phase works on stays good while the rows grow.
LEMMA TodoStays ==
    ASSUME RowsOK, RowsOK', Grows, TodoOK,
           boot'.phase = boot.phase, boot'.todo \subseteq boot.todo,
           boot'.direct => boot.direct \/ boot.phase \in {"settle_claimed", "settle_running"}
    PROVE  TodoOK'
<1>1. ASSUME boot.phase \in {"settle_claimed", "settle_running"}, NEW i \in boot'.todo
      PROVE  i \in Item /\ Allocated(i)'
  <2>1. i \in Item /\ Allocated(i)
    BY <1>1 DEF TodoOK
  <2>. QED
    BY <2>1, AllocatedStays
<1>. QED
  BY <1>1 DEF TodoOK

\* A step of the application's own code, before or after the gate opens:
\* what it changes, the session has not written.
ApplicationStep ==
    /\ Next /\ Refresh /\ UNCHANGED <<locked, boot, retired, crashes>>
    /\ sworkflow # workflow => workflow' = workflow
    /\ \A t \in Tasks : Settled(t) => task'[t] = task[t]

\* The steps of that kind.
LEMMA ApplicationSteps ==
    ASSUME BootInv, Serving(NextDeployed) \/ Scheduler \/ (BootClock /\ Clock /\ Refresh)
    PROVE  ApplicationStep
<1>1. CASE Serving(NextDeployed)
  <2>1. Next /\ Refresh /\ UNCHANGED <<locked, boot, retired, crashes>>
    BY <1>1 DEF Serving, Next
  <2>2. sworkflow = workflow /\ stask = task
    BY <1>1, BootFacts DEF Serving, Quiet, srows, rows
  <2>3. \A t \in Tasks : ~Settled(t)
    BY <2>2 DEF Settled
  <2>. QED
    BY <2>1, <2>2, <2>3 DEF ApplicationStep
<1>2. CASE Scheduler
  <2>1. Next /\ Refresh /\ UNCHANGED <<locked, boot, retired, crashes>>
    BY <1>2 DEF Scheduler, Next, NextDeployed
  <2>2. sworkflow # workflow => workflow' = workflow
    BY <1>2 DEF Scheduler, NotBlocked
  <2>3. ASSUME NEW t \in Tasks, Settled(t) PROVE task'[t] = task[t]
    <3>1. stask[t] # task[t]
      BY <2>3 DEF Settled
    <3>. QED
      BY <1>2, <3>1 DEF Scheduler, NotBlocked
  <2>. QED
    BY <2>1, <2>2, <2>3 DEF ApplicationStep
<1>3. CASE BootClock /\ Clock /\ Refresh
  <2>1. Next /\ UNCHANGED <<locked, boot, retired, crashes>>
    BY <1>3 DEF BootClock, Next, NextDeployed
  <2>2. UNCHANGED workflow
    BY <1>3 DEF Clock, RetryFallsDue, StartDeadlinePasses, CancellationDeadlinePasses
  <2>3. ASSUME NEW t \in Tasks, Settled(t) PROVE task'[t] = task[t]
    <3>1. task[t].state = "RUNNING" /\ RowsOK /\ TimersOK
      BY <2>3, BootFacts DEF Settled
    <3>2. ASSUME NEW u \in Tasks, RetryFallsDue(u) PROVE task'[t] = task[t]
      <4>1. task[u].state = "RETRY_WAIT"
        BY <3>1, <3>2 DEF RetryFallsDue, TimersOK
      <4>. QED
        BY <3>1, <3>2, <4>1, RetryFallsDueFacts
    <3>. QED
      BY <1>3, <3>2 DEF Clock, StartDeadlinePasses, CancellationDeadlinePasses
  <2>. QED
    BY <1>3, <2>1, <2>2, <2>3 DEF ApplicationStep
<1>. QED
  BY <1>1, <1>2, <1>3

\* They keep the invariant.
LEMMA ApplicationKeeps ==
    ASSUME BootInv, ApplicationStep
    PROVE  StepOK
<1>. USE DEF ApplicationStep
<1>1. Durable' /\ TerminalStep /\ Grows
  BY BootFacts, NextIsDurable
<1>2. RowsInv' /\ RowsOK'
  BY <1>1 DEF Durable, KInv, IInv, RowsInv
<1>3. SessionTypes' /\ Overlay' /\ (srows = rows => srows' = rows')
  BY <1>2, BootFacts, RefreshKeeps
<1>4. BootTypes' /\ Quiet'
  BY <1>3, BootFacts DEF BootTypes, Quiet
<1>5. TodoOK'
  BY <1>1, <1>2, BootFacts, TodoStays
<1>. QED
  BY <1>1, <1>3, <1>4, <1>5 DEF StepOK, BootInv

\* The clock passes an instant that is not yet committed.
SessionClock(t) ==
    /\ stask[t] # task[t]
    /\ stask[t].retry_ready_at = "pending"
    /\ stask' = [stask EXCEPT ![t].retry_ready_at = "due"]
    /\ UNCHANGED <<vars, sworkflow, sattempt>>
    /\ UNCHANGED <<locked, boot, retired, crashes>>

\* That changes nothing but the timer of a settled task.
LEMMA SessionClockFacts ==
    ASSUME BootInv, NEW t \in Tasks, SessionClock(t)
    PROVE  /\ UNCHANGED rows /\ UNCHANGED vars
           /\ Settled(t)
           /\ stask' \in [Tasks -> TaskRow]
           /\ stask'[t].state = stask[t].state
           /\ stask'[t].revision = stask[t].revision
           /\ stask'[t].next_attempt_ordinal = stask[t].next_attempt_ordinal
           /\ \A u \in Tasks \ {t} : stask'[u] = stask[u]
<1>1. UNCHANGED rows /\ UNCHANGED vars
  BY DEF SessionClock, vars, rows
<1>2. Settled(t) /\ stask[t] \in TaskRow
  BY BootFacts DEF SessionClock, Overlay, Same, SessionTypes
<1>3. PICK row : row = [stask[t] EXCEPT !.retry_ready_at = "due"]
  OBVIOUS
<1>4. /\ row \in TaskRow
      /\ row.state = stask[t].state
      /\ row.revision = stask[t].revision
      /\ row.next_attempt_ordinal = stask[t].next_attempt_ordinal
  BY <1>2, <1>3 DEF TaskRow, Timers
<1>5. /\ stask' \in [Tasks -> TaskRow]
      /\ stask'[t] = row
      /\ \A u \in Tasks \ {t} : stask'[u] = stask[u]
  BY <1>3, <1>4, BootFacts DEF SessionClock, SessionTypes
<1>. QED
  BY <1>1, <1>2, <1>4, <1>5

\* It keeps the invariant.
LEMMA SessionClockKeeps ==
    ASSUME BootInv, NEW t \in Tasks, SessionClock(t)
    PROVE  StepOK
<1>1. UNCHANGED rows /\ UNCHANGED vars /\ UNCHANGED <<locked, boot, retired, crashes>>
  BY SessionClockFacts DEF SessionClock
<1>2. Settled(t) /\ stask[t].state # "FAILED"
  BY SessionClockFacts DEF Settled, SessionClock
<1>3. ASSUME NEW u \in Tasks PROVE Same(u)' \/ Settled(u)'
  <2>1. CASE u = t
    BY <1>1, <1>2, <2>1, SessionClockFacts
       DEF Settled, LastOrdinal, BudgetRemains, rows, SessionClock
  <2>2. CASE u # t
    <3>1. stask'[u] = stask[u] /\ sattempt' = sattempt
      BY <2>2, SessionClockFacts DEF SessionClock
    <3>. QED
      BY <1>1, <3>1, BootFacts DEF Overlay, Same, Settled, LastOrdinal, BudgetRemains, rows
  <2>. QED
    BY <2>1, <2>2
<1>4. SessionTypes' /\ Overlay'
  BY <1>1, <1>3, SessionClockFacts, BootFacts
     DEF SessionClock, SessionTypes, Overlay, Ahead, rows
<1>5. Durable' /\ TerminalStep /\ Grows
  BY <1>1, BootFacts, NextIsDurable
<1>6. RowsOK'
  BY <1>5 DEF Durable, KInv, IInv, RowsInv
<1>7. TodoOK'
  BY <1>1, <1>5, <1>6, BootFacts, TodoStays
<1>8. Quiet'
  <2>1. srows # rows
    BY DEF SessionClock, srows, rows
  <2>. QED
    BY <1>1, <2>1, BootFacts DEF Quiet
<1>9. BootTypes'
  BY <1>1, BootFacts DEF BootTypes
<1>. QED
  BY <1>4, <1>5, <1>7, <1>8, <1>9 DEF StepOK, BootInv

\* The clock passes instants of committed and of uncommitted rows.
LEMMA ClockKinds ==
    ASSUME BootClock
    PROVE  (BootClock /\ Clock /\ Refresh) \/ \E t \in Tasks : SessionClock(t)
BY DEF BootClock, SessionClock

\* A crash forgets what is not committed.
LEMMA CrashKeeps ==
    ASSUME BootInv, Crash
    PROVE  StepOK
<1>1. UNCHANGED rows /\ sworkflow' = workflow /\ stask' = task /\ sattempt' = attempt
  BY DEF Crash
<1>2. TerminalStep /\ Grows
  BY <1>1, BootFacts, SameRowsGrow
<1>3. RowsInv' /\ TimersOK' /\ NotWritten' /\ History'
  <2>1. RowsInv' /\ TimersOK' /\ NotWritten'
    BY <1>1, BootFacts DEF Durable, RowsInv, RowsOK, NothingBeforeStart, TaskOK, TimersOK,
                           NotWritten, rows
  <2>. QED
    BY <1>1, <2>1, BootFacts, SameHistory DEF Durable
<1>4. /\ worker' \in [Sessions -> WorkerStates]
      /\ proc' \in [Handlers -> Proc]
      /\ \A h \in Handlers : proc'[h].pc \in {"idle", "advance"}
  BY IdleFacts DEF Crash, WorkerStates, Idle
<1>5. Durable'
  BY <1>3, <1>4, FreshIsDurable
<1>6. SessionTypes'
  BY <1>1, BootFacts DEF RowsOK, SessionTypes
<1>7. Overlay' /\ Quiet'
  BY <1>1 DEF Overlay, Ahead, Same, Quiet, srows, rows
<1>8. FirstPass \in Boot /\ FirstPass.phase = "resume_draining" /\ ~FirstPass.direct
  BY RecoveryAssumption DEF RecoveryAssumption, FirstPass, Boot, Phases
<1>9. BootTypes' /\ TodoOK'
  <2>1. crashes' \in 0..MaxCrashes
    BY BootFacts, RecoveryAssumption DEF Crash, BootTypes, RecoveryAssumption
  <2>2. retired' \subseteq Sessions /\ locked' \in BOOLEAN
    BY BootFacts DEF Crash, BootTypes
  <2>3. boot' \in Boot /\ boot'.phase = "resume_draining" /\ ~boot'.direct
    BY <1>8 DEF Crash
  <2>. QED
    BY <2>1, <2>2, <2>3 DEF BootTypes, TodoOK
<1>. QED
  BY <1>2, <1>5, <1>6, <1>7, <1>9 DEF StepOK, BootInv

\* What a phase selects.
LEMMA FoundFacts ==
    ASSUME BootInv, NEW p \in Phases
    PROVE  /\ Found(p) \subseteq Item \cup {NoItem}
           /\ p \in {"settle_claimed", "settle_running"} =>
                \A i \in Found(p) : i \in Item /\ Allocated(i)
           /\ p = "promote_retry_wait" => Found(p) \subseteq Item
<1>1. ASSUME NEW state \in Active, NEW i \in OwnedAttempts(state)
      PROVE  i \in Item /\ Allocated(i)
  <2>1. PICK t \in Tasks, o \in Ordinals :
          /\ sattempt[t][o].state = state
          /\ i = [op |-> "WORKER_LOSS", task |-> t, ordinal |-> o, trev |-> 0,
                  arev |-> sattempt[t][o].revision,
                  who |-> sattempt[t][o].worker_session_id]
    BY DEF OwnedAttempts
  <2>2. /\ sattempt[t][o].revision \in Nat
        /\ sattempt[t][o].worker_session_id \in Sessions \cup {NoSession}
        /\ o \in Nat
    <3>1. sattempt[t][o] \in AttemptRow
      BY BootFacts DEF SessionTypes
    <3>. QED
      BY <3>1 DEF AttemptRow, Ordinals
  <2>3. i \in Item /\ i.task = t /\ i.ordinal = o
    BY <2>1, <2>2 DEF Item, Ops
  <2>4. task[t].state = "RUNNING" /\ o = LastOrdinal(t)
    BY <2>1, BootFacts, ActiveIsSame
  <2>5. task[t].next_attempt_ordinal \in Nat
    BY BootFacts DEF RowsOK, TaskRow
  <2>. QED
    BY <2>2, <2>3, <2>4, <2>5 DEF Allocated, LastOrdinal
<1>2. ASSUME NEW states, NEW i \in TasksIn(states) PROVE i \in Item
  BY BootFacts DEF TasksIn, Item, Ops, SessionTypes, TaskRow
<1>3. ASSUME NEW states PROVE TheWorkflow(states) \subseteq {NoItem}
  BY DEF TheWorkflow
<1>4. "CLAIMED" \in Active /\ "RUNNING" \in Active
  BY DEF Active
<1>5. CASE p \in {"resume_draining", "repair_terminalization"}
  <2>1. Found(p) = TheWorkflow(Draining) \/ Found(p) = TheWorkflow(Draining \cup {"RUNNING"})
    BY <1>5, Zenon DEF Found
  <2>. QED
    BY <1>3, <1>5, <2>1
<1>6. CASE p \in {"settle_claimed", "settle_running"}
  <2>1. Found(p) = OwnedAttempts("CLAIMED") \/ Found(p) = OwnedAttempts("RUNNING")
    BY <1>6, Zenon DEF Found
  <2>. QED
    BY <1>1, <1>4, <1>6, <2>1
<1>7. CASE p \in {"promote_retry_wait", "rediscover_runnable", "repair_pending_readiness"}
  <2>1. \/ Found(p) = {i \in TasksIn({"RETRY_WAIT"}) : stask[i.task].retry_ready_at = "due"}
        \/ Found(p) = TasksIn({"RUNNABLE"})
        \/ Found(p) = TasksIn({"PENDING"})
    BY <1>7, Zenon DEF Found
  <2>. QED
    BY <1>2, <1>7, <2>1
<1>. QED
  BY <1>5, <1>6, <1>7 DEF Phases

\* Steps of recovery that only move it on.
LEMMA PhaseStepsKeep ==
    ASSUME BootInv, PhaseRead \/ PhaseDone \/ OpenGate
    PROVE  StepOK
<1>1. UNCHANGED <<vars, srows, locked, retired, crashes>>
  BY DEF PhaseRead, PhaseDone, OpenGate
<1>2. UNCHANGED rows /\ UNCHANGED srows /\ UNCHANGED vars
  BY <1>1 DEF vars, rows
<1>3. Durable' /\ TerminalStep /\ Grows
  BY <1>2, BootFacts, NextIsDurable
<1>4. SessionTypes' /\ Overlay'
  BY <1>2, BootFacts DEF SessionTypes, Overlay, Ahead, Same, Settled, LastOrdinal,
                         BudgetRemains, srows, rows
<1>5. boot \in Boot
  BY BootFacts DEF BootTypes
<1>6. boot' \in Boot /\ TodoOK' /\ Quiet'
  <2>1. ASSUME NEW p \in Phases, boot.phase = p, ~boot.direct, NEW b \in Batches(Found(p)),
               boot' = [boot EXCEPT !.read = TRUE, !.todo = b]
        PROVE  boot' \in Boot /\ TodoOK' /\ Quiet'
    <3>1. b \subseteq Found(p)
      BY DEF Batches
    <3>2. b \in SUBSET (Item \cup {NoItem})
      BY <3>1, FoundFacts
    <3>3. boot' \in Boot /\ boot'.phase = p /\ boot'.todo = b /\ ~boot'.direct
      BY <1>5, <2>1, <3>2 DEF Boot
    <3>4. \A i \in Item : Allocated(i) => Allocated(i)'
      BY <1>2 DEF Allocated, rows
    <3>5. TodoOK'
      BY <3>1, <3>3, <3>4, FoundFacts DEF TodoOK
    <3>6. Quiet'
      BY <3>3 DEF Quiet, Phases
    <3>. QED
      BY <3>3, <3>5, <3>6
  <2>2. ASSUME NEW p \in Phases, boot.todo = {}, ~boot.direct,
               boot' = [boot EXCEPT !.phase = Following[p], !.read = FALSE]
        PROVE  boot' \in Boot /\ TodoOK' /\ Quiet'
    <3>1. Following[p] \in Phases \cup {"end_pass"}
      BY DEF Following, Phases
    <3>2. boot' \in Boot /\ boot'.phase = Following[p] /\ boot'.todo = {} /\ ~boot'.direct
      BY <1>5, <2>2, <3>1 DEF Boot
    <3>. QED
      BY <3>1, <3>2 DEF TodoOK, Quiet, Phases
  <2>3. ASSUME boot.phase = "recovered", ~boot.direct, boot' = [boot EXCEPT !.phase = "serving"]
        PROVE  boot' \in Boot /\ TodoOK' /\ Quiet'
    <3>1. boot' \in Boot /\ boot'.phase = "serving" /\ ~boot'.direct
      BY <1>5, <2>3 DEF Boot
    <3>. QED
      BY <1>2, <2>3, <3>1, BootFacts DEF TodoOK, Quiet
  <2>4. CASE PhaseRead
    BY <2>1, <2>4 DEF PhaseRead, InPhase
  <2>5. CASE PhaseDone
    BY <2>2, <2>5 DEF PhaseDone, InPhase
  <2>6. CASE OpenGate
    BY <2>3, <2>6 DEF OpenGate, InPhase
  <2>. QED
    BY <2>4, <2>5, <2>6
<1>7. BootTypes'
  BY <1>1, <1>6, BootFacts DEF BootTypes
<1>. QED
  BY <1>3, <1>4, <1>6, <1>7 DEF StepOK, BootInv

\* Leaving an item of a phase.
LEMMA DropFacts ==
    ASSUME BootInv, NEW i
    PROVE  /\ Drop(i) \in Boot
           /\ Drop(i).phase = boot.phase
           /\ Drop(i).todo = boot.todo \ {i}
           /\ Drop(i).direct = boot.direct
           /\ Drop(i).mutated = boot.mutated
           /\ Drop(i).read = boot.read
           /\ Drop(i).pass = boot.pass
           /\ [boot EXCEPT !.todo = {}] \in Boot
           /\ [boot EXCEPT !.todo = {}].phase = boot.phase
           /\ [boot EXCEPT !.todo = {}].todo = {}
           /\ [boot EXCEPT !.todo = {}].direct = boot.direct
<1>1. boot \in Boot
  BY BootFacts DEF BootTypes
<1>. QED
  BY <1>1 DEF Drop, Boot

\* The phases that only call the scheduler.
LEMMA CallsKeep ==
    ASSUME BootInv, \/ _phase_2_resume_draining
                    \/ _phase_6_rediscover_runnable
                    \/ _phase_7_repair_pending_readiness
    PROVE  StepOK
<1>1. /\ UNCHANGED rows /\ UNCHANGED srows /\ UNCHANGED worker
      /\ UNCHANGED <<locked, retired, crashes>>
  BY DEF _phase_2_resume_draining, _phase_6_rediscover_runnable,
         _phase_7_repair_pending_readiness
<1>2. Call("advance") \/ Call("drain")
  BY DEF _phase_2_resume_draining, _phase_6_rediscover_runnable,
         _phase_7_repair_pending_readiness
<1>3. boot.phase \in Phases
  BY DEF _phase_2_resume_draining, _phase_6_rediscover_runnable,
         _phase_7_repair_pending_readiness, InPhase, Phases
<1>4. (\E i \in boot.todo : boot' = Drop(i)) \/ boot' = [boot EXCEPT !.todo = {}]
  BY DEF _phase_2_resume_draining, _phase_6_rediscover_runnable,
         _phase_7_repair_pending_readiness
<1>5. /\ boot' \in Boot /\ boot'.phase = boot.phase /\ boot'.todo \subseteq boot.todo
      /\ boot'.direct = boot.direct
  BY <1>4, DropFacts
<1>6. Durable'
  BY <1>1, <1>2, BootFacts, CallIsDurable
<1>7. TerminalStep /\ Grows
  BY <1>1, BootFacts, SameRowsGrow
<1>8. SessionTypes' /\ Overlay'
  BY <1>1, BootFacts DEF SessionTypes, Overlay, Ahead, Same, Settled, LastOrdinal,
                         BudgetRemains, srows, rows
<1>9. RowsOK'
  BY <1>6 DEF Durable, KInv, IInv, RowsInv
<1>10. TodoOK'
  BY <1>5, <1>7, <1>9, BootFacts, TodoStays
<1>11. BootTypes' /\ Quiet'
  BY <1>1, <1>3, <1>5, BootFacts DEF BootTypes, Quiet, Phases
<1>. QED
  BY <1>6, <1>7, <1>8, <1>10, <1>11 DEF StepOK, BootInv

\* What phases 3 and 4 do with an item.
SettlesOrphan(i, j, running) ==
    /\ j.task = i.task /\ j.ordinal = i.ordinal
    /\ j.op = i.op /\ j.arev = i.arev /\ j.who = i.who
    /\ j.trev = stask[j.task].revision
    /\ Allocated(j)
    /\ Session!commit_internal_attempt_failure(j, running)
    /\ running = (sworkflow.state = "RUNNING")
    /\ boot'.direct = Session!FailsTask(j, running)
    /\ boot'.todo = boot.todo \ {i}
    /\ boot'.pass = boot.pass
    /\ boot.mutated \/ Session!FailsTask(j, running) => boot'.mutated

\* Phases 3 and 4 take one item each time.
LEMMA OrphanFacts ==
    ASSUME BootInv, NEW p \in {"settle_claimed", "settle_running"}, SettleOrphan(p)
    PROVE  /\ boot.phase = p /\ UNCHANGED rows /\ UNCHANGED vars
           /\ UNCHANGED <<locked, retired, crashes>>
           /\ boot' \in Boot /\ boot'.phase = p /\ boot'.read = boot.read
           /\ \E i \in boot.todo, j \in Item, running \in BOOLEAN : SettlesOrphan(i, j, running)
<1>1. boot.phase = p /\ UNCHANGED <<vars, locked, retired, crashes>>
  BY DEF SettleOrphan, InPhase
<1>2. UNCHANGED rows /\ UNCHANGED vars
  BY <1>1 DEF vars, rows
<1>3. PICK i \in boot.todo :
        LET j == [i EXCEPT !.trev = stask[i.task].revision]
            running == sworkflow.state = "RUNNING"
            fails == Session!FailsTask(j, running)
        IN  /\ Session!commit_internal_attempt_failure(j, running)
            /\ boot' = [Drop(i) EXCEPT
                          !.direct = fails,
                          !.mutated = @ \/ fails \/ Session!RetriesTask(j, running)]
  BY DEF SettleOrphan
<1>4. i \in Item /\ Allocated(i)
  BY <1>1, BootFacts DEF TodoOK
<1>5. PICK j : j = [i EXCEPT !.trev = stask[i.task].revision]
  OBVIOUS
<1>6. PICK running \in BOOLEAN : running = (sworkflow.state = "RUNNING")
  OBVIOUS
<1>7. stask[i.task].revision \in Nat
  BY <1>4, BootFacts DEF SessionTypes, TaskRow, Item
<1>8. /\ j \in Item /\ j.task = i.task /\ j.ordinal = i.ordinal
      /\ j.op = i.op /\ j.arev = i.arev /\ j.who = i.who
      /\ j.trev = stask[j.task].revision
  BY <1>4, <1>5, <1>7 DEF Item
<1>9. Allocated(j)
  BY <1>4, <1>8 DEF Allocated
<1>10. Session!commit_internal_attempt_failure(j, running)
  BY <1>3, <1>5, <1>6
<1>11. PICK fails \in BOOLEAN, retries \in BOOLEAN :
         /\ fails = Session!FailsTask(j, running)
         /\ boot' = [Drop(i) EXCEPT !.direct = fails,
                                    !.mutated = Drop(i).mutated \/ fails \/ retries]
  <2>1. Session!FailsTask(j, running) \in BOOLEAN /\ Session!RetriesTask(j, running) \in BOOLEAN
    BY DEF Session!FailsTask, Session!RetriesTask
  <2>. QED
    BY <1>3, <1>5, <1>6, <2>1
<1>12. /\ boot' \in Boot /\ boot'.phase = boot.phase /\ boot'.read = boot.read
       /\ boot'.direct = fails /\ boot'.todo = boot.todo \ {i}
       /\ boot'.pass = boot.pass /\ (boot.mutated \/ fails => boot'.mutated)
  <2>1. PICK d \in Boot : d = Drop(i)
    BY DropFacts
  <2>2. PICK m \in BOOLEAN : m = (d.mutated \/ fails \/ retries)
    OBVIOUS
  <2>3. boot' = [d EXCEPT !.direct = fails, !.mutated = m]
    BY <1>11, <2>1, <2>2
  <2>4. /\ boot' \in Boot /\ boot'.phase = d.phase /\ boot'.todo = d.todo
        /\ boot'.read = d.read /\ boot'.direct = fails
        /\ boot'.pass = d.pass /\ boot'.mutated = m
    BY <2>1, <2>3 DEF Boot
  <2>. QED
    BY <2>1, <2>2, <2>4, DropFacts
<1>13. SettlesOrphan(i, j, running)
  BY <1>6, <1>8, <1>9, <1>10, <1>11, <1>12 DEF SettlesOrphan
<1>. QED
  BY <1>1, <1>2, <1>8, <1>12, <1>13

\* Phases 3 and 4.
LEMMA SettleOrphanKeeps ==
    ASSUME BootInv, NEW p \in {"settle_claimed", "settle_running"}, SettleOrphan(p)
    PROVE  StepOK
<1>1. PICK i \in boot.todo, j \in Item, running \in BOOLEAN : SettlesOrphan(i, j, running)
  BY OrphanFacts
<1>2. SessionTypes' /\ Overlay'
  BY <1>1, BootFacts, OrphanFacts, SessionSettles DEF SettlesOrphan
<1>3. Durable' /\ TerminalStep /\ Grows
  BY BootFacts, OrphanFacts, NextIsDurable
<1>4. RowsOK'
  BY <1>3 DEF Durable, KInv, IInv, RowsInv
<1>5. boot'.phase = boot.phase /\ boot'.todo \subseteq boot.todo
  BY <1>1, OrphanFacts DEF SettlesOrphan
<1>6. TodoOK'
  BY <1>3, <1>4, <1>5, BootFacts, OrphanFacts, TodoStays
<1>7. BootTypes' /\ Quiet'
  BY BootFacts, OrphanFacts DEF BootTypes, Quiet
<1>. QED
  BY <1>2, <1>3, <1>6, <1>7 DEF StepOK, BootInv

\* The session directs or closes the workflow, and may call the scheduler.
LEMMA DirectingKeeps ==
    ASSUME BootInv, SessionDirects, UNCHANGED <<stask, sattempt>>,
           UNCHANGED <<rows, worker, retired, crashes>>,
           UNCHANGED proc \/ Call("drain"),
           boot.phase \notin {"serving", "recovered"}, locked' \in BOOLEAN,
           boot' \in Boot, boot'.phase = boot.phase, boot'.todo \subseteq boot.todo,
           boot'.direct => boot.direct
    PROVE  StepOK
<1>1. UNCHANGED rows /\ UNCHANGED worker
  OBVIOUS
<1>2. Durable'
  <2>1. CASE UNCHANGED proc
    <3>1. UNCHANGED vars
      BY <1>1, <2>1 DEF vars, rows
    <3>. QED
      BY <3>1, BootFacts, NextIsDurable
  <2>2. CASE Call("drain")
    BY <1>1, <2>2, BootFacts, CallIsDurable
  <2>. QED
    BY <2>1, <2>2
<1>3. TerminalStep /\ Grows
  BY <1>1, BootFacts, SameRowsGrow
<1>4. SessionTypes' /\ Overlay'
  BY <1>1, BootFacts, SessionDirectsKeeps
<1>5. RowsOK'
  BY <1>2 DEF Durable, KInv, IInv, RowsInv
<1>6. TodoOK'
  BY <1>3, <1>5, BootFacts, TodoStays
<1>7. BootTypes' /\ Quiet'
  BY BootFacts DEF BootTypes, Quiet
<1>. QED
  BY <1>2, <1>3, <1>4, <1>6, <1>7 DEF StepOK, BootInv

\* After an orphan failed its task.
LEMMA DirectOrphanKeeps ==
    ASSUME BootInv, DirectOrphan
    PROVE  StepOK
<1>1. boot.phase \in {"settle_claimed", "settle_running"}
  BY BootFacts DEF DirectOrphan, TodoOK
<1>2. SessionDirects /\ UNCHANGED <<stask, sattempt>>
  BY DEF DirectOrphan, Session!commit_workflow_failure_direction, SessionDirects, Draining
<1>3. /\ boot' \in Boot /\ boot'.phase = boot.phase
      /\ boot'.todo = boot.todo /\ boot'.direct = FALSE
  BY BootFacts DEF DirectOrphan, BootTypes, Boot
<1>4. UNCHANGED <<rows, worker, retired, crashes>> /\ Call("drain") /\ locked' \in BOOLEAN
  BY DEF DirectOrphan
<1>. QED
  BY <1>1, <1>2, <1>3, <1>4, DirectingKeeps

\* Phase 8.
LEMMA TerminalizationKeeps ==
    ASSUME BootInv, _phase_8_repair_terminalization
    PROVE  StepOK
<1>1. boot.phase = "repair_terminalization" /\ UNCHANGED <<rows, worker, retired, crashes>>
  BY DEF _phase_8_repair_terminalization, InPhase
<1>2. /\ SessionDirects /\ UNCHANGED <<stask, sattempt>>
      /\ UNCHANGED proc \/ Call("drain")
      /\ locked' = locked \/ locked' = TRUE
  <2>1. CASE CloseDrained
    BY <2>1 DEF CloseDrained, SessionDirects, Session!commit_workflow_failure,
                Session!commit_workflow_cancellation, Draining, Terminal
  <2>2. CASE DirectFailed
    BY <2>2 DEF DirectFailed, SessionDirects, Session!commit_workflow_failure_direction,
                Draining
  <2>3. CASE CloseSucceeded
    BY <2>3 DEF CloseSucceeded, SessionDirects, Session!commit_workflow_success, Terminal
  <2>4. CASE UNCHANGED <<srows, locked, proc>>
    BY <2>4 DEF SessionDirects, srows
  <2>. QED
    BY <2>1, <2>2, <2>3, <2>4 DEF _phase_8_repair_terminalization
<1>3. PICK i \in boot.todo : boot' = Drop(i) \/ boot' = [Drop(i) EXCEPT !.mutated = TRUE]
  BY DEF _phase_8_repair_terminalization
<1>4. PICK d \in Boot : d = Drop(i)
  BY DropFacts
<1>5. /\ boot' \in Boot /\ boot'.phase = d.phase /\ boot'.todo = d.todo
      /\ boot'.direct = d.direct
  BY <1>3, <1>4 DEF Boot
<1>6. /\ boot'.phase = boot.phase /\ boot'.todo \subseteq boot.todo
      /\ boot'.direct = boot.direct
  BY <1>4, <1>5, DropFacts
<1>7. locked' \in BOOLEAN
  BY <1>2, BootFacts DEF BootTypes
<1>. QED
  BY <1>1, <1>2, <1>5, <1>6, <1>7, DirectingKeeps

\* The session commits while nothing is in flight but the call it makes.
LEMMA CommittingKeeps ==
    ASSUME BootInv, SessionCommit, UNCHANGED <<worker, retired, crashes>>,
           UNCHANGED <<sworkflow, sattempt>>,
           stask' \in [Tasks -> TaskRow],
           \A t \in Tasks : stask'[t] = task'[t] => Committed(t),
           proc' \in [Handlers -> Proc],
           \A h \in Handlers : proc'[h].pc \in {"idle", "advance"},
           boot' \in Boot, TodoOK'
    PROVE  StepOK
<1>1. workflow' = sworkflow' /\ task' = stask' /\ attempt' = sattempt' /\ locked' = FALSE
  BY DEF SessionCommit
<1>2. RowsInv' /\ TimersOK' /\ NotWritten' /\ History' /\ TerminalStep /\ Grows
  BY <1>1, BootFacts, CommitKeeps
<1>3. Durable'
  BY <1>2, BootFacts, FreshIsDurable
<1>4. SessionTypes'
  BY <1>1, BootFacts DEF SessionTypes
<1>5. Overlay' /\ Quiet'
  BY <1>1 DEF Overlay, Ahead, Same, Quiet, srows, rows
<1>6. BootTypes'
  BY <1>1, BootFacts DEF BootTypes
<1>. QED
  BY <1>2, <1>3, <1>4, <1>5, <1>6 DEF StepOK, BootInv

\* Phase 5 commits what the session wrote and a promotion, or does nothing.
LEMMA PromotionFacts ==
    ASSUME BootInv, _phase_5_promote_retry_wait
    PROVE  /\ boot.phase = "promote_retry_wait"
           /\ UNCHANGED <<worker, retired, crashes>>
           /\ UNCHANGED sworkflow /\ UNCHANGED sattempt
           /\ boot' \in Boot /\ boot'.phase = boot.phase /\ boot'.todo \subseteq boot.todo
           /\ boot'.direct = boot.direct
           /\ boot'.pass = boot.pass /\ (boot.mutated => boot'.mutated)
           /\ \/ /\ SessionCommit /\ sworkflow.state = "RUNNING" /\ ~boot.direct
                 /\ stask' \in [Tasks -> TaskRow]
                 /\ \A t \in Tasks : stask'[t] = task'[t] => Committed(t)
                 /\ proc' \in [Handlers -> Proc]
                 /\ \A g \in Handlers : proc'[g].pc \in {"idle", "advance"}
              \/ UNCHANGED rows /\ UNCHANGED stask /\ UNCHANGED locked /\ UNCHANGED proc
<1>1. /\ boot.phase = "promote_retry_wait" /\ ~boot.direct
      /\ \A h \in Handlers : proc[h].pc = "idle"
      /\ UNCHANGED <<worker, retired, crashes>>
  BY DEF _phase_5_promote_retry_wait, InPhase, At
<1>2. PICK i \in boot.todo :
         IF sworkflow.state = "RUNNING" /\ Session!TaskIs(i, {"RETRY_WAIT"})
         THEN /\ Session!commit_retry_ready(i)
              /\ SessionCommit
              /\ boot' = [Drop(i) EXCEPT !.mutated = TRUE]
              /\ Call("advance")
         ELSE /\ boot' = Drop(i)
              /\ UNCHANGED <<rows, srows, locked, proc>>
  BY DEF _phase_5_promote_retry_wait
<1>3. i \in Item /\ i.task \in Tasks
  BY <1>1, BootFacts DEF TodoOK, Item
<1>4. PICK d \in Boot : d = Drop(i)
  BY DropFacts
<1>5. boot' = d \/ boot' = [d EXCEPT !.mutated = TRUE]
  BY <1>2, <1>4
<1>6. /\ boot' \in Boot /\ boot'.phase = d.phase /\ boot'.todo = d.todo
      /\ boot'.direct = d.direct /\ boot'.pass = d.pass /\ (d.mutated => boot'.mutated)
  BY <1>4, <1>5 DEF Boot
<1>7. /\ boot'.phase = boot.phase /\ boot'.todo \subseteq boot.todo
      /\ boot'.direct = boot.direct
      /\ boot'.pass = boot.pass /\ (boot.mutated => boot'.mutated)
  BY <1>4, <1>6, DropFacts
<1>8. CASE sworkflow.state = "RUNNING" /\ Session!TaskIs(i, {"RETRY_WAIT"})
  <2>1. Session!commit_retry_ready(i) /\ SessionCommit /\ Call("advance")
    BY <1>2, <1>8
  <2>2. UNCHANGED sworkflow /\ UNCHANGED sattempt
    BY <2>1 DEF Session!commit_retry_ready
  <2>3. stask[i.task].state = "RETRY_WAIT"
    BY <1>8 DEF Session!TaskIs
  <2>4. "RUNNABLE" \in TaskStates /\ "none" \in Timers
    BY DEF TaskStates, Unstarted, Timers
  <2>5. stask' \in [Tasks -> TaskRow] /\ \A t \in Tasks : stask'[t] = task'[t] => Committed(t)
    <3>1. stask' = stask \/ stask' = Session!TaskTo(i.task, "RUNNABLE", "none")
      BY <2>1 DEF Session!commit_retry_ready
    <3>2. CASE stask' = stask
      BY <3>2, BootFacts DEF SessionTypes, Committed
    <3>3. CASE stask' = Session!TaskTo(i.task, "RUNNABLE", "none")
      <4>1. /\ stask' \in [Tasks -> TaskRow]
            /\ stask'[i.task].state = "RUNNABLE"
            /\ stask'[i.task].revision = stask[i.task].revision + 1
            /\ stask'[i.task].next_attempt_ordinal = stask[i.task].next_attempt_ordinal
            /\ stask'[i.task].retry_ready_at = "none"
            /\ \A u \in Tasks \ {i.task} : stask'[u] = stask[u]
        BY <1>3, <2>4, <3>3, BootFacts, SessionTaskTo
      <4>. QED
        BY <2>3, <4>1 DEF Committed
    <3>. QED
      BY <3>1, <3>2, <3>3
  <2>6. PICK h \in Handlers : Goto(h, "advance")
    BY <2>1 DEF Call
  <2>7. PICK q \in Proc : q = [Idle EXCEPT !.pc = "advance"] /\ q.pc = "advance"
    BY IdleFacts DEF PCs
  <2>8. proc' = [proc EXCEPT ![h] = q] /\ proc \in [Handlers -> Proc]
    BY <2>6, <2>7, BootFacts DEF Goto, Become
  <2>9. /\ proc' \in [Handlers -> Proc]
        /\ \A g \in Handlers : proc'[g].pc \in {"idle", "advance"}
    BY <1>1, <2>7, <2>8
  <2>. QED
    BY <1>1, <1>6, <1>7, <1>8, <2>1, <2>2, <2>5, <2>9
<1>9. CASE ~(sworkflow.state = "RUNNING" /\ Session!TaskIs(i, {"RETRY_WAIT"}))
  <2>1. UNCHANGED <<rows, srows, locked, proc>>
    BY <1>2, <1>9
  <2>2. /\ UNCHANGED sworkflow /\ UNCHANGED stask /\ UNCHANGED sattempt
        /\ UNCHANGED rows /\ UNCHANGED locked /\ UNCHANGED proc
    BY <2>1 DEF srows
  <2>. QED
    BY <1>1, <1>6, <1>7, <2>2
<1>. QED
  BY <1>8, <1>9

\* Phase 5.
LEMMA PromotionKeeps ==
    ASSUME BootInv, _phase_5_promote_retry_wait
    PROVE  StepOK
<1>1. TodoOK'
  BY BootFacts, PromotionFacts DEF TodoOK
<1>2. CASE /\ SessionCommit
           /\ stask' \in [Tasks -> TaskRow]
           /\ \A t \in Tasks : stask'[t] = task'[t] => Committed(t)
           /\ proc' \in [Handlers -> Proc]
           /\ \A g \in Handlers : proc'[g].pc \in {"idle", "advance"}
  <2>1. UNCHANGED <<worker, retired, crashes>> /\ UNCHANGED <<sworkflow, sattempt>>
    BY PromotionFacts
  <2>. QED
    BY <1>1, <1>2, <2>1, PromotionFacts, CommittingKeeps
<1>3. CASE UNCHANGED rows /\ UNCHANGED stask /\ UNCHANGED locked /\ UNCHANGED proc
  <2>1. SessionDirects /\ locked' \in BOOLEAN /\ boot.phase = "promote_retry_wait"
    BY <1>3, PromotionFacts, BootFacts DEF SessionDirects, BootTypes
  <2>. QED
    BY <1>3, <2>1, PromotionFacts, DirectingKeeps
<1>. QED
  BY <1>2, <1>3, PromotionFacts

\* The end of a pass starts another one or ends recovery.
LEMMA EndPassFacts ==
    ASSUME BootInv, EndPass
    PROVE  /\ boot' \in Boot /\ boot'.todo = {} /\ boot'.direct = FALSE
           /\ boot'.phase \in {"resume_draining", "recovered"}
           /\ boot'.phase = "recovered" => ~(boot.mutated /\ boot.pass < MaxPasses)
           /\ boot'.read = FALSE
<1>1. /\ FirstPass.todo = {} /\ FirstPass.direct = FALSE /\ FirstPass \in Boot
      /\ FirstPass.phase = "resume_draining" /\ FirstPass.read = FALSE
  BY RecoveryAssumption DEF RecoveryAssumption, FirstPass, Boot, Phases
<1>2. CASE boot.mutated /\ boot.pass < MaxPasses
  <2>1. boot.pass \in 1..MaxPasses /\ MaxPasses \in Nat
    BY BootFacts, RecoveryAssumption DEF BootTypes, Boot, RecoveryAssumption
  <2>2. PICK n \in 1..MaxPasses : n = boot.pass + 1
    BY <1>2, <2>1
  <2>3. boot' = [FirstPass EXCEPT !.pass = n]
    BY <1>2, <2>2 DEF EndPass
  <2>. QED
    BY <1>1, <2>3 DEF Boot
<1>3. CASE ~(boot.mutated /\ boot.pass < MaxPasses)
  <2>1. boot' = [FirstPass EXCEPT !.phase = "recovered"]
    BY <1>3 DEF EndPass
  <2>. QED
    BY <1>1, <1>3, <2>1 DEF Boot
<1>. QED
  BY <1>2, <1>3

\* The end of a pass.
LEMMA EndPassKeeps ==
    ASSUME BootInv, EndPass
    PROVE  StepOK
<1>1. /\ SessionCommit /\ UNCHANGED srows /\ UNCHANGED <<proc, worker, retired, crashes>>
      /\ \A h \in Handlers : proc[h].pc = "idle"
  BY DEF EndPass, InPhase, At
<1>2. UNCHANGED <<sworkflow, stask, sattempt>>
  BY <1>1 DEF srows
<1>3. /\ stask' \in [Tasks -> TaskRow]
      /\ \A t \in Tasks : stask'[t] = task'[t] => Committed(t)
  BY <1>2, BootFacts DEF SessionTypes, Committed
<1>4. /\ proc' \in [Handlers -> Proc]
      /\ \A h \in Handlers : proc'[h].pc \in {"idle", "advance"}
  BY <1>1, BootFacts
<1>5. boot' \in Boot /\ TodoOK'
  BY EndPassFacts DEF TodoOK
<1>. QED
  BY <1>1, <1>2, <1>3, <1>4, <1>5, CommittingKeeps

-----------------------------------------------------------------------------
(***************************************************************************)
(* The whole.                                                              *)
(***************************************************************************)
LEMMA RecoveryStarts == RecoveryInit => BootInv
<1>. SUFFICES ASSUME RecoveryInit PROVE BootInv
  OBVIOUS
<1>1. Init /\ srows = rows
  BY DEF RecoveryInit, srows, rows
<1>2. KInv
  BY <1>1, InitKnows
<1>3. NotWritten
  BY <1>1 DEF Init, StoreInit, NotWritten
<1>9. History
  <2>1. OutcomesAgree
    BY <1>1, InitAgrees
  <2>2. DependenciesFirst
    BY <1>1 DEF Init, StoreInit, DependenciesFirst
  <2>. QED
    BY <2>1, <2>2 DEF History, OutcomesAgree, Agrees
<1>4. SessionTypes
  BY <1>1, <1>2 DEF KInv, IInv, RowsInv, RowsOK, SessionTypes, srows, rows
<1>5. Overlay /\ Quiet
  BY <1>1 DEF Overlay, Ahead, Same, Quiet, srows, rows
<1>6. boot = [FirstPass EXCEPT !.phase = "serving"] /\ FirstPass \in Boot
  BY RecoveryAssumption DEF RecoveryInit, RecoveryAssumption, FirstPass, Boot, Phases
<1>7. boot \in Boot /\ boot.todo = {} /\ boot.direct = FALSE
  <2>1. FirstPass.todo = {} /\ FirstPass.direct = FALSE
    BY DEF FirstPass
  <2>. QED
    BY <1>6, <2>1 DEF Boot
<1>8. BootTypes /\ TodoOK
  <2>1. locked = FALSE /\ retired = {} /\ crashes = 0
    BY DEF RecoveryInit
  <2>2. locked \in BOOLEAN /\ retired \subseteq Sessions
    BY <2>1
  <2>3. crashes \in 0..MaxCrashes
    BY <2>1, RecoveryAssumption DEF RecoveryAssumption
  <2>4. TodoOK
    BY <1>7 DEF TodoOK
  <2>. QED
    BY <1>7, <2>2, <2>3, <2>4 DEF BootTypes
<1>. QED
  BY <1>2, <1>3, <1>4, <1>5, <1>8, <1>9 DEF BootInv, Durable

\* Every step keeps the invariant and undoes nothing.
LEMMA RecoveryKeeps == BootInv /\ [RecoveryNext]_rvars => StepOK
<1>. SUFFICES ASSUME BootInv, [RecoveryNext]_rvars PROVE StepOK
  OBVIOUS
<1>1. CASE UNCHANGED rvars
  <2>1. UNCHANGED <<vars, srows, locked, boot, retired, crashes>>
    BY <1>1 DEF rvars, bootVars, srows
  <2>2. UNCHANGED vars /\ UNCHANGED rows
    BY <2>1 DEF vars, rows
  <2>3. Durable' /\ TerminalStep /\ Grows
    BY <2>2, BootFacts, NextIsDurable
  <2>4. SessionTypes' /\ Overlay' /\ Quiet'
    BY <2>1, <2>2, BootFacts DEF SessionTypes, Overlay, Ahead, Same, Settled, LastOrdinal,
                                 BudgetRemains, Quiet, srows, rows
  <2>5. RowsOK'
    BY <2>3 DEF Durable, KInv, IInv, RowsInv
  <2>6. BootTypes' /\ TodoOK'
    BY <2>1, <2>3, <2>5, BootFacts, TodoStays DEF BootTypes
  <2>. QED
    BY <2>3, <2>4, <2>6 DEF StepOK, BootInv
<1>2. CASE Serving(NextDeployed) \/ Crash \/ BootClock
  BY <1>2, ApplicationSteps, ApplicationKeeps, CrashKeeps, ClockKinds, SessionClockKeeps
<1>3. CASE Recover
  <2>1. CASE PhaseRead \/ PhaseDone \/ OpenGate \/ Scheduler
    BY <2>1, PhaseStepsKeep, ApplicationSteps, ApplicationKeeps
  <2>2. CASE \/ _phase_2_resume_draining \/ _phase_6_rediscover_runnable
             \/ _phase_7_repair_pending_readiness
    BY <2>2, CallsKeep
  <2>3. CASE _phase_3_settle_claimed_attempts \/ _phase_4_settle_running_attempts
    BY <2>3, SettleOrphanKeeps
       DEF _phase_3_settle_claimed_attempts, _phase_4_settle_running_attempts
  <2>4. CASE \/ DirectOrphan \/ _phase_5_promote_retry_wait
             \/ _phase_8_repair_terminalization \/ EndPass
    BY <2>4, DirectOrphanKeeps, PromotionKeeps, TerminalizationKeeps, EndPassKeeps
  <2>. QED
    BY <1>3, <2>1, <2>2, <2>3, <2>4 DEF Recover
<1>. QED
  BY <1>1, <1>2, <1>3 DEF RecoveryNext

(***************************************************************************)
(* The invariant of the control plane survives crashes and recovery, and   *)
(* the rows of recovery's session are the committed ones, or those of a    *)
(* RUNNING task with its active attempt failed: nothing else is ever       *)
(* committed at the end of a pass.                                         *)
(***************************************************************************)
THEOREM RecoveryInvariance == RecoverySpec => []BootInv
<1>1. BootInv /\ [RecoveryNext]_rvars => BootInv'
  BY RecoveryKeeps DEF StepOK
<1>. QED
  BY <1>1, RecoveryStarts, PTL DEF RecoverySpec

(***************************************************************************)
(* Rows, session, handlers and the place in recovery keep their types.     *)
(***************************************************************************)
THEOREM RecoveryTypes == RecoverySpec => []RecoveryTypeOK
<1>1. BootInv => RecoveryTypeOK
  <2>. SUFFICES ASSUME BootInv PROVE RecoveryTypeOK
    OBVIOUS
  <2>1. TypeOK
    BY BootFacts DEF TypeOK, RowsOK
  <2>2. Session!AllTasks(TaskStates)
    BY BootFacts DEF Session!AllTasks, SessionTypes, TaskRow
  <2>. QED
    BY <2>1, <2>2, BootFacts DEF RecoveryTypeOK, SessionTypes, BootTypes
<1>. QED
  BY <1>1, RecoveryInvariance, PTL

(***************************************************************************)
(* No committed decision is lost or overwritten, wherever the crashes are: *)
(* terminal rows stay as they are and no revision or ordinal goes back,    *)
(* although recovery commits at the end of a pass what it wrote before the *)
(* scheduler calls in between.                                             *)
(***************************************************************************)
THEOREM NothingLost == RecoverySpec => NothingIsUndone
<1>1. BootInv /\ [RecoveryNext]_rvars =>
        [ /\ TerminalStep
          /\ workflow'.revision >= workflow.revision
          /\ \A t \in Tasks : /\ task'[t].revision >= task[t].revision
                              /\ task'[t].next_attempt_ordinal >=
                                     task[t].next_attempt_ordinal ]_rvars
  BY RecoveryKeeps DEF StepOK, Grows
<1>. QED
  BY <1>1, RecoveryInvariance, PTL DEF RecoverySpec, NothingIsUndone

(***************************************************************************)
(* What holds of a control plane that never stops holds across crashes:    *)
(* one owner, the budget, one story per task and dependencies first.  The  *)
(* orphans that recovery fails in its session and commits later count as   *)
(* attempts like any other.                                                *)
(***************************************************************************)
THEOREM GuaranteesSurvive ==
    RecoverySpec =>
        [](ExclusiveOwnership /\ RetryBudget /\ OutcomesAgree /\ DependenciesFirst)
<1>1. BootInv => ExclusiveOwnership /\ RetryBudget /\ OutcomesAgree /\ DependenciesFirst
  <2>. SUFFICES ASSUME BootInv
                PROVE  ExclusiveOwnership /\ RetryBudget /\ OutcomesAgree /\ DependenciesFirst
    OBVIOUS
  <2>1. IInv /\ History
    BY DEF BootInv, Durable, KInv
  <2>2. OutcomesAgree /\ DependenciesFirst
    BY <2>1 DEF History, Agrees, OutcomesAgree
  <2>. QED
    BY <2>1, <2>2, OneOwner, WithinBudget
<1>. QED
  BY <1>1, RecoveryInvariance, PTL

-----------------------------------------------------------------------------
(***************************************************************************)
(* The verdict across crashes.  Recovery directs and closes the workflow   *)
(* in its session, on what that session sees of the tasks.                 *)
(***************************************************************************)
SessionVerdicts ==
    /\ sworkflow.state = "SUCCEEDED" => \A t \in Tasks : stask[t].state = "SUCCEEDED"
    /\ sworkflow.state \in Terminal => \A t \in Tasks : stask[t].state \in Terminal
    /\ sworkflow.state \in {"FAILING", "FAILED"} => \E t \in Tasks : stask[t].state = "FAILED"

Directed == boot.direct => \E t \in Tasks : stask[t].state = "FAILED"

VerdictInv == Verdicts /\ SessionVerdicts /\ Directed

\* In the session, too, what is terminal is final.
SessionFinal ==
    \A t \in Tasks : stask[t].state \in Terminal => stask'[t].state = stask[t].state

\* The session has not written the workflow.
Undirected == sworkflow = workflow

\* Terminal tasks are the same in the session and outside it.
LEMMA VerdictIsShared == Overlay /\ Verdicts /\ Undirected => SessionVerdicts
<1>. SUFFICES ASSUME Overlay, Verdicts, Undirected PROVE SessionVerdicts
  OBVIOUS
<1>1. ASSUME NEW t \in Tasks, task[t].state \in Terminal PROVE stask[t] = task[t]
  BY <1>1 DEF Overlay, Same, Settled, Terminal
<1>. QED
  BY <1>1 DEF Undirected, Verdicts, SessionVerdicts, Terminal

\* As long as the session's workflow stays as it is, so does its verdict.
LEMMA VerdictStays ==
    ASSUME SessionVerdicts, SessionFinal, sworkflow'.state = sworkflow.state
    PROVE  SessionVerdicts'
BY DEF SessionVerdicts, SessionFinal, Terminal

\* The reason to direct the workflow stays, too.
LEMMA ReasonStays ==
    ASSUME Directed, SessionFinal, boot'.direct => boot.direct
    PROVE  Directed'
BY DEF Directed, SessionFinal, Terminal

\* The committed verdict is in the rows.
LEMMA SameVerdicts ==
    ASSUME Verdicts, UNCHANGED rows
    PROVE  Verdicts'
BY DEF Verdicts, rows

\* Steps of the application's own code.
LEMMA ApplicationVerdicts ==
    ASSUME BootInv, VerdictInv, ApplicationStep
    PROVE  VerdictInv'
<1>1. KInv /\ [Next]_vars /\ Refresh /\ boot' = boot
  BY DEF BootInv, Durable, ApplicationStep
<1>2. Verdicts'
  BY <1>1, VerdictsStay DEF VerdictInv
<1>3. Overlay' /\ TerminalStep
  BY ApplicationKeeps DEF StepOK, BootInv
<1>4. SessionFinal
  <2>. SUFFICES ASSUME NEW t \in Tasks, stask[t].state \in Terminal
                PROVE  stask'[t].state = stask[t].state
    BY DEF SessionFinal
  <2>1. CASE stask[t] = task[t]
    <3>1. stask'[t] = task'[t]
      BY <1>1, <2>1 DEF Refresh
    <3>. QED
      BY <1>3, <2>1, <3>1 DEF TerminalStep
  <2>2. CASE stask[t] # task[t]
    BY <1>1, <2>2 DEF Refresh
  <2>. QED
    BY <2>1, <2>2
<1>5. SessionVerdicts'
  <2>1. CASE sworkflow = workflow
    <3>1. Undirected'
      BY <1>1, <2>1 DEF Refresh, Undirected
    <3>. QED
      BY <1>2, <1>3, <3>1, VerdictIsShared, PTL
  <2>2. CASE sworkflow # workflow
    <3>1. sworkflow' = sworkflow
      BY <1>1, <2>2 DEF Refresh
    <3>. QED
      BY <1>4, <3>1, VerdictStays DEF VerdictInv
  <2>. QED
    BY <2>1, <2>2
<1>. QED
  BY <1>1, <1>2, <1>4, <1>5, ReasonStays DEF VerdictInv

\* Steps that write only the session's tasks, or nothing.
LEMMA QuietVerdicts ==
    ASSUME VerdictInv, UNCHANGED rows, UNCHANGED sworkflow, SessionFinal,
           boot'.direct => boot.direct \/ \E t \in Tasks : stask'[t].state = "FAILED"
    PROVE  VerdictInv'
<1>1. Verdicts' /\ SessionVerdicts'
  BY SameVerdicts, VerdictStays DEF VerdictInv
<1>2. Directed'
  BY DEF VerdictInv, Directed, SessionFinal, Terminal
<1>. QED
  BY <1>1, <1>2 DEF VerdictInv

\* The session directs or closes the workflow.
LEMMA DirectingVerdicts ==
    ASSUME BootInv, VerdictInv, DirectOrphan \/ _phase_8_repair_terminalization
    PROVE  VerdictInv'
<1>1. UNCHANGED rows /\ UNCHANGED stask /\ (boot'.direct => boot.direct)
  <2>1. CASE DirectOrphan
    <3>1. boot'.direct = FALSE
      BY <2>1, BootFacts DEF DirectOrphan, BootTypes, Boot
    <3>. QED
      BY <2>1, <3>1 DEF DirectOrphan, Session!commit_workflow_failure_direction
  <2>2. CASE _phase_8_repair_terminalization
    <3>1. UNCHANGED rows /\ UNCHANGED stask
      BY <2>2 DEF _phase_8_repair_terminalization, CloseDrained, DirectFailed, CloseSucceeded,
                  Session!commit_workflow_failure, Session!commit_workflow_cancellation,
                  Session!commit_workflow_failure_direction, Session!commit_workflow_success,
                  srows
    <3>2. PICK i \in boot.todo : boot' = Drop(i) \/ boot' = [Drop(i) EXCEPT !.mutated = TRUE]
      BY <2>2 DEF _phase_8_repair_terminalization
    <3>3. PICK d \in Boot : d = Drop(i)
      BY DropFacts
    <3>4. boot'.direct = d.direct
      BY <3>2, <3>3 DEF Boot
    <3>. QED
      BY <3>1, <3>3, <3>4, DropFacts
  <2>. QED
    BY <2>1, <2>2
<1>2. \/ UNCHANGED sworkflow
      \/ /\ sworkflow'.state = "FAILING"
         /\ \E t \in Tasks : stask[t].state = "FAILED"
      \/ /\ sworkflow'.state = "SUCCEEDED"
         /\ \A t \in Tasks : stask[t].state = "SUCCEEDED"
      \/ /\ sworkflow.state = "FAILING" /\ sworkflow'.state = "FAILED"
         /\ \A t \in Tasks : stask[t].state \in Terminal
      \/ /\ sworkflow'.state = "CANCELLED"
         /\ \A t \in Tasks : stask[t].state \in Terminal
  <2>1. \A s : Session!WorkflowTo(s).state = s
    BY DEF Session!WorkflowTo
  <2>2. CASE DirectOrphan
    BY <2>1, <2>2 DEF DirectOrphan, Session!commit_workflow_failure_direction,
                      VerdictInv, Directed
  <2>3. CASE CloseDrained
    BY <2>1, <2>3 DEF CloseDrained, Session!commit_workflow_failure,
                      Session!commit_workflow_cancellation, Session!AllTasks,
                      Session!Terminal, Terminal
  <2>4. CASE DirectFailed
    BY <2>1, <2>4 DEF DirectFailed, Session!commit_workflow_failure_direction
  <2>5. CASE CloseSucceeded
    BY <2>1, <2>5 DEF CloseSucceeded, Session!commit_workflow_success, Session!AllTasks
  <2>. QED
    BY <2>2, <2>3, <2>4, <2>5 DEF _phase_8_repair_terminalization, srows
<1>3. SessionVerdicts'
  BY <1>1, <1>2 DEF VerdictInv, SessionVerdicts, Terminal
<1>4. Directed' /\ Verdicts'
  BY <1>1, SameVerdicts DEF VerdictInv, Directed
<1>. QED
  BY <1>3, <1>4 DEF VerdictInv

\* What the session commits is its own verdict.
LEMMA CommittingVerdicts ==
    ASSUME BootInv, VerdictInv, SessionCommit, UNCHANGED sworkflow,
           \A t \in Tasks : stask'[t] = task'[t] => Committed(t),
           boot'.direct => boot.direct
    PROVE  VerdictInv'
<1>1. workflow' = sworkflow' /\ task' = stask'
  BY DEF SessionCommit
<1>2. SessionFinal
  BY <1>1 DEF Committed, SessionFinal, Terminal
<1>3. SessionVerdicts'
  BY <1>2, VerdictStays DEF VerdictInv
<1>4. Verdicts'
  BY <1>1, <1>3 DEF Verdicts, SessionVerdicts
<1>. QED
  BY <1>2, <1>3, <1>4, ReasonStays DEF VerdictInv

\* Every step keeps the verdict in line with the tasks, in the session too.
LEMMA VerdictsKeep == BootInv /\ VerdictInv /\ [RecoveryNext]_rvars => VerdictInv'
<1>. SUFFICES ASSUME BootInv, VerdictInv, [RecoveryNext]_rvars PROVE VerdictInv'
  OBVIOUS
<1>1. CASE \/ UNCHANGED rvars \/ PhaseRead \/ PhaseDone \/ OpenGate
           \/ _phase_2_resume_draining \/ _phase_6_rediscover_runnable
           \/ _phase_7_repair_pending_readiness
  <2>1. UNCHANGED rows /\ UNCHANGED <<sworkflow, stask>>
    BY <1>1 DEF rvars, bootVars, vars, rows, srows, PhaseRead, PhaseDone, OpenGate,
                _phase_2_resume_draining, _phase_6_rediscover_runnable,
                _phase_7_repair_pending_readiness
  <2>2. boot'.direct = boot.direct
    <3>1. boot \in Boot
      BY BootFacts DEF BootTypes
    <3>2. CASE UNCHANGED rvars
      BY <3>2 DEF rvars, bootVars
    <3>3. CASE PhaseRead \/ PhaseDone \/ OpenGate
      <4>1. \/ \E b : boot' = [boot EXCEPT !.read = TRUE, !.todo = b]
            \/ \E p : boot' = [boot EXCEPT !.phase = p, !.read = FALSE]
            \/ boot' = [boot EXCEPT !.phase = "serving"]
        BY <3>3 DEF PhaseRead, PhaseDone, OpenGate
      <4>. QED
        BY <3>1, <4>1 DEF Boot
    <3>4. CASE \/ _phase_2_resume_draining \/ _phase_6_rediscover_runnable
               \/ _phase_7_repair_pending_readiness
      <4>1. (\E i \in boot.todo : boot' = Drop(i)) \/ boot' = [boot EXCEPT !.todo = {}]
        BY <3>4 DEF _phase_2_resume_draining, _phase_6_rediscover_runnable,
                    _phase_7_repair_pending_readiness
      <4>. QED
        BY <3>1, <4>1 DEF Drop, Boot
    <3>. QED
      BY <1>1, <3>2, <3>3, <3>4
  <2>3. SessionFinal
    BY <2>1 DEF SessionFinal
  <2>. QED
    BY <2>1, <2>2, <2>3, QuietVerdicts
<1>2. CASE Crash
  <2>1. Overlay'
    BY <1>2, CrashKeeps DEF StepOK, BootInv
  <2>2. Verdicts'
    BY <1>2, SameVerdicts DEF Crash, VerdictInv
  <2>3. Undirected' /\ ~boot'.direct
    BY <1>2 DEF Crash, Undirected, rows, FirstPass
  <2>4. SessionVerdicts'
    BY <2>1, <2>2, <2>3, VerdictIsShared, PTL
  <2>. QED
    BY <2>2, <2>3, <2>4 DEF VerdictInv, Directed
<1>3. CASE Serving(NextDeployed) \/ Scheduler \/ (BootClock /\ Clock /\ Refresh)
  BY <1>3, ApplicationSteps, ApplicationVerdicts
<1>4. ASSUME NEW t \in Tasks, SessionClock(t) PROVE VerdictInv'
  <2>1. SessionFinal
    BY <1>4, SessionClockFacts DEF SessionFinal
  <2>2. UNCHANGED rows /\ UNCHANGED sworkflow /\ UNCHANGED boot
    BY <1>4, SessionClockFacts DEF SessionClock
  <2>. QED
    BY <2>1, <2>2, QuietVerdicts
<1>5. ASSUME NEW p \in {"settle_claimed", "settle_running"}, SettleOrphan(p) PROVE VerdictInv'
  <2>1. PICK i \in boot.todo, j \in Item, running \in BOOLEAN : SettlesOrphan(i, j, running)
    BY <1>5, OrphanFacts
  <2>2. UNCHANGED rows /\ j.task \in Tasks
    BY <1>5, OrphanFacts DEF Item
  <2>3. /\ UNCHANGED sworkflow
        /\ \A t \in Tasks : stask[t].state \in Terminal => stask'[t] = stask[t]
        /\ Session!FailsTask(j, running) => stask'[j.task].state = "FAILED"
    BY <2>1, <2>2, BootFacts, SessionSettles DEF SettlesOrphan
  <2>4. SessionFinal
    BY <2>3 DEF SessionFinal
  <2>5. boot'.direct => \E t \in Tasks : stask'[t].state = "FAILED"
    BY <2>1, <2>2, <2>3 DEF SettlesOrphan
  <2>. QED
    BY <2>2, <2>3, <2>4, <2>5, QuietVerdicts
<1>6. CASE DirectOrphan \/ _phase_8_repair_terminalization
  BY <1>6, DirectingVerdicts
<1>7. CASE _phase_5_promote_retry_wait
  BY <1>7, PromotionFacts, CommittingVerdicts, QuietVerdicts DEF SessionFinal
<1>8. CASE EndPass
  <2>1. SessionCommit /\ UNCHANGED <<sworkflow, stask>>
    BY <1>8 DEF EndPass, srows
  <2>2. \A t \in Tasks : stask'[t] = task'[t] => Committed(t)
    BY <2>1 DEF Committed
  <2>3. boot'.direct = FALSE
    BY <1>8, EndPassFacts
  <2>. QED
    BY <2>1, <2>2, <2>3, CommittingVerdicts
<1>. QED
  BY <1>1, <1>2, <1>3, <1>4, <1>5, <1>6, <1>7, <1>8, ClockKinds
     DEF RecoveryNext, Recover, _phase_3_settle_claimed_attempts,
         _phase_4_settle_running_attempts

(***************************************************************************)
(* The verdict matches the tasks across crashes, although recovery decides *)
(* it on rows of its own session: a workflow that fails has a failed task, *)
(* and a closed one has no task and no attempt left to run.                *)
(***************************************************************************)
THEOREM VerdictSurvives == RecoverySpec => []VerdictMatchesTasks
<1>1. RecoveryInit => VerdictInv
  <2>. SUFFICES ASSUME RecoveryInit PROVE VerdictInv
    OBVIOUS
  <2>1. BootInv /\ Undirected
    BY RecoveryStarts DEF RecoveryInit, Undirected
  <2>2. Verdicts
    BY DEF RecoveryInit, Init, StoreInit, Verdicts, Terminal
  <2>3. SessionVerdicts
    BY <2>1, <2>2, VerdictIsShared DEF BootInv
  <2>4. boot.direct = FALSE
    BY DEF RecoveryInit, FirstPass
  <2>. QED
    BY <2>2, <2>3, <2>4 DEF VerdictInv, Directed
<1>2. BootInv /\ VerdictInv => VerdictMatchesTasks
  BY VerdictParts DEF BootInv, Durable, KInv, VerdictInv
<1>. QED
  BY <1>1, <1>2, VerdictsKeep, RecoveryInvariance, PTL DEF RecoverySpec

-----------------------------------------------------------------------------
(***************************************************************************)
(* The orphans.  Until the gate opens no worker is registered, so nothing  *)
(* is claimed or started, and what phases 3 and 4 selected is still what   *)
(* there is to settle, whatever the scheduler calls do in between.         *)
(***************************************************************************)
\* Where the scheduler calls of recovery can be.
CallPoints == {"idle", "advance", "succeed", "promote", "promote_commit", "dispatch",
               "drain", "cancel", "notify", "expire"}

Alone ==
    boot.phase # "serving" => /\ \A s \in Sessions : worker[s] = "unknown"
                              /\ \A h \in Handlers : proc[h].pc \in CallPoints

\* The item that OwnedAttempts makes of an attempt.
Orphan(t, o) ==
    [op |-> "WORKER_LOSS", task |-> t, ordinal |-> o, trev |-> 0,
     arev |-> sattempt[t][o].revision, who |-> sattempt[t][o].worker_session_id]

Listed(phase, state) ==
    boot.phase = phase /\ boot.read =>
        \A t \in Tasks, o \in Ordinals :
            sattempt[t][o].state = state => Orphan(t, o) \in boot.todo

NoneLeft(state) == \A t \in Tasks, o \in Ordinals : sattempt[t][o].state # state

PastRunning == {"promote_retry_wait", "rediscover_runnable", "repair_pending_readiness",
                "repair_terminalization", "end_pass", "recovered"}

PastClaimed == PastRunning \cup {"settle_running"}

Orphans ==
    /\ Listed("settle_claimed", "CLAIMED")
    /\ Listed("settle_running", "RUNNING")
    /\ boot.phase \in PastClaimed => NoneLeft("CLAIMED")
    /\ boot.phase \in PastRunning => NoneLeft("RUNNING")

OrphanInv == Alone /\ Orphans

\* No attempt becomes active, or changes while it is.
Kept ==
    \A t \in Tasks, o \in Ordinals :
        sattempt'[t][o].state \in Active =>
            /\ sattempt'[t][o].state = sattempt[t][o].state
            /\ sattempt'[t][o].revision = sattempt[t][o].revision
            /\ sattempt'[t][o].worker_session_id = sattempt[t][o].worker_session_id

\* As long as recovery stays where it is, so do its orphans.
LEMMA OrphansStay ==
    ASSUME Orphans, Kept, UNCHANGED <<boot.phase, boot.read, boot.todo>>
    PROVE  Orphans'
<1>1. ASSUME NEW t \in Tasks, NEW o \in Ordinals, sattempt'[t][o].state \in Active
      PROVE  sattempt[t][o].state = sattempt'[t][o].state /\ Orphan(t, o)' = Orphan(t, o)
  BY <1>1 DEF Kept, Orphan
<1>2. "CLAIMED" \in Active /\ "RUNNING" \in Active
  BY DEF Active
<1>. QED
  BY <1>1, <1>2 DEF Orphans, Listed, NoneLeft

\* In the other phases there is nothing to list.
LEMMA PhaseOrphans ==
    ASSUME Orphans, UNCHANGED sattempt,
           boot'.phase \notin {"settle_claimed", "settle_running"},
           boot'.phase \in PastRunning => boot.phase \in PastRunning
    PROVE  Orphans'
<1>1. boot'.phase \in PastClaimed => boot.phase \in PastRunning
  BY DEF PastClaimed
<1>2. PastRunning \subseteq PastClaimed
  BY DEF PastClaimed
<1>. QED
  BY <1>1, <1>2 DEF Orphans, Listed, NoneLeft

-----------------------------------------------------------------------------
\* A handler that goes on at one of the points.
LEMMA PointMoves ==
    ASSUME BootInv, NEW h \in Handlers, NEW pc \in CallPoints,
           \A g \in Handlers : proc[g].pc \in CallPoints,
           \/ Goto(h, pc)
           \/ \E i : DoneWith(h, i, pc)
           \/ \E i, j : Hold(h, i, j, pc)
           \/ \E todo : Become(h, [Idle EXCEPT !.pc = pc, !.todo = todo])
           \/ \E todo, e : Become(h, [Idle EXCEPT !.pc = pc, !.todo = todo, !.elapsed = e])
           \/ \E n : Become(h, [Idle EXCEPT !.pc = pc, !.wrev = n])
    PROVE  \A g \in Handlers : proc'[g].pc \in CallPoints
<1>1. proc \in [Handlers -> Proc] /\ proc[h] \in Proc
  BY BootFacts
<1>2. PICK p : proc' = [proc EXCEPT ![h] = p] /\ p.pc = pc
  <2>1. \A p : Become(h, p) => proc' = [proc EXCEPT ![h] = p]
    BY DEF Become
  <2>2. [Idle EXCEPT !.pc = pc].pc = pc
    BY DEF Idle
  <2>3. CASE Goto(h, pc)
    BY <2>1, <2>2, <2>3 DEF Goto
  <2>4. ASSUME NEW i, DoneWith(h, i, pc)
        PROVE  \E p : proc' = [proc EXCEPT ![h] = p] /\ p.pc = pc
    <3>1. PICK p : p = [proc[h] EXCEPT !.pc = pc, !.todo = @ \ {i}, !.item = NoItem]
      OBVIOUS
    <3>2. p.pc = pc
      BY <1>1, <3>1 DEF Proc
    <3>3. Become(h, p)
      BY <2>4, <3>1 DEF DoneWith
    <3>. QED
      BY <2>1, <3>2, <3>3
  <2>5. ASSUME NEW i, NEW j, Hold(h, i, j, pc)
        PROVE  \E p : proc' = [proc EXCEPT ![h] = p] /\ p.pc = pc
    <3>1. PICK p : p = [proc[h] EXCEPT !.pc = pc, !.todo = @ \ {i}, !.item = j]
      OBVIOUS
    <3>2. p.pc = pc
      BY <1>1, <3>1 DEF Proc
    <3>3. Become(h, p)
      BY <2>5, <3>1 DEF Hold
    <3>. QED
      BY <2>1, <3>2, <3>3
  <2>6. ASSUME NEW todo, Become(h, [Idle EXCEPT !.pc = pc, !.todo = todo])
        PROVE  \E p : proc' = [proc EXCEPT ![h] = p] /\ p.pc = pc
    <3>1. PICK p : p = [Idle EXCEPT !.pc = pc, !.todo = todo]
      OBVIOUS
    <3>2. p.pc = pc
      BY <3>1 DEF Idle
    <3>3. Become(h, p)
      BY <2>6, <3>1
    <3>. QED
      BY <2>1, <3>2, <3>3
  <2>7. ASSUME NEW todo, NEW e, Become(h, [Idle EXCEPT !.pc = pc, !.todo = todo, !.elapsed = e])
        PROVE  \E p : proc' = [proc EXCEPT ![h] = p] /\ p.pc = pc
    <3>1. PICK p : p = [Idle EXCEPT !.pc = pc, !.todo = todo, !.elapsed = e]
      OBVIOUS
    <3>2. p.pc = pc
      BY <3>1 DEF Idle
    <3>3. Become(h, p)
      BY <2>7, <3>1
    <3>. QED
      BY <2>1, <3>2, <3>3
  <2>8. ASSUME NEW n, Become(h, [Idle EXCEPT !.pc = pc, !.wrev = n])
        PROVE  \E p : proc' = [proc EXCEPT ![h] = p] /\ p.pc = pc
    <3>1. PICK p : p = [Idle EXCEPT !.pc = pc, !.wrev = n]
      OBVIOUS
    <3>2. p.pc = pc
      BY <3>1 DEF Idle
    <3>3. Become(h, p)
      BY <2>8, <3>1
    <3>. QED
      BY <2>1, <3>2, <3>3
  <2>. QED
    BY <2>3, <2>4, <2>5, <2>6, <2>7, <2>8, Zenon
<1>. QED
  BY <1>1, <1>2

\* No scheduler call claims or starts an attempt while nobody is registered.
LEMMA CallsAlone ==
    ASSUME BootInv, Alone, boot.phase # "serving", NEW h \in Handlers, Continue(h)
    PROVE  /\ UNCHANGED worker
           /\ \A g \in Handlers : proc'[g].pc \in CallPoints
           /\ \A t \in Tasks, o \in Ordinals :
                attempt'[t][o].state \in Active =>
                  /\ attempt'[t][o].state = attempt[t][o].state
                  /\ attempt'[t][o].revision = attempt[t][o].revision
                  /\ attempt'[t][o].worker_session_id = attempt[t][o].worker_session_id
<1>1. /\ \A s \in Sessions : worker[s] = "unknown"
      /\ \A g \in Handlers : proc[g].pc \in CallPoints
      /\ IInv
  BY DEF Alone, BootInv, Durable, KInv
<1>2. ~(\/ ClaimCommit(h) \/ StartCommit(h) \/ SuccessCommit(h) \/ RetryCheck(h)
        \/ RetryCommit(h) \/ FailureCommit(h) \/ CancelAckCommit(h))
  BY <1>1 DEF ClaimCommit, StartCommit, SuccessCommit, RetryCheck, RetryCommit,
              FailureCommit, CancelAckCommit, At, CallPoints
<1>3. CASE AdvanceRead(h)
  <2>1. UNCHANGED worker /\ UNCHANGED attempt
    BY <1>3 DEF AdvanceRead, rows
  <2>2. \/ \E pc \in {"drain", "idle"} : Goto(h, pc)
        \/ \E n : Become(h, [Idle EXCEPT !.pc = "succeed", !.wrev = n])
        \/ \E todo : Become(h, [Idle EXCEPT !.pc = "promote", !.todo = todo])
    BY <1>3, Zenon DEF AdvanceRead
  <2>3. \A g \in Handlers : proc'[g].pc \in CallPoints
    BY <1>1, <2>2, PointMoves DEF CallPoints
  <2>. QED
    BY <2>1, <2>3
<1>4. CASE SucceedCommit(h) \/ DispatchDone(h) \/ DrainSettle(h)
  <2>1. UNCHANGED worker /\ UNCHANGED attempt /\ Goto(h, "idle")
    BY <1>4 DEF SucceedCommit, DispatchDone, DrainSettle, commit_workflow_success,
                commit_workflow_failure, commit_workflow_cancellation, rows
  <2>2. \A g \in Handlers : proc'[g].pc \in CallPoints
    BY <1>1, <2>1, PointMoves DEF CallPoints
  <2>. QED
    BY <2>1, <2>2
<1>5. CASE PromoteCheck(h) \/ PromoteCommit(h) \/ DispatchRead(h)
  <2>1. UNCHANGED worker /\ UNCHANGED attempt
    BY <1>5 DEF PromoteCheck, PromoteCommit, DispatchRead, commit_retry_ready,
                commit_task_readiness, rows
  <2>2. \/ \E i, j : Hold(h, i, j, "promote_commit")
        \/ \E i : DoneWith(h, i, "promote")
        \/ \E todo : Become(h, [Idle EXCEPT !.pc = "dispatch", !.todo = todo])
    BY <1>5 DEF PromoteCheck, PromoteCommit, DispatchRead
  <2>3. \A g \in Handlers : proc'[g].pc \in CallPoints
    BY <1>1, <2>2, PointMoves DEF CallPoints
  <2>. QED
    BY <2>1, <2>3
<1>6. CASE DispatchCheck(h)
  <2>1. UNCHANGED worker /\ UNCHANGED attempt
    BY <1>6 DEF DispatchCheck, rows
  <2>2. \E i : DoneWith(h, i, "dispatch")
    BY <1>1, <1>6 DEF DispatchCheck
  <2>3. \A g \in Handlers : proc'[g].pc \in CallPoints
    BY <1>1, <2>2, PointMoves DEF CallPoints
  <2>. QED
    BY <2>1, <2>3
<1>7. CASE DrainRead(h) \/ DrainCancel(h) \/ DrainNotifyRead(h) \/ DrainExpireRead(h)
  <2>1. UNCHANGED worker /\ UNCHANGED attempt
    BY <1>7 DEF DrainRead, DrainCancel, DrainNotifyRead, DrainExpireRead,
                commit_drain_task_cancellation, rows
  <2>2. \/ Goto(h, "idle")
        \/ \E todo, e : Become(h, [Idle EXCEPT !.pc = "cancel", !.todo = todo, !.elapsed = e])
        \/ \E todo : Become(h, [Idle EXCEPT !.pc = "notify", !.todo = todo])
        \/ \E i, j : Hold(h, i, j, "expire")
        \/ \E pc \in {"cancel", "notify"} : \E i : DoneWith(h, i, pc)
    BY <1>7, Zenon DEF DrainRead, DrainCancel, DrainNotifyRead, DrainExpireRead
  <2>3. \A g \in Handlers : proc'[g].pc \in CallPoints
    BY <1>1, <2>2, PointMoves DEF CallPoints
  <2>. QED
    BY <2>1, <2>3
<1>8. CASE DrainMark(h)
  <2>1. UNCHANGED worker /\ \E i : DoneWith(h, i, "notify")
    BY <1>8 DEF DrainMark
  <2>2. AttemptTimerMove
    BY <1>1, <1>8, AttemptTimersMove
  <2>3. \A g \in Handlers : proc'[g].pc \in CallPoints
    BY <1>1, <2>1, PointMoves DEF CallPoints
  <2>. QED
    BY <2>1, <2>2, <2>3 DEF AttemptTimerMove
<1>9. CASE DrainExpireCommit(h)
  <2>1. PICK i \in Item : i = proc[h].item /\ Fresh(i)
    BY <1>1, <1>9, HeldItem, Points DEF DrainExpireCommit, At, Settling
  <2>2. UNCHANGED worker /\ DoneWith(h, i, "notify")
    BY <1>9, <2>1 DEF DrainExpireCommit
  <2>3. attempt' = attempt \/ attempt' = AttemptTo(i, "CANCELLED")
    BY <1>9, <2>1 DEF DrainExpireCommit, commit_internal_cancellation_deadline
  <2>4. i.ordinal \in Ordinals /\ "CANCELLED" \in AttemptStates /\ "CANCELLED" \notin Active
    BY <2>1 DEF Fresh, Allocated, AttemptStates, Terminal, Active
  <2>5. \A t \in Tasks, o \in Ordinals :
          attempt'[t][o] = attempt[t][o] \/ attempt'[t][o].state \notin Active
    BY <2>3, <2>4, BootFacts, AttemptToFacts
  <2>6. \A g \in Handlers : proc'[g].pc \in CallPoints
    BY <1>1, <2>2, PointMoves DEF CallPoints
  <2>. QED
    BY <2>2, <2>5, <2>6
<1>. QED
  BY <1>2, <1>3, <1>4, <1>5, <1>6, <1>7, <1>8, <1>9 DEF Continue

\* Steps of the scheduler and of the clock, before the gate opens.
LEMMA SchedulerOrphans ==
    ASSUME BootInv, OrphanInv, Scheduler \/ (BootClock /\ Clock /\ Refresh)
    PROVE  OrphanInv'
<1>1. boot.phase # "serving" /\ Refresh /\ boot' = boot
  BY DEF Scheduler, BootClock
<1>2. /\ UNCHANGED worker
      /\ \A g \in Handlers : proc'[g].pc \in CallPoints
      /\ \A t \in Tasks, o \in Ordinals :
           attempt'[t][o].state \in Active =>
             /\ attempt'[t][o].state = attempt[t][o].state
             /\ attempt'[t][o].revision = attempt[t][o].revision
             /\ attempt'[t][o].worker_session_id = attempt[t][o].worker_session_id
  <2>1. CASE Scheduler
    BY <1>1, <2>1, CallsAlone DEF Scheduler, OrphanInv
  <2>2. CASE Clock
    <3>1. UNCHANGED <<worker, proc>>
      BY <2>2 DEF Clock, RetryFallsDue, StartDeadlinePasses, CancellationDeadlinePasses
    <3>2. UNCHANGED attempt \/ AttemptTimerMove
      <4>1. IInv
        BY DEF BootInv, Durable, KInv
      <4>. QED
        BY <2>2, <4>1, AttemptTimersMove DEF Clock, RetryFallsDue
    <3>. QED
      BY <1>1, <3>1, <3>2 DEF AttemptTimerMove, OrphanInv, Alone
  <2>. QED
    BY <2>1, <2>2
<1>3. Alone'
  BY <1>1, <1>2 DEF OrphanInv, Alone
<1>4. Kept
  <2>. SUFFICES ASSUME NEW t \in Tasks, NEW o \in Ordinals, sattempt'[t][o].state \in Active
                PROVE  /\ sattempt'[t][o].state = sattempt[t][o].state
                       /\ sattempt'[t][o].revision = sattempt[t][o].revision
                       /\ sattempt'[t][o].worker_session_id = sattempt[t][o].worker_session_id
    BY DEF Kept
  <2>1. \/ sattempt'[t][o] = sattempt[t][o]
        \/ sattempt[t][o] = attempt[t][o] /\ sattempt'[t][o] = attempt'[t][o]
    BY <1>1 DEF Refresh
  <2>. QED
    BY <1>2, <2>1
<1>. QED
  BY <1>1, <1>3, <1>4, OrphansStay DEF OrphanInv

\* The selection of phases 3 and 4 is complete: a task has one active
\* attempt, so the orphans fit into a batch if the tasks do.
LEMMA SelectsAll ==
    ASSUME BootInv, Cardinality(Tasks) <= BatchSize, NEW state \in Active,
           NEW b \in Batches(OwnedAttempts(state))
    PROVE  b = OwnedAttempts(state)
<1>. DEFINE S == {t \in Tasks : \E o \in Ordinals : sattempt[t][o].state = state}
            T == OwnedAttempts(state)
            f == [t \in S |-> Orphan(t, LastOrdinal(t))]
<1>1. IsFiniteSet(Tasks) /\ IsFiniteSet(S) /\ Cardinality(S) <= Cardinality(Tasks)
  BY StoreAssumption, FS_Subset DEF StoreAssumption
<1>2. ASSUME NEW t \in Tasks, NEW o \in Ordinals, sattempt[t][o].state = state
      PROVE  t \in S /\ o = LastOrdinal(t)
  BY <1>2, BootFacts, ActiveIsSame
<1>3. ASSUME NEW t \in S
      PROVE  LastOrdinal(t) \in Ordinals /\ sattempt[t][LastOrdinal(t)].state = state
  BY <1>3, <1>2
<1>4. T = {Orphan(e[1], e[2]) : e \in {g \in Tasks \X Ordinals : sattempt[g[1]][g[2]].state = state}}
  BY DEF OwnedAttempts, Orphan
<1>5. f \in [S -> T]
  <2>1. ASSUME NEW t \in S PROVE Orphan(t, LastOrdinal(t)) \in T
    <3>1. <<t, LastOrdinal(t)>> \in {g \in Tasks \X Ordinals : sattempt[g[1]][g[2]].state = state}
      BY <1>3
    <3>. QED
      BY <1>4, <3>1
  <2>. QED
    BY <2>1
<1>6. \A i \in T : \E t \in S : f[t] = i
  <2>. SUFFICES ASSUME NEW i \in T PROVE \E t \in S : f[t] = i
    OBVIOUS
  <2>1. PICK t \in Tasks, o \in Ordinals : sattempt[t][o].state = state /\ i = Orphan(t, o)
    BY <1>4
  <2>. QED
    BY <1>2, <2>1
<1>7. f \in Surjection(S, T)
  BY <1>5, <1>6 DEF Surjection
<1>. HIDE DEF f, S, T
<1>8. IsFiniteSet(T) /\ Cardinality(T) <= Cardinality(S)
  BY <1>1, <1>7, FS_Surjection
<1>9. Cardinality(T) <= BatchSize
  <2>1. Cardinality(T) \in Nat /\ Cardinality(S) \in Nat /\ Cardinality(Tasks) \in Nat
    BY <1>1, <1>8, FS_CardinalityType
  <2>. QED
    BY <1>1, <1>8, <2>1, RecoveryAssumption DEF RecoveryAssumption
<1>10. b \in SUBSET T /\ (b = T \/ Cardinality(b) = BatchSize)
  BY DEF Batches, T
<1>11. CASE Cardinality(b) = BatchSize
  <2>1. Cardinality(b) <= Cardinality(T) /\ (Cardinality(T) = Cardinality(b) => T = b)
    BY <1>8, <1>10, FS_Subset
  <2>2. Cardinality(T) \in Nat
    BY <1>8, FS_CardinalityType
  <2>. QED
    BY <1>9, <1>11, <2>1, <2>2, RecoveryAssumption DEF RecoveryAssumption, T
<1>. QED
  BY <1>10, <1>11 DEF T

\* Steps that start or end a phase.
LEMMA PhaseOrphansKeep ==
    ASSUME BootInv, OrphanInv, Cardinality(Tasks) <= BatchSize,
           PhaseRead \/ PhaseDone \/ OpenGate
    PROVE  OrphanInv'
<1>1. UNCHANGED <<worker, proc>> /\ UNCHANGED sattempt
  BY DEF PhaseRead, PhaseDone, OpenGate, vars, srows
<1>2. boot \in Boot
  BY BootFacts DEF BootTypes
<1>3. ASSUME NEW p \in Phases, boot.phase = p, NEW b \in Batches(Found(p)),
             boot' = [boot EXCEPT !.read = TRUE, !.todo = b]
      PROVE  OrphanInv'
  <2>1. boot'.phase = p /\ boot'.read = TRUE /\ boot'.todo = b
    BY <1>2, <1>3 DEF Boot
  <2>2. Alone'
    BY <1>1, <1>3, <2>1 DEF OrphanInv, Alone
  <2>3. CASE p \notin {"settle_claimed", "settle_running"}
    BY <1>1, <1>3, <2>1, <2>2, <2>3, PhaseOrphans DEF OrphanInv
  <2>4. CASE p \in {"settle_claimed", "settle_running"}
    <3>1. PICK state \in Active : /\ Found(p) = OwnedAttempts(state)
                                  /\ p = "settle_claimed" => state = "CLAIMED"
                                  /\ p = "settle_running" => state = "RUNNING"
      <4>1. p = "settle_claimed" => Found(p) = OwnedAttempts("CLAIMED")
        BY Zenon DEF Found
      <4>2. p = "settle_running" => Found(p) = OwnedAttempts("RUNNING")
        BY Zenon DEF Found
      <4>. QED
        BY <2>4, <4>1, <4>2 DEF Active
    <3>2. b = OwnedAttempts(state)
      BY <1>3, <3>1, SelectsAll
    <3>3. ASSUME NEW t \in Tasks, NEW o \in Ordinals, sattempt[t][o].state = state
          PROVE  Orphan(t, o)' \in b
      <4>1. <<t, o>> \in {g \in Tasks \X Ordinals : sattempt[g[1]][g[2]].state = state}
        BY <3>3
      <4>2. Orphan(t, o) \in b
        BY <3>2, <4>1 DEF OwnedAttempts, Orphan
      <4>. QED
        BY <1>1, <4>2 DEF Orphan
    <3>4. Listed("settle_claimed", "CLAIMED")' /\ Listed("settle_running", "RUNNING")'
      BY <1>1, <2>1, <3>1, <3>3 DEF Listed
    <3>. QED
      BY <1>1, <1>3, <2>1, <2>2, <3>4 DEF OrphanInv, Orphans, NoneLeft
  <2>. QED
    BY <2>3, <2>4
<1>4. ASSUME NEW p \in Phases, boot.phase = p, boot.read, boot.todo = {},
             boot' = [boot EXCEPT !.phase = Following[p], !.read = FALSE]
      PROVE  OrphanInv'
  <2>1. boot'.phase = Following[p] /\ boot'.read = FALSE
    BY <1>2, <1>4 DEF Boot
  <2>2. Alone' /\ Listed("settle_claimed", "CLAIMED")' /\ Listed("settle_running", "RUNNING")'
    BY <1>1, <1>4, <2>1 DEF OrphanInv, Alone, Phases, Listed
  <2>3. Following[p] \in PastClaimed => NoneLeft("CLAIMED")
    BY <1>4 DEF OrphanInv, Orphans, Listed, NoneLeft, Following, Phases, PastClaimed, PastRunning
  <2>4. Following[p] \in PastRunning => NoneLeft("RUNNING")
    BY <1>4 DEF OrphanInv, Orphans, Listed, NoneLeft, Following, Phases, PastRunning
  <2>. QED
    BY <1>1, <2>1, <2>2, <2>3, <2>4 DEF OrphanInv, Orphans, NoneLeft
<1>5. ASSUME boot' = [boot EXCEPT !.phase = "serving"] PROVE OrphanInv'
  <2>1. boot'.phase = "serving"
    BY <1>2, <1>5 DEF Boot
  <2>. QED
    BY <2>1 DEF OrphanInv, Alone, Orphans, Listed, PastClaimed, PastRunning
<1>. QED
  BY <1>3, <1>4, <1>5 DEF PhaseRead, PhaseDone, OpenGate, InPhase

\* Phases 3 and 4 fail the orphan they take, and no other.
LEMMA SettleOrphans ==
    ASSUME BootInv, OrphanInv, NEW p \in {"settle_claimed", "settle_running"}, SettleOrphan(p)
    PROVE  OrphanInv'
<1>1. PICK i \in boot.todo, j \in Item, running \in BOOLEAN : SettlesOrphan(i, j, running)
  BY OrphanFacts
<1>2. /\ boot.phase = p /\ boot'.phase = p /\ boot'.read = boot.read
      /\ boot'.todo = boot.todo \ {i}
      /\ UNCHANGED rows /\ UNCHANGED <<worker, proc>>
  BY <1>1, OrphanFacts DEF SettlesOrphan, vars
<1>3. /\ \A t \in Tasks, o \in Ordinals :
           \/ sattempt'[t][o] = sattempt[t][o]
           \/ sattempt'[t][o].state = "FAILED"
      /\ j.op = "WORKER_LOSS" /\ sattempt[j.task][j.ordinal].state \in Active
           /\ sattempt[j.task][j.ordinal].revision = j.arev
           /\ sattempt[j.task][j.ordinal].worker_session_id = j.who
         => sattempt'[j.task][j.ordinal].state = "FAILED"
  BY <1>1, <1>2, BootFacts, SessionSettles DEF SettlesOrphan
<1>4. ASSUME NEW t \in Tasks, NEW o \in Ordinals, sattempt'[t][o].state \in Active
      PROVE  /\ sattempt'[t][o] = sattempt[t][o]
             /\ Orphan(t, o)' = Orphan(t, o)
             /\ Orphan(t, o) # i
  <2>1. sattempt'[t][o] = sattempt[t][o]
    BY <1>3, <1>4 DEF Active
  <2>2. Orphan(t, o)' = Orphan(t, o)
    BY <2>1 DEF Orphan
  <2>3. Orphan(t, o) # i
    <3>. SUFFICES ASSUME Orphan(t, o) = i PROVE FALSE
      OBVIOUS
    <3>1. /\ i.task = t /\ i.ordinal = o /\ i.op = "WORKER_LOSS"
          /\ i.arev = sattempt[t][o].revision /\ i.who = sattempt[t][o].worker_session_id
      BY DEF Orphan
    <3>2. sattempt'[t][o].state = "FAILED"
      BY <1>1, <1>3, <1>4, <2>1, <3>1 DEF SettlesOrphan
    <3>. QED
      BY <1>4, <3>2 DEF Active
  <2>. QED
    BY <2>1, <2>2, <2>3
<1>5. "CLAIMED" \in Active /\ "RUNNING" \in Active
  BY DEF Active
<1>6. Listed("settle_claimed", "CLAIMED")' /\ Listed("settle_running", "RUNNING")'
  BY <1>2, <1>4, <1>5 DEF OrphanInv, Orphans, Listed
<1>7. /\ boot'.phase \in PastClaimed => NoneLeft("CLAIMED")'
      /\ boot'.phase \in PastRunning => NoneLeft("RUNNING")'
  BY <1>2, <1>4, <1>5 DEF OrphanInv, Orphans, NoneLeft
<1>8. Alone'
  BY <1>2 DEF OrphanInv, Alone
<1>. QED
  BY <1>6, <1>7, <1>8 DEF OrphanInv, Orphans

\* A step of recovery that calls the scheduler, or does not.
LEMMA CallStaysAlone ==
    ASSUME BootInv, Alone, boot.phase # "serving", UNCHANGED worker,
           \/ UNCHANGED proc \/ Call("advance") \/ Call("drain")
           \/ \A g \in Handlers : proc'[g].pc \in {"idle", "advance"}
    PROVE  Alone'
<1>1. \A g \in Handlers : proc[g].pc \in CallPoints
  BY DEF Alone
<1>2. ASSUME NEW pc \in {"advance", "drain"}, Call(pc)
      PROVE  \A g \in Handlers : proc'[g].pc \in CallPoints
  BY <1>1, <1>2, PointMoves DEF Call, CallPoints
<1>3. \A g \in Handlers : proc'[g].pc \in CallPoints
  BY <1>1, <1>2 DEF CallPoints
<1>. QED
  BY <1>3 DEF Alone

\* Every step keeps track of the orphans.
LEMMA OrphansKeep ==
    ASSUME Cardinality(Tasks) <= BatchSize, BootInv, OrphanInv, [RecoveryNext]_rvars
    PROVE  OrphanInv'
<1>0. Alone /\ Orphans
  BY DEF OrphanInv
<1>1. CASE UNCHANGED rvars \/ \E t \in Tasks : SessionClock(t)
  <2>1. UNCHANGED <<worker, proc>> /\ UNCHANGED boot /\ UNCHANGED sattempt
    BY <1>1 DEF rvars, vars, bootVars, SessionClock
  <2>2. Kept
    BY <2>1 DEF Kept
  <2>3. Alone'
    BY <1>0, <2>1 DEF Alone
  <2>. QED
    BY <1>0, <2>1, <2>2, <2>3, OrphansStay DEF OrphanInv
<1>2. CASE Serving(NextDeployed)
  <2>1. boot'.phase = "serving"
    BY <1>2 DEF Serving
  <2>. QED
    BY <2>1 DEF OrphanInv, Alone, Orphans, Listed, PastClaimed, PastRunning
<1>3. CASE Crash
  <2>1. boot'.phase = "resume_draining"
    BY <1>3 DEF Crash, FirstPass
  <2>2. Alone'
    <3>1. /\ \A s \in Sessions : worker'[s] = "unknown"
          /\ \A h \in Handlers : proc'[h] = Idle
      BY <1>3 DEF Crash
    <3>. QED
      BY <3>1 DEF Alone, Idle, CallPoints
  <2>. QED
    BY <2>1, <2>2 DEF OrphanInv, Orphans, Listed, PastClaimed, PastRunning
<1>4. CASE Scheduler \/ (BootClock /\ Clock /\ Refresh)
  BY <1>4, SchedulerOrphans
<1>5. CASE PhaseRead \/ PhaseDone \/ OpenGate
  BY <1>5, PhaseOrphansKeep
<1>6. ASSUME NEW p \in {"settle_claimed", "settle_running"}, SettleOrphan(p) PROVE OrphanInv'
  BY <1>6, SettleOrphans
<1>7. CASE DirectOrphan
  <2>1. UNCHANGED worker /\ UNCHANGED sattempt /\ Call("drain")
    BY <1>7 DEF DirectOrphan, Session!commit_workflow_failure_direction
  <2>2. UNCHANGED <<boot.phase, boot.read, boot.todo>>
    BY <1>7, BootFacts DEF DirectOrphan, BootTypes, Boot
  <2>3. boot.phase # "serving"
    BY <1>7, BootFacts DEF DirectOrphan, TodoOK
  <2>4. Kept
    BY <2>1 DEF Kept
  <2>. QED
    BY <1>0, <2>1, <2>2, <2>3, <2>4, OrphansStay, CallStaysAlone DEF OrphanInv
<1>8. CASE \/ _phase_2_resume_draining \/ _phase_6_rediscover_runnable
           \/ _phase_7_repair_pending_readiness
  <2>1. /\ UNCHANGED worker /\ UNCHANGED sattempt
        /\ Call("advance") \/ Call("drain")
        /\ boot.phase \in {"resume_draining", "rediscover_runnable",
                           "repair_pending_readiness"}
    BY <1>8 DEF _phase_2_resume_draining, _phase_6_rediscover_runnable,
                _phase_7_repair_pending_readiness, InPhase, srows
  <2>2. boot'.phase = boot.phase
    <3>1. (\E i \in boot.todo : boot' = Drop(i)) \/ boot' = [boot EXCEPT !.todo = {}]
      BY <1>8 DEF _phase_2_resume_draining, _phase_6_rediscover_runnable,
                  _phase_7_repair_pending_readiness
    <3>2. boot \in Boot
      BY BootFacts DEF BootTypes
    <3>. QED
      BY <3>1, <3>2 DEF Drop, Boot
  <2>3. Orphans'
    BY <1>0, <2>1, <2>2, PhaseOrphans
  <2>. QED
    BY <1>0, <2>1, <2>3, CallStaysAlone DEF OrphanInv
<1>9. CASE _phase_5_promote_retry_wait
  <2>1. /\ boot.phase = "promote_retry_wait" /\ boot'.phase = boot.phase
        /\ UNCHANGED worker /\ UNCHANGED sattempt
        /\ \/ \A g \in Handlers : proc'[g].pc \in {"idle", "advance"}
           \/ UNCHANGED proc
    BY <1>9, PromotionFacts
  <2>2. Orphans'
    BY <1>0, <2>1, PhaseOrphans
  <2>. QED
    BY <1>0, <2>1, <2>2, CallStaysAlone DEF OrphanInv
<1>10. CASE _phase_8_repair_terminalization
  <2>1. /\ boot.phase = "repair_terminalization" /\ UNCHANGED worker /\ UNCHANGED sattempt
        /\ UNCHANGED proc \/ Call("drain")
    BY <1>10 DEF _phase_8_repair_terminalization, InPhase, CloseDrained, DirectFailed,
                 CloseSucceeded, Session!commit_workflow_failure,
                 Session!commit_workflow_cancellation,
                 Session!commit_workflow_failure_direction, Session!commit_workflow_success,
                 srows
  <2>2. boot'.phase = boot.phase
    <3>1. PICK i \in boot.todo : boot' = Drop(i) \/ boot' = [Drop(i) EXCEPT !.mutated = TRUE]
      BY <1>10 DEF _phase_8_repair_terminalization
    <3>2. PICK d \in Boot : d = Drop(i)
      BY DropFacts
    <3>3. boot'.phase = d.phase
      BY <3>1, <3>2 DEF Boot
    <3>. QED
      BY <3>2, <3>3, DropFacts
  <2>3. Orphans'
    BY <1>0, <2>1, <2>2, PhaseOrphans
  <2>. QED
    BY <1>0, <2>1, <2>3, CallStaysAlone DEF OrphanInv
<1>11. CASE EndPass
  <2>1. /\ boot.phase = "end_pass" /\ UNCHANGED <<worker, proc>> /\ UNCHANGED sattempt
        /\ boot'.phase \in {"resume_draining", "recovered"}
    BY <1>11, EndPassFacts DEF EndPass, InPhase, srows
  <2>2. Orphans'
    BY <1>0, <2>1, PhaseOrphans DEF PastRunning
  <2>. QED
    BY <1>0, <2>1, <2>2, CallStaysAlone DEF OrphanInv
<1>. QED
  BY <1>1, <1>2, <1>3, <1>4, <1>5, <1>6, <1>7, <1>8, <1>9, <1>10, <1>11, ClockKinds
     DEF RecoveryNext, Recover, _phase_3_settle_claimed_attempts,
         _phase_4_settle_running_attempts

\* Before the first crash there is nothing to track.
LEMMA OrphansStart == RecoveryInit => OrphanInv
<1>. SUFFICES ASSUME RecoveryInit PROVE OrphanInv
  OBVIOUS
<1>1. boot.phase = "serving"
  BY DEF RecoveryInit, FirstPass
<1>. QED
  BY <1>1 DEF OrphanInv, Alone, Orphans, Listed, PastClaimed, PastRunning

(***************************************************************************)
(* When recovery is complete no attempt is CLAIMED or RUNNING, wherever    *)
(* the crash was and however often it crashes again: provided that the     *)
(* workflow has no more tasks than a scan takes rows.  Each scan takes the *)
(* oldest batch_size rows and there is one per pass, so more would wait    *)
(* for the next pass, and there might be none.                             *)
(***************************************************************************)
THEOREM OrphansReconciled ==
    ASSUME Cardinality(Tasks) <= BatchSize
    PROVE  RecoverySpec => []OrphansAreSettled
<1>1. BootInv /\ OrphanInv /\ [RecoveryNext]_rvars => OrphanInv'
  BY OrphansKeep
<1>2. BootInv /\ OrphanInv => OrphansAreSettled
  <2>. SUFFICES ASSUME BootInv, OrphanInv, boot.phase = "recovered", NEW t \in Tasks
                PROVE  ~HasActiveAttempt(t)
    BY DEF OrphansAreSettled
  <2>1. NoneLeft("CLAIMED") /\ NoneLeft("RUNNING")
    BY DEF OrphanInv, Orphans, PastClaimed, PastRunning
  <2>2. sattempt = attempt
    BY BootFacts DEF Quiet, srows, rows
  <2>. QED
    BY <2>1, <2>2 DEF NoneLeft, HasActiveAttempt, Active
<1>. QED
  BY <1>1, <1>2, OrphansStart, RecoveryInvariance, PTL DEF RecoverySpec

-----------------------------------------------------------------------------
(***************************************************************************)
(* What the crash interrupted.  The invariant follows a drain, a promotion *)
(* and a verdict from the scan that finds the workflow to the scheduler    *)
(* call that carries them out: whatever is still open is in the list of    *)
(* the phase or of a call in flight.                                       *)
(***************************************************************************)
\* Tasks exist as soon as their workflow does.
Populated ==
    workflow.state # "ABSENT" => \A t \in Tasks : task[t].state # "ABSENT"

\* What failed is known to the workflow, or about to be.
FailureIsKnown ==
    /\ workflow.state = "RUNNING" => \A t \in Tasks : task[t].state # "FAILED"
    /\ sworkflow.state = "RUNNING" /\ ~boot.direct =>
         \A t \in Tasks : stask[t].state # "FAILED"
    /\ sworkflow.state = "RUNNING" => sworkflow = workflow

\* Attempts of a draining workflow are not retried.
NotRevived ==
    workflow.state \in Draining =>
        \A t \in Tasks : stask[t].state \in Unstarted => task[t].state \in Unstarted

\* Only the first pass finds orphans, so only the first directs a workflow.
OrphansAtFirst ==
    boot.phase # "serving" =>
        /\ \/ boot.direct
           \/ sworkflow.state \in Draining /\ workflow.state \notin Draining
           => boot.mutated /\ boot.pass = 1
        /\ boot.pass # 1 => NoneLeft("CLAIMED") /\ NoneLeft("RUNNING")

DrainPoints == {"idle", "drain", "cancel", "notify", "expire"}

\* Handler h is going to cancel the unstarted task t.
WillCancel(h, t) ==
    \/ At(h, "drain")
    \/ At(h, "cancel") /\ TaskItem("none", t) \in proc[h].todo

Drained ==
    /\ boot.phase = "resume_draining" =>
         /\ sworkflow = workflow
         /\ \A h \in Handlers : proc[h].pc \in DrainPoints
         /\ boot.read /\ workflow.state \in Draining /\ NoItem \notin boot.todo =>
              \A t \in Tasks : task[t].state \in Unstarted =>
                  \E h \in Handlers : WillCancel(h, t)
    /\ boot.phase \notin {"serving", "resume_draining"} /\ workflow.state \in Draining =>
         \A t \in Tasks : task[t].state \notin Unstarted

\* Handler h is going to promote the ready task t.
WillPromote(h, t) ==
    \/ At(h, "advance")
    \/ At(h, "promote") /\ TaskItem("readiness", t) \in proc[h].todo
    \/ /\ At(h, "promote_commit")
       /\ TaskItem("readiness", t) \in proc[h].todo \cup {proc[h].item}

Promoted ==
    workflow.state = "RUNNING" =>
        /\ boot.phase = "repair_pending_readiness" /\ boot.read /\ boot.todo = {} =>
             \A t \in Tasks : evaluate_task_readiness(t) =>
                 \E h \in Handlers : WillPromote(h, t)
        /\ boot.phase \in {"repair_terminalization", "end_pass", "recovered"} =>
             \A t \in Tasks : ~evaluate_task_readiness(t)

\* A verdict that nothing holds back.
VerdictDue ==
    \/ sworkflow.state \in Draining /\ workflow.state \in Draining
    \/ sworkflow.state = "RUNNING" /\ \A t \in Tasks : stask[t].state = "SUCCEEDED"

Concluded ==
    /\ boot.phase = "repair_terminalization" /\ boot.read /\ VerdictDue =>
         NoItem \in boot.todo
    /\ boot.phase \in {"end_pass", "recovered"} => ~VerdictDue

Steady == Populated /\ FailureIsKnown /\ NotRevived /\ OrphansAtFirst

FinishInv == Steady /\ Drained /\ Promoted /\ Concluded

-----------------------------------------------------------------------------
\* What a scheduler call or the clock does to a task before the gate opens.
TaskMoved(t) ==
    \/ task'[t].state = task[t].state /\ task'[t].revision = task[t].revision
    \/ task'[t].state = "CANCELLED"
    \/ /\ task[t].state \in Unstarted /\ task'[t].state = "RUNNABLE"
       /\ \E h \in Handlers : At(h, "promote_commit")

WorkflowMoved ==
    \/ workflow' = workflow
    \/ workflow.state \in Draining \cup {"RUNNING"} /\ workflow'.state \in Terminal

\* The calls make nothing FAILED, SUCCEEDED or PENDING and direct no workflow.
LEMMA CallRows ==
    ASSUME BootInv, Alone, boot.phase # "serving", NEW h \in Handlers, Continue(h)
    PROVE  WorkflowMoved /\ \A t \in Tasks : TaskMoved(t)
<1>1. \A g \in Handlers : proc[g].pc \in CallPoints
  BY DEF Alone
<1>2. RowsOK /\ IInv
  BY BootFacts DEF BootInv, Durable, KInv
<1>3. ~(\/ ClaimCommit(h) \/ StartCommit(h) \/ SuccessCommit(h) \/ RetryCheck(h)
        \/ RetryCommit(h) \/ FailureCommit(h) \/ CancelAckCommit(h))
  BY <1>1 DEF ClaimCommit, StartCommit, SuccessCommit, RetryCheck, RetryCommit,
              FailureCommit, CancelAckCommit, At, CallPoints
<1>4. ASSUME NEW u \in Tasks, NEW s \in {"RUNNABLE", "CANCELLED"},
             task' = task \/ task' = TaskTo(u, s, "none"),
             s = "RUNNABLE" /\ task' # task => task[u].state \in Unstarted /\ At(h, "promote_commit")
      PROVE  \A t \in Tasks : TaskMoved(t)
  <2>1. s \in TaskStates /\ "none" \in Timers
    BY DEF TaskStates, Terminal, Unstarted, Timers
  <2>2. CASE task' = task
    BY <2>2 DEF TaskMoved
  <2>3. CASE task' # task
    BY <1>2, <1>4, <2>1, <2>3, TaskToFacts DEF TaskMoved
  <2>. QED
    BY <2>2, <2>3
<1>5. CASE \/ AdvanceRead(h) \/ PromoteCheck(h) \/ DispatchRead(h) \/ DispatchCheck(h)
           \/ DispatchDone(h) \/ DrainRead(h) \/ DrainNotifyRead(h) \/ DrainMark(h)
           \/ DrainExpireRead(h)
  <2>1. UNCHANGED <<workflow, task>>
    BY <1>5 DEF AdvanceRead, PromoteCheck, DispatchRead, DispatchCheck, DispatchDone,
                DrainRead, DrainNotifyRead, DrainMark, DrainExpireRead,
                set_cancellation_deadline, rows
  <2>. QED
    BY <2>1 DEF WorkflowMoved, TaskMoved
<1>6. CASE SucceedCommit(h) \/ DrainSettle(h)
  <2>1. UNCHANGED task
    BY <1>6 DEF SucceedCommit, DrainSettle, commit_workflow_success,
                commit_workflow_failure, commit_workflow_cancellation
  <2>2. WorkflowMoved
    <3>1. CASE SucceedCommit(h)
      BY <3>1 DEF SucceedCommit, commit_workflow_success, WorkflowMoved, WorkflowTo, Terminal
    <3>2. CASE DrainSettle(h)
      BY <3>2 DEF DrainSettle, commit_workflow_failure, commit_workflow_cancellation,
                  WorkflowMoved, WorkflowTo, Terminal, Draining
    <3>. QED
      BY <1>6, <3>1, <3>2
  <2>. QED
    BY <2>1, <2>2 DEF TaskMoved
<1>7. CASE PromoteCommit(h)
  <2>1. PICK i \in Item : i = proc[h].item
    BY <1>2, <1>7, HeldItem, Points DEF PromoteCommit, At
  <2>2. UNCHANGED workflow /\ At(h, "promote_commit")
    BY <1>7 DEF PromoteCommit, commit_retry_ready, commit_task_readiness
  <2>3. \/ task' = task
        \/ task' = TaskTo(i.task, "RUNNABLE", "none") /\ task[i.task].state \in Unstarted
    BY <1>7, <2>1 DEF PromoteCommit, commit_retry_ready, commit_task_readiness, TaskIs, Unstarted
  <2>4. i.task \in Tasks
    BY <2>1 DEF Item
  <2>. QED
    BY <1>4, <2>2, <2>3, <2>4 DEF WorkflowMoved
<1>8. CASE DrainCancel(h)
  <2>1. PICK i \in proc[h].todo : commit_drain_task_cancellation(i)
    BY <1>8 DEF DrainCancel
  <2>2. i \in Item
    BY <1>2, <2>1 DEF IInv, Proc
  <2>3. UNCHANGED workflow /\ (task' = task \/ task' = TaskTo(i.task, "CANCELLED", "none"))
    BY <2>1 DEF commit_drain_task_cancellation
  <2>4. i.task \in Tasks
    BY <2>2 DEF Item
  <2>. QED
    BY <1>4, <2>3, <2>4 DEF WorkflowMoved
<1>9. CASE DrainExpireCommit(h)
  <2>1. PICK i \in Item : i = proc[h].item
    BY <1>2, <1>9, HeldItem, Points DEF DrainExpireCommit, At, Settling
  <2>2. UNCHANGED workflow /\ (task' = task \/ task' = TaskTo(i.task, "CANCELLED", "none"))
    BY <1>9, <2>1 DEF DrainExpireCommit, commit_internal_cancellation_deadline
  <2>3. i.task \in Tasks
    BY <2>1 DEF Item
  <2>. QED
    BY <1>4, <2>2, <2>3 DEF WorkflowMoved
<1>. QED
  BY <1>3, <1>5, <1>6, <1>7, <1>8, <1>9 DEF Continue

\* A step before the gate opens that recovery itself does not make.
BootMove ==
    /\ UNCHANGED boot
    /\ WorkflowMoved /\ \A t \in Tasks : TaskMoved(t)
    /\ \/ UNCHANGED <<workflow, sworkflow>>
       \/ sworkflow = workflow /\ sworkflow' = workflow'
    /\ \A t \in Tasks : \/ stask'[t].state = stask[t].state
                        \/ stask[t] = task[t] /\ stask'[t] = task'[t]
    /\ Kept

\* The calls that recovery awaits, the clock and stuttering are of that kind.
LEMMA BootMoves ==
    ASSUME BootInv, Alone, boot.phase # "serving",
           \/ Scheduler \/ (BootClock /\ Clock /\ Refresh) \/ UNCHANGED rvars
           \/ \E t \in Tasks : SessionClock(t)
    PROVE  BootMove
<1>1. CASE Scheduler \/ (BootClock /\ Clock /\ Refresh)
  <2>1. UNCHANGED boot /\ Refresh
    BY <1>1 DEF Scheduler, BootClock
  <2>2. WorkflowMoved /\ \A t \in Tasks : TaskMoved(t)
    <3>1. CASE Scheduler
      BY <3>1, CallRows DEF Scheduler
    <3>2. CASE Clock
      <4>1. UNCHANGED workflow
        BY <3>2 DEF Clock, RetryFallsDue, StartDeadlinePasses, CancellationDeadlinePasses
      <4>2. RowsOK
        BY BootFacts
      <4>3. \A t \in Tasks : task'[t].state = task[t].state /\ task'[t].revision = task[t].revision
        BY <3>2, <4>2 DEF Clock, RetryFallsDue, StartDeadlinePasses, CancellationDeadlinePasses,
                          RowsOK, TaskRow
      <4>. QED
        BY <4>1, <4>3 DEF WorkflowMoved, TaskMoved
    <3>. QED
      BY <1>1, <3>1, <3>2
  <2>3. \/ UNCHANGED <<workflow, sworkflow>>
        \/ sworkflow = workflow /\ sworkflow' = workflow'
    <3>1. sworkflow # workflow => workflow' = workflow
      BY <1>1, ApplicationSteps DEF ApplicationStep
    <3>. QED
      BY <2>1, <3>1 DEF Refresh
  <2>4. \A t \in Tasks : \/ stask'[t].state = stask[t].state
                         \/ stask[t] = task[t] /\ stask'[t] = task'[t]
    BY <2>1 DEF Refresh
  <2>5. \A t \in Tasks, o \in Ordinals :
          attempt'[t][o].state \in Active =>
            /\ attempt'[t][o].state = attempt[t][o].state
            /\ attempt'[t][o].revision = attempt[t][o].revision
            /\ attempt'[t][o].worker_session_id = attempt[t][o].worker_session_id
    <3>1. CASE Scheduler
      BY <3>1, CallsAlone DEF Scheduler
    <3>2. CASE Clock
      <4>1. IInv
        BY DEF BootInv, Durable, KInv
      <4>2. UNCHANGED attempt \/ AttemptTimerMove
        BY <3>2, <4>1, AttemptTimersMove DEF Clock, RetryFallsDue
      <4>. QED
        BY <4>2 DEF AttemptTimerMove
    <3>. QED
      BY <1>1, <3>1, <3>2
  <2>6. ASSUME NEW t \in Tasks, NEW o \in Ordinals, sattempt'[t][o].state \in Active
        PROVE  /\ sattempt'[t][o].state = sattempt[t][o].state
               /\ sattempt'[t][o].revision = sattempt[t][o].revision
               /\ sattempt'[t][o].worker_session_id = sattempt[t][o].worker_session_id
    <3>1. \/ sattempt'[t][o] = sattempt[t][o]
          \/ sattempt[t][o] = attempt[t][o] /\ sattempt'[t][o] = attempt'[t][o]
      BY <2>1 DEF Refresh
    <3>. QED
      BY <2>5, <2>6, <3>1
  <2>7. Kept
    BY <2>6 DEF Kept
  <2>. QED
    BY <2>1, <2>2, <2>3, <2>4, <2>7 DEF BootMove
<1>2. CASE UNCHANGED rvars
  BY <1>2 DEF rvars, vars, bootVars, BootMove, WorkflowMoved, TaskMoved, Kept
<1>3. ASSUME NEW t \in Tasks, SessionClock(t) PROVE BootMove
  <2>1. UNCHANGED boot /\ UNCHANGED <<workflow, task, sworkflow, sattempt>>
    BY <1>3 DEF SessionClock, vars
  <2>2. \A u \in Tasks : stask'[u].state = stask[u].state
    BY <1>3, SessionClockFacts
  <2>. QED
    BY <2>1, <2>2 DEF BootMove, WorkflowMoved, TaskMoved, Kept
<1>. QED
  BY <1>1, <1>2, <1>3

\* They keep what is steady, and what a phase has finished.
LEMMA BootMoveKeeps ==
    ASSUME BootInv, BootInv', Steady, boot.phase # "serving", BootMove
    PROVE  Steady'
<1>0. /\ Populated /\ FailureIsKnown /\ NotRevived /\ OrphansAtFirst
      /\ UNCHANGED boot /\ WorkflowMoved /\ \A t \in Tasks : TaskMoved(t)
      /\ Kept
  BY DEF Steady, BootMove
<1>1. \/ UNCHANGED <<workflow, sworkflow>>
      \/ sworkflow = workflow /\ sworkflow' = workflow'
  BY DEF BootMove
<1>2. \A t \in Tasks : \/ stask'[t].state = stask[t].state
                       \/ stask[t] = task[t] /\ stask'[t] = task'[t]
  BY DEF BootMove
<1>3. workflow'.state = workflow.state \/ workflow'.state \in Terminal
  BY <1>0 DEF WorkflowMoved
<1>4. \A t \in Tasks : task'[t].state # task[t].state =>
                         task'[t].state \in {"CANCELLED", "RUNNABLE"}
  BY <1>0 DEF TaskMoved
<1>5. Populated'
  BY <1>0, <1>4 DEF Populated, WorkflowMoved, Draining
<1>6. FailureIsKnown'
  BY <1>0, <1>1, <1>2, <1>3, <1>4 DEF FailureIsKnown, Terminal
<1>7. NotRevived'
  <2>. SUFFICES ASSUME workflow'.state \in Draining, NEW t \in Tasks,
                       stask'[t].state \in Unstarted
                PROVE  task'[t].state \in Unstarted
    BY DEF NotRevived
  <2>1. workflow.state \in Draining
    BY <1>3 DEF Draining, Terminal
  <2>2. CASE stask[t] = task[t] /\ stask'[t] = task'[t]
    BY <2>2
  <2>3. CASE stask'[t].state = stask[t].state
    <3>1. Same(t)' \/ Settled(t)'
      BY DEF BootInv, Overlay
    <3>2. task[t].state \in Unstarted
      BY <1>0, <2>1, <2>3 DEF NotRevived
    <3>3. Same(t)'
      BY <1>4, <3>1, <3>2 DEF Settled, Unstarted
    <3>. QED
      BY <3>3 DEF Same
  <2>. QED
    BY <1>2, <2>2, <2>3
<1>8. OrphansAtFirst'
  <2>1. NoneLeft("CLAIMED") => NoneLeft("CLAIMED")'
    BY <1>0 DEF Kept, NoneLeft, Active
  <2>2. NoneLeft("RUNNING") => NoneLeft("RUNNING")'
    BY <1>0 DEF Kept, NoneLeft, Active
  <2>3. sworkflow'.state \in Draining /\ workflow'.state \notin Draining =>
          sworkflow.state \in Draining /\ workflow.state \notin Draining
    BY <1>1
  <2>. QED
    BY <1>0, <2>1, <2>2, <2>3 DEF OrphansAtFirst
<1>. QED
  BY <1>5, <1>6, <1>7, <1>8 DEF Steady

\* The handlers keep to what recovery awaits.
Awaited ==
    /\ boot.phase = "resume_draining" => \A g \in Handlers : proc'[g].pc \in DrainPoints
    /\ \A t \in Tasks :
         /\ /\ boot.phase = "resume_draining"
            /\ workflow.state \in Draining
            /\ task'[t].state \in Unstarted
            /\ \E g \in Handlers : WillCancel(g, t)
            => \E g \in Handlers : WillCancel(g, t)'
         /\ /\ workflow.state = "RUNNING"
            /\ evaluate_task_readiness(t) /\ evaluate_task_readiness(t)'
            /\ \E g \in Handlers : WillPromote(g, t)
            => \E g \in Handlers : WillPromote(g, t)'

\* With that the phases keep what they have done or are waiting for.
LEMMA BootMoveAwaits ==
    ASSUME FinishInv, boot.phase # "serving", BootMove, Awaited
    PROVE  Drained' /\ Promoted' /\ Concluded'
<1>0. /\ Drained /\ Promoted /\ Concluded
      /\ UNCHANGED boot /\ WorkflowMoved /\ \A t \in Tasks : TaskMoved(t)
  BY DEF FinishInv, BootMove
<1>1. \/ UNCHANGED <<workflow, sworkflow>>
      \/ sworkflow = workflow /\ sworkflow' = workflow'
  BY DEF BootMove
<1>2. workflow'.state = workflow.state \/ workflow'.state \in Terminal
  BY <1>0 DEF WorkflowMoved
<1>3. \A t \in Tasks : task'[t].state # task[t].state =>
                         task'[t].state \in {"CANCELLED", "RUNNABLE"}
  BY <1>0 DEF TaskMoved
<1>4. Drained'
  <2>1. CASE boot.phase = "resume_draining"
    <3>1. sworkflow' = workflow'
      BY <1>0, <1>1, <2>1 DEF Drained
    <3>2. ASSUME boot.read, workflow'.state \in Draining, NoItem \notin boot.todo,
                 NEW t \in Tasks, task'[t].state \in Unstarted
          PROVE  \E h \in Handlers : WillCancel(h, t)'
      <4>1. workflow.state \in Draining
        BY <1>2, <3>2 DEF Draining, Terminal
      <4>2. task[t].state \in Unstarted
        <5>1. TaskMoved(t)
          BY <1>0
        <5>. QED
          BY <3>2, <5>1 DEF TaskMoved, Unstarted
      <4>3. \E h \in Handlers : WillCancel(h, t)
        BY <1>0, <2>1, <3>2, <4>1, <4>2 DEF Drained
      <4>. QED
        BY <2>1, <3>2, <4>1, <4>3 DEF Awaited
    <3>3. \A g \in Handlers : proc'[g].pc \in DrainPoints
      BY <2>1 DEF Awaited
    <3>. QED
      BY <1>0, <2>1, <3>1, <3>2, <3>3 DEF Drained
  <2>2. CASE boot.phase # "resume_draining"
    <3>. SUFFICES ASSUME workflow'.state \in Draining, NEW t \in Tasks,
                         task'[t].state \in Unstarted
                  PROVE  FALSE
      BY <1>0, <2>2 DEF Drained
    <3>1. workflow.state \in Draining
      BY <1>2 DEF Draining, Terminal
    <3>2. task[t].state \notin Unstarted
      BY <1>0, <2>2, <3>1 DEF Drained
    <3>3. TaskMoved(t)
      BY <1>0
    <3>. QED
      BY <3>2, <3>3 DEF TaskMoved, Unstarted
  <2>. QED
    BY <2>1, <2>2
<1>5. Promoted'
  <2>. SUFFICES ASSUME workflow'.state = "RUNNING" PROVE Promoted'
    BY DEF Promoted
  <2>1. workflow.state = "RUNNING"
    BY <1>2 DEF Terminal
  <2>2. ASSUME NEW t \in Tasks, evaluate_task_readiness(t)'
        PROVE  evaluate_task_readiness(t)
    <3>1. Deps[t] \subseteq Tasks
      BY StoreAssumption
    <3>. QED
      BY <1>3, <2>2, <3>1 DEF evaluate_task_readiness
  <2>. QED
    BY <1>0, <2>1, <2>2 DEF Promoted, Awaited
<1>6. Concluded'
  <2>1. ASSUME VerdictDue' PROVE VerdictDue
    <3>1. CASE sworkflow'.state \in Draining /\ workflow'.state \in Draining
      BY <1>1, <1>2, <3>1 DEF VerdictDue, Draining, Terminal
    <3>2. CASE sworkflow'.state = "RUNNING" /\ \A t \in Tasks : stask'[t].state = "SUCCEEDED"
      <4>1. \A t \in Tasks : \/ stask'[t].state = stask[t].state
                             \/ stask[t] = task[t] /\ stask'[t] = task'[t]
        BY DEF BootMove
      <4>2. \A t \in Tasks : stask[t].state = "SUCCEEDED"
        BY <1>3, <3>2, <4>1
      <4>3. sworkflow.state = "RUNNING"
        BY <1>1, <1>2, <3>2 DEF Terminal
      <4>. QED
        BY <4>2, <4>3 DEF VerdictDue
    <3>. QED
      BY <2>1, <3>1, <3>2 DEF VerdictDue
  <2>. QED
    BY <1>0, <2>1 DEF Concluded
<1>. QED
  BY <1>4, <1>5, <1>6

\* A task row that stays unstarted, or PENDING, is named by the same item.
LEMMA SameItem ==
    ASSUME NEW t \in Tasks, task'[t].revision = task[t].revision, NEW op
    PROVE  TaskItem(op, t)' = TaskItem(op, t)
BY DEF TaskItem

\* The clock makes no difference to a handler.
LEMMA ClockAwaits ==
    ASSUME FinishInv, boot.phase # "serving", BootMove, UNCHANGED proc
    PROVE  Awaited
<1>1. \A t \in Tasks : TaskMoved(t)
  BY DEF BootMove
<1>2. boot.phase = "resume_draining" => \A g \in Handlers : proc[g].pc \in DrainPoints
  BY DEF FinishInv, Drained
<1>3. ASSUME NEW t \in Tasks, boot.phase = "resume_draining", task'[t].state \in Unstarted,
             NEW g \in Handlers, WillCancel(g, t)
      PROVE  WillCancel(g, t)'
  <2>1. task'[t].revision = task[t].revision
    BY <1>1, <1>2, <1>3 DEF TaskMoved, Unstarted, At, DrainPoints
  <2>. QED
    BY <1>3, <2>1, SameItem DEF WillCancel, At
<1>4. ASSUME NEW t \in Tasks, evaluate_task_readiness(t)',
             NEW g \in Handlers, WillPromote(g, t)
      PROVE  WillPromote(g, t)'
  <2>1. task'[t].revision = task[t].revision
    BY <1>1, <1>4 DEF TaskMoved, evaluate_task_readiness
  <2>. QED
    BY <1>4, <2>1, SameItem DEF WillPromote, At
<1>. QED
  BY <1>2, <1>3, <1>4 DEF Awaited

\* Where a handler is after its step, and with which items.
LEMMA NowAt ==
    ASSUME proc \in [Handlers -> Proc], NEW h \in Handlers, NEW pc
    PROVE  /\ Goto(h, pc) => proc'[h].pc = pc
           /\ \A i : DoneWith(h, i, pc) =>
                proc'[h].pc = pc /\ proc'[h].todo = proc[h].todo \ {i}
           /\ \A i, j : Hold(h, i, j, pc) =>
                /\ proc'[h].pc = pc /\ proc'[h].todo = proc[h].todo \ {i}
                /\ proc'[h].item = j
           /\ \A todo : Become(h, [Idle EXCEPT !.pc = pc, !.todo = todo]) =>
                proc'[h].pc = pc /\ proc'[h].todo = todo
           /\ \A todo, e : Become(h, [Idle EXCEPT !.pc = pc, !.todo = todo, !.elapsed = e]) =>
                proc'[h].pc = pc /\ proc'[h].todo = todo
<1>1. ASSUME NEW p, Become(h, p) PROVE proc'[h] = p
  BY <1>1 DEF Become
<1>2. proc[h] \in Proc
  OBVIOUS
<1>3. ASSUME Goto(h, pc) PROVE proc'[h].pc = pc
  BY <1>1, <1>3 DEF Goto, Idle
<1>4. ASSUME NEW i, DoneWith(h, i, pc)
      PROVE  proc'[h].pc = pc /\ proc'[h].todo = proc[h].todo \ {i}
  <2>1. proc'[h] = [proc[h] EXCEPT !.pc = pc, !.todo = @ \ {i}, !.item = NoItem]
    BY <1>1, <1>4 DEF DoneWith
  <2>. QED
    BY <1>2, <2>1 DEF Proc
<1>5. ASSUME NEW i, NEW j, Hold(h, i, j, pc)
      PROVE  /\ proc'[h].pc = pc /\ proc'[h].todo = proc[h].todo \ {i}
             /\ proc'[h].item = j
  <2>1. proc'[h] = [proc[h] EXCEPT !.pc = pc, !.todo = @ \ {i}, !.item = j]
    BY <1>1, <1>5 DEF Hold
  <2>. QED
    BY <1>2, <2>1 DEF Proc
<1>6. ASSUME NEW todo, Become(h, [Idle EXCEPT !.pc = pc, !.todo = todo])
      PROVE  proc'[h].pc = pc /\ proc'[h].todo = todo
  <2>1. proc'[h] = [Idle EXCEPT !.pc = pc, !.todo = todo]
    BY <1>1, <1>6
  <2>. QED
    BY <2>1 DEF Idle
<1>7. ASSUME NEW todo, NEW e, Become(h, [Idle EXCEPT !.pc = pc, !.todo = todo, !.elapsed = e])
      PROVE  proc'[h].pc = pc /\ proc'[h].todo = todo
  <2>1. proc'[h] = [Idle EXCEPT !.pc = pc, !.todo = todo, !.elapsed = e]
    BY <1>1, <1>7
  <2>. QED
    BY <2>1 DEF Idle
<1>. QED
  BY <1>3, <1>4, <1>5, <1>6, <1>7, Zenon

\* A step of one handler leaves the others where they are.
LEMMA OthersStay ==
    ASSUME proc \in [Handlers -> Proc], NEW h \in Handlers, Continue(h)
    PROVE  \A g \in Handlers \ {h} : proc'[g] = proc[g]
<1>1. \E p : Become(h, p)
  <2>1. CASE \/ AdvanceRead(h) \/ SucceedCommit(h) \/ PromoteCheck(h) \/ PromoteCommit(h)
             \/ DispatchRead(h)
    BY <2>1, Zenon DEF AdvanceRead, SucceedCommit, PromoteCheck, PromoteCommit, DispatchRead,
                       Goto, DoneWith, Hold
  <2>2. CASE \/ DispatchCheck(h) \/ ClaimCommit(h) \/ DispatchDone(h)
             \/ DrainRead(h) \/ DrainCancel(h) \/ DrainNotifyRead(h) \/ DrainMark(h)
    BY <2>2, Zenon DEF DispatchCheck, ClaimCommit, DispatchDone, DrainRead, DrainCancel,
                       DrainNotifyRead, DrainMark, Goto, DoneWith, Hold
  <2>3. CASE DrainExpireRead(h) \/ DrainExpireCommit(h) \/ DrainSettle(h)
             \/ StartCommit(h) \/ RetryCheck(h) \/ RetryCommit(h)
    BY <2>3, Zenon DEF DrainExpireRead, DrainExpireCommit, DrainSettle, StartCommit,
                       RetryCheck, RetryCommit, Goto, DoneWith, Hold
  <2>4. CASE SuccessCommit(h) \/ FailureCommit(h) \/ CancelAckCommit(h)
    BY <2>4, Zenon DEF SuccessCommit, FailureCommit, CancelAckCommit, Goto
  <2>. QED
    BY <2>1, <2>2, <2>3, <2>4 DEF Continue
<1>. QED
  BY <1>1 DEF Become

\* A drain goes on draining, and cancels what it listed.
LEMMA DrainAwaits ==
    ASSUME BootInv, NEW h \in Handlers, Continue(h), proc[h].pc \in DrainPoints
    PROVE  /\ proc'[h].pc \in DrainPoints
           /\ \A t \in Tasks :
                /\ workflow.state \in Draining /\ WillCancel(h, t)
                /\ task[t].state \in Unstarted
                /\ task'[t].state \in Unstarted
                /\ task'[t].revision = task[t].revision
                => WillCancel(h, t)'
<1>1. proc \in [Handlers -> Proc] /\ RowsOK /\ proc[h] \in Proc
  BY BootFacts
<1>2. proc[h].pc # "idle" /\
      (\/ DrainRead(h) \/ DrainCancel(h) \/ DrainNotifyRead(h) \/ DrainMark(h)
       \/ DrainExpireRead(h) \/ DrainExpireCommit(h) \/ DrainSettle(h))
  BY DEF Continue, DrainPoints, At, AdvanceRead, SucceedCommit, PromoteCheck, PromoteCommit,
         DispatchRead, DispatchCheck, ClaimCommit, DispatchDone, StartCommit, SuccessCommit,
         RetryCheck, RetryCommit, FailureCommit, CancelAckCommit, DrainRead, DrainCancel,
         DrainNotifyRead, DrainMark, DrainExpireRead, DrainExpireCommit, DrainSettle
<1>3. CASE DrainRead(h)
  <2>1. CASE workflow.state \in Draining
    <3>1. PICK e : Become(h, [Idle EXCEPT
                 !.pc = "cancel",
                 !.todo = {TaskItem("none", t) : t \in {u \in Tasks : task[u].state \in Unstarted}},
                 !.elapsed = e])
      BY <1>3, <2>1, Zenon DEF DrainRead
    <3>2. /\ proc'[h].pc = "cancel"
          /\ proc'[h].todo =
               {TaskItem("none", t) : t \in {u \in Tasks : task[u].state \in Unstarted}}
      BY <1>1, <3>1, NowAt
    <3>3. ASSUME NEW t \in Tasks, task[t].state \in Unstarted,
                 task'[t].revision = task[t].revision
          PROVE  WillCancel(h, t)'
      <4>1. TaskItem("none", t) \in proc'[h].todo
        BY <3>2, <3>3
      <4>2. TaskItem("none", t)' = TaskItem("none", t)
        BY <3>3, SameItem
      <4>. QED
        BY <3>2, <4>1, <4>2 DEF WillCancel, At
    <3>. QED
      BY <3>2, <3>3 DEF DrainPoints
  <2>2. CASE workflow.state \notin Draining
    BY <1>1, <1>3, <2>2, NowAt DEF DrainRead, DrainPoints
  <2>. QED
    BY <2>1, <2>2
<1>4. CASE DrainCancel(h)
  <2>1. PICK i \in proc[h].todo : commit_drain_task_cancellation(i) /\ DoneWith(h, i, "cancel")
    BY <1>4 DEF DrainCancel
  <2>2. proc'[h].pc = "cancel" /\ proc'[h].todo = proc[h].todo \ {i}
    BY <1>1, <2>1, NowAt
  <2>3. ASSUME NEW t \in Tasks, workflow.state \in Draining, WillCancel(h, t),
               task[t].state \in Unstarted, task'[t].state \in Unstarted,
               task'[t].revision = task[t].revision
        PROVE  WillCancel(h, t)'
    <3>1. TaskItem("none", t) \in proc[h].todo
      BY <1>4, <2>3 DEF WillCancel, DrainCancel, At
    <3>2. TaskItem("none", t) # i
      <4>. SUFFICES ASSUME i = TaskItem("none", t) PROVE FALSE
        OBVIOUS
      <4>1. i.task = t /\ i.trev = task[t].revision
        BY DEF TaskItem
      <4>2. task' = TaskTo(t, "CANCELLED", "none")
        BY <2>1, <2>3, <4>1 DEF commit_drain_task_cancellation, TaskIs
      <4>3. "CANCELLED" \in TaskStates /\ "none" \in Timers
        BY DEF TaskStates, Terminal, Timers
      <4>4. task'[t].state = "CANCELLED"
        BY <1>1, <4>2, <4>3, TaskToFacts
      <4>. QED
        BY <2>3, <4>4 DEF Unstarted
    <3>3. TaskItem("none", t)' = TaskItem("none", t)
      BY <2>3, SameItem
    <3>. QED
      BY <2>2, <3>1, <3>2, <3>3 DEF WillCancel, At
  <2>. QED
    BY <2>2, <2>3 DEF DrainPoints
<1>5. CASE DrainNotifyRead(h) \/ DrainMark(h) \/ DrainExpireRead(h) \/ DrainExpireCommit(h)
           \/ DrainSettle(h)
  <2>1. ASSUME NEW t \in Tasks, WillCancel(h, t) PROVE FALSE
    BY <1>5, <2>1 DEF WillCancel, At, DrainNotifyRead, DrainMark, DrainExpireRead,
                      DrainExpireCommit, DrainSettle
  <2>2. \/ Goto(h, "idle")
        \/ \E todo : Become(h, [Idle EXCEPT !.pc = "notify", !.todo = todo])
        \/ \E i : DoneWith(h, i, "notify")
        \/ \E i, j : Hold(h, i, j, "expire")
    BY <1>5, Zenon DEF DrainNotifyRead, DrainMark, DrainExpireRead, DrainExpireCommit, DrainSettle
  <2>3. proc'[h].pc \in {"idle", "notify", "expire"}
    BY <1>1, <2>2, NowAt
  <2>. QED
    BY <2>1, <2>3 DEF DrainPoints
<1>. QED
  BY <1>2, <1>3, <1>4, <1>5

\* advance_workflow promotes what it found ready, as long as the workflow
\* is RUNNING.
LEMMA PromoteAwaits ==
    ASSUME BootInv, NEW h \in Handlers, Continue(h), NEW t \in Tasks,
           workflow.state = "RUNNING", WillPromote(h, t),
           evaluate_task_readiness(t), evaluate_task_readiness(t)',
           task'[t].revision = task[t].revision
    PROVE  WillPromote(h, t)'
<1>1. proc \in [Handlers -> Proc] /\ RowsOK
  BY BootFacts
<1>2. TaskItem("readiness", t)' = TaskItem("readiness", t)
  BY SameItem
<1>3. AdvanceRead(h) \/ PromoteCheck(h) \/ PromoteCommit(h)
  <2>1. proc[h].pc \in {"advance", "promote", "promote_commit"}
    BY DEF WillPromote, At
  <2>2. ~DispatchRead(h)
    BY DEF WillPromote, At, DispatchRead
  <2>. QED
    BY <2>1, <2>2
       DEF Continue, At, AdvanceRead, SucceedCommit, PromoteCheck, PromoteCommit,
         DispatchCheck, ClaimCommit, DispatchDone, StartCommit, SuccessCommit,
         RetryCheck, RetryCommit, FailureCommit, CancelAckCommit, DrainRead, DrainCancel,
         DrainNotifyRead, DrainMark, DrainExpireRead, DrainExpireCommit, DrainSettle
<1>4. CASE AdvanceRead(h)
  <2>1. ~AllTasks({"SUCCEEDED"})
    BY DEF AllTasks, evaluate_task_readiness
  <2>2. workflow.state \notin Draining
    BY DEF Draining
  <2>3. Become(h, [Idle EXCEPT !.pc = "promote", !.todo = Promotions])
    <3>1. (CASE workflow.state \in Draining -> Goto(h, "drain")
             [] workflow.state = "RUNNING" /\ AllTasks({"SUCCEEDED"}) ->
                  Become(h, [Idle EXCEPT !.pc = "succeed", !.wrev = workflow.revision])
             [] workflow.state = "RUNNING" /\ ~AllTasks({"SUCCEEDED"}) ->
                  Become(h, [Idle EXCEPT !.pc = "promote", !.todo = Promotions])
             [] OTHER -> Goto(h, "idle"))
      BY <1>4 DEF AdvanceRead
    <3>. QED
      BY <2>1, <2>2, <3>1
  <2>4. proc'[h].pc = "promote" /\ proc'[h].todo = Promotions
    BY <1>1, <2>3, NowAt
  <2>5. TaskItem("readiness", t) \in Promotions
    BY DEF Promotions
  <2>. QED
    BY <1>2, <2>4, <2>5 DEF WillPromote, At
<1>5. CASE PromoteCheck(h)
  <2>1. PICK i \in proc[h].todo : Hold(h, i, i, "promote_commit")
    BY <1>5 DEF PromoteCheck
  <2>2. /\ proc'[h].pc = "promote_commit" /\ proc'[h].item = i
        /\ proc'[h].todo = proc[h].todo \ {i}
    BY <1>1, <2>1, NowAt
  <2>3. TaskItem("readiness", t) \in proc[h].todo
    BY <1>5 DEF PromoteCheck, WillPromote, At
  <2>. QED
    BY <1>2, <2>2, <2>3 DEF WillPromote, At
<1>6. CASE PromoteCommit(h)
  <2>1. PICK i : /\ i = proc[h].item
                 /\ DoneWith(h, i, "promote")
                 /\ i.op # "retry_ready" => commit_task_readiness(i)
    BY <1>6 DEF PromoteCommit
  <2>2. proc'[h].pc = "promote" /\ proc'[h].todo = proc[h].todo \ {i}
    <3>1. DoneWith(h, i, "promote")
      BY <2>1
    <3>. QED
      BY <1>1, <3>1, NowAt
  <2>3. TaskItem("readiness", t) # i
    <3>. SUFFICES ASSUME i = TaskItem("readiness", t) PROVE FALSE
      OBVIOUS
    <3>1. /\ i.op = "readiness" /\ i.task = t
          /\ i.trev = task[t].revision
      BY DEF TaskItem
    <3>2. task' = TaskTo(t, "RUNNABLE", "none")
      BY <2>1, <3>1 DEF commit_task_readiness, TaskIs, evaluate_task_readiness
    <3>3. "RUNNABLE" \in TaskStates /\ "none" \in Timers
      BY DEF TaskStates, Unstarted, Timers
    <3>4. task'[t].state = "RUNNABLE"
      BY <1>1, <3>2, <3>3, TaskToFacts
    <3>. QED
      BY <3>4 DEF evaluate_task_readiness
  <2>4. TaskItem("readiness", t) \in proc[h].todo
    BY <1>6, <2>1, <2>3 DEF PromoteCommit, WillPromote, At
  <2>. QED
    BY <1>2, <2>2, <2>3, <2>4 DEF WillPromote, At
<1>. QED
  BY <1>3, <1>4, <1>5, <1>6

\* A scheduler call does what recovery awaits of it.
LEMMA CallAwaits ==
    ASSUME BootInv, FinishInv, boot.phase # "serving", BootMove,
           NEW h \in Handlers, Continue(h)
    PROVE  Awaited
<1>0. proc \in [Handlers -> Proc]
  BY BootFacts
<1>1. \A t \in Tasks : TaskMoved(t)
  BY DEF BootMove
<1>2. boot.phase = "resume_draining" => \A g \in Handlers : proc[g].pc \in DrainPoints
  BY DEF FinishInv, Drained
<1>3. \A g \in Handlers \ {h} : proc'[g] = proc[g]
  BY <1>0, OthersStay
<1>4. boot.phase = "resume_draining" => \A g \in Handlers : proc'[g].pc \in DrainPoints
  BY <1>2, <1>3, DrainAwaits
<1>5. ASSUME NEW t \in Tasks, boot.phase = "resume_draining", task'[t].state \in Unstarted,
             workflow.state \in Draining, NEW g \in Handlers, WillCancel(g, t)
      PROVE  WillCancel(g, t)'
  <2>1. task'[t].revision = task[t].revision /\ task[t].state \in Unstarted
    BY <1>1, <1>2, <1>5 DEF TaskMoved, Unstarted, At, DrainPoints
  <2>2. CASE g # h
    BY <1>3, <1>5, <2>1, <2>2, SameItem DEF WillCancel, At
  <2>3. CASE g = h
    BY <1>2, <1>5, <2>1, <2>3, DrainAwaits
  <2>. QED
    BY <2>2, <2>3
<1>6. ASSUME NEW t \in Tasks, workflow.state = "RUNNING", evaluate_task_readiness(t),
             evaluate_task_readiness(t)', NEW g \in Handlers, WillPromote(g, t)
      PROVE  WillPromote(g, t)'
  <2>1. task'[t].revision = task[t].revision
    BY <1>1, <1>6 DEF TaskMoved, evaluate_task_readiness
  <2>2. CASE g # h
    BY <1>3, <1>6, <2>1, <2>2, SameItem DEF WillPromote, At
  <2>3. CASE g = h
    BY <1>6, <2>1, <2>3, PromoteAwaits
  <2>. QED
    BY <2>2, <2>3
<1>. QED
  BY <1>4, <1>5, <1>6 DEF Awaited

\* Together: the steps that recovery does not make itself.
LEMMA BootMovesFinish ==
    ASSUME BootInv, BootInv', Alone, FinishInv, boot.phase # "serving",
           \/ Scheduler \/ (BootClock /\ Clock /\ Refresh) \/ UNCHANGED rvars
           \/ \E t \in Tasks : SessionClock(t)
    PROVE  FinishInv'
<1>1. BootMove
  BY BootMoves
<1>2. Awaited
  <2>1. CASE Scheduler
    BY <1>1, <2>1, CallAwaits DEF Scheduler
  <2>2. CASE (BootClock /\ Clock /\ Refresh) \/ UNCHANGED rvars
             \/ \E t \in Tasks : SessionClock(t)
    <3>1. UNCHANGED proc
      BY <2>2 DEF Clock, RetryFallsDue, StartDeadlinePasses, CancellationDeadlinePasses,
                  rvars, vars, SessionClock
    <3>. QED
      BY <1>1, <3>1, ClockAwaits
  <2>. QED
    BY <2>1, <2>2
<1>3. Steady'
  BY <1>1, BootMoveKeeps DEF FinishInv
<1>. QED
  BY <1>1, <1>2, <1>3, BootMoveAwaits DEF FinishInv

-----------------------------------------------------------------------------
\* What the serving process does to a task that matters here.
TaskServed(t) ==
    \/ task'[t].state = task[t].state
    \/ task'[t].state \notin {"ABSENT", "FAILED"}
    \/ task'[t].state = "FAILED" /\ workflow'.state # "RUNNING"

\* As main:app runs it, the process directs a workflow in the transaction
\* that fails its task.
LEMMA DeployedRows ==
    ASSUME BootInv, NextDeployed
    PROVE  \/ workflow.state = "ABSENT" /\ commit_initialization
           \/ /\ workflow'.state = "RUNNING" => workflow.state = "RUNNING"
              /\ workflow.state = "ABSENT" => workflow' = workflow
              /\ \A t \in Tasks : TaskServed(t)
<1>1. IInv /\ RowsOK /\ proc \in [Handlers -> Proc]
  BY BootFacts DEF BootInv, Durable, KInv
<1>2. ASSUME NEW u \in Tasks, NEW s \in TaskStates \ {"ABSENT"}, NEW timer \in Timers,
             task' = task \/ task' = TaskTo(u, s, timer),
             s = "FAILED" => workflow'.state # "RUNNING"
      PROVE  \A t \in Tasks : TaskServed(t)
  BY <1>1, <1>2, TaskToFacts DEF TaskServed
<1>3. {"RUNNABLE", "CANCELLED", "SUCCEEDED", "FAILED", "RETRY_WAIT"} \subseteq
         TaskStates \ {"ABSENT"} /\ {"none", "pending"} \subseteq Timers
  BY DEF TaskStates, Unstarted, Terminal, Timers
<1>4. ASSUME NEW h \in Handlers, Continue(h) \/ Request(h)
      PROVE  \/ workflow.state = "ABSENT" /\ commit_initialization
             \/ /\ workflow'.state = "RUNNING" => workflow.state = "RUNNING"
                /\ workflow.state = "ABSENT" => workflow' = workflow
                /\ \A t \in Tasks : TaskServed(t)
  <2>1. CASE \/ AdvanceRead(h) \/ PromoteCheck(h) \/ DispatchRead(h) \/ DispatchCheck(h)
             \/ DispatchDone(h) \/ DrainRead(h) \/ DrainNotifyRead(h) \/ DrainMark(h)
             \/ DrainExpireRead(h) \/ StartCommit(h) \/ RetryCheck(h)
             \/ acknowledge_start(h) \/ ReceiveSuccess(h) \/ DuplicateSuccess(h)
             \/ ReceiveFailure(h) \/ ReceiveCancelAck(h)
    <3>1. UNCHANGED <<workflow, task>>
      BY <2>1 DEF AdvanceRead, PromoteCheck, DispatchRead, DispatchCheck, DispatchDone,
                  DrainRead, DrainNotifyRead, DrainMark, DrainExpireRead, StartCommit,
                  RetryCheck, acknowledge_start, ReceiveSuccess, DuplicateSuccess,
                  ReceiveFailure, ReceiveCancelAck, set_cancellation_deadline,
                  commit_worker_execution_start, rows
    <3>. QED
      BY <3>1 DEF TaskServed
  <2>2. CASE SucceedCommit(h) \/ DrainSettle(h) \/ cancel_execution(h)
    <3>1. UNCHANGED task
      BY <2>2 DEF SucceedCommit, DrainSettle, cancel_execution, commit_workflow_success,
                  commit_workflow_failure, commit_workflow_cancellation,
                  commit_workflow_cancellation_direction
    <3>2. /\ workflow'.state = "RUNNING" => workflow.state = "RUNNING"
          /\ workflow.state = "ABSENT" => workflow' = workflow
      BY <2>2 DEF SucceedCommit, DrainSettle, cancel_execution, commit_workflow_success,
                  commit_workflow_failure, commit_workflow_cancellation,
                  commit_workflow_cancellation_direction, WorkflowTo
    <3>. QED
      BY <3>1, <3>2 DEF TaskServed
  <2>3. CASE start_execution(h)
    BY <2>3 DEF start_execution
  <2>4. CASE PromoteCommit(h)
    <3>1. PICK i \in Item : i = proc[h].item
      BY <1>1, <2>4, HeldItem, Points DEF PromoteCommit, At
    <3>2. UNCHANGED workflow /\ (task' = task \/ task' = TaskTo(i.task, "RUNNABLE", "none"))
      BY <2>4, <3>1 DEF PromoteCommit, commit_retry_ready, commit_task_readiness
    <3>3. i.task \in Tasks
      BY <3>1 DEF Item
    <3>. QED
      BY <1>2, <1>3, <3>2, <3>3
  <2>5. CASE DrainCancel(h)
    <3>1. PICK i \in proc[h].todo : commit_drain_task_cancellation(i)
      BY <2>5 DEF DrainCancel
    <3>2. i \in Item
      BY <1>1, <3>1 DEF Proc
    <3>3. UNCHANGED workflow /\ (task' = task \/ task' = TaskTo(i.task, "CANCELLED", "none"))
      BY <3>1 DEF commit_drain_task_cancellation
    <3>4. i.task \in Tasks
      BY <3>2 DEF Item
    <3>. QED
      BY <1>2, <1>3, <3>3, <3>4
  <2>6. CASE \/ DrainExpireCommit(h) \/ SuccessCommit(h) \/ RetryCommit(h)
             \/ CancelAckCommit(h)
    <3>1. PICK i \in Item : i = proc[h].item
      BY <1>1, <2>6, HeldItem, Points
         DEF DrainExpireCommit, SuccessCommit, RetryCommit, CancelAckCommit, At, Settling
    <3>2. /\ UNCHANGED workflow
          /\ \/ task' = task
             \/ task' = TaskTo(i.task, "CANCELLED", "none")
             \/ task' = TaskTo(i.task, "SUCCEEDED", "none")
             \/ task' = TaskTo(i.task, "RETRY_WAIT", "pending")
      BY <2>6, <3>1 DEF DrainExpireCommit, SuccessCommit, RetryCommit, CancelAckCommit,
                        commit_internal_cancellation_deadline, commit_worker_task_success,
                        commit_worker_failure_with_retry, commit_worker_cancellation_ack, rows
    <3>3. i.task \in Tasks
      BY <3>1 DEF Item
    <3>4. \A t \in Tasks : TaskServed(t)
      BY <1>2, <1>3, <3>2, <3>3
    <3>. QED
      BY <3>2, <3>4
  <2>7. CASE FailureCommit(h)
    <3>1. PICK i \in Item : i = proc[h].item
      BY <1>1, <2>7, HeldItem, Points DEF FailureCommit, At, Settling
    <3>2. CASE UNCHANGED rows
      BY <3>2 DEF rows, TaskServed
    <3>3. CASE commit_worker_definitive_failure(i)
      <4>1. /\ task' = TaskTo(i.task, "FAILED", "none")
            /\ workflow'.state # "RUNNING"
            /\ workflow.state = "ABSENT" => workflow' = workflow
        BY <3>3 DEF commit_worker_definitive_failure, WorkflowTo
      <4>2. i.task \in Tasks
        BY <3>1 DEF Item
      <4>3. \A t \in Tasks : TaskServed(t)
        BY <1>2, <1>3, <4>1, <4>2
      <4>. QED
        BY <4>1, <4>3
    <3>. QED
      BY <2>7, <3>1, <3>2, <3>3 DEF FailureCommit
  <2>8. CASE ClaimCommit(h)
    <3>1. PICK i \in Item : i = proc[h].item /\ commit_attempt_ownership(i)
      BY <1>1, <2>8, HeldItem, Points DEF ClaimCommit, At
    <3>2. i.task \in Tasks
      BY <3>1 DEF Item
    <3>3. /\ UNCHANGED workflow
          /\ \/ task' = task
             \/ task' = [task EXCEPT ![i.task].state = "RUNNING",
                                     ![i.task].revision = @ + 1,
                                     ![i.task].next_attempt_ordinal = @ + 1]
      BY <3>1 DEF commit_attempt_ownership
    <3>4. \A t \in Tasks : task'[t] = task[t] \/ task'[t].state = "RUNNING"
      <4>1. CASE task' = task
        BY <4>1
      <4>2. CASE task' = [task EXCEPT ![i.task].state = "RUNNING",
                                     ![i.task].revision = @ + 1,
                                     ![i.task].next_attempt_ordinal = @ + 1]
        <5>1. PICK row : row = [task[i.task] EXCEPT !.state = "RUNNING", !.revision = @ + 1,
                                                    !.next_attempt_ordinal = @ + 1]
          OBVIOUS
        <5>2. task[i.task] \in TaskRow
          BY <1>1, <3>2 DEF RowsOK
        <5>3. row.state = "RUNNING"
          BY <5>1, <5>2 DEF TaskRow
        <5>4. task' = [task EXCEPT ![i.task] = row]
          BY <1>1, <3>2, <4>2, <5>1 DEF RowsOK
        <5>. QED
          BY <1>1, <3>2, <5>3, <5>4 DEF RowsOK
      <4>. QED
        BY <3>3, <4>1, <4>2
    <3>. QED
      BY <3>3, <3>4 DEF TaskServed
  <2>. QED
    BY <1>4, <2>1, <2>2, <2>3, <2>4, <2>5, <2>6, <2>7, <2>8 DEF Continue, Request
<1>5. CASE Registry
  <2>1. UNCHANGED <<workflow, task>>
    BY <1>5 DEF Registry, register_worker, HeartbeatsStop, heartbeat_worker, rows
  <2>. QED
    BY <2>1 DEF TaskServed
<1>6. CASE Clock
  <2>1. UNCHANGED workflow
    BY <1>6 DEF Clock, RetryFallsDue, StartDeadlinePasses, CancellationDeadlinePasses
  <2>2. \A t \in Tasks : task'[t].state = task[t].state
    <3>1. task \in [Tasks -> TaskRow]
      BY <1>1 DEF RowsOK
    <3>2. ASSUME NEW u \in Tasks, RetryFallsDue(u) PROVE \A t \in Tasks : task'[t].state = task[t].state
      BY <3>1, <3>2 DEF RetryFallsDue, TaskRow
    <3>. QED
      BY <1>6, <3>2 DEF Clock, StartDeadlinePasses, CancellationDeadlinePasses
  <2>. QED
    BY <2>1, <2>2 DEF TaskServed
<1>. QED
  BY <1>4, <1>5, <1>6 DEF NextDeployed

\* Serving keeps the invariant: the session has no rows of its own.
LEMMA ServingFinish ==
    ASSUME BootInv, BootInv', FinishInv, Serving(NextDeployed)
    PROVE  FinishInv'
<1>1. boot.phase = "serving" /\ UNCHANGED boot /\ NextDeployed
  BY DEF Serving
<1>2. Populated /\ (workflow.state = "RUNNING" => \A t \in Tasks : task[t].state # "FAILED")
  BY DEF FinishInv, Steady, FailureIsKnown
<1>3. /\ Populated'
      /\ workflow'.state = "RUNNING" => \A t \in Tasks : task'[t].state # "FAILED"
  <2>1. CASE workflow.state = "ABSENT" /\ commit_initialization
    <3>1. \A t \in Tasks : task'[t].state = "PENDING"
      BY <2>1 DEF commit_initialization
    <3>. QED
      BY <3>1 DEF Populated
  <2>2. CASE ~(workflow.state = "ABSENT" /\ commit_initialization)
    BY <1>1, <1>2, <2>2, DeployedRows DEF TaskServed, Populated
  <2>. QED
    BY <2>1, <2>2
<1>4. sworkflow' = workflow' /\ stask' = task'
  <2>1. Quiet'
    BY DEF BootInv
  <2>. QED
    BY <1>1, <2>1 DEF Quiet, srows, rows
<1>5. Steady'
  BY <1>1, <1>3, <1>4 DEF Steady, FailureIsKnown, NotRevived, OrphansAtFirst
<1>. QED
  BY <1>1, <1>5 DEF FinishInv, Drained, Promoted, Concluded

\* A crash throws the session away; the first pass starts from the rows.
LEMMA CrashFinish ==
    ASSUME BootInv, BootInv', FinishInv, Crash
    PROVE  FinishInv'
<1>1. /\ UNCHANGED rows
      /\ sworkflow' = workflow /\ stask' = task
      /\ boot' = FirstPass
      /\ \A h \in Handlers : proc'[h] = Idle
  BY DEF Crash
<1>2. /\ boot'.phase = "resume_draining" /\ ~boot'.read /\ ~boot'.direct
      /\ boot'.pass = 1
  BY <1>1 DEF FirstPass
<1>3. Steady'
  BY <1>1, <1>2 DEF FinishInv, Steady, Populated, FailureIsKnown, NotRevived, OrphansAtFirst, rows
<1>4. Drained'
  BY <1>1, <1>2 DEF Drained, rows, Idle, DrainPoints
<1>. QED
  BY <1>2, <1>3, <1>4 DEF FinishInv, Promoted, Concluded

-----------------------------------------------------------------------------
(***************************************************************************)
(* The steps of recovery.                                                  *)
(***************************************************************************)
\* Steps that write no row.
LEMMA SameRowsSteady ==
    ASSUME Steady, UNCHANGED <<workflow, task>>, UNCHANGED <<sworkflow, stask, sattempt>>,
           boot.phase # "serving",
           boot'.direct = boot.direct, boot'.pass = boot.pass, boot.mutated => boot'.mutated
    PROVE  Steady'
BY DEF Steady, Populated, FailureIsKnown, NotRevived, OrphansAtFirst, NoneLeft

\* A scan that finds something returns something.
LEMMA BatchNotEmpty ==
    ASSUME NEW found, found # {}, NEW b \in Batches(found)
    PROVE  b # {}
<1>1. Cardinality({}) = 0
  BY FS_EmptySet
<1>2. BatchSize # 0
  BY RecoveryAssumption
<1>. QED
  BY <1>1, <1>2 DEF Batches

\* The scans of phases 2, 7 and 8 miss nothing.
LEMMA ReadFinish ==
    ASSUME BootInv, FinishInv, PhaseRead
    PROVE  FinishInv'
<1>0. PICK p \in Phases : /\ InPhase(p) /\ ~boot.read
                           /\ \E b \in Batches(Found(p)) :
                                boot' = [boot EXCEPT !.read = TRUE, !.todo = b]
  BY DEF PhaseRead
<1>1. PICK b \in Batches(Found(p)) :
        /\ boot.phase = p /\ ~boot.read
        /\ boot' = [boot EXCEPT !.read = TRUE, !.todo = b]
  BY <1>0 DEF InPhase
<1>2. /\ UNCHANGED <<workflow, task, proc>> /\ UNCHANGED <<sworkflow, stask, sattempt>>
      /\ boot \in Boot
  BY BootFacts DEF PhaseRead, vars, srows, BootTypes
<1>3. /\ boot'.phase = p /\ boot'.read /\ boot'.todo = b
      /\ boot'.direct = boot.direct /\ boot'.pass = boot.pass /\ boot'.mutated = boot.mutated
  BY <1>1, <1>2 DEF Boot
<1>4. p # "serving"
  BY DEF Phases
<1>5. Steady'
  BY <1>1, <1>2, <1>3, <1>4, SameRowsSteady DEF FinishInv
<1>6. ASSUME NEW states, Found(p) = TheWorkflow(states), sworkflow.state \in states
      PROVE  NoItem \in b
  <2>1. Found(p) = {NoItem}
    BY <1>6 DEF TheWorkflow
  <2>2. b # {} /\ b \subseteq {NoItem}
    BY <2>1, BatchNotEmpty DEF Batches
  <2>. QED
    BY <2>2
<1>7. Drained'
  <2>1. CASE p = "resume_draining"
    <3>1. sworkflow = workflow /\ \A h \in Handlers : proc[h].pc \in DrainPoints
      BY <1>1, <2>1 DEF FinishInv, Drained
    <3>2. workflow.state \in Draining => NoItem \in b
      <4>1. Found(p) = TheWorkflow(Draining)
        BY <2>1, Zenon DEF Found
      <4>. QED
        BY <1>6, <3>1, <4>1
    <3>. QED
      BY <1>2, <1>3, <2>1, <3>1, <3>2 DEF Drained
  <2>2. CASE p # "resume_draining"
    BY <1>1, <1>2, <1>3, <1>4, <2>2 DEF FinishInv, Drained
  <2>. QED
    BY <2>1, <2>2
<1>8. Promoted'
  <2>1. CASE p = "repair_pending_readiness"
    <3>. SUFFICES ASSUME workflow.state = "RUNNING", b = {}, NEW t \in Tasks,
                         evaluate_task_readiness(t)
                  PROVE  FALSE
      BY <1>2, <1>3, <2>1 DEF Promoted, evaluate_task_readiness
    <3>1. Found(p) = TasksIn({"PENDING"})
      BY <2>1, Zenon DEF Found
    <3>2. stask[t].state = "PENDING"
      <4>1. Same(t) \/ Settled(t)
        BY DEF BootInv, Overlay
      <4>. QED
        BY <4>1 DEF Same, Settled, evaluate_task_readiness
    <3>3. Found(p) # {}
      BY <3>1, <3>2 DEF TasksIn
    <3>. QED
      BY <3>3, BatchNotEmpty
  <2>2. CASE p # "repair_pending_readiness"
    BY <1>1, <1>2, <1>3, <2>2 DEF FinishInv, Promoted, evaluate_task_readiness
  <2>. QED
    BY <2>1, <2>2
<1>9. Concluded'
  <2>1. VerdictDue' => VerdictDue
    BY <1>2 DEF VerdictDue
  <2>2. CASE p = "repair_terminalization"
    <3>1. Found(p) = TheWorkflow(Draining \cup {"RUNNING"})
      BY <2>2, Zenon DEF Found
    <3>2. VerdictDue => NoItem \in b
      BY <1>6, <3>1 DEF VerdictDue
    <3>. QED
      BY <1>3, <2>1, <2>2, <3>2 DEF Concluded
  <2>3. CASE p # "repair_terminalization"
    BY <1>1, <1>3, <2>1, <2>3 DEF FinishInv, Concluded
  <2>. QED
    BY <2>2, <2>3
<1>. QED
  BY <1>5, <1>7, <1>8, <1>9 DEF FinishInv

\* A phase is over when the calls it made have returned.
LEMMA DoneFinish ==
    ASSUME BootInv, FinishInv, PhaseDone
    PROVE  FinishInv'
<1>1. PICK p \in Phases :
        /\ boot.phase = p /\ boot.read /\ boot.todo = {} /\ \A h \in Handlers : At(h, "idle")
        /\ boot' = [boot EXCEPT !.phase = Following[p], !.read = FALSE]
  BY DEF PhaseDone, InPhase
<1>2. /\ UNCHANGED <<workflow, task, proc>> /\ UNCHANGED <<sworkflow, stask, sattempt>>
      /\ boot \in Boot
  BY BootFacts DEF PhaseDone, vars, srows, BootTypes
<1>3. /\ boot'.phase = Following[p] /\ ~boot'.read
      /\ boot'.direct = boot.direct /\ boot'.pass = boot.pass /\ boot'.mutated = boot.mutated
  BY <1>1, <1>2 DEF Boot
<1>4. p # "serving" /\ Following[p] \notin {"resume_draining", "serving"}
  BY DEF Phases, Following
<1>5. Steady'
  BY <1>1, <1>2, <1>3, <1>4, SameRowsSteady DEF FinishInv
<1>6. Drained'
  <2>1. ASSUME workflow.state \in Draining, NEW t \in Tasks PROVE task[t].state \notin Unstarted
    <3>1. CASE p = "resume_draining"
      <4>1. ASSUME NEW h \in Handlers, WillCancel(h, t) PROVE FALSE
        BY <1>1, <4>1 DEF WillCancel, At
      <4>. QED
        BY <1>1, <2>1, <3>1, <4>1 DEF FinishInv, Drained
    <3>2. CASE p # "resume_draining"
      BY <1>1, <1>4, <2>1, <3>2 DEF FinishInv, Drained
    <3>. QED
      BY <3>1, <3>2
  <2>. QED
    BY <1>2, <1>3, <1>4, <2>1 DEF Drained
<1>7. Promoted'
  <2>. SUFFICES ASSUME workflow.state = "RUNNING",
                       Following[p] \in {"repair_terminalization", "end_pass", "recovered"},
                       NEW t \in Tasks, evaluate_task_readiness(t)
                PROVE  FALSE
    BY <1>2, <1>3 DEF Promoted, evaluate_task_readiness
  <2>1. p \in {"repair_pending_readiness", "repair_terminalization"}
    BY DEF Phases, Following
  <2>2. CASE p = "repair_pending_readiness"
    <3>1. ASSUME NEW h \in Handlers, WillPromote(h, t) PROVE FALSE
      BY <1>1, <3>1 DEF WillPromote, At
    <3>. QED
      BY <1>1, <2>2, <3>1 DEF FinishInv, Promoted
  <2>3. CASE p = "repair_terminalization"
    BY <1>1, <2>3 DEF FinishInv, Promoted
  <2>. QED
    BY <2>1, <2>2, <2>3
<1>8. Concluded'
  <2>1. Following[p] \in {"end_pass", "recovered"} => p = "repair_terminalization"
    BY DEF Phases, Following
  <2>2. p = "repair_terminalization" => ~VerdictDue
    BY <1>1 DEF FinishInv, Concluded
  <2>3. VerdictDue' => VerdictDue
    BY <1>2 DEF VerdictDue
  <2>. QED
    BY <1>3, <2>1, <2>2, <2>3 DEF Concluded
<1>. QED
  BY <1>5, <1>6, <1>7, <1>8 DEF FinishInv

\* The gate opens on committed rows.
LEMMA OpenFinish ==
    ASSUME BootInv, FinishInv, OpenGate
    PROVE  FinishInv'
<1>1. /\ boot.phase = "recovered" /\ boot' = [boot EXCEPT !.phase = "serving"]
      /\ UNCHANGED <<workflow, task>> /\ UNCHANGED <<sworkflow, stask, sattempt>>
      /\ boot \in Boot
  BY BootFacts DEF OpenGate, InPhase, vars, srows, BootTypes
<1>2. /\ boot'.phase = "serving" /\ boot'.direct = boot.direct /\ boot'.pass = boot.pass
      /\ boot'.mutated = boot.mutated
  BY <1>1 DEF Boot
<1>3. Steady'
  BY <1>1, <1>2, SameRowsSteady DEF FinishInv
<1>. QED
  BY <1>2, <1>3 DEF FinishInv, Drained, Promoted, Concluded

\* A handler that was called is where the call begins.
LEMMA CallBegins ==
    ASSUME proc \in [Handlers -> Proc], NEW pc, Call(pc)
    PROVE  \E h \in Handlers : /\ At(h, pc)'
                               /\ \A g \in Handlers \ {h} : proc'[g] = proc[g]
<1>1. PICK h \in Handlers : Goto(h, pc)
  BY DEF Call
<1>2. proc'[h].pc = pc
  BY <1>1, NowAt
<1>3. \A g \in Handlers \ {h} : proc'[g] = proc[g]
  BY <1>1 DEF Goto, Become
<1>. QED
  BY <1>2, <1>3 DEF At

\* The calls of phases 2, 6 and 7.
LEMMA CallsFinish ==
    ASSUME BootInv, FinishInv, \/ _phase_2_resume_draining
                               \/ _phase_6_rediscover_runnable
                               \/ _phase_7_repair_pending_readiness
    PROVE  FinishInv'
<1>1. /\ UNCHANGED <<workflow, task>> /\ UNCHANGED <<sworkflow, stask, sattempt>>
      /\ boot \in Boot /\ proc \in [Handlers -> Proc]
  BY BootFacts DEF _phase_2_resume_draining, _phase_6_rediscover_runnable,
                   _phase_7_repair_pending_readiness, rows, srows, BootTypes
<1>2. /\ boot'.phase = boot.phase /\ boot'.read = boot.read /\ boot'.direct = boot.direct
      /\ boot'.pass = boot.pass /\ boot'.mutated = boot.mutated
  <2>1. (\E i \in boot.todo : boot' = Drop(i)) \/ boot' = [boot EXCEPT !.todo = {}]
    BY DEF _phase_2_resume_draining, _phase_6_rediscover_runnable,
           _phase_7_repair_pending_readiness
  <2>. QED
    BY <1>1, <2>1 DEF Drop, Boot
<1>3. \/ boot.phase = "resume_draining" /\ Call("drain")
      \/ boot.phase = "rediscover_runnable"
      \/ boot.phase = "repair_pending_readiness" /\ Call("advance")
  BY DEF _phase_2_resume_draining, _phase_6_rediscover_runnable,
         _phase_7_repair_pending_readiness, InPhase
<1>4. Steady'
  BY <1>1, <1>2, <1>3, SameRowsSteady DEF FinishInv
<1>5. Drained'
  <2>1. CASE boot.phase = "resume_draining"
    <3>1. sworkflow = workflow /\ \A h \in Handlers : proc[h].pc \in DrainPoints
      BY <2>1 DEF FinishInv, Drained
    <3>2. PICK h \in Handlers : /\ At(h, "drain")'
                                /\ \A g \in Handlers \ {h} : proc'[g] = proc[g]
      BY <1>1, <1>3, <2>1, CallBegins
    <3>3. \A g \in Handlers : proc'[g].pc \in DrainPoints
      BY <3>1, <3>2 DEF At, DrainPoints
    <3>4. \A t \in Tasks : WillCancel(h, t)'
      BY <3>2 DEF WillCancel
    <3>. QED
      BY <1>1, <1>2, <2>1, <3>1, <3>3, <3>4 DEF Drained
  <2>2. CASE boot.phase # "resume_draining"
    BY <1>1, <1>2, <1>3, <2>2 DEF FinishInv, Drained
  <2>. QED
    BY <2>1, <2>2
<1>6. Promoted'
  <2>1. CASE boot.phase = "repair_pending_readiness"
    <3>1. PICK h \in Handlers : At(h, "advance")'
      BY <1>1, <1>3, <2>1, CallBegins
    <3>2. \A t \in Tasks : WillPromote(h, t)'
      BY <3>1 DEF WillPromote
    <3>. QED
      BY <1>2, <2>1, <3>2 DEF Promoted
  <2>2. CASE boot.phase # "repair_pending_readiness"
    BY <1>2, <1>3, <2>2 DEF Promoted
  <2>. QED
    BY <2>1, <2>2
<1>7. Concluded'
  BY <1>2, <1>3 DEF Concluded
<1>. QED
  BY <1>4, <1>5, <1>6, <1>7 DEF FinishInv

\* Phases 3 and 4: an orphan of a draining workflow is failed, and the
\* failure of any other is going to be directed.
LEMMA SettleFinish ==
    ASSUME BootInv, FinishInv, NEW p \in {"settle_claimed", "settle_running"}, SettleOrphan(p)
    PROVE  FinishInv'
<1>1. /\ boot.phase = p /\ boot'.phase = p /\ UNCHANGED rows /\ UNCHANGED vars
      /\ \E i \in boot.todo, j \in Item, running \in BOOLEAN : SettlesOrphan(i, j, running)
  BY OrphanFacts
<1>2. UNCHANGED <<workflow, task>> /\ ~boot.direct
  BY <1>1 DEF vars, SettleOrphan, InPhase
<1>3. PICK i \in boot.todo, j \in Item, running \in BOOLEAN : SettlesOrphan(i, j, running)
  BY <1>1
<1>4. PICK fails \in BOOLEAN : fails = Session!FailsTask(j, running)
  BY DEF Session!FailsTask
<1>5. /\ UNCHANGED sworkflow
      /\ fails => sattempt[j.task][j.ordinal].state \in Active
      /\ \A t \in Tasks : \/ stask'[t] = stask[t]
                          \/ stask'[t].state = "RETRY_WAIT" /\ running
                          \/ stask'[t].state = "FAILED" /\ fails
      /\ \A t \in Tasks, o \in Ordinals : \/ sattempt'[t][o] = sattempt[t][o]
                                          \/ sattempt'[t][o].state = "FAILED"
  BY <1>1, <1>3, <1>4, BootFacts, SessionSettles DEF SettlesOrphan
<1>6. /\ running = (sworkflow.state = "RUNNING")
      /\ boot'.direct = fails /\ boot'.pass = boot.pass
      /\ boot.mutated \/ fails => boot'.mutated
      /\ j.task \in Tasks /\ j.ordinal \in Ordinals
  BY <1>3, <1>4 DEF SettlesOrphan, Allocated, Item
<1>7. Populated /\ FailureIsKnown /\ NotRevived /\ OrphansAtFirst
  BY DEF FinishInv, Steady
<1>8. FailureIsKnown'
  BY <1>2, <1>5, <1>6, <1>7 DEF FailureIsKnown
<1>9. NotRevived'
  <2>. SUFFICES ASSUME workflow.state \in Draining, NEW t \in Tasks,
                       stask'[t].state \in Unstarted
                PROVE  task[t].state \in Unstarted
    BY <1>2 DEF NotRevived
  <2>1. ~running
    BY <1>6, <1>7 DEF FailureIsKnown, Draining
  <2>2. stask'[t] = stask[t]
    BY <1>5, <2>1 DEF Unstarted
  <2>. QED
    BY <1>7, <2>2 DEF NotRevived
<1>10. OrphansAtFirst'
  <2>0. boot.phase # "serving"
    BY <1>1
  <2>1. fails => boot.pass = 1
    BY <1>5, <1>6, <1>7, <2>0 DEF OrphansAtFirst, NoneLeft, Active
  <2>2. NoneLeft("CLAIMED") => NoneLeft("CLAIMED")'
    BY <1>5 DEF NoneLeft
  <2>3. NoneLeft("RUNNING") => NoneLeft("RUNNING")'
    BY <1>5 DEF NoneLeft
  <2>. QED
    BY <1>2, <1>5, <1>6, <1>7, <2>0, <2>1, <2>2, <2>3 DEF OrphansAtFirst
<1>11. Steady'
  BY <1>2, <1>7, <1>8, <1>9, <1>10 DEF Steady, Populated
<1>12. Drained' /\ Promoted' /\ Concluded'
  BY <1>1, <1>2 DEF FinishInv, Drained, Promoted, Concluded
<1>. QED
  BY <1>11, <1>12 DEF FinishInv

\* A direction only touches the session's workflow row.
LEMMA DirectFinish ==
    ASSUME BootInv, FinishInv, DirectOrphan
    PROVE  FinishInv'
<1>1. /\ UNCHANGED <<workflow, task>> /\ UNCHANGED <<stask, sattempt>>
      /\ sworkflow'.state # "RUNNING"
      /\ sworkflow.state \in Draining => sworkflow'.state \in Draining
  BY DEF DirectOrphan, rows, Session!commit_workflow_failure_direction, Session!WorkflowTo,
         Draining
<1>2. boot \in Boot /\ boot.direct /\ boot.phase \in {"settle_claimed", "settle_running"}
  BY BootFacts DEF DirectOrphan, BootTypes, TodoOK
<1>3. /\ boot'.phase = boot.phase /\ ~boot'.direct
      /\ boot'.pass = boot.pass /\ boot'.mutated = boot.mutated
  BY <1>2 DEF DirectOrphan, Boot
<1>4. Steady'
  BY <1>1, <1>2, <1>3 DEF FinishInv, Steady, Populated, FailureIsKnown, NotRevived,
                          OrphansAtFirst, NoneLeft
<1>5. Drained' /\ Promoted' /\ Concluded'
  BY <1>1, <1>2, <1>3 DEF FinishInv, Drained, Promoted, Concluded
<1>. QED
  BY <1>4, <1>5 DEF FinishInv

\* Unstarted and successful tasks are the same in the session and outside it.
LEMMA SameUnlessSettled ==
    ASSUME BootInv, NEW t \in Tasks,
           \/ stask[t].state \notin {"RETRY_WAIT", "FAILED"}
           \/ task[t].state # "RUNNING"
    PROVE  Same(t) /\ stask[t] = task[t]
<1>1. Same(t) \/ Settled(t)
  BY DEF BootInv, Overlay
<1>. QED
  BY <1>1 DEF Same, Settled

\* What the session commits.
LEMMA CommitFinish ==
    ASSUME BootInv, FinishInv, SessionCommit, UNCHANGED sworkflow, ~boot.direct,
           \A t \in Tasks : \/ stask'[t] = stask[t]
                            \/ stask[t].state = "RETRY_WAIT" /\ stask'[t].state = "RUNNABLE"
    PROVE  Populated' /\ FailureIsKnown' /\ NotRevived'
<1>1. workflow' = sworkflow /\ task' = stask' /\ sworkflow' = sworkflow
  BY DEF SessionCommit
<1>2. Populated /\ FailureIsKnown
  BY DEF FinishInv, Steady
<1>3. Populated'
  <2>. SUFFICES ASSUME sworkflow.state # "ABSENT", NEW t \in Tasks, stask'[t].state = "ABSENT"
                PROVE  FALSE
    BY <1>1 DEF Populated
  <2>1. stask[t].state = "ABSENT"
    OBVIOUS
  <2>2. task[t].state = "ABSENT"
    BY <2>1, SameUnlessSettled
  <2>3. workflow.state # "ABSENT"
    BY BootFacts DEF Overlay, Ahead
  <2>. QED
    BY <1>2, <2>2, <2>3 DEF Populated
<1>4. FailureIsKnown'
  <2>1. ASSUME sworkflow.state = "RUNNING", NEW t \in Tasks PROVE stask'[t].state # "FAILED"
    BY <1>2, <2>1 DEF FailureIsKnown
  <2>. QED
    BY <1>1, <2>1 DEF FailureIsKnown
<1>5. NotRevived'
  BY <1>1 DEF NotRevived
<1>. QED
  BY <1>3, <1>4, <1>5

\* Phase 5 commits the session only while the workflow is RUNNING.
LEMMA PromotionFinish ==
    ASSUME BootInv, FinishInv, _phase_5_promote_retry_wait
    PROVE  FinishInv'
<1>1. /\ boot.phase = "promote_retry_wait" /\ boot'.phase = boot.phase
      /\ boot'.direct = boot.direct /\ boot'.pass = boot.pass /\ (boot.mutated => boot'.mutated)
      /\ UNCHANGED sworkflow /\ UNCHANGED sattempt
  BY PromotionFacts
<1>2. CASE UNCHANGED rows /\ UNCHANGED stask
  <2>1. UNCHANGED <<workflow, task>>
    BY <1>2 DEF rows
  <2>2. Steady'
    BY <1>1, <1>2, <2>1, SameRowsSteady DEF FinishInv
  <2>3. Drained' /\ Promoted' /\ Concluded'
    BY <1>1, <2>1 DEF FinishInv, Drained, Promoted, Concluded
  <2>. QED
    BY <2>2, <2>3 DEF FinishInv
<1>3. CASE /\ SessionCommit /\ sworkflow.state = "RUNNING" /\ ~boot.direct
           /\ \A t \in Tasks : stask'[t] = task'[t] => Committed(t)
  <2>1. workflow' = sworkflow /\ task' = stask' /\ sworkflow' = sworkflow
    BY <1>1, <1>3 DEF SessionCommit
  <2>2. \A t \in Tasks : \/ stask'[t] = stask[t]
                         \/ stask[t].state = "RETRY_WAIT" /\ stask'[t].state = "RUNNABLE"
    BY <1>3, <2>1 DEF Committed
  <2>3. Populated' /\ FailureIsKnown' /\ NotRevived'
    BY <1>1, <1>3, <2>2, CommitFinish
  <2>4. OrphansAtFirst'
    BY <1>1, <1>3, <2>1 DEF FinishInv, Steady, OrphansAtFirst, NoneLeft, Draining
  <2>5. Drained' /\ Promoted' /\ Concluded'
    BY <1>1, <1>3, <2>1 DEF Drained, Promoted, Concluded, Draining
  <2>. QED
    BY <2>3, <2>4, <2>5 DEF FinishInv, Steady
<1>. QED
  BY <1>2, <1>3, PromotionFacts

\* When a verdict is due in phase 8, every task is over.
LEMMA DueIsTerminal ==
    ASSUME BootInv, OrphanInv, FinishInv, boot.phase = "repair_terminalization", VerdictDue,
           NEW t \in Tasks
    PROVE  stask[t].state \in Terminal
<1>1. CASE stask[t].state = "SUCCEEDED"
  BY <1>1 DEF Terminal
<1>2. CASE workflow.state \in Draining
  <2>1. task[t].state \notin Unstarted /\ task[t].state # "ABSENT"
    BY <1>2 DEF FinishInv, Drained, Steady, Populated, Draining
  <2>2. stask[t].state \notin Unstarted
    BY <1>2, <2>1 DEF FinishInv, Steady, NotRevived
  <2>3. stask[t].state \in TaskStates
    BY BootFacts DEF SessionTypes, TaskRow
  <2>4. stask[t].state # "ABSENT"
    BY <2>1, SameUnlessSettled
  <2>5. ASSUME stask[t].state = "RUNNING" PROVE FALSE
    <3>1. Same(t) /\ stask[t] = task[t]
      BY <2>5, SameUnlessSettled
    <3>2. TaskOK(t)
      BY DEF BootInv, Durable, KInv, IInv, RowsInv
    <3>3. PICK o \in Ordinals : attempt[t][o].state \in Active
      BY <2>5, <3>1, <3>2 DEF TaskOK
    <3>4. sattempt[t][o].state \in Active
      BY <3>1, <3>3 DEF Same
    <3>5. NoneLeft("CLAIMED") /\ NoneLeft("RUNNING")
      BY DEF OrphanInv, Orphans, PastClaimed, PastRunning
    <3>. QED
      BY <3>4, <3>5 DEF NoneLeft, Active
  <2>. QED
    BY <2>2, <2>3, <2>4, <2>5 DEF TaskStates
<1>. QED
  BY <1>1, <1>2 DEF VerdictDue

\* Phase 8 takes every verdict that is due.
LEMMA TerminalFinish ==
    ASSUME BootInv, OrphanInv, FinishInv, _phase_8_repair_terminalization
    PROVE  FinishInv'
<1>1. /\ boot.phase = "repair_terminalization" /\ ~boot.direct
      /\ UNCHANGED <<workflow, task>>
  BY DEF _phase_8_repair_terminalization, InPhase, rows
<1>2. PICK i \in boot.todo : /\ boot' = Drop(i) \/ boot' = [Drop(i) EXCEPT !.mutated = TRUE]
                             /\ IF Session!AllTasks(Terminal)
                                THEN CloseDrained \/ DirectFailed \/ CloseSucceeded
                                ELSE UNCHANGED srows
  BY DEF _phase_8_repair_terminalization
<1>3. /\ boot'.phase = boot.phase /\ boot'.direct = boot.direct /\ boot'.pass = boot.pass
      /\ boot.mutated => boot'.mutated
  <2>1. PICK d \in Boot : d = Drop(i)
    BY DropFacts
  <2>2. /\ boot'.phase = d.phase /\ boot'.direct = d.direct /\ boot'.pass = d.pass
        /\ d.mutated => boot'.mutated
    BY <1>2, <2>1 DEF Boot
  <2>. QED
    BY <2>1, <2>2, DropFacts
<1>4. ~DirectFailed
  BY <1>1 DEF DirectFailed, FinishInv, Steady, FailureIsKnown
<1>5. UNCHANGED <<stask, sattempt>>
  BY <1>2, <1>4 DEF CloseDrained, CloseSucceeded, Session!commit_workflow_failure,
                    Session!commit_workflow_cancellation, Session!commit_workflow_success, srows
<1>6. sworkflow'.state \in Terminal \/ (UNCHANGED sworkflow /\ ~VerdictDue)
  <2>1. \A s : Session!WorkflowTo(s).state = s
    BY DEF Session!WorkflowTo
  <2>2. CASE Session!AllTasks(Terminal) /\ CloseDrained
    <3>1. \A t \in Tasks : stask[t].state \in Session!Terminal
      BY <2>2 DEF Session!AllTasks, Session!Terminal, Terminal
    <3>. QED
      BY <2>1, <2>2, <3>1 DEF CloseDrained, Session!commit_workflow_failure,
                      Session!commit_workflow_cancellation, Session!AllTasks,
                      Terminal, Draining
  <2>3. CASE Session!AllTasks(Terminal) /\ CloseSucceeded
    BY <2>1, <2>3 DEF CloseSucceeded, Session!commit_workflow_success, Session!AllTasks, Terminal
  <2>4. CASE ~Session!AllTasks(Terminal)
    <3>1. ~VerdictDue
      BY <1>1, <2>4, DueIsTerminal DEF Session!AllTasks
    <3>. QED
      BY <1>2, <2>4, <3>1 DEF srows
  <2>. QED
    BY <1>2, <1>4, <2>2, <2>3, <2>4
<1>7. ~VerdictDue'
  BY <1>1, <1>5, <1>6 DEF VerdictDue, Terminal, Draining
<1>8. Steady'
  BY <1>1, <1>3, <1>5, <1>6 DEF FinishInv, Steady, Populated, FailureIsKnown, NotRevived,
                                OrphansAtFirst, NoneLeft, Terminal, Draining
<1>9. Drained' /\ Promoted' /\ Concluded'
  BY <1>1, <1>3, <1>7 DEF FinishInv, Drained, Promoted, Concluded, evaluate_task_readiness
<1>. QED
  BY <1>8, <1>9 DEF FinishInv

\* What is committed at the end of the last pass is finished.
LEMMA EndFinish ==
    ASSUME BootInv, OrphanInv, FinishInv, MaxPasses >= 2, EndPass
    PROVE  FinishInv'
<1>1. /\ boot.phase = "end_pass" /\ ~boot.direct
      /\ workflow' = sworkflow /\ task' = stask
      /\ UNCHANGED <<sworkflow, stask, sattempt>> /\ UNCHANGED proc
      /\ \A h \in Handlers : proc[h].pc = "idle"
      /\ SessionCommit
  BY DEF EndPass, InPhase, At, SessionCommit, srows
<1>2. /\ boot'.phase \in {"resume_draining", "recovered"} /\ ~boot'.direct /\ ~boot'.read
      /\ boot'.phase = "recovered" => ~(boot.mutated /\ boot.pass < MaxPasses)
  BY EndPassFacts
<1>3. Populated' /\ FailureIsKnown' /\ NotRevived'
  BY <1>1, CommitFinish
<1>4. OrphansAtFirst'
  <2>1. NoneLeft("CLAIMED") /\ NoneLeft("RUNNING")
    BY <1>1 DEF OrphanInv, Orphans, PastClaimed, PastRunning
  <2>. QED
    BY <1>1, <1>2, <2>1 DEF OrphansAtFirst, NoneLeft
<1>5. ~VerdictDue
  BY <1>1 DEF FinishInv, Concluded
<1>6. ASSUME boot'.phase = "recovered" PROVE sworkflow.state \notin Draining
  <2>. SUFFICES ASSUME sworkflow.state \in Draining PROVE FALSE
    OBVIOUS
  <2>1. workflow.state \notin Draining
    BY <1>5 DEF VerdictDue
  <2>2. boot.mutated /\ boot.pass = 1
    BY <1>1, <2>1 DEF FinishInv, Steady, OrphansAtFirst
  <2>. QED
    BY <1>2, <1>6, <2>2, RecoveryAssumption DEF RecoveryAssumption
<1>7. Drained'
  BY <1>1, <1>2, <1>6 DEF Drained, DrainPoints
<1>8. Promoted'
  <2>. SUFFICES ASSUME sworkflow.state = "RUNNING", NEW t \in Tasks,
                       evaluate_task_readiness(t)'
                PROVE  FALSE
    BY <1>1, <1>2 DEF Promoted
  <2>1. workflow.state = "RUNNING"
    BY DEF FinishInv, Steady, FailureIsKnown
  <2>2. ~evaluate_task_readiness(t)
    BY <1>1, <2>1 DEF FinishInv, Promoted
  <2>3. stask[t].state = "PENDING" /\ \A d \in Deps[t] : d \in Tasks /\ stask[d].state = "SUCCEEDED"
    BY <1>1, StoreAssumption DEF evaluate_task_readiness, StoreAssumption
  <2>4. task[t].state = "PENDING" /\ \A d \in Deps[t] : task[d].state = "SUCCEEDED"
    BY <2>3, SameUnlessSettled
  <2>. QED
    BY <1>1, <2>1, <2>2, <2>3, <2>4 DEF evaluate_task_readiness
<1>9. Concluded'
  BY <1>1, <1>2, <1>5, <1>6 DEF Concluded, VerdictDue
<1>. QED
  BY <1>3, <1>4, <1>7, <1>8, <1>9 DEF FinishInv, Steady

-----------------------------------------------------------------------------
(***************************************************************************)
(* The whole.                                                              *)
(***************************************************************************)
LEMMA FinishStarts == RecoveryInit => FinishInv
<1>. SUFFICES ASSUME RecoveryInit PROVE FinishInv
  OBVIOUS
<1>1. boot.phase = "serving"
  BY DEF RecoveryInit, FirstPass
<1>2. workflow.state = "ABSENT" /\ sworkflow = workflow
  BY DEF RecoveryInit, Init, StoreInit
<1>3. Steady
  BY <1>1, <1>2 DEF Steady, Populated, FailureIsKnown, NotRevived, OrphansAtFirst, Draining
<1>. QED
  BY <1>1, <1>3 DEF FinishInv, Drained, Promoted, Concluded

LEMMA FinishKeeps ==
    ASSUME MaxPasses >= 2, BootInv, OrphanInv, FinishInv, [RecoveryNext]_rvars
    PROVE  FinishInv'
<1>1. BootInv' /\ Alone
  BY RecoveryKeeps DEF StepOK, OrphanInv
<1>2. CASE \/ Scheduler \/ BootClock
  <2>1. boot.phase # "serving"
    BY <1>2 DEF Scheduler, BootClock
  <2>. QED
    BY <1>1, <1>2, <2>1, ClockKinds, BootMovesFinish
<1>3. CASE UNCHANGED rvars
  <2>1. CASE boot.phase # "serving"
    BY <1>1, <1>3, <2>1, BootMovesFinish
  <2>2. CASE boot.phase = "serving"
    <3>1. UNCHANGED <<workflow, task, sworkflow, stask, boot>>
      BY <1>3 DEF rvars, vars, bootVars
    <3>2. Steady'
      BY <2>2, <3>1 DEF FinishInv, Steady, Populated, FailureIsKnown, NotRevived, OrphansAtFirst
    <3>. QED
      BY <2>2, <3>1, <3>2 DEF FinishInv, Drained, Promoted, Concluded
  <2>. QED
    BY <2>1, <2>2
<1>4. CASE Serving(NextDeployed) \/ Crash
  BY <1>1, <1>4, ServingFinish, CrashFinish
<1>5. CASE PhaseRead \/ PhaseDone \/ OpenGate
  BY <1>5, ReadFinish, DoneFinish, OpenFinish
<1>6. CASE \/ _phase_2_resume_draining \/ _phase_6_rediscover_runnable
           \/ _phase_7_repair_pending_readiness
  BY <1>6, CallsFinish
<1>7. CASE _phase_3_settle_claimed_attempts \/ _phase_4_settle_running_attempts
  BY <1>7, SettleFinish DEF _phase_3_settle_claimed_attempts, _phase_4_settle_running_attempts
<1>8. CASE \/ DirectOrphan \/ _phase_5_promote_retry_wait
           \/ _phase_8_repair_terminalization \/ EndPass
  BY <1>8, DirectFinish, PromotionFinish, TerminalFinish, EndFinish
<1>. QED
  BY <1>2, <1>3, <1>4, <1>5, <1>6, <1>7, <1>8 DEF RecoveryNext, Recover

(***************************************************************************)
(* Wherever the process crashed and however often it crashes again, when   *)
(* recovery is complete no workflow is draining, none whose tasks all      *)
(* SUCCEEDED is without its verdict, and a RUNNING workflow has no failed  *)
(* task and no ready task in PENDING.                                      *)
(*                                                                         *)
(* The orphans must fit into one scan, as for OrphansReconciled, and there *)
(* must be a second pass: a workflow that the first one directs has been   *)
(* passed by phase 2 already, and its verdict is the next pass's.  Two are *)
(* enough, because the next pass finds no orphan.  The settings' default   *)
(* is ten.                                                                 *)
(***************************************************************************)
THEOREM InterruptedIsFinished ==
    ASSUME Cardinality(Tasks) <= BatchSize, MaxPasses >= 2
    PROVE  RecoverySpec => []InterruptedWorkIsFinished
<1>1. RecoveryInit => OrphanInv /\ FinishInv
  BY OrphansStart, FinishStarts
<1>2. BootInv /\ OrphanInv /\ FinishInv /\ [RecoveryNext]_rvars => OrphanInv' /\ FinishInv'
  BY OrphansKeep, FinishKeeps
<1>3. BootInv /\ FinishInv => InterruptedWorkIsFinished
  <2>. SUFFICES ASSUME BootInv, FinishInv, boot.phase = "recovered"
                PROVE  /\ workflow.state \notin Draining
                       /\ workflow.state = "RUNNING" =>
                            /\ ~AllTasks({"SUCCEEDED"})
                            /\ \A t \in Tasks :
                                 task[t].state # "FAILED" /\ ~evaluate_task_readiness(t)
    BY DEF InterruptedWorkIsFinished
  <2>1. sworkflow = workflow /\ stask = task
    BY BootFacts DEF Quiet, srows, rows
  <2>2. ~VerdictDue
    BY DEF FinishInv, Concluded
  <2>3. workflow.state \notin Draining /\ (workflow.state = "RUNNING" => ~AllTasks({"SUCCEEDED"}))
    BY <2>1, <2>2 DEF VerdictDue, AllTasks
  <2>4. ASSUME workflow.state = "RUNNING", NEW t \in Tasks
        PROVE  task[t].state # "FAILED" /\ ~evaluate_task_readiness(t)
    BY <2>4 DEF FinishInv, Steady, FailureIsKnown, Promoted
  <2>. QED
    BY <2>3, <2>4
<1>. QED
  BY <1>1, <1>2, <1>3, RecoveryInvariance, PTL DEF RecoverySpec
=============================================================================
