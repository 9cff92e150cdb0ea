---------------------------- MODULE OutcomeProofs ----------------------------
(***************************************************************************)
(* What the moves of the rows add up to: the history of the attempts of a  *)
(* task, the order in which tasks run, and the verdict of the workflow.    *)
(* Each of the three is inductive beside KInv, because the moves say what  *)
(* is true of the rows at the commit and not at the read before it.  And   *)
(* the control plane implements TaskLifecycle: each move of the rows is a  *)
(* step of the lifecycle, or invisible to it.                              *)
(***************************************************************************)
EXTENDS FinalityProofs

\* OutcomesAgree for one task.
Agrees(t) ==
    /\ \A o \in Ordinals :
         /\ o > LastOrdinal(t) <=> attempt[t][o].state = "ABSENT"
         /\ o < LastOrdinal(t) => attempt[t][o].state = "FAILED"
    /\ \A o \in Ordinals : o = LastOrdinal(t) =>
         /\ task[t].state = "SUCCEEDED" <=> attempt[t][o].state = "SUCCEEDED"
         /\ task[t].state \in {"FAILED", "RETRY_WAIT"} => attempt[t][o].state = "FAILED"
         /\ attempt[t][o].state = "CANCELLED" => task[t].state = "CANCELLED"
    /\ task[t].state \in {"SUCCEEDED", "FAILED", "RETRY_WAIT"} => LastOrdinal(t) >= 1

\* A task none of whose rows changes state keeps its history.
LEMMA AgreesStays ==
    ASSUME NEW t \in Tasks, Agrees(t),
           task'[t].state = task[t].state,
           task'[t].next_attempt_ordinal = task[t].next_attempt_ordinal,
           \A o \in Ordinals : attempt'[t][o].state = attempt[t][o].state
    PROVE  Agrees(t)'
BY DEF Agrees, LastOrdinal

\* What TaskOK says of the ordinals, in terms of LastOrdinal.
LEMMA OrdinalFacts ==
    ASSUME RowsInv, NEW t \in Tasks
    PROVE  /\ LastOrdinal(t) \in Nat
           /\ task[t].next_attempt_ordinal = LastOrdinal(t) + 1
           /\ \A o \in Ordinals : o \in Nat /\ o >= 1
           /\ \A o \in Ordinals : attempt[t][o].state \in AttemptStates
           /\ \A o \in Ordinals : attempt[t][o].state = "ABSENT" <=> o > LastOrdinal(t)
           /\ \A o \in Ordinals : attempt[t][o].state \in Active =>
                task[t].state = "RUNNING" /\ o = LastOrdinal(t)
<1>1. TaskOK(t) /\ task[t] \in TaskRow
  BY DEF RowsInv, RowsOK
<1>2. task[t].next_attempt_ordinal \in Nat /\ task[t].next_attempt_ordinal >= 1
  BY <1>1, StoreAssumption DEF TaskOK, TaskRow, StoreAssumption
<1>3. \A o \in Ordinals : o \in Nat /\ o >= 1
  BY DEF Ordinals
<1>4. \A o \in Ordinals : attempt[t][o].state \in AttemptStates
  BY DEF RowsInv, RowsOK, AttemptRow
<1>. QED
  BY <1>1, <1>2, <1>3, <1>4 DEF TaskOK, LastOrdinal

\* A task that is released or drained never ran to an end.
LEMMA ReleaseAgrees ==
    ASSUME RowsInv, NEW t \in Tasks, ReleaseMove(t) \/ DrainMove(t), Agrees(t)
    PROVE  Agrees(t)'
<1>1. RowsOK
  BY DEF RowsInv
<1>. QED
  BY <1>1, OrdinalFacts, ReleaseFacts DEF Agrees, LastOrdinal, Unstarted

\* A claim leaves only failed attempts behind.
LEMMA ClaimAgrees ==
    ASSUME RowsInv, NEW t \in Tasks, NEW o \in Ordinals, NEW s \in Sessions,
           ClaimMove(t, o, s), Agrees(t)
    PROVE  Agrees(t)'
<1>1. task[t].state = "RUNNABLE" /\ o = LastOrdinal(t) + 1
  BY OrdinalFacts DEF ClaimMove
<1>2. LastOrdinal(t)' = o /\ o \in Nat
  BY ClaimFacts, OrdinalFacts DEF LastOrdinal
<1>3. task'[t].state = "RUNNING" /\ attempt'[t][o].state = "CLAIMED"
  <2>1. task'[t].state = "RUNNING" /\ attempt'[t][o] = ClaimedBy(s)
    BY ClaimFacts
  <2>2. ClaimedBy(s).state = "CLAIMED"
    BY DEF ClaimedBy
  <2>. QED
    BY <2>1, <2>2
<1>4. ASSUME NEW p \in Ordinals, p < o PROVE attempt'[t][p].state = "FAILED"
  <2>1. attempt'[t][p] = attempt[t][p]
    BY <1>4, ClaimFacts, OrdinalFacts
  <2>2. attempt[t][p].state = "FAILED"
    <3>1. CASE p < LastOrdinal(t)
      BY <3>1 DEF Agrees
    <3>2. CASE p = LastOrdinal(t)
      <4>1. attempt[t][p].state \in AttemptStates \ ({"ABSENT"} \cup Active)
        BY <1>1, <3>2, OrdinalFacts
      <4>2. attempt[t][p].state \notin {"SUCCEEDED", "CANCELLED"}
        BY <1>1, <3>2 DEF Agrees
      <4>. QED
        BY <4>1, <4>2 DEF AttemptStates, Terminal
    <3>. QED
      BY <1>1, <1>4, <3>1, <3>2, OrdinalFacts
  <2>. QED
    BY <2>1, <2>2
<1>5. ASSUME NEW p \in Ordinals PROVE p > o <=> attempt'[t][p].state = "ABSENT"
  <2>1. CASE p = o
    BY <1>2, <1>3, <2>1
  <2>2. CASE p # o
    <3>1. attempt'[t][p] = attempt[t][p]
      BY <2>2, ClaimFacts
    <3>. QED
      BY <1>1, <2>2, <3>1, OrdinalFacts
  <2>. QED
    BY <2>1, <2>2
<1>. QED
  BY <1>2, <1>3, <1>4, <1>5 DEF Agrees

\* A settlement writes the same outcome to both rows.
LEMMA SettleAgrees ==
    ASSUME RowsInv, NEW i \in Item, NEW s \in Terminal, NEW u \in TaskStates,
           NEW timer \in Timers, SettleMove(i, s, u, timer), Agrees(i.task)
    PROVE  Agrees(i.task)'
<1>. DEFINE t == i.task
<1>1. RowsOK
  BY DEF RowsInv
<1>2. t \in Tasks /\ i.ordinal \in Ordinals
  BY <1>1, SettleFacts
<1>3. i.ordinal = LastOrdinal(t) /\ i.ordinal >= 1 /\ LastOrdinal(t)' = LastOrdinal(t)
  BY <1>1, <1>2, OrdinalFacts, SettleFacts DEF SettleMove, LastOrdinal
<1>4. /\ attempt'[t][i.ordinal].state = s
      /\ task'[t].state = u
      /\ \A o \in Ordinals : o # i.ordinal => attempt'[t][o] = attempt[t][o]
  BY <1>1, <1>2, SettleFacts
<1>5. \/ s = "SUCCEEDED" /\ u = "SUCCEEDED"
      \/ s = "FAILED" /\ u \in {"FAILED", "RETRY_WAIT"}
      \/ s = "CANCELLED" /\ u = "CANCELLED"
  BY DEF SettleMove, Settles
<1>. HIDE DEF t
<1>. QED
  BY <1>2, <1>3, <1>4, <1>5, OrdinalFacts DEF Agrees, t

\* Every move keeps the history of every task.
LEMMA MovesAgree ==
    ASSUME IInv, OutcomesAgree, RowMove
    PROVE  OutcomesAgree'
<1>1. RowsInv /\ RowsOK
  BY DEF IInv, RowsInv
<1>2. \A t \in Tasks : Agrees(t)
  BY DEF OutcomesAgree, Agrees
<1>3. SUFFICES ASSUME NEW v \in Tasks PROVE Agrees(v)'
  BY DEF OutcomesAgree, Agrees
<1>4. Agrees(v)
  BY <1>2
<1>5. CASE UNCHANGED rows
  BY <1>4, <1>5, AgreesStays DEF rows
<1>6. CASE WorkflowMove
  BY <1>4, <1>6, AgreesStays DEF WorkflowMove
<1>7. CASE workflow.state = "ABSENT" /\ commit_initialization
  <2>1. task[v].state = "ABSENT" /\ task[v].next_attempt_ordinal = 1
    BY <1>1, <1>7 DEF RowsInv, NothingBeforeStart
  <2>2. /\ task'[v].state = "PENDING" /\ task'[v].next_attempt_ordinal = 1
        /\ UNCHANGED attempt
    BY <1>7 DEF commit_initialization
  <2>. QED
    BY <1>4, <2>1, <2>2 DEF Agrees, LastOrdinal
<1>8. ASSUME NEW t \in Tasks, ReleaseMove(t) \/ DrainMove(t) PROVE Agrees(v)'
  <2>1. CASE v = t
    BY <1>1, <1>4, <1>8, <2>1, ReleaseAgrees
  <2>2. CASE v # t
    BY <1>1, <1>4, <1>8, <2>2, ReleaseFacts, AgreesStays
  <2>. QED
    BY <2>1, <2>2
<1>9. ASSUME NEW t \in Tasks, NEW o \in Ordinals, NEW s \in Sessions, ClaimMove(t, o, s)
      PROVE  Agrees(v)'
  <2>1. CASE v = t
    BY <1>1, <1>4, <1>9, <2>1, ClaimAgrees
  <2>2. CASE v # t
    BY <1>1, <1>4, <1>9, <2>2, ClaimFacts, AgreesStays
  <2>. QED
    BY <2>1, <2>2
<1>10. ASSUME NEW i \in Item, NEW s \in Terminal, NEW u \in TaskStates,
              NEW timer \in Timers, SettleMove(i, s, u, timer)
       PROVE  Agrees(v)'
  <2>1. CASE v = i.task
    BY <1>1, <1>4, <1>10, <2>1, SettleAgrees
  <2>2. CASE v # i.task
    BY <1>1, <1>4, <1>10, <2>2, SettleFacts, AgreesStays
  <2>. QED
    BY <2>1, <2>2
<1>11. ASSUME NEW i \in Item, StartMove(i) PROVE Agrees(v)'
  <2>1. UNCHANGED task /\ attempt[i.task][i.ordinal].state \in Active
    BY <1>11 DEF StartMove
  <2>2. ASSUME NEW o \in Ordinals
        PROVE  \/ attempt'[v][o].state = attempt[v][o].state
               \/ attempt[v][o].state \in Active /\ attempt'[v][o].state \in Active
    BY <1>1, <1>11, <2>1, StartFacts DEF Active
  <2>. QED
    BY <1>4, <2>1, <2>2 DEF Agrees, LastOrdinal, Active
<1>12. CASE AttemptTimerMove
  BY <1>4, <1>12, AgreesStays DEF AttemptTimerMove
<1>13. ASSUME NEW t \in Tasks, RetryFallsDue(t) PROVE Agrees(v)'
  BY <1>1, <1>4, <1>13, RetryFallsDueFacts, AgreesStays
<1>. QED
  BY <1>5, <1>6, <1>7, <1>8, <1>9, <1>10, <1>11, <1>12, <1>13 DEF RowMove

\* At the start there is nothing to tell.
LEMMA InitAgrees == Init => OutcomesAgree
<1>. SUFFICES ASSUME Init PROVE OutcomesAgree
  OBVIOUS
<1>1. \A o \in Ordinals : o \in Nat /\ o >= 1
  BY DEF Ordinals
<1>2. ASSUME NEW t \in Tasks PROVE LastOrdinal(t) = 0 /\ task[t].state = "ABSENT"
  BY DEF Init, StoreInit, LastOrdinal
<1>3. ASSUME NEW t \in Tasks, NEW o \in Ordinals PROVE attempt[t][o].state = "ABSENT"
  BY DEF Init, StoreInit, NoAttempt
<1>. QED
  BY <1>1, <1>2, <1>3 DEF OutcomesAgree

(***************************************************************************)
(* The attempts of a task tell one story, for every graph, budget and      *)
(* number of handlers: no gap in the ordinals, every attempt before the    *)
(* latest FAILED, and the outcome of the latest is the outcome of the      *)
(* task, although callbacks and sweeps settle what they read earlier.      *)
(***************************************************************************)
THEOREM OneStory == Spec => []OutcomesAgree
<1>1. KInv /\ OutcomesAgree /\ [Next]_vars => OutcomesAgree'
  BY NextKnows, MovesAgree DEF KInv
<1>. QED
  BY <1>1, InitAgrees, KnowledgeHolds, PTL DEF Spec

-----------------------------------------------------------------------------
(***************************************************************************)
(* Dependencies first.                                                     *)
(***************************************************************************)
\* The states a task reaches only after its dependencies.
Beyond(s) == s \notin {"ABSENT", "PENDING", "CANCELLED"}

\* A task enters those states by a release, or is in them already.
LEMMA MovesRelease ==
    ASSUME IInv, RowMove, NEW t \in Tasks, Beyond(task'[t].state)
    PROVE  Beyond(task[t].state) \/ DependenciesDone(t)
<1>1. RowsInv /\ RowsOK
  BY DEF IInv, RowsInv
<1>2. CASE UNCHANGED rows \/ WorkflowMove \/ AttemptTimerMove \/ \E i \in Item : StartMove(i)
  <2>1. UNCHANGED task
    BY <1>2 DEF rows, WorkflowMove, AttemptTimerMove, StartMove
  <2>. QED
    BY <2>1
<1>3. CASE commit_initialization
  BY <1>3 DEF commit_initialization, Beyond
<1>4. ASSUME NEW u \in Tasks, ReleaseMove(u) \/ DrainMove(u)
      PROVE  Beyond(task[t].state) \/ DependenciesDone(t)
  <2>1. CASE u # t
    BY <1>1, <1>4, <2>1, ReleaseFacts
  <2>2. CASE u = t
    <3>1. ReleaseMove(t)
      BY <1>1, <1>4, <2>2, ReleaseFacts DEF Beyond
    <3>. QED
      BY <3>1 DEF ReleaseMove, Beyond
  <2>. QED
    BY <2>1, <2>2
<1>5. ASSUME NEW u \in Tasks, NEW o \in Ordinals, NEW s \in Sessions, ClaimMove(u, o, s)
      PROVE  Beyond(task[t].state)
  <2>1. CASE u = t
    BY <1>5, <2>1 DEF ClaimMove, Beyond
  <2>2. CASE u # t
    <3>1. task'[t] = task[t]
      BY <1>1, <1>5, <2>2, ClaimFacts
    <3>. QED
      BY <3>1
  <2>. QED
    BY <2>1, <2>2
<1>6. ASSUME NEW i \in Item, NEW s \in Terminal, NEW u \in TaskStates,
             NEW timer \in Timers, SettleMove(i, s, u, timer)
      PROVE  Beyond(task[t].state)
  BY <1>1, <1>6, SettleFacts DEF SettleMove, Beyond
<1>7. ASSUME NEW u \in Tasks, RetryFallsDue(u) PROVE Beyond(task[t].state)
  BY <1>1, <1>7, RetryFallsDueFacts
<1>. QED
  BY <1>2, <1>3, <1>4, <1>5, <1>6, <1>7 DEF RowMove

(***************************************************************************)
(* A task leaves PENDING towards execution only after all its direct       *)
(* dependencies SUCCEEDED, in every graph, although readiness is evaluated *)
(* on rows read several awaits before the commit.                          *)
(***************************************************************************)
THEOREM Precedence == Spec => []DependenciesFirst
<1>1. Init => DependenciesFirst
  BY DEF Init, StoreInit, DependenciesFirst
<1>2. KInv /\ DependenciesFirst /\ [Next]_vars => DependenciesFirst'
  <2>. SUFFICES ASSUME KInv, DependenciesFirst, [Next]_vars PROVE DependenciesFirst'
    OBVIOUS
  <2>1. IInv /\ RowMove /\ TerminalStep
    BY NextKnows DEF KInv
  <2>2. ASSUME NEW t \in Tasks, Beyond(task'[t].state), NEW d \in Deps[t]
        PROVE  task'[d].state = "SUCCEEDED"
    <3>1. d \in Tasks
      BY StoreAssumption DEF StoreAssumption
    <3>2. task[d].state = "SUCCEEDED"
      BY <2>1, <2>2, MovesRelease DEF DependenciesFirst, DependenciesDone, Beyond
    <3>. QED
      BY <2>1, <3>1, <3>2 DEF TerminalStep, Terminal
  <2>. QED
    BY <2>2 DEF DependenciesFirst, Beyond
<1>. QED
  BY <1>1, <1>2, KnowledgeHolds, PTL DEF Spec

-----------------------------------------------------------------------------
(***************************************************************************)
(* The verdict.                                                            *)
(***************************************************************************)
\* VerdictMatchesTasks without the attempts, which ExclusiveOwnership covers.
Verdicts ==
    /\ workflow.state = "SUCCEEDED" => \A t \in Tasks : task[t].state = "SUCCEEDED"
    /\ workflow.state \in Terminal => \A t \in Tasks : task[t].state \in Terminal
    /\ workflow.state \in {"FAILING", "FAILED"} => \E t \in Tasks : task[t].state = "FAILED"

\* How a move changes the state of the workflow.
LEMMA MovesDirect ==
    ASSUME IInv, RowMove
    PROVE  \/ workflow'.state = workflow.state
           \/ workflow'.state \in {"RUNNING", "CANCELLING"}
           \/ workflow'.state = "FAILING" /\ \E t \in Tasks : task'[t].state = "FAILED"
           \/ WorkflowMove
<1>1. RowsInv /\ RowsOK
  BY DEF IInv, RowsInv
<1>2. CASE UNCHANGED workflow
  BY <1>2
<1>3. CASE commit_initialization
  BY <1>3 DEF commit_initialization
<1>4. ASSUME NEW i \in Item, NEW s \in Terminal, NEW u \in TaskStates,
             NEW timer \in Timers, SettleMove(i, s, u, timer)
      PROVE  \/ workflow'.state = workflow.state
             \/ workflow'.state = "FAILING" /\ \E t \in Tasks : task'[t].state = "FAILED"
  BY <1>1, <1>4, SettleFacts DEF SettleMove, Settles
<1>5. ASSUME NEW t \in Tasks, NEW o \in Ordinals, NEW s \in Sessions, ClaimMove(t, o, s)
      PROVE  UNCHANGED workflow
  BY <1>5 DEF ClaimMove
<1>6. ASSUME NEW t \in Tasks, ReleaseMove(t) \/ DrainMove(t) \/ RetryFallsDue(t)
      PROVE  UNCHANGED workflow
  BY <1>6 DEF ReleaseMove, DrainMove, RetryFallsDue
<1>7. CASE UNCHANGED rows \/ AttemptTimerMove \/ \E i \in Item : StartMove(i)
  BY <1>7 DEF rows, AttemptTimerMove, StartMove
<1>. QED
  BY <1>2, <1>3, <1>4, <1>5, <1>6, <1>7 DEF RowMove

\* Every step keeps the verdict in line with the tasks.
LEMMA VerdictsStay == KInv /\ Verdicts /\ [Next]_vars => Verdicts'
<1>. SUFFICES ASSUME KInv, Verdicts, [Next]_vars PROVE Verdicts'
  OBVIOUS
<1>1. IInv /\ RowMove /\ TerminalStep
  BY NextKnows DEF KInv
<1>2. \A t \in Tasks : task[t].state \in Terminal => task'[t].state = task[t].state
  BY <1>1 DEF TerminalStep
<1>3. CASE WorkflowMove
  BY <1>2, <1>3 DEF WorkflowMove, Verdicts, AllTasks, Terminal
<1>4. CASE workflow'.state = workflow.state
  BY <1>2, <1>4 DEF Verdicts, Terminal
<1>5. CASE \/ workflow'.state \in {"RUNNING", "CANCELLING"}
           \/ workflow'.state = "FAILING" /\ \E t \in Tasks : task'[t].state = "FAILED"
  BY <1>5 DEF Verdicts, Terminal
<1>. QED
  BY <1>1, <1>3, <1>4, <1>5, MovesDirect

\* The verdict is in line with the tasks throughout.
LEMMA VerdictsHold == Spec => []Verdicts
<1>1. Init => Verdicts
  BY DEF Init, StoreInit, Verdicts, Terminal
<1>. QED
  BY <1>1, VerdictsStay, KnowledgeHolds, PTL DEF Spec

\* No active attempt belongs to a terminal task.
LEMMA VerdictParts == IInv /\ Verdicts => VerdictMatchesTasks
<1>. SUFFICES ASSUME IInv, Verdicts PROVE VerdictMatchesTasks
  OBVIOUS
<1>1. ASSUME NEW t \in Tasks, task[t].state \in Terminal PROVE ~HasActiveAttempt(t)
  <2>1. TaskOK(t)
    BY DEF IInv, RowsInv
  <2>. QED
    BY <1>1, <2>1 DEF TaskOK, HasActiveAttempt, Terminal
<1>. QED
  BY <1>1 DEF Verdicts, VerdictMatchesTasks, AllTasks

(***************************************************************************)
(* The verdict of the workflow matches its tasks, whoever reaches it and   *)
(* on whatever reads: SUCCEEDED only when all tasks did, FAILED and        *)
(* CANCELLED only when every task is terminal and no attempt is active,    *)
(* FAILING and FAILED only with a failed task.                             *)
(***************************************************************************)
THEOREM VerdictIsTrue == Spec => []VerdictMatchesTasks
BY VerdictParts, VerdictsHold, Invariance, PTL

-----------------------------------------------------------------------------
(***************************************************************************)
(* The refinement of TaskLifecycle.                                        *)
(***************************************************************************)
\* An active attempt belongs to a session.
Owners ==
    \A t \in Tasks, o \in Ordinals :
        attempt[t][o].state \in Active => attempt[t][o].worker_session_id \in Sessions

\* What the simulation needs to know of the rows.
LInv == RowsInv /\ Verdicts /\ Owners

-----------------------------------------------------------------------------
(***************************************************************************)
(* The owner of a task, and when it is the same in the next state.         *)
(***************************************************************************)
OwnerKnown ==
    \A t \in Tasks :
        /\ ~HasActiveAttempt(t) => ActiveOwner(t) = NoSession
        /\ \A o \in Ordinals : attempt[t][o].state \in Active =>
             ActiveOwner(t) = attempt[t][o].worker_session_id

\* The CHOOSE of ActiveOwner has one candidate.
LEMMA OwnerFacts == RowsInv => OwnerKnown
<1>. SUFFICES ASSUME RowsInv, NEW t \in Tasks
              PROVE  /\ ~HasActiveAttempt(t) => ActiveOwner(t) = NoSession
                     /\ \A o \in Ordinals : attempt[t][o].state \in Active =>
                          ActiveOwner(t) = attempt[t][o].worker_session_id
  BY DEF OwnerKnown
<1>1. ~HasActiveAttempt(t) => ActiveOwner(t) = NoSession
  BY DEF ActiveOwner
<1>2. ASSUME NEW o \in Ordinals, attempt[t][o].state \in Active
      PROVE  ActiveOwner(t) = attempt[t][o].worker_session_id
  <2>. DEFINE c == CHOOSE p \in Ordinals : attempt[t][p].state \in Active
  <2>1. c \in Ordinals /\ attempt[t][c].state \in Active
    BY <1>2
  <2>2. ActiveOwner(t) = attempt[t][c].worker_session_id
    BY <1>2 DEF ActiveOwner, HasActiveAttempt
  <2>. HIDE DEF c
  <2>3. c = o
    BY <1>2, <2>1 DEF RowsInv, TaskOK
  <2>. QED
    BY <2>2, <2>3
<1>. QED
  BY <1>1, <1>2

\* The owner after a step, from the attempts after the step.
LEMMA OwnerNext ==
    ASSUME RowsInv', NEW t \in Tasks
    PROVE  /\ (\A o \in Ordinals : attempt'[t][o].state \notin Active) =>
                ActiveOwner(t)' = NoSession
           /\ \A o \in Ordinals : attempt'[t][o].state \in Active =>
                ActiveOwner(t)' = attempt'[t][o].worker_session_id
<1>1. OwnerKnown'
  <2>1. (RowsInv => OwnerKnown)'
    BY OwnerFacts, PTL
  <2>. QED
    BY <2>1
<1>. QED
  BY <1>1 DEF HasActiveAttempt, OwnerKnown

\* A step that leaves the states and sessions of the attempts leaves the owner.
LEMMA OwnerStays ==
    ASSUME RowsInv, RowsInv', NEW t \in Tasks,
           \A o \in Ordinals :
               /\ attempt'[t][o].state \in Active <=> attempt[t][o].state \in Active
               /\ attempt'[t][o].worker_session_id = attempt[t][o].worker_session_id
    PROVE  ActiveOwner(t)' = ActiveOwner(t)
<1>1. CASE HasActiveAttempt(t)
  <2>1. PICK o \in Ordinals : attempt[t][o].state \in Active
    BY <1>1 DEF HasActiveAttempt
  <2>2. ActiveOwner(t) = attempt[t][o].worker_session_id
    BY <2>1, OwnerFacts DEF OwnerKnown
  <2>3. ActiveOwner(t)' = attempt'[t][o].worker_session_id
    BY <2>1, OwnerNext
  <2>. QED
    BY <2>2, <2>3
<1>2. CASE ~HasActiveAttempt(t)
  <2>1. ActiveOwner(t) = NoSession
    BY <1>2, OwnerFacts DEF OwnerKnown
  <2>2. ActiveOwner(t)' = NoSession
    BY <1>2, OwnerNext DEF HasActiveAttempt
  <2>. QED
    BY <2>1, <2>2
<1>. QED
  BY <1>1, <1>2

\* A workflow with a live task has started and has no verdict.
LEMMA LiveWorkflow ==
    ASSUME LInv, NEW t \in Tasks, task[t].state \notin Terminal \cup {"ABSENT"}
    PROVE  workflow.state \in {"RUNNING"} \cup Draining
<1>1. workflow.state \in WorkflowStates
  BY DEF LInv, RowsInv, RowsOK, WorkflowRow
<1>2. workflow.state # "ABSENT"
  BY DEF LInv, RowsInv, NothingBeforeStart
<1>3. workflow.state \notin Terminal
  BY DEF LInv, Verdicts
<1>. QED
  BY <1>1, <1>2, <1>3 DEF WorkflowStates, Terminal

-----------------------------------------------------------------------------
(***************************************************************************)
(* Each move as a step of the lifecycle.                                   *)
(***************************************************************************)
\* What the lifecycle sees of the rows does not change.
Unseen(t) ==
    /\ task'[t].state = task[t].state
    /\ LastOrdinal(t)' = LastOrdinal(t)
    /\ ActiveOwner(t)' = ActiveOwner(t)

\* A step that changes nothing the lifecycle sees is a stutter of it.
LEMMA UnseenStep ==
    ASSUME workflow'.state = workflow.state, \A t \in Tasks : Unseen(t)
    PROVE  UNCHANGED Lifecycle!vars
BY DEF Unseen, Lifecycle!vars

\* Directions and verdicts.
LEMMA WorkflowMoveSteps ==
    ASSUME LInv, RowsInv', WorkflowMove
    PROVE  Lifecycle!Next
<1>1. ASSUME NEW t \in Tasks PROVE Unseen(t)
  BY <1>1, OwnerStays DEF LInv, WorkflowMove, Unseen, LastOrdinal
<1>2. /\ [t \in Tasks |-> task'[t].state] = [t \in Tasks |-> task[t].state]
      /\ [t \in Tasks |-> LastOrdinal(t)'] = [t \in Tasks |-> LastOrdinal(t)]
      /\ [t \in Tasks |-> ActiveOwner(t)'] = [t \in Tasks |-> ActiveOwner(t)]
  BY <1>1 DEF Unseen
<1>3. Lifecycle!Direct \/ Lifecycle!Verdict
  BY <1>2 DEF WorkflowMove, AllTasks, Terminal, Lifecycle!Direct, Lifecycle!Verdict,
              Lifecycle!All, Lifecycle!Terminal
<1>. QED
  BY <1>3 DEF Lifecycle!Next

\* The start of the execution.
LEMMA InitializationSteps ==
    ASSUME LInv, RowsInv', workflow.state = "ABSENT", commit_initialization
    PROVE  Lifecycle!Next
<1>1. ASSUME NEW t \in Tasks
      PROVE  /\ task'[t].state = "PENDING"
             /\ LastOrdinal(t)' = LastOrdinal(t)
             /\ ActiveOwner(t)' = ActiveOwner(t)
  <2>1. task[t].next_attempt_ordinal = 1
    BY DEF LInv, RowsInv, NothingBeforeStart
  <2>2. task'[t].state = "PENDING" /\ task'[t].next_attempt_ordinal = 1
    BY DEF commit_initialization
  <2>3. ActiveOwner(t)' = ActiveOwner(t)
    BY OwnerStays DEF LInv, commit_initialization
  <2>. QED
    BY <2>1, <2>2, <2>3 DEF LastOrdinal
<1>2. workflow'.state = "RUNNING"
  BY DEF commit_initialization
<1>3. Lifecycle!Start
  BY <1>1, <1>2 DEF Lifecycle!Start
<1>. QED
  BY <1>3 DEF Lifecycle!Next

\* Releases and drains.
LEMMA ReleaseMoveSteps ==
    ASSUME LInv, RowsInv', NEW t \in Tasks, ReleaseMove(t) \/ DrainMove(t)
    PROVE  Lifecycle!Next
<1>1. RowsInv /\ RowsOK
  BY DEF LInv, RowsInv
<1>2. workflow'.state = workflow.state
  BY <1>1, ReleaseFacts
<1>3. ASSUME NEW v \in Tasks
      PROVE  /\ v # t => task'[v].state = task[v].state
             /\ LastOrdinal(v)' = LastOrdinal(v)
             /\ ActiveOwner(v)' = ActiveOwner(v)
  <2>1. ActiveOwner(v)' = ActiveOwner(v)
    BY <1>1, ReleaseFacts, OwnerStays
  <2>2. task'[v].next_attempt_ordinal = task[v].next_attempt_ordinal
    BY <1>1, ReleaseFacts
  <2>3. v # t => task'[v].state = task[v].state
    BY <1>1, ReleaseFacts
  <2>. QED
    BY <2>1, <2>2, <2>3 DEF LastOrdinal
<1>4. workflow.state \in {"RUNNING"} \cup Draining
  BY <1>1, ReleaseFacts, LiveWorkflow DEF Unstarted, Terminal
<1>5. CASE ReleaseMove(t)
  <2>1. task'[t].state = "RUNNABLE"
    BY <1>1, <1>5, ReleaseFacts
  <2>2. \A d \in Deps[t] : d \in Tasks
    BY StoreAssumption DEF StoreAssumption
  <2>3. Lifecycle!Release(t)
    BY <1>2, <1>3, <1>4, <1>5, <2>1, <2>2
       DEF ReleaseMove, DependenciesDone, Draining, Lifecycle!Release, Lifecycle!Draining
  <2>. QED
    BY <2>3 DEF Lifecycle!Next
<1>6. CASE DrainMove(t) /\ ~ReleaseMove(t)
  <2>1. task'[t].state = "CANCELLED"
    BY <1>1, <1>6, ReleaseFacts
  <2>2. Lifecycle!CancelUnstarted(t)
    BY <1>2, <1>3, <1>6, <2>1
       DEF DrainMove, Draining, Unstarted, Lifecycle!CancelUnstarted, Lifecycle!Draining,
           Lifecycle!Unstarted
  <2>. QED
    BY <2>2 DEF Lifecycle!Next
<1>. QED
  BY <1>5, <1>6

\* The allocation of an ordinal.
LEMMA ClaimMoveSteps ==
    ASSUME LInv, RowsInv', NEW t \in Tasks, NEW o \in Ordinals, NEW s \in Sessions,
           ClaimMove(t, o, s)
    PROVE  Lifecycle!Next
<1>1. RowsInv /\ RowsOK /\ TaskOK(t)
  BY DEF LInv, RowsInv
<1>2. workflow'.state = workflow.state /\ task[t].state = "RUNNABLE"
  BY DEF ClaimMove
<1>3. workflow.state \in {"RUNNING"} \cup Draining
  BY <1>2, LiveWorkflow DEF Terminal
<1>4. LastOrdinal(t) \in Nat /\ o = LastOrdinal(t) + 1 /\ LastOrdinal(t) < MaxAttempts[t]
  <2>1. o <= MaxAttempts[t]
    BY <1>1 DEF ClaimMove, TaskOK, Unstarted
  <2>2. MaxAttempts[t] \in Nat
    BY StoreAssumption DEF StoreAssumption
  <2>. QED
    BY <1>1, <2>1, <2>2, OrdinalFacts DEF ClaimMove
<1>5. /\ task'[t].state = "RUNNING"
      /\ LastOrdinal(t)' = LastOrdinal(t) + 1
      /\ ActiveOwner(t)' = s
  <2>1. task'[t].state = "RUNNING" /\ task'[t].next_attempt_ordinal = o + 1
    BY <1>1, ClaimFacts
  <2>2. LastOrdinal(t)' = LastOrdinal(t) + 1
    BY <1>4, <2>1 DEF LastOrdinal
  <2>3. attempt'[t][o] = ClaimedBy(s)
    BY <1>1, ClaimFacts
  <2>4. attempt'[t][o].state \in Active /\ attempt'[t][o].worker_session_id = s
    BY <2>3 DEF ClaimedBy, Active
  <2>5. ActiveOwner(t)' = s
    BY <2>4, OwnerNext
  <2>. QED
    BY <2>1, <2>2, <2>5
<1>6. ASSUME NEW v \in Tasks, v # t PROVE Unseen(v)
  <2>1. task'[v] = task[v] /\ \A p \in Ordinals : attempt'[v][p] = attempt[v][p]
    BY <1>1, <1>6, ClaimFacts
  <2>2. ActiveOwner(v)' = ActiveOwner(v)
    BY <1>1, <2>1, OwnerStays
  <2>. QED
    BY <2>1, <2>2 DEF Unseen, LastOrdinal
<1>7. Lifecycle!Claim(t, s)
  BY <1>2, <1>3, <1>4, <1>5, <1>6 DEF Unseen, Draining, Lifecycle!Claim, Lifecycle!Draining
<1>. QED
  BY <1>7 DEF Lifecycle!Next

\* The settlement of an attempt.
LEMMA SettleMoveSteps ==
    ASSUME LInv, RowsInv', NEW i \in Item, NEW s \in Terminal, NEW u \in TaskStates,
           NEW timer \in Timers, SettleMove(i, s, u, timer)
    PROVE  Lifecycle!Next
<1>1. RowsInv /\ RowsOK
  BY DEF LInv, RowsInv
<1>2. PICK t \in Tasks, o \in Ordinals : t = i.task /\ o = i.ordinal
  BY <1>1, SettleFacts
<1>3. attempt[t][o].state \in Active /\ task[t].state = "RUNNING"
  BY <1>2 DEF SettleMove
<1>4. workflow.state \in {"RUNNING"} \cup Draining
  BY <1>3, LiveWorkflow DEF Terminal
<1>5. ActiveOwner(t) # NoSession
  <2>1. ActiveOwner(t) = attempt[t][o].worker_session_id
    BY <1>1, <1>3, OwnerFacts DEF OwnerKnown
  <2>2. attempt[t][o].worker_session_id \in Sessions
    BY <1>3 DEF LInv, Owners
  <2>. QED
    BY <2>1, <2>2, StoreAssumption DEF StoreAssumption
<1>6. /\ task'[t].state = u
      /\ LastOrdinal(t)' = LastOrdinal(t)
      /\ ActiveOwner(t)' = NoSession
  <2>1. /\ task'[t].state = u
        /\ task'[t].next_attempt_ordinal = task[t].next_attempt_ordinal
    BY <1>1, <1>2, SettleFacts
  <2>2. ASSUME NEW p \in Ordinals PROVE attempt'[t][p].state \notin Active
    <3>1. CASE p = o
      <4>1. attempt'[t][o].state = s
        BY <1>1, <1>2, SettleFacts
      <4>. QED
        BY <3>1, <4>1 DEF Active, Terminal
    <3>2. CASE p # o
      <4>1. attempt'[t][p] = attempt[t][p]
        BY <1>1, <1>2, <3>2, SettleFacts
      <4>. QED
        BY <1>1, <1>3, <3>2, <4>1, OrdinalFacts
    <3>. QED
      BY <3>1, <3>2
  <2>3. ActiveOwner(t)' = NoSession
    BY <2>2, OwnerNext
  <2>. QED
    BY <2>1, <2>3 DEF LastOrdinal
<1>7. ASSUME NEW v \in Tasks, v # t PROVE Unseen(v)
  <2>1. task'[v] = task[v] /\ \A p \in Ordinals : attempt'[v][p] = attempt[v][p]
    BY <1>1, <1>2, <1>7, SettleFacts
  <2>2. ActiveOwner(v)' = ActiveOwner(v)
    BY <1>1, <2>1, OwnerStays
  <2>. QED
    BY <2>1, <2>2 DEF Unseen, LastOrdinal
<1>8. \/ u = "SUCCEEDED" /\ workflow'.state = workflow.state
      \/ /\ u = "RETRY_WAIT" /\ workflow'.state = workflow.state
         /\ LastOrdinal(t) < MaxAttempts[t]
      \/ /\ u = "FAILED"
         /\ \/ workflow'.state = workflow.state
            \/ workflow.state = "RUNNING" /\ workflow'.state = "FAILING"
      \/ /\ u = "CANCELLED" /\ workflow'.state = workflow.state
         /\ workflow.state \in Draining
  <2>1. MaxAttempts[t] \in Nat /\ task[t].next_attempt_ordinal \in Nat
    BY <1>1, StoreAssumption DEF StoreAssumption, RowsOK, TaskRow
  <2>2. BudgetRemains(t) => LastOrdinal(t) < MaxAttempts[t]
    BY <2>1 DEF BudgetRemains, LastOrdinal
  <2>. QED
    BY <1>2, <2>2 DEF SettleMove, Settles
<1>9. Lifecycle!End(t)
  BY <1>3, <1>4, <1>5, <1>6, <1>7, <1>8
     DEF Unseen, Draining, Lifecycle!End, Lifecycle!Draining
<1>. QED
  BY <1>9 DEF Lifecycle!Next

\* Starts and clocks are invisible.
LEMMA OtherMovesStutter ==
    ASSUME LInv, RowsInv',
           \/ UNCHANGED rows
           \/ AttemptTimerMove
           \/ \E i \in Item : StartMove(i)
           \/ \E t \in Tasks : RetryFallsDue(t)
    PROVE  UNCHANGED Lifecycle!vars
<1>1. RowsInv /\ RowsOK
  BY DEF LInv, RowsInv
<1>2. CASE UNCHANGED rows
  <2>1. UNCHANGED <<workflow, task, attempt>>
    BY <1>2 DEF rows
  <2>2. \A t \in Tasks : Unseen(t)
    BY <1>1, <2>1, OwnerStays DEF Unseen, LastOrdinal
  <2>. QED
    BY <2>1, <2>2, UnseenStep
<1>3. CASE AttemptTimerMove
  <2>1. \A t \in Tasks : Unseen(t)
    BY <1>1, <1>3, OwnerStays DEF AttemptTimerMove, Unseen, LastOrdinal
  <2>. QED
    BY <1>3, <2>1, UnseenStep DEF AttemptTimerMove
<1>4. ASSUME NEW i \in Item, StartMove(i) PROVE UNCHANGED Lifecycle!vars
  <2>1. UNCHANGED <<workflow, task>>
    BY <1>4 DEF StartMove
  <2>2. ASSUME NEW t \in Tasks PROVE Unseen(t)
    <3>1. ASSUME NEW o \in Ordinals
          PROVE  /\ attempt'[t][o].state \in Active <=> attempt[t][o].state \in Active
                 /\ attempt'[t][o].worker_session_id = attempt[t][o].worker_session_id
      BY <1>1, <1>4, StartFacts DEF Active
    <3>2. ActiveOwner(t)' = ActiveOwner(t)
      BY <1>1, <3>1, OwnerStays
    <3>. QED
      BY <2>1, <3>2 DEF Unseen, LastOrdinal
  <2>. QED
    BY <2>1, <2>2, UnseenStep
<1>5. ASSUME NEW u \in Tasks, RetryFallsDue(u) PROVE UNCHANGED Lifecycle!vars
  <2>1. UNCHANGED <<workflow, attempt>>
    BY <1>1, <1>5, RetryFallsDueFacts
  <2>2. ASSUME NEW t \in Tasks PROVE Unseen(t)
    <3>1. /\ task'[t].state = task[t].state
          /\ task'[t].next_attempt_ordinal = task[t].next_attempt_ordinal
      BY <1>1, <1>5, RetryFallsDueFacts
    <3>2. ActiveOwner(t)' = ActiveOwner(t)
      BY <1>1, <2>1, OwnerStays
    <3>. QED
      BY <3>1, <3>2 DEF Unseen, LastOrdinal
  <2>. QED
    BY <2>1, <2>2, UnseenStep
<1>. QED
  BY <1>2, <1>3, <1>4, <1>5

\* Every move, seen as the lifecycle sees it.
LEMMA MovesSimulate ==
    ASSUME LInv, RowsInv', RowMove
    PROVE  [Lifecycle!Next]_Lifecycle!vars
BY WorkflowMoveSteps, InitializationSteps, ReleaseMoveSteps, ClaimMoveSteps,
   SettleMoveSteps, OtherMovesStutter DEF RowMove

-----------------------------------------------------------------------------
(***************************************************************************)
(* Sessions are written by claims only.                                    *)
(***************************************************************************)
LEMMA OwnersStay ==
    ASSUME RowsInv, Owners, RowMove
    PROVE  Owners'
<1>1. RowsOK
  BY DEF RowsInv
<1>2. CASE UNCHANGED attempt
  BY <1>2 DEF Owners
<1>3. ASSUME NEW t \in Tasks, NEW o \in Ordinals, NEW s \in Sessions, ClaimMove(t, o, s)
      PROVE  Owners'
  <2>1. ClaimedBy(s).worker_session_id = s
    BY DEF ClaimedBy
  <2>. QED
    BY <1>3, <2>1, ClaimFacts DEF Owners
<1>4. ASSUME NEW i \in Item, NEW s \in Terminal, NEW u \in TaskStates,
             NEW timer \in Timers, SettleMove(i, s, u, timer)
      PROVE  Owners'
  BY <1>1, <1>4, SettleFacts DEF Owners, Active, Terminal
<1>5. ASSUME NEW i \in Item, StartMove(i) PROVE Owners'
  BY <1>1, <1>5, StartFacts DEF Owners
<1>6. CASE AttemptTimerMove
  BY <1>6 DEF AttemptTimerMove, Owners
<1>7. ASSUME NEW t \in Tasks, ReleaseMove(t) \/ DrainMove(t) \/ RetryFallsDue(t)
      PROVE  UNCHANGED attempt
  BY <1>7 DEF ReleaseMove, DrainMove, RetryFallsDue
<1>8. CASE UNCHANGED rows \/ WorkflowMove \/ commit_initialization
  BY <1>2, <1>8 DEF rows, WorkflowMove, commit_initialization
<1>. QED
  BY <1>2, <1>3, <1>4, <1>5, <1>6, <1>7, <1>8 DEF RowMove

\* Active attempts have owners throughout.
LEMMA OwnersHold == Spec => []Owners
<1>1. Init => Owners
  BY DEF Init, StoreInit, NoAttempt, Owners, Active
<1>2. KInv /\ Owners /\ [Next]_vars => Owners'
  BY NextKnows, OwnersStay DEF KInv, IInv
<1>. QED
  BY <1>1, <1>2, KnowledgeHolds, PTL DEF Spec

\* The first state of the control plane is the first state of the lifecycle.
LEMMA InitSimulates == Init => Lifecycle!Init
<1>. SUFFICES ASSUME Init PROVE Lifecycle!Init
  OBVIOUS
<1>1. workflow.state = "ABSENT"
  BY DEF Init, StoreInit
<1>2. ASSUME NEW t \in Tasks
      PROVE  task[t].state = "ABSENT" /\ LastOrdinal(t) = 0
  BY DEF Init, StoreInit, LastOrdinal
<1>3. ASSUME NEW t \in Tasks PROVE ActiveOwner(t) = NoSession
  BY DEF Init, StoreInit, NoAttempt, ActiveOwner, HasActiveAttempt, Active
<1>. QED
  BY <1>1, <1>2, <1>3 DEF Lifecycle!Init

(***************************************************************************)
(* The control plane, whose handlers decide on rows they read earlier and  *)
(* commit transaction by transaction, implements the lifecycle whose every *)
(* step is decided on the current state, for all graphs and budgets and    *)
(* any number of handlers and sessions.                                    *)
(***************************************************************************)
THEOREM Refinement == Spec => ImplementsLifecycle
<1>1. KInv /\ KInv' /\ Verdicts /\ Owners /\ [Next]_vars
        => [Lifecycle!Next]_Lifecycle!vars
  BY NextKnows, MovesSimulate DEF KInv, IInv, LInv
<1>. QED
  BY <1>1, InitSimulates, KnowledgeHolds, VerdictsHold, OwnersHold, PTL
     DEF Spec, ImplementsLifecycle, Lifecycle!Spec

=============================================================================
