------------------------- MODULE ControlPlaneProofs -------------------------
(***************************************************************************)
(* Proofs about the control plane, for every workflow graph, retry budget, *)
(* set of sessions and number of concurrent handlers.                      *)
(*                                                                         *)
(* The inductive invariant says what makes the two-row settlements safe:   *)
(* whatever a handler has read of an attempt, as long as that attempt is   *)
(* active the task row still has the revision the handler read.            *)
(***************************************************************************)
EXTENDS ControlPlaneProps, TLAPS

RowsOK ==
    /\ workflow \in WorkflowRow
    /\ task \in [Tasks -> TaskRow]
    /\ attempt \in [Tasks -> [Ordinals -> AttemptRow]]

\* Control points at which a handler works on the item it holds.
HoldsItem == Settling \cup {"promote_commit", "claim"}

\* Item i names an attempt that exists.
Allocated(i) ==
    /\ i.ordinal \in Ordinals
    /\ i.ordinal < task[i.task].next_attempt_ordinal

\* ... and nobody has moved the task since, unless the attempt is over.
Fresh(i) ==
    /\ Allocated(i)
    /\ attempt[i.task][i.ordinal].state \in Active => i.trev = task[i.task].revision

ProcOK(p) ==
    /\ p.pc \in HoldsItem => p.item \in Item
    /\ p.pc \in Settling => Fresh(p.item)
    /\ p.pc \in {"notify", "expire"} => \A i \in p.todo : Allocated(i)

TaskOK(t) ==
    /\ task[t].next_attempt_ordinal \in 1..(MaxAttempts[t] + 1)
    /\ task[t].state \in Unstarted => task[t].next_attempt_ordinal <= MaxAttempts[t]
    /\ task[t].state = "RUNNING" =>
         /\ task[t].next_attempt_ordinal - 1 \in Ordinals
         /\ attempt[t][task[t].next_attempt_ordinal - 1].state \in Active
    /\ \A o \in Ordinals :
         /\ attempt[t][o].state = "ABSENT" <=> o >= task[t].next_attempt_ordinal
         /\ attempt[t][o].state \in Active =>
              task[t].state = "RUNNING" /\ o = task[t].next_attempt_ordinal - 1

NothingBeforeStart ==
    workflow.state = "ABSENT" =>
        \A t \in Tasks : task[t].state = "ABSENT" /\ task[t].next_attempt_ordinal = 1

RowsInv ==
    /\ RowsOK
    /\ NothingBeforeStart
    /\ \A t \in Tasks : TaskOK(t)

\* The inductive invariant.
IInv ==
    /\ RowsInv
    /\ worker \in [Sessions -> WorkerStates]
    /\ proc \in [Handlers -> Proc]
    /\ \A h \in Handlers : ProcOK(proc[h])

\* The rows change in a way every handler in flight can live with.
RowStep ==
    /\ RowsInv'
    /\ \A i \in Item : (Fresh(i) => Fresh(i)') /\ (Allocated(i) => Allocated(i)')

-----------------------------------------------------------------------------
(***************************************************************************)
(* What the row updates return.                                            *)
(***************************************************************************)
LEMMA TaskToFacts ==
    ASSUME RowsOK, NEW t \in Tasks, NEW s \in TaskStates, NEW timer \in Timers
    PROVE  /\ TaskTo(t, s, timer) \in [Tasks -> TaskRow]
           /\ TaskTo(t, s, timer)[t].state = s
           /\ TaskTo(t, s, timer)[t].revision = task[t].revision + 1
           /\ TaskTo(t, s, timer)[t].next_attempt_ordinal = task[t].next_attempt_ordinal
           /\ TaskTo(t, s, timer)[t].retry_ready_at = timer
           /\ \A u \in Tasks \ {t} : TaskTo(t, s, timer)[u] = task[u]
<1>1. task[t] \in TaskRow
  BY DEF RowsOK
<1>2. PICK n \in Nat : n = task[t].revision + 1
  BY <1>1 DEF TaskRow
<1>3. PICK row \in TaskRow :
        row = [task[t] EXCEPT !.state = s, !.revision = n, !.retry_ready_at = timer]
  BY <1>1 DEF TaskRow
<1>4. TaskTo(t, s, timer) = [task EXCEPT ![t] = row]
  BY <1>2, <1>3 DEF RowsOK, TaskTo
<1>5. /\ row.state = s
      /\ row.revision = n
      /\ row.next_attempt_ordinal = task[t].next_attempt_ordinal
      /\ row.retry_ready_at = timer
  BY <1>1, <1>3 DEF TaskRow
<1>. QED
  BY <1>2, <1>4, <1>5 DEF RowsOK

\* An attempt UPDATE changes one attempt row.
LEMMA AttemptToFacts ==
    ASSUME RowsOK, NEW i \in Item, i.ordinal \in Ordinals, NEW s \in AttemptStates
    PROVE  /\ AttemptTo(i, s) \in [Tasks -> [Ordinals -> AttemptRow]]
           /\ AttemptTo(i, s)[i.task][i.ordinal].state = s
           /\ \A u \in Tasks, o \in Ordinals :
                u # i.task \/ o # i.ordinal => AttemptTo(i, s)[u][o] = attempt[u][o]
<1>1. PICK t \in Tasks : t = i.task
  BY DEF Item
<1>2. PICK o \in Ordinals : o = i.ordinal
  OBVIOUS
<1>3. attempt[t][o] \in AttemptRow
  BY DEF RowsOK
<1>4. PICK n \in Nat : n = attempt[t][o].revision + 1
  BY <1>3 DEF AttemptRow
<1>5. PICK row \in AttemptRow :
        row = [attempt[t][o] EXCEPT !.state = s, !.revision = n]
  BY <1>3 DEF AttemptRow
<1>6. AttemptTo(i, s) = [attempt EXCEPT ![t][o] = row]
  BY <1>1, <1>2, <1>4, <1>5 DEF RowsOK, AttemptTo
<1>7. row.state = s
  BY <1>3, <1>5 DEF AttemptRow
<1>. QED
  BY <1>1, <1>2, <1>6, <1>7 DEF RowsOK

\* A workflow UPDATE returns a workflow row in the new state.
LEMMA WorkflowToFacts ==
    ASSUME RowsOK, NEW s \in WorkflowStates
    PROVE  WorkflowTo(s) \in WorkflowRow /\ WorkflowTo(s).state = s
BY DEF RowsOK, WorkflowTo, WorkflowRow

-----------------------------------------------------------------------------
(***************************************************************************)
(* The ways the rows can change.                                           *)
(***************************************************************************)
LEMMA SameRows ==
    ASSUME RowsInv, UNCHANGED rows
    PROVE  RowStep
BY DEF RowStep, RowsInv, RowsOK, NothingBeforeStart, TaskOK, Fresh, Allocated, rows

\* Readiness, an overdue retry, the drain of an unstarted task.
LEMMA UnstartedMoves ==
    ASSUME RowsInv, NEW t \in Tasks, NEW s \in {"RUNNABLE", "CANCELLED"},
           task[t].state \in Unstarted,
           task' = TaskTo(t, s, "none"), UNCHANGED <<workflow, attempt>>
    PROVE  RowStep
<1>1. /\ RowsOK
      /\ s \in TaskStates
      /\ "none" \in Timers
  BY DEF RowsInv, TaskStates, Unstarted, Terminal, Timers
<1>2. /\ task' \in [Tasks -> TaskRow]
      /\ task'[t].state = s
      /\ task'[t].next_attempt_ordinal = task[t].next_attempt_ordinal
      /\ \A u \in Tasks \ {t} : task'[u] = task[u]
  BY <1>1, TaskToFacts
<1>3. RowsOK'
  BY <1>1, <1>2 DEF RowsOK
<1>4. NothingBeforeStart'
  BY DEF RowsInv, NothingBeforeStart, Unstarted
<1>5. ASSUME NEW u \in Tasks PROVE TaskOK(u)'
  <2>1. TaskOK(u) /\ TaskOK(t)
    BY DEF RowsInv
  <2>. QED
    BY <1>2, <2>1 DEF TaskOK, Unstarted
<1>6. ASSUME NEW i \in Item
      PROVE  (Fresh(i) => Fresh(i)') /\ (Allocated(i) => Allocated(i)')
  <2>1. i.task \in Tasks
    BY DEF Item
  <2>2. TaskOK(t)
    BY DEF RowsInv
  <2>. QED
    BY <1>2, <2>1, <2>2 DEF Fresh, Allocated, TaskOK, Unstarted
<1>. QED
  BY <1>3, <1>4, <1>5, <1>6 DEF RowStep, RowsInv

\* The task and its active attempt are settled together.
LEMMA AttemptSettles ==
    ASSUME RowsInv, NEW i \in Item, Allocated(i),
           NEW s \in Terminal, NEW u \in Terminal \cup {"RETRY_WAIT"},
           NEW timer \in Timers,
           attempt[i.task][i.ordinal].state \in Active,
           u = "RETRY_WAIT" => BudgetRemains(i.task),
           attempt' = AttemptTo(i, s), task' = TaskTo(i.task, u, timer),
           workflow' \in WorkflowRow, workflow'.state # "ABSENT"
    PROVE  RowStep
<1>1. /\ RowsOK
      /\ i.task \in Tasks
      /\ i.ordinal \in Ordinals
      /\ s \in AttemptStates
      /\ u \in TaskStates
  BY DEF RowsInv, Item, Allocated, AttemptStates, TaskStates, Unstarted
<1>2. /\ task' \in [Tasks -> TaskRow]
      /\ task'[i.task].state = u
      /\ task'[i.task].next_attempt_ordinal = task[i.task].next_attempt_ordinal
      /\ \A v \in Tasks \ {i.task} : task'[v] = task[v]
  BY <1>1, TaskToFacts
<1>3. /\ attempt' \in [Tasks -> [Ordinals -> AttemptRow]]
      /\ attempt'[i.task][i.ordinal].state = s
      /\ \A v \in Tasks, o \in Ordinals :
           v # i.task \/ o # i.ordinal => attempt'[v][o] = attempt[v][o]
  BY <1>1, AttemptToFacts
<1>4. RowsOK'
  BY <1>2, <1>3 DEF RowsOK
<1>5. NothingBeforeStart'
  BY DEF NothingBeforeStart
<1>6. TaskOK(i.task)
  BY <1>1 DEF RowsInv
<1>7. ASSUME NEW v \in Tasks PROVE TaskOK(v)'
  <2>1. CASE v = i.task
    BY <1>1, <1>2, <1>3, <1>6, <2>1
       DEF TaskOK, Active, Terminal, Unstarted, BudgetRemains, Allocated
  <2>2. CASE v # i.task
    <3>1. TaskOK(v)
      BY DEF RowsInv
    <3>. QED
      BY <1>2, <1>3, <2>2, <3>1 DEF TaskOK
  <2>. QED
    BY <2>1, <2>2
<1>8. ASSUME NEW j \in Item
      PROVE  (Fresh(j) => Fresh(j)') /\ (Allocated(j) => Allocated(j)')
  <2>1. j.task \in Tasks
    BY DEF Item
  <2>. QED
    BY <1>1, <1>2, <1>3, <1>6, <2>1 DEF Fresh, Allocated, TaskOK, Active, Terminal
<1>. QED
  BY <1>4, <1>5, <1>7, <1>8 DEF RowStep, RowsInv

\* Dispatch: the next ordinal is allocated and its attempt claimed.
LEMMA TaskIsClaimed ==
    ASSUME StoreAssumption, RowsInv, NEW i \in Item, commit_attempt_ownership(i)
    PROVE  RowStep
<1>. DEFINE t == i.task
            o == task[t].next_attempt_ordinal
<1>1. t \in Tasks /\ RowsOK /\ TaskOK(t)
  BY DEF RowsInv, Item
<1>2. CASE ~(TaskIs(i, {"RUNNABLE"}) /\ ~HasActiveAttempt(t))
  BY <1>2, SameRows DEF commit_attempt_ownership, rows
<1>3. CASE TaskIs(i, {"RUNNABLE"}) /\ ~HasActiveAttempt(t)
  <2>1. /\ task' = [task EXCEPT ![t].state = "RUNNING",
                                ![t].revision = @ + 1,
                                ![t].next_attempt_ordinal = @ + 1]
        /\ attempt' = [attempt EXCEPT ![t][o] = ClaimedBy(i.who)]
        /\ workflow' = workflow
    BY <1>3 DEF commit_attempt_ownership
  <2>2. /\ task[t].state = "RUNNABLE"
        /\ \A p \in Ordinals : attempt[t][p].state \notin Active
    BY <1>3 DEF TaskIs, HasActiveAttempt
  <2>3. /\ o \in Ordinals
        /\ o <= MaxAttempts[t]
        /\ MaxAttempts[t] \in Nat
    BY <1>1, <2>2 DEF StoreAssumption, TaskOK, Unstarted, Ordinals
  <2>4. task[t] \in TaskRow
    BY <1>1 DEF RowsOK
  <2>5. PICK n \in Nat, m \in Nat : n = task[t].revision + 1 /\ m = o + 1
    BY <2>3, <2>4 DEF TaskRow, Ordinals
  <2>6. PICK row \in TaskRow :
          row = [task[t] EXCEPT !.state = "RUNNING", !.revision = n,
                                !.next_attempt_ordinal = m]
    BY <2>4 DEF TaskRow, TaskStates
  <2>7. task' = [task EXCEPT ![t] = row]
    BY <1>1, <2>1, <2>5, <2>6 DEF RowsOK
  <2>8. row.state = "RUNNING" /\ row.next_attempt_ordinal = o + 1
    BY <2>4, <2>5, <2>6 DEF TaskRow
  <2>9. ClaimedBy(i.who) \in AttemptRow /\ ClaimedBy(i.who).state = "CLAIMED"
    BY DEF ClaimedBy, AttemptRow, AttemptStates, Active, Timers, Item
  <2>10. /\ attempt' \in [Tasks -> [Ordinals -> AttemptRow]]
         /\ attempt'[t][o].state = "CLAIMED"
         /\ \A u \in Tasks, p \in Ordinals :
              u # t \/ p # o => attempt'[u][p] = attempt[u][p]
    BY <1>1, <2>1, <2>3, <2>9 DEF RowsOK
  <2>11. /\ task' \in [Tasks -> TaskRow]
         /\ task'[t].state = "RUNNING"
         /\ task'[t].next_attempt_ordinal = o + 1
         /\ \A u \in Tasks \ {t} : task'[u] = task[u]
    BY <1>1, <2>7, <2>8 DEF RowsOK
  <2>12. RowsOK'
    BY <1>1, <2>1, <2>10, <2>11 DEF RowsOK
  <2>13. NothingBeforeStart'
    BY <1>1, <2>1, <2>2 DEF RowsInv, NothingBeforeStart
  <2>14. ASSUME NEW u \in Tasks PROVE TaskOK(u)'
    <3>1. CASE u = t
      <4>1. ASSUME NEW p \in Ordinals
            PROVE  /\ attempt'[t][p].state = "ABSENT" <=> p >= o + 1
                   /\ attempt'[t][p].state \in Active => p = o
        <5>1. CASE p = o
          BY <2>3, <2>10, <5>1 DEF Active, Ordinals
        <5>2. CASE p # o
          <6>1. attempt'[t][p] = attempt[t][p]
            BY <1>1, <2>10, <5>2
          <6>2. attempt[t][p].state = "ABSENT" <=> p >= o
            BY <1>1 DEF TaskOK
          <6>3. p >= o <=> p >= o + 1
            BY <2>3, <5>2 DEF Ordinals
          <6>. QED
            BY <2>2, <6>1, <6>2, <6>3
        <5>. QED
          BY <5>1, <5>2
      <4>2. o \in Nat /\ o >= 1 /\ attempt'[t][o].state \in Active
        BY <2>3, <2>10 DEF Active, Ordinals
      <4>3. o + 1 \in 1..(MaxAttempts[t] + 1) /\ (o + 1) - 1 = o
        BY <2>3, <4>2
      <4>. HIDE DEF o, t
      <4>. QED
        BY <2>3, <2>11, <3>1, <4>1, <4>2, <4>3 DEF TaskOK, Unstarted
    <3>2. CASE u # t
      <4>1. TaskOK(u)
        BY DEF RowsInv
      <4>. QED
        BY <2>10, <2>11, <3>2, <4>1 DEF TaskOK
    <3>. QED
      BY <3>1, <3>2
  <2>15. ASSUME NEW j \in Item
         PROVE  (Fresh(j) => Fresh(j)') /\ (Allocated(j) => Allocated(j)')
    <3>1. j.task \in Tasks
      BY DEF Item
    <3>2. CASE j.task # t
      BY <2>10, <2>11, <3>1, <3>2 DEF Fresh, Allocated
    <3>3. CASE j.task = t
      <4>1. SUFFICES ASSUME Allocated(j)
                     PROVE  Allocated(j)' /\ attempt'[t][j.ordinal].state \notin Active
        BY <3>3 DEF Fresh
      <4>2. j.ordinal \in Ordinals /\ j.ordinal < o
        BY <3>3, <4>1 DEF Allocated
      <4>3. o \in Nat /\ j.ordinal \in Nat
        BY <2>3, <4>2 DEF Ordinals
      <4>4. j.ordinal < o + 1 /\ j.ordinal # o
        BY <4>2, <4>3
      <4>5. attempt'[t][j.ordinal] = attempt[t][j.ordinal]
        BY <1>1, <2>10, <4>2, <4>4
      <4>. QED
        BY <2>2, <2>11, <3>3, <4>2, <4>4, <4>5 DEF Allocated
    <3>. QED
      BY <3>2, <3>3
  <2>. QED
    BY <2>12, <2>13, <2>14, <2>15 DEF RowStep, RowsInv
<1>. QED
  BY <1>2, <1>3

\* The start acknowledgement touches the attempt only.
LEMMA AttemptStarts ==
    ASSUME RowsInv, NEW i \in Item, Allocated(i), commit_worker_execution_start(i)
    PROVE  RowStep
<1>1. /\ RowsOK
      /\ i.task \in Tasks
      /\ i.ordinal \in Ordinals
      /\ "RUNNING" \in AttemptStates
  BY DEF RowsInv, Item, Allocated, AttemptStates, Active
<1>2. CASE ~AttemptIs(i, {"CLAIMED"})
  BY <1>2, SameRows DEF commit_worker_execution_start, rows
<1>3. CASE AttemptIs(i, {"CLAIMED"})
  <2>1. /\ attempt' = AttemptTo(i, "RUNNING")
        /\ UNCHANGED <<workflow, task>>
        /\ attempt[i.task][i.ordinal].state = "CLAIMED"
    BY <1>3 DEF commit_worker_execution_start, AttemptIs
  <2>2. /\ attempt' \in [Tasks -> [Ordinals -> AttemptRow]]
        /\ attempt'[i.task][i.ordinal].state = "RUNNING"
        /\ \A v \in Tasks, o \in Ordinals :
             v # i.task \/ o # i.ordinal => attempt'[v][o] = attempt[v][o]
    BY <1>1, <2>1, AttemptToFacts
  <2>3. \A v \in Tasks, o \in Ordinals :
          /\ attempt'[v][o].state \in Active <=> attempt[v][o].state \in Active
          /\ attempt'[v][o].state = "ABSENT" <=> attempt[v][o].state = "ABSENT"
    BY <2>1, <2>2 DEF Active
  <2>4. RowsOK' /\ NothingBeforeStart'
    BY <1>1, <2>1, <2>2 DEF RowsOK, RowsInv, NothingBeforeStart
  <2>5. ASSUME NEW v \in Tasks PROVE TaskOK(v)'
    <3>1. TaskOK(v)
      BY DEF RowsInv
    <3>. QED
      BY <2>1, <2>3, <3>1 DEF TaskOK
  <2>6. ASSUME NEW j \in Item
        PROVE  (Fresh(j) => Fresh(j)') /\ (Allocated(j) => Allocated(j)')
    BY <2>1, <2>3 DEF Fresh, Allocated, Item
  <2>. QED
    BY <2>4, <2>5, <2>6 DEF RowStep, RowsInv
<1>. QED
  BY <1>2, <1>3

\* Directions and verdicts touch the workflow only.
LEMMA WorkflowMoves ==
    ASSUME RowsInv, workflow' \in WorkflowRow, workflow'.state # "ABSENT",
           UNCHANGED <<task, attempt>>
    PROVE  RowStep
BY DEF RowStep, RowsInv, RowsOK, NothingBeforeStart, TaskOK, Fresh, Allocated

\* The clock and the cancellation deadline touch timers only.
LEMMA TimersMove ==
    ASSUME RowsInv, RowsOK', UNCHANGED workflow,
           \A t \in Tasks :
             /\ task'[t].state = task[t].state
             /\ task'[t].revision = task[t].revision
             /\ task'[t].next_attempt_ordinal = task[t].next_attempt_ordinal
             /\ \A o \in Ordinals : attempt'[t][o].state = attempt[t][o].state
    PROVE  RowStep
<1>1. NothingBeforeStart'
  BY DEF RowsInv, NothingBeforeStart
<1>2. ASSUME NEW t \in Tasks PROVE TaskOK(t)'
  <2>1. TaskOK(t)
    BY DEF RowsInv
  <2>. QED
    BY <2>1 DEF TaskOK
<1>3. ASSUME NEW j \in Item
      PROVE  (Fresh(j) => Fresh(j)') /\ (Allocated(j) => Allocated(j)')
  BY DEF Fresh, Allocated, Item
<1>. QED
  BY <1>1, <1>2, <1>3 DEF RowStep, RowsInv

\* The same for the timers of one attempt row.
LEMMA AttemptTimerMoves ==
    ASSUME RowsInv, NEW t \in Tasks, NEW o \in Ordinals, NEW row \in AttemptRow,
           row.state = attempt[t][o].state,
           attempt' = [attempt EXCEPT ![t][o] = row], UNCHANGED <<workflow, task>>
    PROVE  RowStep
<1>1. RowsOK'
  BY DEF RowsInv, RowsOK
<1>2. \A u \in Tasks, p \in Ordinals : attempt'[u][p].state = attempt[u][p].state
  BY DEF RowsInv, RowsOK
<1>. QED
  BY <1>1, <1>2, TimersMove

\* The start of the execution creates the task rows.
LEMMA ExecutionStarts ==
    ASSUME StoreAssumption, RowsInv, workflow.state = "ABSENT", commit_initialization
    PROVE  RowStep
<1>1. \A t \in Tasks : task[t].state = "ABSENT" /\ task[t].next_attempt_ordinal = 1
  BY DEF RowsInv, NothingBeforeStart
<1>2. \A t \in Tasks, o \in Ordinals : attempt[t][o].state = "ABSENT"
  BY <1>1 DEF RowsInv, TaskOK, Ordinals
<1>3. RowsOK' /\ NothingBeforeStart'
  BY DEF commit_initialization, RowsInv, RowsOK, NothingBeforeStart, WorkflowRow,
         WorkflowStates, TaskRow, TaskStates, Unstarted, Timers
<1>4. ASSUME NEW t \in Tasks PROVE TaskOK(t)'
  BY <1>2 DEF commit_initialization, TaskOK, StoreAssumption, Ordinals, Active, Unstarted
<1>5. ASSUME NEW j \in Item PROVE ~Allocated(j)
  BY <1>1 DEF Allocated, Item, Ordinals
<1>. QED
  BY <1>3, <1>4, <1>5 DEF RowStep, RowsInv, Fresh

-----------------------------------------------------------------------------
(***************************************************************************)
(* The ways a handler can move.                                            *)
(***************************************************************************)
LEMMA HandlerMoves ==
    ASSUME IInv, RowStep, UNCHANGED worker,
           NEW h \in Handlers, NEW p \in Proc, ProcOK(p)', Become(h, p)
    PROVE  IInv'
<1>1. proc' = [proc EXCEPT ![h] = p] /\ proc \in [Handlers -> Proc]
  BY DEF Become, IInv
<1>2. proc' \in [Handlers -> Proc]
  BY <1>1
<1>3. RowsInv' /\ (worker \in [Sessions -> WorkerStates])'
  BY DEF IInv, RowStep
<1>4. ASSUME NEW g \in Handlers PROVE ProcOK(proc[g])'
  <2>1. CASE g = h
    <3>1. proc'[g] = p
      BY <1>1, <2>1
    <3>. QED
      BY <3>1 DEF ProcOK, Fresh, Allocated
  <2>2. CASE g # h
    <3>1. proc'[g] = proc[g] /\ proc[g] \in Proc
      BY <1>1, <2>2
    <3>2. PICK q \in Proc : q = proc[g]
      BY <3>1
    <3>3. ProcOK(q) /\ q.todo \in SUBSET Item
      BY <3>2 DEF IInv, Proc, ProcOK, Fresh, Allocated
    <3>4. ProcOK(q)'
      BY <3>3 DEF ProcOK, RowStep, HoldsItem
    <3>. QED
      BY <3>1, <3>2, <3>4 DEF ProcOK, Fresh, Allocated
  <2>. QED
    BY <2>1, <2>2
<1>. QED
  BY <1>2, <1>3, <1>4 DEF IInv

\* An idle handler has its type and holds nothing.
LEMMA IdleFacts ==
    /\ Idle \in Proc
    /\ \A pc \in PCs : [Idle EXCEPT !.pc = pc] \in Proc
    /\ \A pc \in PCs : [Idle EXCEPT !.pc = pc].pc = pc
BY DEF Idle, Proc, PCs

\* Control points at which a handler holds nothing that may go stale.
Free == PCs \ (HoldsItem \cup {"notify"})

\* A handler drops everything and goes on at pc.
LEMMA GotoMoves ==
    ASSUME IInv, RowStep, UNCHANGED worker,
           NEW h \in Handlers, NEW pc \in Free, Goto(h, pc)
    PROVE  IInv'
<1>1. PICK p \in Proc : p = [Idle EXCEPT !.pc = pc] /\ p.pc = pc
  BY IdleFacts DEF Free
<1>2. ProcOK(p)'
  BY <1>1 DEF ProcOK, Free, HoldsItem, Settling
<1>. QED
  BY <1>1, <1>2, HandlerMoves DEF Goto

\* Entering a loop: a set of items is read.
LEMMA TodoMoves ==
    ASSUME IInv, RowStep, UNCHANGED worker,
           NEW h \in Handlers, NEW p \in Proc, Become(h, p), p.pc \in Free
    PROVE  IInv'
<1>1. ProcOK(p)'
  BY DEF ProcOK, Free, HoldsItem, Settling
<1>. QED
  BY <1>1, HandlerMoves

\* Leaving an item of a loop.
LEMMA DoneWithMoves ==
    ASSUME IInv, RowStep, UNCHANGED worker,
           NEW h \in Handlers, NEW i, NEW pc \in PCs, DoneWith(h, i, pc),
           \/ pc \in Free
           \/ pc = "notify" /\ proc[h].pc \in {"notify", "expire"}
    PROVE  IInv'
<1>1. PICK q \in Proc : q = proc[h]
  BY DEF IInv
<1>2. PICK p \in Proc : p = [q EXCEPT !.pc = pc, !.todo = q.todo \ {i}, !.item = NoItem]
  BY <1>1 DEF Proc
<1>3. p.pc = pc /\ p.todo \subseteq q.todo /\ q.todo \in SUBSET Item
  BY <1>1, <1>2 DEF Proc
<1>4. ProcOK(p)'
  <2>1. CASE pc \in Free
    BY <1>3, <2>1 DEF ProcOK, Free, HoldsItem, Settling
  <2>2. CASE pc = "notify" /\ q.pc \in {"notify", "expire"}
    <3>1. ProcOK(q)
      BY <1>1 DEF IInv, ProcOK, Fresh, Allocated
    <3>2. \A j \in p.todo : Allocated(j)'
      BY <1>3, <2>2, <3>1 DEF ProcOK, RowStep
    <3>. QED
      BY <1>3, <2>2, <3>2 DEF ProcOK, HoldsItem, Settling
  <2>. QED
    BY <1>1, <2>1, <2>2
<1>5. Become(h, p)
  BY <1>1, <1>2 DEF DoneWith
<1>. QED
  BY <1>4, <1>5, HandlerMoves

\* Taking an item of a loop; the rows stay.
LEMMA HoldMoves ==
    ASSUME IInv, UNCHANGED rows, UNCHANGED worker,
           NEW h \in Handlers, NEW i, NEW j \in Item, NEW pc \in HoldsItem,
           Hold(h, i, j, pc),
           pc \in Settling => Fresh(j),
           pc = "expire" => proc[h].pc = "notify"
    PROVE  IInv'
<1>1. PICK q \in Proc : q = proc[h]
  BY DEF IInv
<1>2. pc \in PCs
  BY DEF HoldsItem, PCs
<1>3. PICK p \in Proc : p = [q EXCEPT !.pc = pc, !.todo = q.todo \ {i}, !.item = j]
  BY <1>1, <1>2 DEF Proc
<1>4. p.pc = pc /\ p.todo \subseteq q.todo /\ p.item = j
  BY <1>1, <1>3 DEF Proc
<1>5. ProcOK(q)
  BY <1>1 DEF IInv, ProcOK, Fresh, Allocated
<1>6. ProcOK(p)
  BY <1>1, <1>4, <1>5 DEF ProcOK, HoldsItem, Settling
<1>7. ProcOK(p)'
  BY <1>6 DEF ProcOK, Fresh, Allocated, rows
<1>8. Become(h, p)
  BY <1>1, <1>3 DEF Hold
<1>9. RowStep
  BY SameRows DEF IInv
<1>. QED
  BY <1>7, <1>8, <1>9, HandlerMoves

\* A request or a sweep has read the rows of an attempt.
LEMMA BeginMoves ==
    ASSUME IInv, UNCHANGED rows, UNCHANGED worker,
           NEW h \in Handlers, NEW j \in Item, NEW pc \in Settling,
           Begin(h, j, pc), Fresh(j)
    PROVE  IInv'
<1>1. pc \in PCs
  BY DEF PCs
<1>2. PICK p \in Proc : p = [Idle EXCEPT !.pc = pc, !.item = j]
  BY <1>1, IdleFacts DEF Proc, Idle
<1>3. p.pc = pc /\ p.todo = {} /\ p.item = j
  BY <1>2 DEF Idle
<1>4. ProcOK(p)
  BY <1>3 DEF ProcOK, HoldsItem
<1>5. ProcOK(p)'
  BY <1>4 DEF ProcOK, Fresh, Allocated, rows
<1>6. RowStep
  BY SameRows DEF IInv
<1>. QED
  BY <1>2, <1>5, <1>6, HandlerMoves DEF Begin

\* What a handler reads of an existing attempt is fresh.
LEMMA ItemFacts ==
    ASSUME RowsInv, NEW op \in Ops, NEW t \in Tasks
    PROVE  /\ TaskItem(op, t) \in Item
           /\ \A o \in Ordinals :
                /\ AttemptItem(op, t, o) \in Item
                /\ attempt[t][o].state # "ABSENT" => Fresh(AttemptItem(op, t, o))
<1>1. task[t] \in TaskRow /\ TaskOK(t)
  BY DEF RowsInv, RowsOK
<1>2. TaskItem(op, t) \in Item
  BY <1>1 DEF TaskItem, Item, TaskRow
<1>3. ASSUME NEW o \in Ordinals
      PROVE  /\ AttemptItem(op, t, o) \in Item
             /\ attempt[t][o].state # "ABSENT" => Fresh(AttemptItem(op, t, o))
  <2>1. attempt[t][o] \in AttemptRow
    BY DEF RowsInv, RowsOK
  <2>2. AttemptItem(op, t, o) \in Item
    BY <1>1, <2>1 DEF AttemptItem, Item, TaskRow, AttemptRow, Ordinals
  <2>3. attempt[t][o].state # "ABSENT" => o < task[t].next_attempt_ordinal
    BY <1>1 DEF TaskOK, TaskRow, Ordinals
  <2>. QED
    BY <2>2, <2>3 DEF AttemptItem, Fresh, Allocated
<1>. QED
  BY <1>2, <1>3

\* What a handler holds at a control point that needs an item.
LEMMA HeldItem ==
    ASSUME IInv, NEW h \in Handlers, proc[h].pc \in HoldsItem
    PROVE  \E i \in Item : /\ i = proc[h].item
                           /\ proc[h].pc \in Settling => Fresh(i)
BY DEF IInv, ProcOK

\* Which control points hold an item.
LEMMA Points ==
    /\ {"idle", "advance", "promote", "dispatch", "succeed", "drain", "cancel",
        "direct"} \subseteq Free
    /\ {"promote_commit", "claim"} \subseteq HoldsItem
    /\ Settling \subseteq HoldsItem
    /\ HoldsItem \subseteq PCs
    /\ "notify" \in PCs
    /\ Free \subseteq PCs
BY DEF Free, HoldsItem, Settling, PCs

-----------------------------------------------------------------------------
(***************************************************************************)
(* Every action keeps the invariant: scheduling.                           *)
(***************************************************************************)
LEMMA AdvanceReadKeeps ==
    ASSUME IInv, NEW h \in Handlers, AdvanceRead(h)
    PROVE  IInv'
<1>1. RowStep /\ UNCHANGED worker
  BY SameRows DEF AdvanceRead, IInv
<1>2. CASE Goto(h, "drain") \/ Goto(h, "idle")
  BY <1>1, <1>2, GotoMoves, Points
<1>3. CASE Become(h, [Idle EXCEPT !.pc = "succeed", !.wrev = workflow.revision])
  <2>1. workflow.revision \in Nat
    BY DEF IInv, RowsInv, RowsOK, WorkflowRow
  <2>2. PICK p \in Proc : p = [Idle EXCEPT !.pc = "succeed", !.wrev = workflow.revision]
    BY <2>1 DEF Idle, Proc, PCs
  <2>3. p.pc = "succeed"
    BY <2>2 DEF Idle
  <2>. QED
    BY <1>1, <1>3, <2>2, <2>3, TodoMoves, Points
<1>4. CASE Become(h, [Idle EXCEPT !.pc = "promote", !.todo = Promotions])
  <2>1. Promotions \in SUBSET Item
    BY ItemFacts DEF IInv, Promotions, Ops
  <2>2. PICK p \in Proc : p = [Idle EXCEPT !.pc = "promote", !.todo = Promotions]
    BY <2>1 DEF Idle, Proc, PCs
  <2>3. p.pc = "promote"
    BY <2>2 DEF Idle
  <2>. QED
    BY <1>1, <1>4, <2>2, <2>3, TodoMoves, Points
<1>. QED
  BY <1>2, <1>3, <1>4 DEF AdvanceRead

\* The verdict SUCCEEDED.
LEMMA SucceedCommitKeeps ==
    ASSUME IInv, NEW h \in Handlers, SucceedCommit(h)
    PROVE  IInv'
<1>1. RowsInv /\ RowsOK
  BY DEF IInv, RowsInv
<1>2. RowStep
  <2>1. CASE UNCHANGED rows
    BY <1>1, <2>1, SameRows
  <2>2. CASE workflow' = WorkflowTo("SUCCEEDED") /\ UNCHANGED <<task, attempt>>
    BY <1>1, <2>2, WorkflowToFacts, WorkflowMoves DEF WorkflowStates
  <2>. QED
    BY <2>1, <2>2 DEF SucceedCommit, commit_workflow_success, rows
<1>. QED
  BY <1>2, GotoMoves, Points DEF SucceedCommit

\* The unlocked check before a promotion.
LEMMA PromoteCheckKeeps ==
    ASSUME IInv, NEW h \in Handlers, PromoteCheck(h)
    PROVE  IInv'
<1>1. RowStep /\ UNCHANGED <<rows, worker>>
  BY SameRows DEF PromoteCheck, IInv
<1>2. PICK i \in proc[h].todo :
        Hold(h, i, i, "promote_commit") \/ DoneWith(h, i, "promote")
  BY DEF PromoteCheck
<1>3. i \in Item
  BY <1>2 DEF IInv, Proc
<1>4. CASE Hold(h, i, i, "promote_commit")
  BY <1>1, <1>3, <1>4, HoldMoves, Points DEF Settling
<1>5. CASE DoneWith(h, i, "promote")
  BY <1>1, <1>5, DoneWithMoves, Points
<1>. QED
  BY <1>2, <1>4, <1>5

\* The promotion of a pending task or an overdue retry.
LEMMA PromoteCommitKeeps ==
    ASSUME IInv, NEW h \in Handlers, PromoteCommit(h)
    PROVE  IInv'
<1>1. PICK i \in Item : i = proc[h].item
  BY HeldItem, Points DEF PromoteCommit, At
<1>2. /\ commit_retry_ready(i) \/ commit_task_readiness(i)
      /\ DoneWith(h, i, "promote")
      /\ UNCHANGED worker
  BY <1>1 DEF PromoteCommit
<1>3. RowsInv /\ i.task \in Tasks
  BY DEF IInv, Item
<1>4. RowStep
  <2>1. CASE UNCHANGED rows
    BY <1>3, <2>1, SameRows
  <2>2. CASE /\ task[i.task].state \in Unstarted
             /\ task' = TaskTo(i.task, "RUNNABLE", "none")
             /\ UNCHANGED <<workflow, attempt>>
    BY <1>3, <2>2, UnstartedMoves
  <2>. QED
    BY <1>2, <2>1, <2>2
       DEF commit_retry_ready, commit_task_readiness, TaskIs, Unstarted, rows
<1>. QED
  BY <1>2, <1>4, DoneWithMoves, Points

\* The read of the RUNNABLE tasks.
LEMMA DispatchReadKeeps ==
    ASSUME IInv, NEW h \in Handlers, DispatchRead(h)
    PROVE  IInv'
<1>1. RowStep /\ UNCHANGED worker
  BY SameRows DEF DispatchRead, IInv
<1>2. PICK T : T = {TaskItem("none", t) : t \in {u \in Tasks : task[u].state = "RUNNABLE"}}
  OBVIOUS
<1>3. T \in SUBSET Item
  BY <1>2, ItemFacts DEF IInv, Ops
<1>4. PICK p \in Proc : p = [Idle EXCEPT !.pc = "dispatch", !.todo = T]
  BY <1>3 DEF Idle, Proc, PCs
<1>5. p.pc = "dispatch"
  BY <1>4 DEF Idle
<1>. QED
  BY <1>1, <1>2, <1>4, <1>5, TodoMoves, Points DEF DispatchRead

\* The choice of a worker and the unlocked check before a claim.
LEMMA DispatchCheckKeeps ==
    ASSUME IInv, NEW h \in Handlers, DispatchCheck(h)
    PROVE  IInv'
<1>1. RowStep /\ UNCHANGED <<rows, worker>>
  BY SameRows DEF DispatchCheck, IInv
<1>2. PICK i \in proc[h].todo :
        \/ DoneWith(h, i, "dispatch")
        \/ \E s \in Sessions : Hold(h, i, [i EXCEPT !.who = s], "claim")
  BY DEF DispatchCheck
<1>3. i \in Item
  BY <1>2 DEF IInv, Proc
<1>4. CASE DoneWith(h, i, "dispatch")
  BY <1>1, <1>4, DoneWithMoves, Points
<1>5. ASSUME NEW s \in Sessions, Hold(h, i, [i EXCEPT !.who = s], "claim")
      PROVE  IInv'
  <2>1. [i EXCEPT !.who = s] \in Item
    BY <1>3 DEF Item
  <2>. QED
    BY <1>1, <1>5, <2>1, HoldMoves, Points DEF Settling
<1>. QED
  BY <1>2, <1>4, <1>5

\* The ownership transaction.
LEMMA ClaimCommitKeeps ==
    ASSUME IInv, NEW h \in Handlers, ClaimCommit(h)
    PROVE  IInv'
<1>1. PICK i \in Item : i = proc[h].item
  BY HeldItem, Points DEF ClaimCommit, At
<1>2. RowStep
  BY <1>1, TaskIsClaimed, StoreAssumption DEF ClaimCommit, IInv
<1>. QED
  BY <1>1, <1>2, DoneWithMoves, Points DEF ClaimCommit

\* The end of a dispatch.
LEMMA DispatchDoneKeeps ==
    ASSUME IInv, NEW h \in Handlers, DispatchDone(h)
    PROVE  IInv'
<1>1. RowStep
  BY SameRows DEF DispatchDone, IInv
<1>. QED
  BY <1>1, GotoMoves, Points DEF DispatchDone

-----------------------------------------------------------------------------
(***************************************************************************)
(* Every action keeps the invariant: drain.                                *)
(***************************************************************************)
LEMMA DrainReadKeeps ==
    ASSUME IInv, NEW h \in Handlers, DrainRead(h)
    PROVE  IInv'
<1>1. RowStep /\ UNCHANGED worker
  BY SameRows DEF DrainRead, IInv
<1>2. CASE workflow.state \notin Draining
  BY <1>1, <1>2, GotoMoves, Points DEF DrainRead
<1>3. CASE workflow.state \in Draining
  <2>1. PICK T : T = {TaskItem("none", t) : t \in {u \in Tasks : task[u].state \in Unstarted}}
    OBVIOUS
  <2>2. PICK E \in SUBSET (Tasks \X Ordinals) :
          E = {e \in Tasks \X Ordinals :
                 attempt[e[1]][e[2]].cancellation_deadline = "due"}
    OBVIOUS
  <2>3. T \in SUBSET Item
    BY <2>1, ItemFacts DEF IInv, Ops
  <2>4. PICK p \in Proc : p = [Idle EXCEPT !.pc = "cancel", !.todo = T, !.elapsed = E]
    BY <2>2, <2>3 DEF Idle, Proc, PCs
  <2>5. p.pc = "cancel"
    BY <2>4 DEF Idle
  <2>6. Become(h, p)
    BY <1>3, <2>1, <2>2, <2>4 DEF DrainRead
  <2>. QED
    BY <1>1, <2>5, <2>6, TodoMoves, Points
<1>. QED
  BY <1>2, <1>3

\* The drain cancels an unstarted task.
LEMMA DrainCancelKeeps ==
    ASSUME IInv, NEW h \in Handlers, DrainCancel(h)
    PROVE  IInv'
<1>1. PICK i \in proc[h].todo :
        commit_drain_task_cancellation(i) /\ DoneWith(h, i, "cancel")
  BY DEF DrainCancel
<1>2. i \in Item /\ i.task \in Tasks /\ RowsInv
  BY <1>1 DEF IInv, Proc, Item
<1>3. RowStep
  <2>1. CASE UNCHANGED rows
    BY <1>2, <2>1, SameRows
  <2>2. CASE /\ task[i.task].state \in Unstarted
             /\ task' = TaskTo(i.task, "CANCELLED", "none")
             /\ UNCHANGED <<workflow, attempt>>
    BY <1>2, <2>2, UnstartedMoves
  <2>. QED
    BY <1>1, <2>1, <2>2 DEF commit_drain_task_cancellation, TaskIs, rows
<1>. QED
  BY <1>1, <1>3, DoneWithMoves, Points DEF DrainCancel

\* The drain reads the active attempts: all of them are allocated.
LEMMA DrainNotifyReadKeeps ==
    ASSUME IInv, NEW h \in Handlers, DrainNotifyRead(h)
    PROVE  IInv'
<1>1. RowStep /\ UNCHANGED <<rows, worker>> /\ RowsInv
  BY SameRows DEF DrainNotifyRead, IInv
<1>2. PICK T : T = {AttemptItem("mark", e[1], e[2]) : e \in ActiveAttempts("none")}
                   \cup
                   {AttemptItem("expire", e[1], e[2]) :
                       e \in ActiveAttempts("due") \cap proc[h].elapsed}
  OBVIOUS
<1>3. ASSUME NEW i \in T PROVE i \in Item /\ Allocated(i)
  <2>1. PICK op \in Ops, t \in Tasks, o \in Ordinals :
          i = AttemptItem(op, t, o) /\ attempt[t][o].state \in Active
    BY <1>2 DEF ActiveAttempts, Ops
  <2>. QED
    BY <1>1, <2>1, ItemFacts DEF Active, Fresh
<1>4. PICK p \in Proc : p = [Idle EXCEPT !.pc = "notify", !.todo = T]
  BY <1>3 DEF Idle, Proc, PCs
<1>5. p.pc = "notify" /\ p.todo = T
  BY <1>4 DEF Idle
<1>6. ProcOK(p)'
  BY <1>1, <1>3, <1>5 DEF ProcOK, RowStep, HoldsItem, Settling
<1>7. Become(h, p)
  BY <1>2, <1>4 DEF DrainNotifyRead
<1>. QED
  BY <1>1, <1>6, <1>7, HandlerMoves

\* The drain sets a cancellation deadline.
LEMMA DrainMarkKeeps ==
    ASSUME IInv, NEW h \in Handlers, DrainMark(h)
    PROVE  IInv'
<1>1. PICK i \in proc[h].todo :
        set_cancellation_deadline(i) /\ DoneWith(h, i, "notify")
  BY DEF DrainMark
<1>2. i \in Item /\ i.task \in Tasks /\ i.ordinal \in Ordinals
  <2>1. proc[h] \in Proc /\ ProcOK(proc[h]) /\ proc[h].pc = "notify"
    BY DEF IInv, DrainMark, At
  <2>2. i \in Item /\ Allocated(i)
    BY <1>1, <2>1 DEF Proc, ProcOK
  <2>. QED
    BY <2>2 DEF Item, Allocated
<1>3. RowsInv /\ RowsOK
  BY DEF IInv, RowsInv
<1>4. PICK t \in Tasks, o \in Ordinals : t = i.task /\ o = i.ordinal
  BY <1>2
<1>5. attempt' = [attempt EXCEPT ![t][o].cancellation_deadline = "pending"]
  BY <1>1, <1>4 DEF set_cancellation_deadline
<1>6. attempt[t][o] \in AttemptRow
  BY <1>3 DEF RowsOK
<1>7. PICK row \in AttemptRow :
        row = [attempt[t][o] EXCEPT !.cancellation_deadline = "pending"]
  BY <1>6 DEF AttemptRow, Timers
<1>8. RowStep
  <2>1. attempt' = [attempt EXCEPT ![t][o] = row]
    BY <1>3, <1>5, <1>7 DEF RowsOK
  <2>2. row.state = attempt[t][o].state
    BY <1>6, <1>7 DEF AttemptRow
  <2>. QED
    BY <1>1, <1>3, <2>1, <2>2, AttemptTimerMoves DEF set_cancellation_deadline
<1>. QED
  BY <1>1, <1>8, DoneWithMoves, Points DEF DrainMark, At

\* The drain reads the task of an attempt whose deadline elapsed.
LEMMA DrainExpireReadKeeps ==
    ASSUME IInv, NEW h \in Handlers, DrainExpireRead(h)
    PROVE  IInv'
<1>1. RowStep /\ UNCHANGED <<rows, worker>> /\ RowsInv /\ proc[h].pc = "notify"
  BY SameRows DEF DrainExpireRead, IInv, At
<1>2. PICK i \in proc[h].todo :
        \/ Hold(h, i, [i EXCEPT !.trev = task[i.task].revision], "expire")
        \/ DoneWith(h, i, "notify")
  BY DEF DrainExpireRead
<1>3. i \in Item /\ i.task \in Tasks /\ Allocated(i)
  BY <1>1, <1>2 DEF IInv, Proc, Item, ProcOK
<1>4. CASE Hold(h, i, [i EXCEPT !.trev = task[i.task].revision], "expire")
  <2>1. task[i.task].revision \in Nat
    BY <1>1, <1>3 DEF RowsInv, RowsOK, TaskRow
  <2>2. PICK j \in Item : j = [i EXCEPT !.trev = task[i.task].revision]
    BY <1>3, <2>1 DEF Item
  <2>3. j.task = i.task /\ j.ordinal = i.ordinal /\ j.trev = task[i.task].revision
    BY <1>3, <2>2 DEF Item
  <2>4. Fresh(j)
    BY <1>3, <2>3 DEF Fresh, Allocated
  <2>. QED
    BY <1>1, <1>4, <2>2, <2>4, HoldMoves, Points DEF Settling
<1>5. CASE DoneWith(h, i, "notify")
  BY <1>1, <1>5, DoneWithMoves, Points
<1>. QED
  BY <1>2, <1>4, <1>5

(***************************************************************************)
(* The first internal settlement: the attempt UPDATE matched, so the       *)
(* attempt is active, so the task UPDATE matches as well.                  *)
(***************************************************************************)
LEMMA ActiveMeansMatching ==
    ASSUME RowsInv, NEW i \in Item, Fresh(i), attempt[i.task][i.ordinal].state \in Active
    PROVE  TaskIs(i, {"RUNNING"}) /\ Allocated(i) /\ i.task \in Tasks
BY DEF RowsInv, TaskOK, Item, Fresh, Allocated, TaskIs

\* The settlement of an elapsed cancellation deadline.
LEMMA DrainExpireCommitKeeps ==
    ASSUME IInv, NEW h \in Handlers, DrainExpireCommit(h)
    PROVE  IInv'
<1>1. PICK i \in Item : i = proc[h].item /\ Fresh(i)
  BY HeldItem, Points DEF DrainExpireCommit, At, Settling
<1>2. commit_internal_cancellation_deadline(i) /\ RowsInv
  BY <1>1 DEF DrainExpireCommit, IInv
<1>3. RowStep
  <2>1. CASE UNCHANGED rows
    BY <1>2, <2>1, SameRows
  <2>2. CASE workflow.state \in Draining /\ AttemptIs(i, Active) /\ ~UNCHANGED rows
    <3>1. attempt[i.task][i.ordinal].state \in Active
      BY <2>2 DEF AttemptIs
    <3>2. /\ attempt' = AttemptTo(i, "CANCELLED")
          /\ task' = TaskTo(i.task, "CANCELLED", "none")
          /\ UNCHANGED workflow
      BY <1>1, <1>2, <2>2, <3>1, ActiveMeansMatching
         DEF commit_internal_cancellation_deadline, rows
    <3>3. workflow' \in WorkflowRow /\ workflow'.state # "ABSENT"
      BY <1>2, <2>2, <3>2 DEF RowsInv, RowsOK, Draining
    <3>. QED
      BY <1>1, <1>2, <3>1, <3>2, <3>3, AttemptSettles DEF Terminal, Timers, Fresh
  <2>. QED
    BY <1>2, <2>1, <2>2 DEF commit_internal_cancellation_deadline, rows
<1>. QED
  BY <1>1, <1>3, DoneWithMoves, Points DEF DrainExpireCommit, At

\* The verdicts FAILED and CANCELLED.
LEMMA DrainSettleKeeps ==
    ASSUME IInv, NEW h \in Handlers, DrainSettle(h)
    PROVE  IInv'
<1>1. RowsInv /\ RowsOK
  BY DEF IInv, RowsInv
<1>2. RowStep
  <2>1. CASE UNCHANGED rows
    BY <1>1, <2>1, SameRows
  <2>2. ASSUME NEW s \in {"FAILED", "CANCELLED"}, workflow' = WorkflowTo(s),
               UNCHANGED <<task, attempt>>
        PROVE  RowStep
    BY <1>1, <2>2, WorkflowToFacts, WorkflowMoves DEF WorkflowStates
  <2>. QED
    BY <2>1, <2>2 DEF DrainSettle, commit_workflow_failure, commit_workflow_cancellation, rows
<1>. QED
  BY <1>2, GotoMoves, Points DEF DrainSettle

-----------------------------------------------------------------------------
(***************************************************************************)
(* Every action keeps the invariant: the routes.                           *)
(***************************************************************************)
LEMMA start_executionKeeps ==
    ASSUME IInv, NEW h \in Handlers, start_execution(h)
    PROVE  IInv'
<1>1. RowStep
  BY ExecutionStarts, StoreAssumption DEF start_execution, IInv
<1>. QED
  BY <1>1, GotoMoves, Points DEF start_execution

\* The direction to CANCELLING.
LEMMA cancel_executionKeeps ==
    ASSUME IInv, NEW h \in Handlers, cancel_execution(h)
    PROVE  IInv'
<1>1. RowsInv /\ RowsOK
  BY DEF IInv, RowsInv
<1>2. workflow' = WorkflowTo("CANCELLING") /\ UNCHANGED <<task, attempt>>
  BY DEF cancel_execution, commit_workflow_cancellation_direction
<1>3. RowStep
  BY <1>1, <1>2, WorkflowToFacts, WorkflowMoves DEF WorkflowStates, Draining
<1>. QED
  BY <1>3, GotoMoves, Points DEF cancel_execution

\* The reads that start a settlement.
LEMMA ReceiveKeeps ==
    ASSUME IInv, NEW h \in Handlers,
           \/ acknowledge_start(h) \/ ReceiveSuccess(h) \/ ReceiveFailure(h)
           \/ ReceiveCancelAck(h) \/ SweepRead(h)
    PROVE  IInv'
<1>1. UNCHANGED <<rows, worker>> /\ RowsInv
  BY DEF acknowledge_start, ReceiveSuccess, ReceiveFailure, ReceiveCancelAck,
         SweepRead, IInv
<1>2. CASE acknowledge_start(h)
  <2>1. PICK t \in Tasks, o \in Ordinals :
          /\ attempt[t][o].state = "CLAIMED"
          /\ Begin(h, [AttemptItem("none", t, o) EXCEPT !.arev = 1], "start")
    BY <1>2 DEF acknowledge_start
  <2>2. PICK i \in Item : i = AttemptItem("none", t, o) /\ Fresh(i)
    BY <1>1, <2>1, ItemFacts DEF Ops
  <2>3. PICK j \in Item : j = [i EXCEPT !.arev = 1]
    BY DEF Item
  <2>4. j.task = i.task /\ j.ordinal = i.ordinal /\ j.trev = i.trev
    BY <2>3 DEF Item
  <2>5. Fresh(j)
    BY <2>2, <2>4 DEF Fresh, Allocated
  <2>. QED
    BY <1>1, <2>1, <2>2, <2>3, <2>5, BeginMoves DEF Settling
<1>3. CASE ReceiveSuccess(h) \/ ReceiveFailure(h) \/ ReceiveCancelAck(h) \/ SweepRead(h)
  <2>1. PICK t \in Tasks, o \in Ordinals, op \in Ops, pc \in Settling :
          attempt[t][o].state \in Active /\ Begin(h, AttemptItem(op, t, o), pc)
    <3>1. CASE ReceiveSuccess(h)
      BY <3>1 DEF ReceiveSuccess, Ops, Settling, Active
    <3>2. CASE ReceiveFailure(h)
      BY <3>2 DEF ReceiveFailure, Ops, Settling
    <3>3. CASE ReceiveCancelAck(h)
      BY <3>3 DEF ReceiveCancelAck, Ops, Settling
    <3>4. CASE SweepRead(h)
      BY <3>4 DEF SweepRead, Ops, Settling, Active
    <3>. QED
      BY <1>3, <3>1, <3>2, <3>3, <3>4
  <2>2. AttemptItem(op, t, o) \in Item /\ Fresh(AttemptItem(op, t, o))
    BY <1>1, <2>1, ItemFacts DEF Active
  <2>. QED
    BY <1>1, <2>1, <2>2, BeginMoves
<1>. QED
  BY <1>2, <1>3

\* The commit of a start acknowledgement.
LEMMA StartCommitKeeps ==
    ASSUME IInv, NEW h \in Handlers, StartCommit(h)
    PROVE  IInv'
<1>1. PICK i \in Item : i = proc[h].item /\ Fresh(i)
  BY HeldItem, Points DEF StartCommit, At, Settling
<1>2. RowStep
  BY <1>1, AttemptStarts DEF StartCommit, IInv, Fresh
<1>. QED
  BY <1>2, GotoMoves, Points DEF StartCommit

\* A callback settles both rows or, rolled back, neither.
LEMMA CallbackSettles ==
    ASSUME RowsInv, NEW i \in Item, Fresh(i), ActiveMatches(i) \/ SuccessMatches(i),
           \/ commit_worker_task_success(i)
           \/ RetryMatches(i) /\ commit_worker_failure_with_retry(i)
           \/ commit_worker_definitive_failure(i)
           \/ commit_worker_cancellation_ack(i)
    PROVE  RowStep
<1>1. attempt[i.task][i.ordinal].state \in Active /\ Allocated(i)
  BY DEF ActiveMatches, SuccessMatches, AttemptIs, Active, Fresh
<1>2. RowsOK /\ task[i.task].state = "RUNNING" /\ i.task \in Tasks
  BY DEF RowsInv, ActiveMatches, SuccessMatches, TaskIs, Item
<1>3. workflow \in WorkflowRow /\ workflow.state # "ABSENT"
  BY <1>2 DEF RowsInv, RowsOK, NothingBeforeStart
<1>4. CASE commit_worker_task_success(i)
  BY <1>1, <1>3, <1>4, AttemptSettles DEF commit_worker_task_success, Terminal, Timers
<1>5. CASE RetryMatches(i) /\ commit_worker_failure_with_retry(i)
  BY <1>1, <1>3, <1>5, AttemptSettles
     DEF commit_worker_failure_with_retry, RetryMatches, Terminal, Timers
<1>6. CASE commit_worker_definitive_failure(i)
  <2>1. workflow' \in WorkflowRow /\ workflow'.state # "ABSENT"
    BY <1>2, <1>3, <1>6, WorkflowToFacts
       DEF commit_worker_definitive_failure, WorkflowStates, Draining
  <2>. QED
    BY <1>1, <1>6, <2>1, AttemptSettles
       DEF commit_worker_definitive_failure, Terminal, Timers
<1>7. CASE commit_worker_cancellation_ack(i)
  BY <1>1, <1>3, <1>7, AttemptSettles DEF commit_worker_cancellation_ack, Terminal, Timers
<1>. QED
  BY <1>4, <1>5, <1>6, <1>7

\* The commits of report_callback.
LEMMA CallbackKeeps ==
    ASSUME IInv, NEW h \in Handlers,
           \/ SuccessCommit(h) \/ RetryCommit(h) \/ FailureCommit(h) \/ CancelAckCommit(h)
    PROVE  IInv'
<1>1. PICK i \in Item : i = proc[h].item /\ Fresh(i)
  BY HeldItem, Points
     DEF SuccessCommit, RetryCommit, FailureCommit, CancelAckCommit, At, Settling
<1>2. RowsInv /\ UNCHANGED worker
  BY DEF IInv, SuccessCommit, RetryCommit, FailureCommit, CancelAckCommit
<1>3. RowStep
  <2>1. CASE UNCHANGED rows
    BY <1>2, <2>1, SameRows
  <2>2. CASE ~UNCHANGED rows
    <3>1. CASE SuccessCommit(h)
      BY <1>1, <1>2, <2>2, <3>1, CallbackSettles DEF SuccessCommit
    <3>2. CASE RetryCommit(h)
      BY <1>1, <1>2, <2>2, <3>2, CallbackSettles DEF RetryCommit, RetryMatches
    <3>3. CASE FailureCommit(h)
      BY <1>1, <1>2, <2>2, <3>3, CallbackSettles DEF FailureCommit
    <3>4. CASE CancelAckCommit(h)
      BY <1>1, <1>2, <2>2, <3>4, CallbackSettles DEF CancelAckCommit, CancelAckMatches
    <3>. QED
      BY <3>1, <3>2, <3>3, <3>4
  <2>. QED
    BY <2>1, <2>2
<1>4. Goto(h, "idle") \/ Goto(h, "advance") \/ Goto(h, "drain")
  BY DEF SuccessCommit, RetryCommit, FailureCommit, CancelAckCommit
<1>. QED
  BY <1>2, <1>3, <1>4, GotoMoves, Points

\* The unlocked check before a retry.
LEMMA RetryCheckKeeps ==
    ASSUME IInv, NEW h \in Handlers, RetryCheck(h)
    PROVE  IInv'
<1>1. RowStep /\ UNCHANGED <<rows, worker>>
  BY SameRows DEF RetryCheck, IInv
<1>2. CASE Goto(h, "idle")
  BY <1>1, <1>2, GotoMoves, Points
<1>3. CASE Become(h, [proc[h] EXCEPT !.pc = "retry"])
  <2>1. PICK i \in Item : i = proc[h].item /\ Fresh(i)
    BY HeldItem, Points DEF RetryCheck, At, Settling
  <2>2. PICK q \in Proc : q = proc[h]
    BY DEF IInv
  <2>3. PICK p \in Proc : p = [q EXCEPT !.pc = "retry"]
    BY DEF Proc, PCs, Settling
  <2>4. p.pc = "retry" /\ p.item = i
    BY <2>1, <2>2, <2>3 DEF Proc
  <2>5. Fresh(i)'
    BY <1>1, <2>1 DEF RowStep
  <2>6. ProcOK(p)'
    BY <2>4, <2>5 DEF ProcOK
  <2>. QED
    BY <1>1, <1>3, <2>2, <2>3, <2>6, HandlerMoves
<1>. QED
  BY <1>2, <1>3 DEF RetryCheck

\* The direction after a sweep, and the calls that only advance.
LEMMA DirectKeeps ==
    ASSUME IInv, NEW h \in Handlers,
           DirectCommit(h) \/ DuplicateSuccess(h) \/ CallAdvance(h)
    PROVE  IInv'
<1>1. RowsInv /\ RowsOK
  BY DEF IInv, RowsInv
<1>2. CASE DirectCommit(h)
  <2>1. CASE UNCHANGED rows
    BY <1>1, <1>2, <2>1, SameRows, GotoMoves, Points DEF DirectCommit
  <2>2. CASE workflow' = WorkflowTo("FAILING") /\ UNCHANGED <<task, attempt>>
    <3>1. RowStep
      BY <1>1, <2>2, WorkflowToFacts, WorkflowMoves DEF WorkflowStates, Draining
    <3>. QED
      BY <1>2, <3>1, GotoMoves, Points DEF DirectCommit
  <2>. QED
    BY <1>2, <2>1, <2>2 DEF DirectCommit, commit_workflow_failure_direction, rows
<1>3. CASE DuplicateSuccess(h) \/ CallAdvance(h)
  BY <1>1, <1>3, SameRows, GotoMoves, Points DEF DuplicateSuccess, CallAdvance
<1>. QED
  BY <1>2, <1>3

\* The settlement of a sweep: both UPDATEs match or neither does.
LEMMA SweepCommitKeeps ==
    ASSUME IInv, NEW h \in Handlers, SweepCommit(h)
    PROVE  IInv'
<1>1. proc[h].pc \in {"sweep_running", "sweep_draining"}
  BY DEF SweepCommit, At
<1>2. PICK i \in Item : i = proc[h].item /\ Fresh(i)
  BY <1>1, HeldItem, Points DEF Settling
<1>3. PICK running \in BOOLEAN : commit_internal_attempt_failure(i, running)
  BY <1>2 DEF SweepCommit
<1>4. RowsInv /\ RowsOK /\ UNCHANGED workflow
  BY <1>3 DEF IInv, RowsInv, commit_internal_attempt_failure
<1>5. RowStep
  <2>1. CASE ~CauseMatches(i)
    <3>1. UNCHANGED rows
      BY <1>3, <2>1
         DEF commit_internal_attempt_failure, RetriesTask, FailsTask, rows
    <3>. QED
      BY <1>4, <3>1, SameRows
  <2>2. CASE CauseMatches(i)
    <3>1. attempt[i.task][i.ordinal].state \in Active
      BY <2>2 DEF CauseMatches, AttemptIs, Active
    <3>2. TaskIs(i, {"RUNNING"}) /\ Allocated(i) /\ i.task \in Tasks
      BY <1>2, <1>4, <3>1, ActiveMeansMatching
    <3>3. workflow' \in WorkflowRow /\ workflow'.state # "ABSENT"
      BY <1>4, <3>2 DEF RowsInv, RowsOK, NothingBeforeStart, TaskIs
    <3>4. attempt' = AttemptTo(i, "FAILED")
      BY <1>3, <2>2 DEF commit_internal_attempt_failure
    <3>5. CASE running /\ BudgetRemains(i.task)
      <4>1. task' = TaskTo(i.task, "RETRY_WAIT", "pending")
        BY <1>3, <2>2, <3>2, <3>5 DEF commit_internal_attempt_failure, RetriesTask, FailsTask
      <4>. QED
        BY <1>4, <3>1, <3>2, <3>3, <3>4, <3>5, <4>1, AttemptSettles DEF Terminal, Timers
    <3>6. CASE ~(running /\ BudgetRemains(i.task))
      <4>1. task' = TaskTo(i.task, "FAILED", "none")
        BY <1>3, <2>2, <3>2, <3>6 DEF commit_internal_attempt_failure, RetriesTask, FailsTask
      <4>. QED
        BY <1>4, <3>1, <3>2, <3>3, <3>4, <4>1, AttemptSettles DEF Terminal, Timers
    <3>. QED
      BY <3>5, <3>6
  <2>. QED
    BY <2>1, <2>2
<1>6. (Goto(h, "idle") \/ Goto(h, "direct")) /\ UNCHANGED worker
  BY DEF SweepCommit
<1>. QED
  BY <1>5, <1>6, GotoMoves, Points

-----------------------------------------------------------------------------
(***************************************************************************)
(* Every action keeps the invariant: registry and clock.                   *)
(***************************************************************************)
LEMMA RowsOnly ==
    ASSUME IInv, RowStep, UNCHANGED <<worker, proc>>
    PROVE  IInv'
<1>1. ASSUME NEW g \in Handlers PROVE ProcOK(proc[g])'
  <2>1. PICK q \in Proc : q = proc[g] /\ proc'[g] = q
    BY DEF IInv
  <2>2. ProcOK(q) /\ q.todo \in SUBSET Item
    BY <2>1 DEF IInv, Proc, ProcOK, Fresh, Allocated
  <2>3. ProcOK(q)'
    BY <2>2 DEF ProcOK, RowStep, HoldsItem
  <2>. QED
    BY <2>1, <2>3 DEF ProcOK, Fresh, Allocated
<1>. QED
  BY <1>1 DEF IInv, RowStep

\* Registration, loss and heartbeats touch the registry only.
LEMMA RegistryKeeps ==
    ASSUME IInv, Registry
    PROVE  IInv'
<1>1. UNCHANGED <<rows, proc>> /\ RowsInv
  BY DEF Registry, register_worker, HeartbeatsStop, heartbeat_worker, IInv
<1>2. RowStep
  BY <1>1, SameRows
<1>3. (worker \in [Sessions -> WorkerStates])'
  BY DEF Registry, register_worker, HeartbeatsStop, heartbeat_worker, WorkerStates, IInv
<1>4. \A g \in Handlers : ProcOK(proc[g])'
  BY <1>1 DEF IInv, ProcOK, Fresh, Allocated, rows
<1>. QED
  BY <1>1, <1>2, <1>3, <1>4 DEF IInv, RowStep

\* The clock touches timers only.
LEMMA ClockKeeps ==
    ASSUME IInv, Clock
    PROVE  IInv'
<1>1. RowsInv /\ RowsOK
  BY DEF IInv, RowsInv
<1>2. ASSUME NEW t \in Tasks, RetryFallsDue(t) PROVE IInv'
  <2>1. task[t] \in TaskRow
    BY <1>1 DEF RowsOK
  <2>2. PICK row \in TaskRow : row = [task[t] EXCEPT !.retry_ready_at = "due"]
    BY <2>1 DEF TaskRow, Timers
  <2>3. task' = [task EXCEPT ![t] = row]
    BY <1>1, <1>2, <2>2 DEF RetryFallsDue, RowsOK
  <2>4. /\ row.state = task[t].state
        /\ row.revision = task[t].revision
        /\ row.next_attempt_ordinal = task[t].next_attempt_ordinal
    BY <2>1, <2>2 DEF TaskRow
  <2>5. UNCHANGED <<workflow, attempt, worker, proc>>
    BY <1>2 DEF RetryFallsDue
  <2>6. RowsOK'
    BY <1>1, <2>3, <2>5 DEF RowsOK
  <2>7. RowStep
    BY <1>1, <2>3, <2>4, <2>5, <2>6, TimersMove DEF RowsOK
  <2>. QED
    BY <2>5, <2>7, RowsOnly
<1>3. ASSUME NEW t \in Tasks, NEW o \in Ordinals,
             StartDeadlinePasses(t, o) \/ CancellationDeadlinePasses(t, o)
      PROVE  IInv'
  <2>1. attempt[t][o] \in AttemptRow
    BY <1>1 DEF RowsOK
  <2>2. UNCHANGED <<workflow, task, worker, proc>>
    BY <1>3 DEF StartDeadlinePasses, CancellationDeadlinePasses
  <2>3. PICK row \in AttemptRow :
          /\ attempt' = [attempt EXCEPT ![t][o] = row]
          /\ row.state = attempt[t][o].state
    <3>1. CASE StartDeadlinePasses(t, o)
      <4>1. PICK row \in AttemptRow : row = [attempt[t][o] EXCEPT !.start_deadline = "due"]
        BY <2>1 DEF AttemptRow, Timers
      <4>2. row.state = attempt[t][o].state
        BY <2>1, <4>1 DEF AttemptRow
      <4>3. attempt' = [attempt EXCEPT ![t][o] = row]
        BY <1>1, <3>1, <4>1 DEF StartDeadlinePasses, RowsOK
      <4>. QED
        BY <4>2, <4>3
    <3>2. CASE CancellationDeadlinePasses(t, o)
      <4>1. PICK row \in AttemptRow :
              row = [attempt[t][o] EXCEPT !.cancellation_deadline = "due"]
        BY <2>1 DEF AttemptRow, Timers
      <4>2. row.state = attempt[t][o].state
        BY <2>1, <4>1 DEF AttemptRow
      <4>3. attempt' = [attempt EXCEPT ![t][o] = row]
        BY <1>1, <3>2, <4>1 DEF CancellationDeadlinePasses, RowsOK
      <4>. QED
        BY <4>2, <4>3
    <3>. QED
      BY <1>3, <3>1, <3>2
  <2>4. RowStep
    BY <1>1, <2>2, <2>3, AttemptTimerMoves
  <2>. QED
    BY <2>2, <2>4, RowsOnly
<1>. QED
  BY <1>2, <1>3 DEF Clock

-----------------------------------------------------------------------------
\* The empty database and idle handlers satisfy the invariant.
LEMMA InitEstablishes == Init => IInv
<1>. SUFFICES ASSUME Init PROVE IInv
  OBVIOUS
<1>. USE DEF Init, StoreInit
<1>1. NoAttempt \in AttemptRow
  BY DEF NoAttempt, AttemptRow, AttemptStates, Timers
<1>2. RowsOK
  <2>1. workflow \in WorkflowRow
    BY DEF WorkflowRow, WorkflowStates
  <2>2. task \in [Tasks -> TaskRow]
    BY DEF TaskRow, TaskStates, Timers
  <2>3. attempt \in [Tasks -> [Ordinals -> AttemptRow]]
    BY <1>1
  <2>. QED
    BY <2>1, <2>2, <2>3 DEF RowsOK
<1>3. NothingBeforeStart
  BY DEF NothingBeforeStart
<1>4. ASSUME NEW t \in Tasks PROVE TaskOK(t)
  BY StoreAssumption DEF StoreAssumption, TaskOK, NoAttempt, Active, Unstarted, Ordinals
<1>5. worker \in [Sessions -> WorkerStates] /\ proc \in [Handlers -> Proc]
  BY IdleFacts DEF WorkerStates
<1>6. ASSUME NEW h \in Handlers PROVE ProcOK(proc[h])
  BY DEF ProcOK, Idle, HoldsItem, Settling
<1>. QED
  BY <1>2, <1>3, <1>4, <1>5, <1>6 DEF IInv, RowsInv

\* Every step keeps the invariant.
LEMMA NextKeeps == IInv /\ [Next]_vars => IInv'
<1>. SUFFICES ASSUME IInv, [Next]_vars PROVE IInv'
  OBVIOUS
<1>1. ASSUME NEW h \in Handlers, Continue(h) PROVE IInv'
  BY <1>1, AdvanceReadKeeps, SucceedCommitKeeps, PromoteCheckKeeps, PromoteCommitKeeps,
     DispatchReadKeeps, DispatchCheckKeeps, ClaimCommitKeeps, DispatchDoneKeeps,
     DrainReadKeeps, DrainCancelKeeps, DrainNotifyReadKeeps, DrainMarkKeeps,
     DrainExpireReadKeeps, DrainExpireCommitKeeps, DrainSettleKeeps,
     StartCommitKeeps, CallbackKeeps, RetryCheckKeeps
     DEF Continue
<1>2. ASSUME NEW h \in Handlers, Request(h) PROVE IInv'
  BY <1>2, start_executionKeeps, cancel_executionKeeps, ReceiveKeeps, DirectKeeps
     DEF Request
<1>3. ASSUME NEW h \in Handlers, Housekeeping(h) PROVE IInv'
  BY <1>3, ReceiveKeeps, SweepCommitKeeps, DirectKeeps DEF Housekeeping
<1>4. CASE UNCHANGED vars
  <2>1. RowStep
    BY <1>4, SameRows DEF vars, rows, IInv
  <2>. QED
    BY <1>4, <2>1, RowsOnly DEF vars
<1>. QED
  BY <1>1, <1>2, <1>3, <1>4, RegistryKeeps, ClockKeeps DEF Next, NextDeployed

(***************************************************************************)
(* IInv is an invariant of the control plane.                              *)
(***************************************************************************)
THEOREM Invariance == Spec => []IInv
BY InitEstablishes, NextKeeps, PTL DEF Spec

(***************************************************************************)
(* Type correctness: every row keeps its schema's type and every handler   *)
(* its shape, whatever handlers interleave.                                *)
(***************************************************************************)
THEOREM TypeCorrectness == Spec => []TypeOK
<1>1. IInv => TypeOK
  BY DEF IInv, RowsInv, RowsOK, TypeOK
<1>. QED
  BY <1>1, Invariance, PTL

\* The budget, from what TaskOK says of the ordinals.
LEMMA WithinBudget == IInv => RetryBudget
<1>. SUFFICES ASSUME IInv PROVE RetryBudget
  OBVIOUS
<1>1. ASSUME NEW t \in Tasks
      PROVE  /\ LastOrdinal(t) <= MaxAttempts[t]
             /\ task[t].state \in Unstarted => BudgetRemains(t)
  <2>1. TaskOK(t) /\ MaxAttempts[t] \in Nat
    BY StoreAssumption DEF IInv, RowsInv, StoreAssumption
  <2>. QED
    BY <2>1 DEF TaskOK, LastOrdinal, BudgetRemains
<1>. QED
  BY <1>1 DEF RetryBudget

\* The owner, from what TaskOK says of the active attempts.
LEMMA OneOwner == IInv => ExclusiveOwnership
BY DEF IInv, RowsInv, TaskOK, ExclusiveOwnership, LastOrdinal

(***************************************************************************)
(* A task is RUNNING exactly while its latest attempt, and no other, is    *)
(* active: the partial commit of the internal settlements never happens.   *)
(***************************************************************************)
THEOREM OwnershipIsExclusive == Spec => []ExclusiveOwnership
BY OneOwner, Invariance, PTL

(***************************************************************************)
(* No task exceeds max_attempts, and a task that can be dispatched has an  *)
(* attempt left, although the ordinal is allocated without looking at the  *)
(* budget.                                                                 *)
(***************************************************************************)
THEOREM BudgetIsKept == Spec => []RetryBudget
BY WithinBudget, Invariance, PTL
=============================================================================
