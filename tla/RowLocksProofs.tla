--------------------------- MODULE RowLocksProofs ---------------------------
(***************************************************************************)
(* Two definitive failures are the only deadlock, for any number of tasks  *)
(* and open transactions.  Locks are taken in the order attempt, task,     *)
(* workflow, so every circle of waiting transactions passes through the    *)
(* workflow row; and of the transactions that hold the workflow row and    *)
(* ask for it again, only a definitive failure can find it taken.          *)
(***************************************************************************)
EXTENDS RowLocks, TLAPS

TxnRow == [kind : Kinds, task : Tasks, got : Nat]

\* The locks of a transaction are those of a prefix of its plan.
RecordOK(a) ==
    \/ a = NoTxn
    \/ a \in TxnRow /\ a.got <= Len(Plan(a.kind, a.task))

\* Two open transactions hold no locks that conflict.
Compatible(a, b) ==
    \A k \in 1..a.got, l \in 1..b.got :
        Plan(a.kind, a.task)[k].row = Plan(b.kind, b.task)[l].row =>
            ~Conflicts(Plan(a.kind, a.task)[k].mode, Plan(b.kind, b.task)[l].mode)

LocksInv ==
    /\ txn \in [Txns -> TxnRow \cup {NoTxn}]
    /\ \A x \in Txns : RecordOK(txn[x])
    /\ \A x, y \in Txns : x # y /\ Open(x) /\ Open(y) => Compatible(txn[x], txn[y])

-----------------------------------------------------------------------------
(***************************************************************************)
(* The plans.                                                              *)
(***************************************************************************)
AttemptOf(t) == <<"attempt", t>>
TaskOf(t) == <<"task", t>>
TheWorkflow == <<"workflow">>

\* Rows of different kinds are different rows.
LEMMA RowKinds ==
    \A t, u : /\ AttemptOf(t) # TaskOf(u)
              /\ AttemptOf(t) # TheWorkflow
              /\ TaskOf(t) # TheWorkflow
              /\ TaskOf(t) = TaskOf(u) => t = u
BY DEF AttemptOf, TaskOf, TheWorkflow

\* The rows and modes of the locks.
LEMMA LockFields ==
    \A t : /\ AttemptUpdate(t).row = AttemptOf(t)
           /\ AttemptUpdate(t).mode = "NO KEY UPDATE"
           /\ TaskUpdate(t).row = TaskOf(t)
           /\ TaskUpdate(t).mode = "NO KEY UPDATE"
           /\ HistoryInsert.row = TheWorkflow
           /\ HistoryInsert.mode = "KEY SHARE"
           /\ \A m : Workflow(m).row = TheWorkflow /\ Workflow(m).mode = m
BY DEF AttemptUpdate, TaskUpdate, HistoryInsert, Workflow, AttemptOf, TaskOf, TheWorkflow

\* The elements of short sequences.
LEMMA Tuples ==
    /\ \A a, b : /\ Len(<<a, b>>) = 2
                 /\ <<a, b>>[1] = a /\ <<a, b>>[2] = b
    /\ \A a, b, c : /\ Len(<<a, b, c>>) = 3
                    /\ <<a, b, c>>[1] = a /\ <<a, b, c>>[2] = b /\ <<a, b, c>>[3] = c
    /\ \A a, b, c, d : /\ Len(<<a, b, c, d>>) = 4
                       /\ <<a, b, c, d>>[1] = a /\ <<a, b, c, d>>[2] = b
                       /\ <<a, b, c, d>>[3] = c /\ <<a, b, c, d>>[4] = d
OBVIOUS

\* The plans there are: P of kind, for task t.
StartPlan(P, t) == Len(P) = 2 /\ P[1] = AttemptUpdate(t) /\ P[2] = HistoryInsert
SettlePlan(P, t) ==
    Len(P) = 3 /\ P[1] = AttemptUpdate(t) /\ P[2] = TaskUpdate(t) /\ P[3] = HistoryInsert
TaskPlan(P, t) == Len(P) = 2 /\ P[1] = TaskUpdate(t) /\ P[2] = HistoryInsert
FailurePlan(P, t) ==
    /\ Len(P) = 4 /\ P[1] = AttemptUpdate(t) /\ P[2] = TaskUpdate(t)
    /\ P[3] = HistoryInsert /\ P[4] = Workflow("UPDATE")
WorkflowPlan(P, mode) == Len(P) = 2 /\ P[1] = Workflow(mode) /\ P[2] = HistoryInsert

PlanForm(P, kind, t) ==
    \/ StartPlan(P, t)
    \/ SettlePlan(P, t)
    \/ TaskPlan(P, t)
    \/ kind = "definitive_failure" /\ FailurePlan(P, t)
    \/ WorkflowPlan(P, "UPDATE")
    \/ WorkflowPlan(P, "NO KEY UPDATE")

\* Every transaction of RowLocks takes its locks in one of these orders.
LEMMA PlanForms ==
    ASSUME NEW kind \in AllKinds, NEW t \in Tasks
    PROVE  PlanForm(Plan(kind, t), kind, t)
<1>1. CASE kind = "start_ack"
  <2>1. Plan(kind, t) = <<AttemptUpdate(t), HistoryInsert>>
    BY <1>1 DEF Plan, TaskMoves
  <2>. QED
    BY <2>1, Tuples DEF PlanForm, StartPlan
<1>2. CASE kind \in Settlements \ {"start_ack"}
  <2>1. Plan(kind, t) = <<AttemptUpdate(t), TaskUpdate(t), HistoryInsert>>
    BY <1>2 DEF Plan, TaskMoves, Settlements, SettleCallback, SettleDrained
  <2>. QED
    BY <2>1, Tuples DEF PlanForm, SettlePlan
<1>3. CASE kind \in TaskMoves
  <2>1. Plan(kind, t) = <<TaskUpdate(t), HistoryInsert>>
    BY <1>3 DEF Plan, TaskMoves
  <2>. QED
    BY <2>1, Tuples DEF PlanForm, TaskPlan
<1>4. CASE kind = "definitive_failure"
  <2>1. Plan(kind, t) = <<AttemptUpdate(t), TaskUpdate(t), HistoryInsert, Workflow("UPDATE")>>
    <3>1. Plan("definitive_failure", t) = SettleDefinitive(t)
      BY DEF Plan, TaskMoves
    <3>. QED
      BY <1>4, <3>1 DEF SettleDefinitive
  <2>. QED
    <3>1. FailurePlan(<<AttemptUpdate(t), TaskUpdate(t), HistoryInsert, Workflow("UPDATE")>>, t)
      BY Tuples DEF FailurePlan
    <3>. QED
      BY <1>4, <2>1, <3>1 DEF PlanForm
<1>5. CASE kind = "workflow_direction"
  <2>1. Plan(kind, t) = <<Workflow("UPDATE"), HistoryInsert>>
    BY <1>5 DEF Plan, TaskMoves
  <2>. QED
    BY <2>1, Tuples DEF PlanForm, WorkflowPlan
<1>6. CASE kind = "workflow_verdict"
  <2>1. Plan("workflow_verdict", t) = <<Workflow("NO KEY UPDATE"), HistoryInsert>>
    BY DEF Plan, TaskMoves
  <2>. QED
    <3>1. WorkflowPlan(<<Workflow("NO KEY UPDATE"), HistoryInsert>>, "NO KEY UPDATE")
      BY Tuples DEF WorkflowPlan
    <3>. QED
      BY <1>6, <2>1, <3>1 DEF PlanForm
<1>. QED
  BY <1>1, <1>2, <1>3, <1>4, <1>5, <1>6 DEF AllKinds, WorkflowMoves

\* A lock of a plan is on one of the rows, in one of the modes.
IsLock(l) ==
    /\ l.mode \in Modes
    /\ l = [row |-> l.row, mode |-> l.mode]
    /\ \/ \E t \in Tasks : l.row = AttemptOf(t) \/ l.row = TaskOf(t)
       \/ l.row = TheWorkflow

\* Plans are short, and their elements are locks.
LEMMA PlanElements ==
    ASSUME NEW P, NEW kind, NEW t \in Tasks, PlanForm(P, kind, t)
    PROVE  /\ Len(P) \in 2..4
           /\ \A k \in 1..Len(P) : IsLock(P[k])
<1>1. IsLock(AttemptUpdate(t))
  BY LockFields DEF AttemptUpdate, IsLock, Modes
<1>2. IsLock(TaskUpdate(t))
  BY LockFields DEF TaskUpdate, IsLock, Modes
<1>3. \A m \in Modes : IsLock(Workflow(m))
  BY LockFields DEF Workflow, IsLock
<1>4. IsLock(HistoryInsert) /\ IsLock(Workflow("UPDATE")) /\ IsLock(Workflow("NO KEY UPDATE"))
  BY <1>3 DEF HistoryInsert, Modes
<1>5. Len(P) \in 2..4
  <2>1. Len(P) = 2 \/ Len(P) = 3 \/ Len(P) = 4
    BY DEF PlanForm, StartPlan, SettlePlan, TaskPlan, FailurePlan, WorkflowPlan
  <2>. QED
    BY <2>1
<1>6. ASSUME NEW k \in 1..Len(P) PROVE IsLock(P[k])
  <2>1. CASE StartPlan(P, t)
    <3>1. k = 1 \/ k = 2
      BY <2>1 DEF StartPlan
    <3>. QED
      BY <1>1, <1>4, <2>1, <3>1 DEF StartPlan
  <2>2. CASE SettlePlan(P, t)
    <3>1. k = 1 \/ k = 2 \/ k = 3
      BY <2>2 DEF SettlePlan
    <3>. QED
      BY <1>1, <1>2, <1>4, <2>2, <3>1 DEF SettlePlan
  <2>3. CASE TaskPlan(P, t)
    <3>1. k = 1 \/ k = 2
      BY <2>3 DEF TaskPlan
    <3>. QED
      BY <1>2, <1>4, <2>3, <3>1 DEF TaskPlan
  <2>4. CASE FailurePlan(P, t)
    <3>1. k = 1 \/ k = 2 \/ k = 3 \/ k = 4
      BY <2>4 DEF FailurePlan
    <3>. QED
      BY <1>1, <1>2, <1>4, <2>4, <3>1 DEF FailurePlan
  <2>5. ASSUME NEW m \in Modes, WorkflowPlan(P, m) PROVE IsLock(P[k])
    <3>1. k = 1 \/ k = 2
      BY <2>5 DEF WorkflowPlan
    <3>. QED
      BY <1>3, <1>4, <2>5, <3>1 DEF WorkflowPlan
  <2>. QED
    BY <2>1, <2>2, <2>3, <2>4, <2>5 DEF PlanForm, Modes
<1>. QED
  BY <1>5, <1>6

\* A transaction that holds an attempt asks for its task or the workflow, one
\* that holds a task asks for the workflow.
LEMMA LockOrder ==
    ASSUME NEW P, NEW kind, NEW t \in Tasks, PlanForm(P, kind, t),
           NEW n \in Nat, n <= Len(P), NEW k \in 1..(n - 1), NEW u
    PROVE  /\ P[k].row = AttemptOf(u) => P[n].row = TaskOf(t) \/ P[n].row = TheWorkflow
           /\ P[k].row = TaskOf(u) => P[n].row = TheWorkflow
<1>1. CASE StartPlan(P, t)
  <2>1. n = 2
    BY <1>1 DEF StartPlan
  <2>. QED
    BY <1>1, <2>1, LockFields DEF StartPlan
<1>2. CASE SettlePlan(P, t)
  <2>1. n \in {2, 3} /\ (n = 2 => k = 1)
    BY <1>2 DEF SettlePlan
  <2>2. CASE n = 2
    <3>1. P[k].row = AttemptOf(t) /\ P[n].row = TaskOf(t)
      BY <1>2, <2>1, <2>2, LockFields DEF SettlePlan
    <3>. QED
      BY <3>1, RowKinds
  <2>3. CASE n = 3
    BY <1>2, <2>3, LockFields DEF SettlePlan
  <2>. QED
    BY <2>1, <2>2, <2>3
<1>3. CASE TaskPlan(P, t)
  <2>1. n = 2
    BY <1>3 DEF TaskPlan
  <2>. QED
    BY <1>3, <2>1, LockFields DEF TaskPlan
<1>4. CASE FailurePlan(P, t)
  <2>1. n \in {2, 3, 4} /\ (n = 2 => k = 1)
    BY <1>4 DEF FailurePlan
  <2>2. CASE n = 2
    <3>1. P[k].row = AttemptOf(t) /\ P[n].row = TaskOf(t)
      BY <1>4, <2>1, <2>2, LockFields DEF FailurePlan
    <3>. QED
      BY <3>1, RowKinds
  <2>3. CASE n = 3
    BY <1>4, <2>3, LockFields DEF FailurePlan
  <2>4. CASE n = 4
    BY <1>4, <2>4, LockFields DEF FailurePlan
  <2>. QED
    BY <2>1, <2>2, <2>3, <2>4
<1>5. ASSUME NEW m, WorkflowPlan(P, m) PROVE P[n].row = TheWorkflow
  <2>1. n = 2
    BY <1>5 DEF WorkflowPlan
  <2>. QED
    BY <1>5, <2>1, LockFields DEF WorkflowPlan
<1>. QED
  BY <1>1, <1>2, <1>3, <1>4, <1>5 DEF PlanForm

\* Who holds the workflow row and asks for another lock.
LEMMA WorkflowHolders ==
    ASSUME NEW P, NEW kind, NEW t \in Tasks, PlanForm(P, kind, t),
           NEW n \in Nat, n <= Len(P), NEW k \in 1..(n - 1), P[k].row = TheWorkflow
    PROVE  \/ /\ kind = "definitive_failure" /\ n = 4
              /\ P[2] = TaskUpdate(t)
              /\ P[n] = Workflow("UPDATE")
           \/ P[k].mode \in {"UPDATE", "NO KEY UPDATE"} /\ P[n] = HistoryInsert
<1>1. ~StartPlan(P, t)
  <2>1. ASSUME StartPlan(P, t) PROVE k = 1
    BY <2>1 DEF StartPlan
  <2>. QED
    BY <2>1, LockFields, RowKinds DEF StartPlan
<1>2. ~SettlePlan(P, t)
  <2>1. ASSUME SettlePlan(P, t) PROVE k = 1 \/ k = 2
    BY <2>1 DEF SettlePlan
  <2>. QED
    BY <2>1, LockFields, RowKinds DEF SettlePlan
<1>3. ~TaskPlan(P, t)
  <2>1. ASSUME TaskPlan(P, t) PROVE k = 1
    BY <2>1 DEF TaskPlan
  <2>. QED
    BY <2>1, LockFields, RowKinds DEF TaskPlan
<1>4. CASE kind = "definitive_failure" /\ FailurePlan(P, t)
  <2>1. k # 1 /\ k # 2
    BY <1>4, LockFields, RowKinds DEF FailurePlan
  <2>2. n = 4
    BY <1>4, <2>1 DEF FailurePlan
  <2>. QED
    BY <1>4, <2>2 DEF FailurePlan
<1>5. ASSUME NEW m, WorkflowPlan(P, m) PROVE P[k].mode = m /\ P[n] = HistoryInsert
  <2>1. n = 2 /\ k = 1
    BY <1>5 DEF WorkflowPlan
  <2>. QED
    BY <1>5, <2>1, LockFields DEF WorkflowPlan
<1>. QED
  BY <1>1, <1>2, <1>3, <1>4, <1>5 DEF PlanForm

-----------------------------------------------------------------------------
(***************************************************************************)
(* The invariant.                                                          *)
(***************************************************************************)
LEMMA CompatibleIsSymmetric ==
    ASSUME NEW a, NEW b, Compatible(a, b)
    PROVE  Compatible(b, a)
<1>1. \A m, n : Conflicts(m, n) => Conflicts(n, m)
  BY DEF Conflicts
<1>. QED
  BY <1>1 DEF Compatible

\* An open transaction follows one of the plans.
LEMMA OpenFacts ==
    ASSUME LocksInv, NEW x \in Txns, Open(x)
    PROVE  /\ txn[x] \in TxnRow
           /\ txn[x].kind \in AllKinds /\ txn[x].task \in Tasks /\ txn[x].got \in Nat
           /\ txn[x].got <= Len(PlanOf(x)) /\ Len(PlanOf(x)) \in Nat
           /\ PlanForm(PlanOf(x), txn[x].kind, txn[x].task)
           /\ \A k \in 1..Len(PlanOf(x)) : IsLock(PlanOf(x)[k])
<1>1. txn[x] # NoTxn
  BY DEF Open, NoTxn
<1>2. txn[x] \in TxnRow /\ txn[x].got <= Len(PlanOf(x))
  BY <1>1 DEF LocksInv, RecordOK, PlanOf
<1>3. txn[x].kind \in AllKinds /\ txn[x].task \in Tasks /\ txn[x].got \in Nat
  BY <1>2, LocksAssumption DEF TxnRow, LocksAssumption
<1>4. PlanForm(PlanOf(x), txn[x].kind, txn[x].task)
  BY <1>3, PlanForms DEF PlanOf
<1>5. Len(PlanOf(x)) \in 2..4 /\ \A k \in 1..Len(PlanOf(x)) : IsLock(PlanOf(x)[k])
  BY <1>3, <1>4, PlanElements
<1>. QED
  BY <1>2, <1>3, <1>4, <1>5

\* One transaction changes.
LEMMA OneChanges ==
    ASSUME LocksInv, NEW x \in Txns, NEW r \in TxnRow \cup {NoTxn}, RecordOK(r),
           txn' = [txn EXCEPT ![x] = r],
           \A y \in Txns \ {x} : r # NoTxn /\ Open(y) => Compatible(r, txn[y])
    PROVE  LocksInv'
<1>1. /\ txn' \in [Txns -> TxnRow \cup {NoTxn}]
      /\ txn'[x] = r
      /\ \A y \in Txns \ {x} : txn'[y] = txn[y]
  BY DEF LocksInv
<1>2. ASSUME NEW y \in Txns PROVE RecordOK(txn'[y])
  BY <1>1 DEF LocksInv
<1>3. ASSUME NEW y \in Txns, NEW z \in Txns, y # z, Open(y)', Open(z)'
      PROVE  Compatible(txn'[y], txn'[z])
  <2>1. CASE y # x /\ z # x
    BY <1>1, <1>3, <2>1 DEF LocksInv, Open
  <2>2. CASE y = x
    <3>1. r # NoTxn /\ Open(z)
      BY <1>1, <1>3, <2>2 DEF Open, NoTxn
    <3>. QED
      BY <1>1, <1>3, <2>2, <3>1
  <2>3. CASE z = x
    <3>1. r # NoTxn /\ Open(y)
      BY <1>1, <1>3, <2>3 DEF Open, NoTxn
    <3>2. Compatible(r, txn[y])
      BY <1>3, <2>3, <3>1
    <3>. QED
      BY <1>1, <1>3, <2>3, <3>2, CompatibleIsSymmetric
  <2>. QED
    BY <2>1, <2>2, <2>3
<1>. QED
  BY <1>1, <1>2, <1>3 DEF LocksInv

\* A lock is granted when nobody holds one that conflicts.
LEMMA LockKeeps ==
    ASSUME LocksInv, NEW x \in Txns, Lock(x)
    PROVE  LocksInv'
<1>1. Open(x) /\ txn[x].got < Len(PlanOf(x))
  BY DEF Lock, Unfinished
<1>. DEFINE r == [txn[x] EXCEPT !.got = @ + 1]
<1>2. /\ r \in TxnRow
      /\ r.kind = txn[x].kind /\ r.task = txn[x].task /\ r.got = txn[x].got + 1
  BY <1>1, OpenFacts DEF TxnRow
<1>3. txn' = [txn EXCEPT ![x] = r]
  BY DEF Lock
<1>4. RecordOK(r)
  BY <1>1, <1>2, OpenFacts DEF RecordOK, PlanOf
<1>. HIDE DEF r
<1>5. ASSUME NEW y \in Txns \ {x}, Open(y) PROVE Compatible(r, txn[y])
  <2>. SUFFICES ASSUME NEW k \in 1..r.got, NEW l \in 1..txn[y].got,
                       PlanOf(x)[k].row = PlanOf(y)[l].row,
                       Conflicts(PlanOf(x)[k].mode, PlanOf(y)[l].mode)
                PROVE  FALSE
    BY <1>2 DEF Compatible, PlanOf
  <2>1. Compatible(txn[x], txn[y])
    BY <1>1, <1>5 DEF LocksInv
  <2>2. k = txn[x].got + 1
    <3>1. txn[x].got \in Nat
      BY <1>1, OpenFacts
    <3>2. k \notin 1..txn[x].got
      BY <2>1 DEF Compatible, PlanOf
    <3>. QED
      BY <1>2, <3>1, <3>2
  <2>3. PlanOf(x)[k] = Wants(x)
    BY <2>2 DEF Wants
  <2>4. IsLock(PlanOf(y)[l])
    BY <1>5, OpenFacts
  <2>5. PICK q : q = PlanOf(y)[l]
    OBVIOUS
  <2>6. q = [row |-> Wants(x).row, mode |-> q.mode] /\ q.mode \in Modes
    BY <2>3, <2>4, <2>5 DEF IsLock
  <2>7. Holds(y, Wants(x).row, q.mode)
    BY <1>5, <2>5, <2>6 DEF Holds
  <2>8. WaitsFor(x, y)
    BY <1>1, <1>5, <2>3, <2>5, <2>6, <2>7 DEF WaitsFor, Unfinished
  <2>. QED
    BY <1>5, <2>8 DEF Lock
<1>. QED
  BY <1>2, <1>3, <1>4, <1>5, OneChanges

\* No two open transactions ever hold conflicting locks.
LEMMA LocksKeep == LocksInv /\ [LocksNext]_locksVars => LocksInv'
<1>. SUFFICES ASSUME LocksInv, [LocksNext]_locksVars PROVE LocksInv'
  OBVIOUS
<1>1. CASE UNCHANGED locksVars
  BY <1>1 DEF LocksInv, locksVars, Open
<1>2. ASSUME NEW x \in Txns, Begin(x) PROVE LocksInv'
  <2>1. PICK k \in Kinds, t \in Tasks :
          txn' = [txn EXCEPT ![x] = [kind |-> k, task |-> t, got |-> 0]]
    BY <1>2 DEF Begin
  <2>2. PICK r : r = [kind |-> k, task |-> t, got |-> 0]
    OBVIOUS
  <2>3. r \in TxnRow /\ r.kind = k /\ r.task = t /\ r.got = 0
    BY <2>2 DEF TxnRow
  <2>4. RecordOK(r)
    <3>1. Len(Plan(k, t)) \in 2..4
      BY LocksAssumption, PlanForms, PlanElements DEF LocksAssumption
    <3>. QED
      BY <2>3, <3>1 DEF RecordOK
  <2>5. \A y \in Txns : Compatible(r, txn[y])
    BY <2>3 DEF Compatible
  <2>. QED
    BY <2>1, <2>2, <2>3, <2>4, <2>5, OneChanges
<1>3. ASSUME NEW x \in Txns, Commit(x) \/ GiveUp(x) \/ DeadlockDetected(x)
      PROVE  LocksInv'
  <2>1. txn' = [txn EXCEPT ![x] = NoTxn]
    BY <1>3 DEF Commit, GiveUp, DeadlockDetected
  <2>2. RecordOK(NoTxn)
    BY DEF RecordOK
  <2>. QED
    BY <2>1, <2>2, OneChanges
<1>. QED
  BY <1>1, <1>2, <1>3, LockKeeps DEF LocksNext

\* The invariant holds.
LEMMA LocksInvariance == LocksSpec => []LocksInv
<1>1. LocksInit => LocksInv
  BY DEF LocksInit, LocksInv, RecordOK, Open, NoTxn
<1>. QED
  BY <1>1, LocksKeep, PTL DEF LocksSpec

-----------------------------------------------------------------------------
(***************************************************************************)
(* Circles.                                                                *)
(***************************************************************************)
\* What a wait says: y holds a lock of its plan on the row x asks for.
LEMMA WaitFacts ==
    ASSUME LocksInv, NEW x \in Txns, NEW y \in Txns, WaitsFor(x, y)
    PROVE  /\ x # y /\ Open(x) /\ Open(y)
           /\ txn[x].got + 1 \in 1..Len(PlanOf(x))
           /\ IsLock(Wants(x))
           /\ \E k \in 1..txn[y].got :
                /\ PlanOf(y)[k].row = Wants(x).row
                /\ Conflicts(Wants(x).mode, PlanOf(y)[k].mode)
<1>1. x # y /\ Open(x) /\ txn[x].got < Len(PlanOf(x))
  BY DEF WaitsFor, Unfinished
<1>2. PICK m \in Modes : Holds(y, Wants(x).row, m) /\ Conflicts(Wants(x).mode, m)
  BY DEF WaitsFor
<1>3. PICK k \in 1..txn[y].got : PlanOf(y)[k] = [row |-> Wants(x).row, mode |-> m]
  BY <1>2 DEF Holds
<1>4. PlanOf(y)[k].row = Wants(x).row /\ PlanOf(y)[k].mode = m
  BY <1>3
<1>5. txn[x].got + 1 \in 1..Len(PlanOf(x))
  BY <1>1, OpenFacts
<1>. QED
  BY <1>1, <1>2, <1>4, <1>5, OpenFacts DEF Wants, Holds

\* A transaction of a circle that holds the workflow row is a definitive
\* failure that asks for it FOR UPDATE.
LEMMA WorkflowWaiters ==
    ASSUME LocksInv, NEW y \in Txns, NEW z \in Txns, WaitsFor(y, z),
           NEW k \in 1..txn[y].got, PlanOf(y)[k].row = TheWorkflow
    PROVE  /\ txn[y].kind = "definitive_failure" /\ txn[y].got = 3
           /\ PlanOf(y)[2] = TaskUpdate(txn[y].task)
           /\ Wants(y).row = TheWorkflow
<1>. DEFINE n == txn[y].got + 1
<1>1. y # z /\ Open(y) /\ Open(z) /\ n \in 1..Len(PlanOf(y))
  BY WaitFacts
<1>2. PICK l \in 1..txn[z].got : /\ PlanOf(z)[l].row = Wants(y).row
                                 /\ Conflicts(Wants(y).mode, PlanOf(z)[l].mode)
  BY WaitFacts
<1>3. /\ PlanForm(PlanOf(y), txn[y].kind, txn[y].task) /\ txn[y].task \in Tasks
      /\ txn[y].got \in Nat /\ n \in Nat /\ n <= Len(PlanOf(y)) /\ k \in 1..(n - 1)
  BY <1>1, OpenFacts
<1>4. CASE /\ PlanOf(y)[k].mode \in {"UPDATE", "NO KEY UPDATE"}
           /\ PlanOf(y)[n] = HistoryInsert
  <2>1. Wants(y).row = TheWorkflow /\ Wants(y).mode = "KEY SHARE"
    BY <1>4, LockFields DEF Wants
  <2>2. ~Conflicts(PlanOf(y)[k].mode, PlanOf(z)[l].mode)
    BY <1>1, <1>2, <2>1 DEF LocksInv, Compatible, PlanOf
  <2>. QED
    BY <1>2, <1>4, <2>1, <2>2 DEF Conflicts
<1>5. CASE /\ txn[y].kind = "definitive_failure" /\ n = 4
           /\ PlanOf(y)[2] = TaskUpdate(txn[y].task)
           /\ PlanOf(y)[n] = Workflow("UPDATE")
  <2>1. txn[y].got = 3
    BY <1>3, <1>5
  <2>2. Wants(y) = Workflow("UPDATE")
    BY <1>5 DEF Wants
  <2>. QED
    BY <1>5, <2>1, <2>2, LockFields
<1>6. PICK m : m = n
  OBVIOUS
<1>7. \/ /\ txn[y].kind = "definitive_failure" /\ m = 4
         /\ PlanOf(y)[2] = TaskUpdate(txn[y].task)
         /\ PlanOf(y)[m] = Workflow("UPDATE")
      \/ /\ PlanOf(y)[k].mode \in {"UPDATE", "NO KEY UPDATE"}
         /\ PlanOf(y)[m] = HistoryInsert
  <2>1. m \in Nat /\ m <= Len(PlanOf(y)) /\ k \in 1..(m - 1)
    BY <1>3, <1>6
  <2>. QED
    BY <1>3, <2>1, WorkflowHolders
<1>. HIDE DEF n
<1>. QED
  BY <1>4, <1>5, <1>6, <1>7

\* In a circle somebody waits for the workflow row.
LEMMA CircleMeetsWorkflow ==
    ASSUME LocksInv, NEW S \in SUBSET Txns, Circle(S)
    PROVE  \E x \in S : Wants(x).row = TheWorkflow
<1>1. ASSUME NEW x \in S
      PROVE  /\ IsLock(Wants(x))
             /\ \A u : Wants(x).row = AttemptOf(u) =>
                  \E y \in S : Wants(y).row = TheWorkflow \/ \E t : Wants(y).row = TaskOf(t)
             /\ \A u : Wants(x).row = TaskOf(u) => \E y \in S : Wants(y).row = TheWorkflow
  <2>1. PICK y \in S : WaitsFor(x, y)
    BY <1>1 DEF Circle
  <2>2. PICK z \in S : WaitsFor(y, z)
    BY DEF Circle
  <2>. DEFINE n == txn[y].got + 1
  <2>3. IsLock(Wants(x)) /\ Open(y) /\ n \in 1..Len(PlanOf(y))
    BY <2>1, <2>2, WaitFacts
  <2>4. PICK k \in 1..txn[y].got : PlanOf(y)[k].row = Wants(x).row
    BY <2>1, WaitFacts
  <2>5. /\ PlanForm(PlanOf(y), txn[y].kind, txn[y].task) /\ txn[y].task \in Tasks
        /\ txn[y].got \in Nat /\ n \in Nat /\ n <= Len(PlanOf(y)) /\ k \in 1..(n - 1)
    BY <2>3, OpenFacts
  <2>6. Wants(y) = PlanOf(y)[n]
    BY DEF Wants
  <2>. HIDE DEF n
  <2>7. ASSUME NEW u
        PROVE  /\ Wants(x).row = AttemptOf(u) =>
                    Wants(y).row = TaskOf(txn[y].task) \/ Wants(y).row = TheWorkflow
               /\ Wants(x).row = TaskOf(u) => Wants(y).row = TheWorkflow
    BY <2>4, <2>5, <2>6, LockOrder
  <2>. QED
    BY <2>3, <2>7
<1>2. PICK x \in S : TRUE
  BY DEF Circle
<1>3. \/ \E t : Wants(x).row = AttemptOf(t) \/ Wants(x).row = TaskOf(t)
      \/ Wants(x).row = TheWorkflow
  BY <1>1 DEF IsLock
<1>. QED
  BY <1>1, <1>3

(***************************************************************************)
(* Whatever the tasks of the workflow and however many transactions are    *)
(* open: transactions that wait for each other in a circle include the     *)
(* definitive failures of two tasks, each holding the workflow row by its  *)
(* history entry and asking for it FOR UPDATE.                             *)
(***************************************************************************)
THEOREM NoOtherDeadlock == LocksSpec => []OnlyFailuresDeadlock
<1>1. LocksInv => OnlyFailuresDeadlock
  <2>. SUFFICES ASSUME LocksInv, NEW S \in SUBSET Txns, Circle(S)
                PROVE  \E x, y \in S : /\ txn[x].kind = "definitive_failure"
                                       /\ txn[y].kind = "definitive_failure"
                                       /\ txn[x].task # txn[y].task
    BY DEF OnlyFailuresDeadlock
  <2>1. PICK w \in S : Wants(w).row = TheWorkflow
    BY CircleMeetsWorkflow
  <2>2. PICK y \in S, z \in S, v \in S : WaitsFor(w, y) /\ WaitsFor(y, z) /\ WaitsFor(z, v)
    BY DEF Circle
  <2>3. /\ txn[y].kind = "definitive_failure" /\ txn[y].got = 3
        /\ PlanOf(y)[2] = TaskUpdate(txn[y].task)
        /\ Wants(y).row = TheWorkflow
    BY <2>1, <2>2, WaitFacts, WorkflowWaiters
  <2>4. /\ txn[z].kind = "definitive_failure" /\ txn[z].got = 3
        /\ PlanOf(z)[2] = TaskUpdate(txn[z].task)
    BY <2>2, <2>3, WaitFacts, WorkflowWaiters
  <2>5. y # z /\ Open(y) /\ Open(z)
    BY <2>2, WaitFacts
  <2>6. txn[y].task # txn[z].task
    <3>1. PlanOf(y)[2].mode = "NO KEY UPDATE" /\ PlanOf(z)[2].mode = "NO KEY UPDATE"
      BY <2>3, <2>4, LockFields
    <3>2. Conflicts("NO KEY UPDATE", "NO KEY UPDATE")
      BY DEF Conflicts
    <3>3. Compatible(txn[y], txn[z]) /\ 2 \in 1..txn[y].got /\ 2 \in 1..txn[z].got
      BY <2>3, <2>4, <2>5 DEF LocksInv
    <3>4. PlanOf(y)[2].row # PlanOf(z)[2].row
      BY <3>1, <3>2, <3>3 DEF Compatible, PlanOf
    <3>. QED
      BY <2>3, <2>4, <3>4
  <2>. QED
    BY <2>3, <2>4, <2>6
<1>. QED
  BY <1>1, LocksInvariance, PTL
=============================================================================
