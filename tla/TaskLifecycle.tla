--------------------------- MODULE TaskLifecycle ---------------------------
(***************************************************************************)
(* What the engine promises about one workflow execution, with no mention  *)
(* of rows, revisions, transactions or handlers: one owner at a time, a    *)
(* bounded number of attempts, dependencies first, one verdict, and        *)
(* nothing after the verdict.  Every step below is atomic and decided on   *)
(* the current state; module ControlPlane, where decisions are taken on    *)
(* stale reads, is shown to implement it.                                  *)
(***************************************************************************)
EXTENDS Integers

CONSTANTS Tasks, Deps, MaxAttempts, Sessions, NoSession

VARIABLES
    wf,      \* state of the workflow
    state,   \* state[t]: state of task t
    used,    \* used[t]: attempts of t so far
    owner    \* owner[t]: the session that owns the running attempt of t

vars == <<wf, state, used, owner>>

Draining == {"FAILING", "CANCELLING"}

Unstarted == {"PENDING", "RUNNABLE", "RETRY_WAIT"}

Terminal == {"SUCCEEDED", "FAILED", "CANCELLED"}

All(S) == \A t \in Tasks : state[t] \in S

Init ==
    /\ wf = "ABSENT"
    /\ state = [t \in Tasks |-> "ABSENT"]
    /\ used = [t \in Tasks |-> 0]
    /\ owner = [t \in Tasks |-> NoSession]

Start ==
    /\ wf = "ABSENT"
    /\ wf' = "RUNNING"
    /\ state' = [t \in Tasks |-> "PENDING"]
    /\ UNCHANGED <<used, owner>>

(***************************************************************************)
(* lld-06 section 9.1 asks for more than Release, Claim and End: once a    *)
(* workflow drains "no tasks become `RUNNABLE`; no new attempts are        *)
(* allocated" and "Failed tasks are never transitioned to `RETRY_WAIT`".   *)
(* The transactions that need a RUNNING workflow check it without a lock   *)
(* and may commit while it drains, so the code keeps only the weaker       *)
(* promise stated here: not after the verdict.                             *)
(***************************************************************************)
Release(t) ==
    /\ wf \in {"RUNNING"} \cup Draining
    /\ \/ state[t] = "RETRY_WAIT"
       \/ state[t] = "PENDING" /\ \A d \in Deps[t] : state[d] = "SUCCEEDED"
    /\ state' = [state EXCEPT ![t] = "RUNNABLE"]
    /\ UNCHANGED <<wf, used, owner>>

Claim(t, s) ==
    /\ wf \in {"RUNNING"} \cup Draining
    /\ state[t] = "RUNNABLE"
    /\ used[t] < MaxAttempts[t]
    /\ state' = [state EXCEPT ![t] = "RUNNING"]
    /\ used' = [used EXCEPT ![t] = @ + 1]
    /\ owner' = [owner EXCEPT ![t] = s]
    /\ UNCHANGED wf

\* The running attempt of t ends, once, and t with it.
End(t) ==
    /\ wf \in {"RUNNING"} \cup Draining
    /\ state[t] = "RUNNING"
    /\ owner[t] # NoSession
    /\ owner' = [owner EXCEPT ![t] = NoSession]
    /\ \/ /\ state' = [state EXCEPT ![t] = "SUCCEEDED"]
          /\ UNCHANGED wf
       \/ /\ used[t] < MaxAttempts[t]
          /\ state' = [state EXCEPT ![t] = "RETRY_WAIT"]
          /\ UNCHANGED wf
       \/ /\ state' = [state EXCEPT ![t] = "FAILED"]
          /\ wf' \in {wf, IF wf = "RUNNING" THEN "FAILING" ELSE wf}
       \/ /\ wf \in Draining
          /\ state' = [state EXCEPT ![t] = "CANCELLED"]
          /\ UNCHANGED wf
    /\ UNCHANGED used

CancelUnstarted(t) ==
    /\ wf \in Draining
    /\ state[t] \in Unstarted
    /\ state' = [state EXCEPT ![t] = "CANCELLED"]
    /\ UNCHANGED <<wf, used, owner>>

\* The first direction wins; failing needs a failed task.
Direct ==
    /\ wf = "RUNNING"
    /\ \/ wf' = "CANCELLING"
       \/ wf' = "FAILING" /\ \E t \in Tasks : state[t] = "FAILED"
    /\ UNCHANGED <<state, used, owner>>

Verdict ==
    /\ \/ wf = "RUNNING" /\ All({"SUCCEEDED"}) /\ wf' = "SUCCEEDED"
       \/ wf = "FAILING" /\ All(Terminal) /\ wf' = "FAILED"
       \/ wf = "CANCELLING" /\ All(Terminal) /\ wf' = "CANCELLED"
    /\ UNCHANGED <<state, used, owner>>

Next ==
    \/ Start
    \/ \E t \in Tasks : Release(t) \/ End(t) \/ CancelUnstarted(t)
    \/ \E t \in Tasks, s \in Sessions : Claim(t, s)
    \/ Direct
    \/ Verdict

Spec == Init /\ [][Next]_vars
=============================================================================
