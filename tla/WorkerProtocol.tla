--------------------------- MODULE WorkerProtocol ---------------------------
(***************************************************************************)
(* One worker process (worker/runtime.py), the registry and the delivery   *)
(* queues of the control plane (orchestration/registry.py) and the worker  *)
(* routes (routes/worker.py) between them, over a network that may lose a  *)
(* request or its response.                                                *)
(*                                                                         *)
(* An attempt is reduced to what the protocol reads and writes of its row. *)
(* What the control plane does to attempts by itself (module ControlPlane) *)
(* is one action per kind of change.  _poll_loop runs one run_once at a    *)
(* time and swallows its exceptions, so every way out of run_once leads to *)
(* the next poll.                                                          *)
(***************************************************************************)
EXTENDS Integers, Sequences

CONSTANTS
    Attempts,            \* execution attempts
    Drained,             \* those whose workflow may be cancelled or fail
    Sessions,            \* worker session ids
    NoSession,
    Activities,          \* activity types with a handler in the worker
    activity_type,       \* activity_type[a]: the activity of a's task
    task_definition_id,  \* task_definition_id[a]: the name of a's task
    Outcomes,            \* what a call of a handler can come to
    LossyCalls,          \* the routes whose request or response may be lost
    MaxDrains,           \* drains that find an attempt active at the same time
    MaxLosses, MaxCrashes, MaxRestarts   \* bounds on the faults of a behaviour

ASSUME ProtocolAssumption ==
    /\ Attempts # {}
    /\ NoSession \notin Sessions
    /\ Drained \subseteq Attempts
    /\ \A a \in Attempts : activity_type[a] \in Activities
    /\ Outcomes \subseteq {"SUCCESS", "FAILURE", "TYPE_ERROR", "NOT_JSON"}
    /\ LossyCalls \subseteq {"poll", "start", "callback"}
    /\ {MaxDrains, MaxLosses, MaxCrashes, MaxRestarts} \subseteq Nat

VARIABLES
    registry,   \* registry[s]: what the control plane's memory says of session s
    queue,      \* queue[s]: the delivery queue of s
    attempt,    \* attempt[a]: the row of a
    claims,     \* the attempts in the order of created_at_utc
    hints,      \* messages committed work has yet to put in a queue
    polls,      \* poll_work requests being served; number losses is the live one
    worker,     \* the worker process
    ran,        \* ran[a]: calls of a handler on behalf of a
    losses, crashes, restarts

store == <<attempt, claims>>

delivery == <<registry, queue, hints>>

faults == <<losses, crashes, restarts>>

pvars == <<registry, queue, attempt, claims, hints, polls, worker, ran, faults>>

-----------------------------------------------------------------------------
Active == {"CLAIMED", "RUNNING"}

Terminal == {"SUCCEEDED", "FAILED", "CANCELLED"}

Names == Activities \cup {task_definition_id[a] : a \in Attempts}

Message == [status : {"ASSIGNMENT", "CANCEL_COMMAND"},
            attempt : Attempts,
            activity : Names]

AttemptRow == [state : {"ABSENT"} \cup Active \cup Terminal,
               worker_session_id : Sessions \cup {NoSession},
               start_deadline_passed : BOOLEAN,
               drains : 0..MaxDrains]    \* that set cancellation_deadline_utc

\* A session of an earlier control plane process is "forgotten".
Known == {"live", "expired"}

\* "started": the start is acknowledged, the response on its way.
PCs == {"down", "poll", "polling", "start", "started", "execute", "report", "cancel_ack"}

Idle(s) == [pc |-> "poll", session |-> s, attempt |-> CHOOSE a \in Attempts : TRUE,
            activity |-> CHOOSE n \in Names : TRUE, outcome |-> "SUCCESS"]

NoPoll == [stage |-> "none", session |-> NoSession]

WorkerTypeOK ==
    /\ registry \in [Sessions -> {"unregistered", "forgotten"} \cup Known]
    /\ \A s \in Sessions : queue[s] \in Seq(Message)
    /\ attempt \in [Attempts -> AttemptRow]
    /\ {claims[i] : i \in DOMAIN claims} = {a \in Attempts : attempt[a].state # "ABSENT"}
    /\ hints \subseteq Message
    /\ polls \in [0..MaxLosses -> [stage : {"none", "queue", "durable"},
                                   session : Sessions \cup {NoSession}]]
    /\ worker \in [pc : PCs, session : Sessions \cup {NoSession},
                   attempt : Attempts, activity : Names,
                   outcome : Outcomes \cup {"SUCCESS", "FAILURE"}]
    /\ ran \in [Attempts -> Nat]

ProtocolInit ==
    /\ registry = [s \in Sessions |-> "unregistered"]
    /\ queue = [s \in Sessions |-> <<>>]
    /\ attempt = [a \in Attempts |->
                    [state |-> "ABSENT", worker_session_id |-> NoSession,
                     start_deadline_passed |-> FALSE, drains |-> 0]]
    /\ claims = <<>>
    /\ hints = {}
    /\ polls = [p \in 0..MaxLosses |-> NoPoll]
    /\ worker = [Idle(NoSession) EXCEPT !.pc = "down"]
    /\ ran = [a \in Attempts |-> 0]
    /\ losses = 0 /\ crashes = 0 /\ restarts = 0

\* Plausible error: the state of the task is written to the attempt as well.
SettleAsTask(a, state) ==
    attempt' = [attempt EXCEPT ![a].state = IF state = "FAILED" THEN "RETRY_WAIT" ELSE state]

Settle(a, state) == attempt' = [attempt EXCEPT ![a].state = state]

-----------------------------------------------------------------------------
(***************************************************************************)
(* The control plane.                                                      *)
(***************************************************************************)
\* _dispatch_runnable_tasks: find_eligible_worker_for_activity, then the
\* ownership commit.  The hint is put in the queue after it.
ClaimAttempt(a) ==
    /\ attempt[a].state = "ABSENT"
    /\ \E s \in Sessions :
         /\ registry[s] = "live"
         /\ attempt' = [attempt EXCEPT ![a].state = "CLAIMED",
                                       ![a].worker_session_id = s]
    /\ claims' = Append(claims, a)
    /\ hints' = hints \cup {[status |-> "ASSIGNMENT", attempt |-> a,
                             activity |-> activity_type[a]]}
    /\ UNCHANGED <<registry, queue, polls, worker, ran, faults>>

\* drain_workflow found a active and without a cancellation deadline.  Its
\* UPDATE asks for neither, so a may be settled by now, and other drains that
\* read the same row write and send as well.
DrainAttempt(a) ==
    /\ a \in Drained
    /\ attempt[a].state # "ABSENT"
    /\ attempt[a].drains < MaxDrains
    /\ attempt' = [attempt EXCEPT ![a].drains = @ + 1]
    /\ hints' = hints \cup {[status |-> "CANCEL_COMMAND", attempt |-> a,
                             activity |-> activity_type[a]]}
    /\ UNCHANGED <<registry, queue, claims, polls, worker, ran, faults>>

Cancelling(a) == attempt[a].drains > 0

queue_delivery(m) ==
    LET s == attempt[m.attempt].worker_session_id
    IN  /\ m \in hints
        /\ hints' = hints \ {m}
        /\ queue' = IF registry[s] \in Known
                    THEN [queue EXCEPT ![s] = Append(@, m)] ELSE queue
        /\ UNCHANGED <<registry, store, polls, worker, ran, faults>>

\* A start deadline, a lost session or a cancellation deadline settles the
\* attempt without its worker.
SettleWithoutWorker(a) ==
    /\ \/ /\ attempt[a].state = "CLAIMED" /\ attempt[a].start_deadline_passed
          /\ Settle(a, "FAILED")
       \/ /\ attempt[a].state \in Active
          /\ registry[attempt[a].worker_session_id] = "expired"
          /\ Settle(a, "FAILED")
       \/ /\ attempt[a].state \in Active /\ Cancelling(a)
          /\ Settle(a, "CANCELLED")
    /\ UNCHANGED <<claims, delivery, polls, worker, ran, faults>>

StartDeadlinePasses(a) ==
    /\ attempt[a].state = "CLAIMED" /\ ~attempt[a].start_deadline_passed
    /\ attempt' = [attempt EXCEPT ![a].start_deadline_passed = TRUE]
    /\ UNCHANGED <<claims, delivery, polls, worker, ran, faults>>

\* get_snapshot: no heartbeat for the liveness timeout
SessionExpires(s) ==
    /\ registry[s] = "live"
    /\ registry' = [registry EXCEPT ![s] = "expired"]
    /\ UNCHANGED <<queue, store, hints, polls, worker, ran, faults>>

\* The process restarts: its memory is lost, connections break, and startup
\* recovery settles what was active (module StartupRecovery).
ControlPlaneRestarts ==
    /\ restarts < MaxRestarts
    /\ restarts' = restarts + 1
    /\ registry' = [s \in Sessions |-> IF registry[s] \in Known
                                       THEN "forgotten" ELSE registry[s]]
    /\ queue' = [s \in Sessions |-> <<>>]
    /\ hints' = {}
    /\ polls' = [p \in DOMAIN polls |-> NoPoll]
    /\ attempt' = [a \in Attempts |-> IF attempt[a].state \in Active
                      THEN [attempt[a] EXCEPT !.state = "FAILED"] ELSE attempt[a]]
    /\ worker' = [worker EXCEPT !.pc = IF @ = "polling" THEN "poll" ELSE @]
    /\ UNCHANGED <<claims, ran, losses, crashes>>

-----------------------------------------------------------------------------
(***************************************************************************)
(* NexusFlowWorker.start, the heartbeat loop, and a crash of the worker.   *)
(***************************************************************************)
start ==
    /\ worker.pc = "down"
    /\ \E s \in Sessions :
         /\ registry[s] = "unregistered"
         /\ registry' = [registry EXCEPT ![s] = "live"]
         /\ worker' = Idle(s)
    /\ UNCHANGED <<queue, store, hints, polls, ran, faults>>

\* heartbeat_worker refuses a session it does not know with 409, which
\* _heartbeat_loop does not look at.
Heartbeat ==
    /\ worker.pc # "down"
    /\ registry[worker.session] = "expired"
    /\ registry' = [registry EXCEPT ![worker.session] = "live"]
    /\ UNCHANGED <<queue, store, hints, polls, worker, ran, faults>>

WorkerCrashes ==
    /\ crashes < MaxCrashes
    /\ worker.pc # "down"
    /\ crashes' = crashes + 1
    /\ worker' = [Idle(NoSession) EXCEPT !.pc = "down"]
    /\ polls' = [polls EXCEPT ![losses] = NoPoll]
    /\ UNCHANGED <<delivery, store, ran, losses, restarts>>

-----------------------------------------------------------------------------
(***************************************************************************)
(* run_once, first part: the poll.                                         *)
(***************************************************************************)
Ready == Idle(worker.session)

\* A session that is not live is refused with 409: run_once returns False.
PollRequest ==
    /\ worker.pc = "poll"
    /\ registry[worker.session] = "live"
    /\ worker' = [worker EXCEPT !.pc = "polling"]
    /\ polls' = [polls EXCEPT ![losses] = [stage |-> "queue", session |-> worker.session]]
    /\ UNCHANGED <<delivery, store, ran, faults>>

\* The answer to poll p; nobody reads it when the worker gave p up.
Answer(p, m) ==
    /\ polls' = [polls EXCEPT ![p] = NoPoll]
    /\ worker' =
         IF p # losses THEN worker
         ELSE [worker EXCEPT !.pc = IF m.status = "ASSIGNMENT" THEN "start"
                                                               ELSE "cancel_ack",
                             !.attempt = m.attempt,
                             !.activity = m.activity]

poll_delivery(p) ==
    LET s == polls[p].session
    IN  /\ polls[p].stage = "queue"
        /\ queue[s] # <<>>
        /\ Answer(p, Head(queue[s]))
        /\ queue' = [queue EXCEPT ![s] = Tail(@)]
        /\ UNCHANGED <<registry, store, hints, ran, faults>>

QueueTimesOut(p) ==
    /\ polls[p].stage = "queue"
    /\ queue[polls[p].session] = <<>>
    /\ polls' = [polls EXCEPT ![p].stage = "durable"]
    /\ UNCHANGED <<delivery, store, worker, ran, faults>>

\* Plausible error: the fallback repeats what was started, not what was not.
StartedBy(s) == {i \in DOMAIN claims : /\ attempt[claims[i]].state = "RUNNING"
                                       /\ attempt[claims[i]].worker_session_id = s}

\* Where the CLAIMED attempts of session s are in the order of creation.
ClaimedBy(s) == {i \in DOMAIN claims : /\ attempt[claims[i]].state = "CLAIMED"
                                       /\ attempt[claims[i]].worker_session_id = s}

\* The oldest CLAIMED attempt of the session, labelled with the name of its
\* task; NO_WORK if there is none.
DurableFallback(p) ==
    LET found == ClaimedBy(polls[p].session)
    IN  /\ polls[p].stage = "durable"
        /\ \/ \E i \in found :
                /\ \A j \in found : i <= j
                /\ Answer(p, [status |-> "ASSIGNMENT", attempt |-> claims[i],
                              activity |-> task_definition_id[claims[i]]])
           \/ /\ found = {}
              /\ polls' = [polls EXCEPT ![p] = NoPoll]
              /\ worker' = IF p = losses THEN Ready ELSE worker
        /\ UNCHANGED <<delivery, store, ran, faults>>

\* The connection breaks; poll_work goes on without its client.
PollLost ==
    /\ "poll" \in LossyCalls /\ losses < MaxLosses
    /\ worker.pc = "polling"
    /\ losses' = losses + 1
    /\ worker' = Ready
    /\ UNCHANGED <<delivery, store, polls, ran, crashes, restarts>>

-----------------------------------------------------------------------------
(***************************************************************************)
(* run_once, second part: start acknowledgement, handler, callback.        *)
(***************************************************************************)
Mine == attempt[worker.attempt].worker_session_id = worker.session

\* Plausible error: the deadline is left to the sweep.
StartAfterDeadline ==
    /\ registry[worker.session] = "live"
    /\ Mine
    /\ attempt[worker.attempt].state \in Active

\* acknowledge_start and commit_worker_execution_start: a repeated
\* acknowledgement of a RUNNING attempt is accepted.
StartAccepted ==
    LET a == attempt[worker.attempt]
    IN  /\ registry[worker.session] = "live"
        /\ Mine
        /\ \/ a.state = "CLAIMED" /\ ~a.start_deadline_passed
           \/ a.state = "RUNNING"

\* A refusal sends the worker back to its poll.
StartServed ==
    /\ worker.pc = "start"
    /\ IF StartAccepted
       THEN worker' = [worker EXCEPT !.pc = "started"] ELSE worker' = Ready
    /\ IF StartAccepted /\ attempt[worker.attempt].state = "CLAIMED"
       THEN Settle(worker.attempt, "RUNNING") ELSE UNCHANGED attempt
    /\ UNCHANGED <<claims, delivery, polls, ran, faults>>

\* The response arrives, whatever has become of the attempt meanwhile.  An
\* activity without a handler raises after the acknowledgement.
StartAnswered ==
    /\ worker.pc = "started"
    /\ IF worker.activity \in Activities
       THEN /\ worker' = [worker EXCEPT !.pc = "execute"]
            /\ ran' = [ran EXCEPT ![worker.attempt] = @ + 1]
       ELSE worker' = Ready /\ UNCHANGED ran
    /\ UNCHANGED <<delivery, store, polls, faults>>

\* The request is lost, or the response.
StartLost ==
    /\ "start" \in LossyCalls /\ losses < MaxLosses
    /\ worker.pc \in {"start", "started"}
    /\ losses' = losses + 1
    /\ worker' = Ready
    /\ UNCHANGED <<delivery, store, polls, ran, crashes, restarts>>

\* handler(**kwargs), and handler(kwargs) once more after a TypeError.  An
\* output that freeze_json rejects raises, and no callback is made.
HandlerReturns ==
    /\ worker.pc = "execute"
    /\ \E outcome \in Outcomes :
         IF outcome = "TYPE_ERROR" /\ worker.outcome # "TYPE_ERROR"
         THEN /\ worker' = [worker EXCEPT !.outcome = "TYPE_ERROR"]
              /\ ran' = [ran EXCEPT ![worker.attempt] = @ + 1]
         ELSE /\ worker' = IF outcome = "NOT_JSON"
                           THEN Ready
                           ELSE [worker EXCEPT !.pc = "report",
                                   !.outcome = IF outcome = "TYPE_ERROR"
                                               THEN "FAILURE" ELSE outcome]
              /\ UNCHANGED ran
    /\ UNCHANGED <<delivery, store, polls, faults>>

\* Plausible error: no success is accepted once cancellation is under way.
NoSuccessInDrain(a) ==
    /\ attempt[a].state = "RUNNING"
    /\ ~Cancelling(a)
    /\ worker.outcome = "SUCCESS"

SuccessAccepted(a) ==
    /\ attempt[a].state = "RUNNING"
    /\ worker.outcome = "SUCCESS"

\* Plausible error: the attempt is expected at revision 1, as when it starts.
FailureBeforeStart(a) ==
    /\ attempt[a].state = "CLAIMED"
    /\ worker.outcome = "FAILURE"

FailureAccepted(a) ==
    /\ attempt[a].state \in Active
    /\ worker.outcome = "FAILURE"

\* report_callback: fenced by the session of the row, not by the registry.
CallbackServed ==
    LET a == worker.attempt
    IN  /\ worker.pc = "report"
        /\ CASE Mine /\ SuccessAccepted(a) -> Settle(a, "SUCCEEDED")
             [] Mine /\ FailureAccepted(a) -> Settle(a, "FAILED")
             [] OTHER -> UNCHANGED attempt
        /\ UNCHANGED <<claims, delivery, polls>>

\* CANCEL_ACK; accepted while the workflow drains, whatever the handler did
CancelAckServed ==
    LET a == worker.attempt
    IN  /\ worker.pc = "cancel_ack"
        /\ IF Mine /\ attempt[a].state \in Active /\ Cancelling(a)
           THEN Settle(a, "CANCELLED") ELSE UNCHANGED attempt
        /\ UNCHANGED <<claims, delivery, polls>>

CallbackAnswered ==
    /\ CallbackServed \/ CancelAckServed
    /\ worker' = Ready
    /\ UNCHANGED <<ran, faults>>

\* raise_for_status, or the transport, raises: the callback is not repeated.
CallbackLost ==
    /\ "callback" \in LossyCalls /\ losses < MaxLosses
    /\ worker.pc \in {"report", "cancel_ack"}
    /\ \/ CallbackServed
       \/ CancelAckServed
       \/ UNCHANGED <<store, delivery, polls>>
    /\ losses' = losses + 1
    /\ worker' = Ready
    /\ UNCHANGED <<ran, crashes, restarts>>

-----------------------------------------------------------------------------
Serve(p) == poll_delivery(p) \/ QueueTimesOut(p) \/ DurableFallback(p)

RunOnce == PollRequest \/ StartServed \/ StartAnswered \/ HandlerReturns \/ CallbackAnswered

Faults ==
    \/ PollLost \/ StartLost \/ CallbackLost
    \/ WorkerCrashes \/ ControlPlaneRestarts
    \/ \E s \in Sessions : SessionExpires(s)

ProtocolNext ==
    \/ start \/ Heartbeat \/ RunOnce \/ Faults
    \/ \E p \in DOMAIN polls : Serve(p)
    \/ \E m \in hints : queue_delivery(m)
    \/ \E a \in Attempts : \/ ClaimAttempt(a) \/ DrainAttempt(a)
                           \/ SettleWithoutWorker(a) \/ StartDeadlinePasses(a)

ProtocolSpec == ProtocolInit /\ [][ProtocolNext]_pvars

(***************************************************************************)
(* Fairness: the worker's two loops keep running, a handler returns, a     *)
(* request that is being served is served.  Nothing is assumed of the      *)
(* sweeps, which no task of the application runs.                          *)
(***************************************************************************)
FairProtocol ==
    /\ ProtocolSpec
    /\ WF_pvars(start) /\ WF_pvars(Heartbeat) /\ WF_pvars(RunOnce)
    /\ \A p \in 0..MaxLosses : WF_pvars(Serve(p))
    /\ WF_pvars(\E m \in hints : queue_delivery(m))

-----------------------------------------------------------------------------
(***************************************************************************)
(* lld-06 section 11.1, start acknowledgement against start deadline:      *)
(* "Worker must not execute expired assignment."  The fallback goes on     *)
(* offering an attempt whose start deadline passed while it was CLAIMED,   *)
(* hints of it may be queued twice and acknowledgements be lost and        *)
(* repeated; it is never executed, before or after a sweep fails it.       *)
(***************************************************************************)
ExpiredNeverRuns ==
    \A a \in Attempts : attempt[a].start_deadline_passed => ran[a] = 0

(***************************************************************************)
(* lld-05 section 5.6: however often an assignment is delivered, by hints  *)
(* and by the durable fallback, the worker calls the handler once for it.  *)
(***************************************************************************)
RunsOnce == \A a \in Attempts : ran[a] <= 1

(***************************************************************************)
(* A CANCEL_ACK reports COOPERATIVELY_STOPPED, so it settles no attempt    *)
(* whose handler has returned.  The poll loop reads the command only after *)
(* the handler returned and its callback was made.                         *)
(***************************************************************************)
AckedMeansStopped ==
    [][\A a \in Attempts :
         (worker.pc = "cancel_ack" /\ worker'.pc = "poll"
            /\ attempt[a].state \in Active /\ attempt'[a].state = "CANCELLED")
         => ran[a] = 0]_pvars

Resolved(a) ==
    \/ attempt[a].state \in Terminal
    \/ \E s \in Sessions : attempt[a].worker_session_id = s /\ registry[s] # "live"
    \/ \E b \in Attempts : attempt[b].start_deadline_passed

(***************************************************************************)
(* No claim is forgotten: although hints, polls, start acknowledgements    *)
(* and callbacks are lost, and hints are overtaken by the durable          *)
(* fallback, a claimed attempt is started or cancelled, unless its session *)
(* expires or some claim is left to pass its start deadline (which then    *)
(* stays at the head of the fallback for ever).                            *)
(***************************************************************************)
ClaimsAreStarted ==
    \A a \in Attempts :
        attempt[a].state = "CLAIMED" ~> attempt[a].state # "CLAIMED" \/ Resolved(a)

(***************************************************************************)
(* lld-05 section 5.4: the durable fallback "guarantees that no committed  *)
(* task is ever stranded by an in-memory queue loss": under the same       *)
(* exceptions, and with polls as the only calls that are lost, the handler *)
(* of a claimed attempt is called.                                         *)
(***************************************************************************)
ClaimsAreExecuted ==
    \A a \in Attempts :
        attempt[a].state = "CLAIMED" ~> ran[a] > 0 \/ Resolved(a)

=============================================================================
