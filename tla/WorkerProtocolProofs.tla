------------------------ MODULE WorkerProtocolProofs ------------------------
(***************************************************************************)
(* The protocol between a worker and the control plane, for any number of  *)
(* attempts, sessions, losses, crashes and restarts.  First that states    *)
(* are well formed; then, for handlers that succeed or fail and callbacks  *)
(* that arrive, that a handler runs once; and, for all of them, that an    *)
(* expired assignment does not run.                                        *)
(***************************************************************************)
EXTENDS WorkerProtocol, TLAPS

WorkerRecord == [pc : PCs, session : Sessions \cup {NoSession},
                 attempt : Attempts, activity : Names,
                 outcome : Outcomes \cup {"SUCCESS", "FAILURE"}]

PollRecord == [stage : {"none", "queue", "durable"}, session : Sessions \cup {NoSession}]

\* Domains that WorkerTypeOK leaves open.
Shape ==
    /\ queue \in [Sessions -> Seq(Message)]
    /\ claims \in Seq(Attempts)
    /\ losses \in 0..MaxLosses

\* Who works is registered, and sessions are never registered twice.
SessionsOK ==
    /\ worker.pc = "down" => worker.session = NoSession
    /\ worker.pc # "down" =>
         worker.session \in Sessions /\ registry[worker.session] # "unregistered"
    /\ \A a \in Attempts : attempt[a].state \in Active =>
         /\ attempt[a].worker_session_id \in Sessions
         /\ registry[attempt[a].worker_session_id] # "unregistered"

\* The worker waits for the poll it made last, and for no other.
PollsOK ==
    /\ \A p \in 0..MaxLosses :
         /\ polls[p].stage # "none" => polls[p].session \in Sessions
         /\ p > losses => polls[p].stage = "none"
    /\ polls[losses].stage # "none" => worker.pc = "polling"

PInv == WorkerTypeOK /\ Shape /\ SessionsOK /\ PollsOK

-----------------------------------------------------------------------------
(***************************************************************************)
(* What a step does to the rows of the attempts.                           *)
(***************************************************************************)
States == {"ABSENT"} \cup Active \cup Terminal

\* a keeps its session, its state only moves forward, it starts in time, and
\* its start deadline passes only while it is CLAIMED.
Forward(a) ==
    /\ attempt'[a].worker_session_id = attempt[a].worker_session_id
    /\ \/ attempt'[a].state = attempt[a].state
       \/ attempt[a].state \in Active /\ attempt'[a].state \in Terminal
       \/ /\ attempt[a].state = "CLAIMED" /\ attempt'[a].state = "RUNNING"
          /\ ~attempt[a].start_deadline_passed
    /\ \/ attempt'[a].start_deadline_passed = attempt[a].start_deadline_passed
       \/ attempt'[a].state = "CLAIMED"

AttemptsMove ==
    /\ attempt' \in [Attempts -> AttemptRow]
    /\ UNCHANGED claims
    /\ \A a \in Attempts : Forward(a)

\* Settle writes one state.
LEMMA SettleMoves ==
    ASSUME attempt \in [Attempts -> AttemptRow], UNCHANGED claims,
           NEW a \in Attempts, NEW s \in Terminal \cup {"RUNNING"},
           attempt[a].state \in Active,
           s = "RUNNING" => attempt[a].state = "CLAIMED" /\ ~attempt[a].start_deadline_passed,
           Settle(a, s)
    PROVE  /\ AttemptsMove
           /\ attempt'[a].state = s
           /\ \A b \in Attempts \ {a} : attempt'[b] = attempt[b]
<1>1. /\ attempt' = [attempt EXCEPT ![a].state = s]
      /\ s \in States
  BY DEF Settle, States, Active
<1>2. attempt' \in [Attempts -> AttemptRow]
  BY <1>1 DEF AttemptRow, States
<1>3. /\ attempt'[a].state = s
      /\ attempt'[a].worker_session_id = attempt[a].worker_session_id
      /\ attempt'[a].start_deadline_passed = attempt[a].start_deadline_passed
      /\ \A b \in Attempts \ {a} : attempt'[b] = attempt[b]
  BY <1>1 DEF AttemptRow
<1>. QED
  BY <1>2, <1>3 DEF AttemptsMove, Forward, Active

\* A step that leaves the rows alone moves them forward.
LEMMA NothingMoves ==
    ASSUME attempt \in [Attempts -> AttemptRow], UNCHANGED <<attempt, claims>>
    PROVE  AttemptsMove
BY DEF AttemptsMove, Forward

\* The control plane by itself.
LEMMA ControlPlaneMoves ==
    ASSUME PInv, NEW a \in Attempts,
           DrainAttempt(a) \/ SettleWithoutWorker(a) \/ StartDeadlinePasses(a)
    PROVE  AttemptsMove
<1>1. attempt \in [Attempts -> AttemptRow]
  BY DEF PInv, WorkerTypeOK
<1>2. CASE DrainAttempt(a)
  <2>1. /\ attempt' = [attempt EXCEPT ![a].drains = @ + 1] /\ UNCHANGED claims
        /\ attempt[a].drains < MaxDrains
    BY <1>2 DEF DrainAttempt
  <2>2. attempt[a].drains + 1 \in 0..MaxDrains
    BY <1>1, <2>1, ProtocolAssumption DEF ProtocolAssumption, AttemptRow
  <2>3. attempt' \in [Attempts -> AttemptRow]
    BY <1>1, <2>1, <2>2 DEF AttemptRow
  <2>. QED
    BY <1>1, <2>1, <2>3 DEF AttemptsMove, Forward, AttemptRow
<1>3. CASE SettleWithoutWorker(a)
  <2>1. UNCHANGED claims
    BY <1>3 DEF SettleWithoutWorker
  <2>2. attempt[a].state \in Active /\ (Settle(a, "FAILED") \/ Settle(a, "CANCELLED"))
    BY <1>3 DEF SettleWithoutWorker, Active
  <2>3. "FAILED" \in Terminal /\ "CANCELLED" \in Terminal
    BY DEF Terminal
  <2>. QED
    BY <1>1, <2>1, <2>2, <2>3, SettleMoves
<1>4. CASE StartDeadlinePasses(a)
  BY <1>1, <1>4 DEF StartDeadlinePasses, AttemptsMove, Forward, AttemptRow
<1>. QED
  BY <1>2, <1>3, <1>4

\* A restart fails what was active.
LEMMA RestartMoves ==
    ASSUME PInv, ControlPlaneRestarts
    PROVE  /\ AttemptsMove
           /\ \A a \in Attempts : attempt'[a].state \notin Active
<1>1. attempt \in [Attempts -> AttemptRow] /\ UNCHANGED claims
  BY DEF PInv, WorkerTypeOK, ControlPlaneRestarts
<1>2. attempt' = [a \in Attempts |-> IF attempt[a].state \in Active
                    THEN [attempt[a] EXCEPT !.state = "FAILED"] ELSE attempt[a]]
  BY DEF ControlPlaneRestarts
<1>3. ASSUME NEW a \in Attempts
      PROVE  attempt'[a] \in AttemptRow /\ Forward(a) /\ attempt'[a].state \notin Active
  <2>1. attempt[a] \in AttemptRow
    BY <1>1
  <2>2. CASE attempt[a].state \in Active
    <3>1. attempt'[a] = [attempt[a] EXCEPT !.state = "FAILED"]
      BY <1>2, <2>2
    <3>2. /\ attempt'[a] \in AttemptRow
          /\ attempt'[a].state = "FAILED"
          /\ attempt'[a].worker_session_id = attempt[a].worker_session_id
          /\ attempt'[a].start_deadline_passed = attempt[a].start_deadline_passed
      BY <2>1, <3>1 DEF AttemptRow, Terminal
    <3>. QED
      BY <2>2, <3>2 DEF Forward, Active, Terminal
  <2>3. CASE attempt[a].state \notin Active
    BY <1>2, <2>1, <2>3 DEF Forward
  <2>. QED
    BY <2>2, <2>3
<1>4. attempt' \in [Attempts -> AttemptRow]
  BY <1>2, <1>3
<1>. QED
  BY <1>1, <1>3, <1>4 DEF AttemptsMove

\* Start acknowledgements and callbacks.
LEMMA ServedMoves ==
    ASSUME PInv, StartServed \/ CallbackServed \/ CancelAckServed
    PROVE  AttemptsMove
<1>1. attempt \in [Attempts -> AttemptRow] /\ worker.attempt \in Attempts
  BY DEF PInv, WorkerTypeOK
<1>2. UNCHANGED claims
  BY DEF StartServed, CallbackServed, CancelAckServed
<1>3. {"SUCCEEDED", "FAILED", "CANCELLED"} \subseteq Terminal
  BY DEF Terminal
<1>4. CASE UNCHANGED attempt
  BY <1>1, <1>2, <1>4, NothingMoves
<1>5. CASE StartServed /\ ~UNCHANGED attempt
  <2>1. /\ attempt[worker.attempt].state = "CLAIMED"
        /\ ~attempt[worker.attempt].start_deadline_passed
        /\ Settle(worker.attempt, "RUNNING")
    BY <1>5 DEF StartServed, StartAccepted
  <2>. QED
    BY <1>1, <1>2, <2>1, SettleMoves DEF Active
<1>6. CASE CallbackServed /\ ~UNCHANGED attempt
  <2>1. /\ attempt[worker.attempt].state \in Active
        /\ Settle(worker.attempt, "SUCCEEDED") \/ Settle(worker.attempt, "FAILED")
    BY <1>6 DEF CallbackServed, SuccessAccepted, FailureAccepted, Active
  <2>. QED
    BY <1>1, <1>2, <1>3, <2>1, SettleMoves
<1>7. CASE CancelAckServed /\ ~UNCHANGED attempt
  <2>1. attempt[worker.attempt].state \in Active /\ Settle(worker.attempt, "CANCELLED")
    BY <1>7 DEF CancelAckServed
  <2>. QED
    BY <1>1, <1>2, <1>3, <2>1, SettleMoves
<1>. QED
  BY <1>4, <1>5, <1>6, <1>7

\* Every step but a claim.
LEMMA StepsMove ==
    ASSUME PInv, ProtocolNext
    PROVE  AttemptsMove \/ \E a \in Attempts : ClaimAttempt(a)
<1>1. attempt \in [Attempts -> AttemptRow]
  BY DEF PInv, WorkerTypeOK
<1>2. CASE UNCHANGED store
  BY <1>1, <1>2, NothingMoves DEF store
<1>3. CASE start \/ Heartbeat \/ PollRequest \/ HandlerReturns \/ PollLost \/ WorkerCrashes
  BY <1>2, <1>3 DEF start, Heartbeat, PollRequest, HandlerReturns, PollLost, WorkerCrashes
<1>4. CASE StartServed \/ StartAnswered \/ StartLost
  BY <1>2, <1>4, ServedMoves DEF StartAnswered, StartLost
<1>5. CASE CallbackAnswered \/ CallbackLost
  BY <1>2, <1>5, ServedMoves DEF CallbackAnswered, CallbackLost
<1>6. ASSUME NEW s \in Sessions, SessionExpires(s) PROVE UNCHANGED store
  BY <1>6 DEF SessionExpires
<1>7. ASSUME NEW p \in DOMAIN polls, Serve(p) PROVE UNCHANGED store
  BY <1>7 DEF Serve, poll_delivery, QueueTimesOut, DurableFallback
<1>8. ASSUME NEW m \in hints, queue_delivery(m) PROVE UNCHANGED store
  BY <1>8 DEF queue_delivery
<1>. QED
  BY <1>2, <1>3, <1>4, <1>5, <1>6, <1>7, <1>8, ControlPlaneMoves, RestartMoves
     DEF ProtocolNext, RunOnce, Faults

-----------------------------------------------------------------------------
(***************************************************************************)
(* Well-formed states: the registry, the queues and the store.             *)
(***************************************************************************)
Registered == {"unregistered", "forgotten"} \cup Known

RegistryMove ==
    /\ registry' \in [Sessions -> Registered]
    /\ \A s \in Sessions : registry[s] # "unregistered" => registry'[s] # "unregistered"

\* A session is registered once and stays known or forgotten.
LEMMA RegistryMoves ==
    ASSUME PInv, ProtocolNext
    PROVE  RegistryMove
<1>1. registry \in [Sessions -> Registered]
  BY DEF PInv, WorkerTypeOK, Registered
<1>2. CASE UNCHANGED registry
  BY <1>1, <1>2 DEF RegistryMove
<1>3. CASE start
  BY <1>1, <1>3 DEF start, RegistryMove, Registered, Known
<1>4. CASE Heartbeat
  BY <1>1, <1>4 DEF Heartbeat, RegistryMove, Registered, Known
<1>5. ASSUME NEW s \in Sessions, SessionExpires(s) PROVE RegistryMove
  BY <1>1, <1>5 DEF SessionExpires, RegistryMove, Registered, Known
<1>6. CASE ControlPlaneRestarts
  BY <1>1, <1>6 DEF ControlPlaneRestarts, RegistryMove, Registered, Known
<1>7. CASE RunOnce \/ PollLost \/ StartLost \/ CallbackLost \/ WorkerCrashes
  BY <1>2, <1>7 DEF RunOnce, PollRequest, StartAnswered, StartServed, HandlerReturns,
       CallbackAnswered, CallbackServed, CancelAckServed, PollLost, StartLost, CallbackLost,
       WorkerCrashes, delivery
<1>8. ASSUME NEW p \in DOMAIN polls, Serve(p) PROVE UNCHANGED registry
  BY <1>8 DEF Serve, poll_delivery, QueueTimesOut, DurableFallback, delivery
<1>9. ASSUME NEW m \in hints, queue_delivery(m) PROVE UNCHANGED registry
  BY <1>9 DEF queue_delivery
<1>10. ASSUME NEW a \in Attempts,
              \/ ClaimAttempt(a) \/ DrainAttempt(a)
              \/ SettleWithoutWorker(a) \/ StartDeadlinePasses(a)
       PROVE  UNCHANGED registry
  BY <1>10 DEF ClaimAttempt, DrainAttempt, SettleWithoutWorker, StartDeadlinePasses, delivery
<1>. QED
  BY <1>2, <1>3, <1>4, <1>5, <1>6, <1>7, <1>8, <1>9, <1>10 DEF ProtocolNext, Faults

\* A message names an attempt and an activity or a task.
LEMMA MessageFacts ==
    ASSUME NEW a \in Attempts, NEW kind \in {"ASSIGNMENT", "CANCEL_COMMAND"}
    PROVE  /\ [status |-> kind, attempt |-> a, activity |-> activity_type[a]] \in Message
           /\ [status |-> kind, attempt |-> a, activity |-> task_definition_id[a]] \in Message
<1>1. activity_type[a] \in Names /\ task_definition_id[a] \in Names
  BY ProtocolAssumption DEF ProtocolAssumption, Names
<1>. QED
  BY <1>1 DEF Message

DeliveryTypes == queue \in [Sessions -> Seq(Message)] /\ hints \subseteq Message

\* Queues and hints hold messages.
LEMMA DeliveryMoves ==
    ASSUME PInv, ProtocolNext
    PROVE  DeliveryTypes'
<1>1. queue \in [Sessions -> Seq(Message)] /\ hints \subseteq Message
  BY DEF PInv, WorkerTypeOK, Shape
<1>2. CASE UNCHANGED <<queue, hints>>
  BY <1>1, <1>2 DEF DeliveryTypes
<1>3. ASSUME NEW a \in Attempts, ClaimAttempt(a) \/ DrainAttempt(a) PROVE DeliveryTypes'
  <2>1. UNCHANGED queue
    BY <1>3 DEF ClaimAttempt, DrainAttempt
  <2>2. hints' \subseteq Message
    <3>1. CASE ClaimAttempt(a)
      BY <1>1, <3>1, MessageFacts DEF ClaimAttempt
    <3>2. CASE DrainAttempt(a)
      BY <1>1, <3>2, MessageFacts DEF DrainAttempt
    <3>. QED
      BY <1>3, <3>1, <3>2
  <2>. QED
    BY <1>1, <2>1, <2>2 DEF DeliveryTypes
<1>4. ASSUME NEW m \in hints, queue_delivery(m) PROVE DeliveryTypes'
  <2>1. hints' \subseteq Message /\ m \in Message
    BY <1>1, <1>4 DEF queue_delivery
  <2>2. ASSUME NEW q \in Seq(Message) PROVE Append(q, m) \in Seq(Message)
    BY <2>1, <2>2
  <2>3. PICK s : queue' = queue \/ queue' = [queue EXCEPT ![s] = Append(@, m)]
    BY <1>4 DEF queue_delivery
  <2>4. queue' \in [Sessions -> Seq(Message)]
    BY <1>1, <2>2, <2>3
  <2>. QED
    BY <2>1, <2>4 DEF DeliveryTypes
<1>5. ASSUME NEW p \in DOMAIN polls, poll_delivery(p) PROVE DeliveryTypes'
  <2>1. PICK s : s = polls[p].session
    OBVIOUS
  <2>2. UNCHANGED hints /\ queue' = [queue EXCEPT ![s] = Tail(@)] /\ queue[s] # <<>>
    BY <1>5, <2>1 DEF poll_delivery
  <2>3. queue' \in [Sessions -> Seq(Message)]
    <3>1. CASE s \in Sessions
      <4>1. queue[s] \in Seq(Message) /\ queue[s] # <<>>
        BY <1>1, <2>2, <3>1
      <4>2. Tail(queue[s]) \in Seq(Message)
        BY <4>1
      <4>. QED
        BY <1>1, <2>2, <4>2
    <3>2. CASE s \notin Sessions
      BY <1>1, <2>2, <3>2
    <3>. QED
      BY <3>1, <3>2
  <2>. QED
    BY <1>1, <2>2, <2>3 DEF DeliveryTypes
<1>6. CASE ControlPlaneRestarts
  BY <1>6 DEF ControlPlaneRestarts, DeliveryTypes
<1>7. CASE start \/ Heartbeat \/ RunOnce \/ PollLost \/ StartLost \/ CallbackLost \/ WorkerCrashes
  BY <1>2, <1>7 DEF start, Heartbeat, RunOnce, PollRequest, StartAnswered, StartServed,
       HandlerReturns, CallbackAnswered, CallbackServed, CancelAckServed, PollLost, StartLost,
       CallbackLost, WorkerCrashes, delivery
<1>8. ASSUME NEW s \in Sessions, SessionExpires(s) PROVE UNCHANGED <<queue, hints>>
  BY <1>8 DEF SessionExpires
<1>9. ASSUME NEW p \in DOMAIN polls, QueueTimesOut(p) \/ DurableFallback(p)
      PROVE  UNCHANGED <<queue, hints>>
  BY <1>9 DEF QueueTimesOut, DurableFallback, delivery
<1>10. ASSUME NEW a \in Attempts, SettleWithoutWorker(a) \/ StartDeadlinePasses(a)
       PROVE  UNCHANGED <<queue, hints>>
  BY <1>10 DEF SettleWithoutWorker, StartDeadlinePasses, delivery
<1>. QED
  BY <1>2, <1>3, <1>4, <1>5, <1>6, <1>7, <1>8, <1>9, <1>10 DEF ProtocolNext, Faults, Serve

StoreTypes ==
    /\ attempt \in [Attempts -> AttemptRow]
    /\ claims \in Seq(Attempts)
    /\ {claims[i] : i \in DOMAIN claims} = {a \in Attempts : attempt[a].state # "ABSENT"}

OwnersOK ==
    \A a \in Attempts : attempt[a].state \in Active =>
        /\ attempt[a].worker_session_id \in Sessions
        /\ registry[attempt[a].worker_session_id] # "unregistered"

\* The rows, their order of creation, and their owners.
LEMMA StoreMoves ==
    ASSUME PInv, ProtocolNext
    PROVE  StoreTypes' /\ OwnersOK'
<1>1. StoreTypes /\ OwnersOK /\ RegistryMove
  BY RegistryMoves DEF PInv, WorkerTypeOK, Shape, SessionsOK, StoreTypes, OwnersOK
<1>2. CASE AttemptsMove
  <2>1. \A a \in Attempts : attempt'[a].state = "ABSENT" <=> attempt[a].state = "ABSENT"
    BY <1>2 DEF AttemptsMove, Forward, Active, Terminal
  <2>2. {a \in Attempts : attempt'[a].state # "ABSENT"} =
          {a \in Attempts : attempt[a].state # "ABSENT"}
    BY <2>1
  <2>3. StoreTypes'
    BY <1>1, <1>2, <2>2 DEF AttemptsMove, StoreTypes
  <2>4. OwnersOK'
    BY <1>1, <1>2 DEF AttemptsMove, Forward, OwnersOK, RegistryMove, Active, Terminal
  <2>. QED
    BY <2>3, <2>4
<1>3. ASSUME NEW a \in Attempts, ClaimAttempt(a) PROVE StoreTypes' /\ OwnersOK'
  <2>1. PICK s \in Sessions :
          /\ registry[s] = "live"
          /\ attempt' = [attempt EXCEPT ![a].state = "CLAIMED", ![a].worker_session_id = s]
    BY <1>3 DEF ClaimAttempt
  <2>2. claims' = Append(claims, a) /\ UNCHANGED registry
    BY <1>3 DEF ClaimAttempt
  <2>3. /\ attempt' \in [Attempts -> AttemptRow]
        /\ attempt'[a].state = "CLAIMED" /\ attempt'[a].worker_session_id = s
        /\ \A b \in Attempts \ {a} : attempt'[b] = attempt[b]
    BY <1>1, <2>1 DEF StoreTypes, AttemptRow, Active
  <2>4. /\ claims' \in Seq(Attempts)
        /\ {claims'[i] : i \in DOMAIN claims'} = {claims[i] : i \in DOMAIN claims} \cup {a}
    <3>1. claims \in Seq(Attempts)
      BY <1>1 DEF StoreTypes
    <3>2. /\ claims' \in Seq(Attempts)
          /\ DOMAIN claims' = 1..(Len(claims) + 1) /\ DOMAIN claims = 1..Len(claims)
          /\ Len(claims) \in Nat
      BY <2>2, <3>1
    <3>3. claims'[Len(claims) + 1] = a
      BY <2>2, <3>1
    <3>4. \A i \in 1..Len(claims) : claims'[i] = claims[i]
      BY <2>2, <3>1
    <3>. QED
      BY <3>2, <3>3, <3>4
  <2>5. {b \in Attempts : attempt'[b].state # "ABSENT"} =
          {b \in Attempts : attempt[b].state # "ABSENT"} \cup {a}
    BY <2>3
  <2>6. StoreTypes'
    BY <1>1, <2>3, <2>4, <2>5 DEF StoreTypes
  <2>7. OwnersOK'
    BY <1>1, <2>1, <2>2, <2>3 DEF OwnersOK
  <2>. QED
    BY <2>6, <2>7
<1>. QED
  BY <1>2, <1>3, StepsMove

-----------------------------------------------------------------------------
(***************************************************************************)
(* Well-formed states: the worker and its polls.                           *)
(***************************************************************************)
WorkerOK ==
    /\ worker \in WorkerRecord
    /\ worker.pc = "down" => worker.session = NoSession
    /\ worker.pc # "down" =>
         worker.session \in Sessions /\ registry[worker.session] # "unregistered"

ProcessOK ==
    /\ WorkerOK
    /\ polls \in [0..MaxLosses -> PollRecord]
    /\ losses \in 0..MaxLosses
    /\ PollsOK

\* The worker between two calls of run_once, and when it is down.
LEMMA IdleFacts ==
    ASSUME NEW s \in Sessions \cup {NoSession}
    PROVE  /\ Idle(s) \in WorkerRecord /\ Idle(s).pc = "poll" /\ Idle(s).session = s
           /\ LET w == [Idle(s) EXCEPT !.pc = "down"]
              IN  w \in WorkerRecord /\ w.pc = "down" /\ w.session = s
<1>. DEFINE a == CHOOSE a \in Attempts : TRUE
            n == CHOOSE n \in Names : TRUE
<1>1. a \in Attempts
  BY ProtocolAssumption DEF ProtocolAssumption
<1>2. n \in Names
  <2>1. Names # {}
    BY <1>1 DEF Names
  <2>. QED
    BY <2>1
<1>3. Idle(s) = [pc |-> "poll", session |-> s, attempt |-> a, activity |-> n,
                 outcome |-> "SUCCESS"]
  BY DEF Idle
<1>. HIDE DEF a, n
<1>4. Idle(s) \in WorkerRecord /\ Idle(s).pc = "poll" /\ Idle(s).session = s
  BY <1>1, <1>2, <1>3 DEF WorkerRecord, PCs
<1>5. PICK w : w = [Idle(s) EXCEPT !.pc = "down"]
  OBVIOUS
<1>6. w \in WorkerRecord /\ w.pc = "down" /\ w.session = s
  BY <1>1, <1>2, <1>3, <1>5 DEF WorkerRecord, PCs
<1>. QED
  BY <1>4, <1>5, <1>6

\* PInv says so of the current state.
LEMMA ProcessNow ==
    ASSUME PInv
    PROVE  /\ ProcessOK /\ MaxLosses \in Nat
           /\ worker \in WorkerRecord /\ worker.session \in Sessions \cup {NoSession}
           /\ worker.attempt \in Attempts
           /\ Ready \in WorkerRecord /\ Ready.pc = "poll" /\ Ready.session = worker.session
<1>1. ProcessOK /\ MaxLosses \in Nat
  BY ProtocolAssumption
     DEF ProtocolAssumption, PInv, WorkerTypeOK, Shape, SessionsOK, ProcessOK, WorkerOK,
         WorkerRecord, PollRecord
<1>2. /\ worker \in WorkerRecord /\ worker.session \in Sessions \cup {NoSession}
      /\ worker.attempt \in Attempts
  BY <1>1 DEF ProcessOK, WorkerOK, WorkerRecord
<1>. QED
  BY <1>1, <1>2, IdleFacts DEF Ready

\* Steps of others.
LEMMA QuietProcess ==
    ASSUME PInv, RegistryMove, UNCHANGED <<worker, polls, losses>>
    PROVE  ProcessOK'
BY ProcessNow DEF ProcessOK, WorkerOK, PollsOK, RegistryMove

\* Steps of run_once that no poll is waiting for.
LEMMA WorkerGoesOn ==
    ASSUME PInv, RegistryMove, UNCHANGED polls,
           worker' \in WorkerRecord, worker'.session = worker.session,
           worker.pc # "down", worker'.pc # "down",
           \/ losses' = losses /\ worker.pc # "polling"
           \/ losses < MaxLosses /\ losses' = losses + 1
    PROVE  ProcessOK'
<1>1. WorkerOK'
  BY ProcessNow DEF ProcessOK, WorkerOK, RegistryMove
<1>2. losses' \in 0..MaxLosses /\ losses \in 0..MaxLosses /\ MaxLosses \in Nat
  BY ProcessNow DEF ProcessOK
<1>3. polls'[losses'].stage = "none"
  BY <1>2, ProcessNow DEF ProcessOK, PollsOK
<1>4. PollsOK'
  BY <1>2, <1>3, ProcessNow DEF ProcessOK, PollsOK
<1>. QED
  BY <1>1, <1>2, <1>4, ProcessNow DEF ProcessOK

\* Lost requests, and what run_once does with its answers.
LEMMA RunOnceKeeps ==
    ASSUME PInv, RegistryMove,
           \/ StartServed \/ StartAnswered \/ HandlerReturns \/ CallbackAnswered
           \/ PollLost \/ StartLost \/ CallbackLost
    PROVE  ProcessOK'
<1>1. /\ worker \in WorkerRecord
      /\ Ready \in WorkerRecord /\ Ready.pc = "poll" /\ Ready.session = worker.session
  BY ProcessNow
<1>2. CASE PollLost \/ StartLost \/ CallbackLost
  <2>1. /\ worker' = Ready /\ UNCHANGED polls /\ worker.pc # "down"
        /\ losses < MaxLosses /\ losses' = losses + 1
    BY <1>2 DEF PollLost, StartLost, CallbackLost, StartServed, CallbackServed,
                CancelAckServed
  <2>. QED
    BY <1>1, <2>1, WorkerGoesOn
<1>3. CASE CallbackAnswered
  <2>1. /\ worker' = Ready /\ UNCHANGED <<polls, losses>>
        /\ worker.pc \in {"report", "cancel_ack"}
    BY <1>3 DEF CallbackAnswered, CallbackServed, CancelAckServed, faults
  <2>. QED
    BY <1>1, <2>1, WorkerGoesOn
<1>4. CASE StartServed \/ StartAnswered
  <2>1. UNCHANGED <<polls, losses>> /\ worker.pc \in {"start", "started"}
    BY <1>4 DEF StartAnswered, StartServed, faults
  <2>2. worker' = Ready \/ \E pc \in {"started", "execute"} : worker' = [worker EXCEPT !.pc = pc]
    BY <1>4 DEF StartAnswered, StartServed
  <2>3. /\ worker' \in WorkerRecord /\ worker'.session = worker.session
        /\ worker'.pc # "down"
    BY <1>1, <2>2 DEF WorkerRecord, PCs
  <2>. QED
    BY <2>1, <2>3, WorkerGoesOn
<1>5. CASE HandlerReturns
  <2>1. UNCHANGED <<polls, losses>> /\ worker.pc = "execute"
    BY <1>5 DEF HandlerReturns, faults
  <2>2. \/ worker' = Ready
        \/ \E o \in Outcomes \cup {"FAILURE"} :
             \/ worker' = [worker EXCEPT !.outcome = o]
             \/ worker' = [worker EXCEPT !.pc = "report", !.outcome = o]
    BY <1>5 DEF HandlerReturns
  <2>3. /\ worker' \in WorkerRecord /\ worker'.session = worker.session
        /\ worker'.pc # "down"
    BY <1>1, <2>1, <2>2 DEF WorkerRecord, PCs
  <2>. QED
    BY <2>1, <2>3, WorkerGoesOn
<1>. QED
  BY <1>2, <1>3, <1>4, <1>5

\* The poll a worker waits for is made, moves to the fallback, or is over.
LEMMA PollChanges ==
    ASSUME PInv, RegistryMove, UNCHANGED losses, NEW p \in 0..MaxLosses,
           NEW r \in PollRecord, polls' = [polls EXCEPT ![p] = r],
           WorkerOK',
           r.stage # "none" => r.session \in Sessions /\ p <= losses,
           p = losses => r.stage = "none" \/ worker'.pc = "polling",
           p # losses => UNCHANGED worker
    PROVE  ProcessOK'
<1>1. /\ polls \in [0..MaxLosses -> PollRecord] /\ losses \in 0..MaxLosses
      /\ PollsOK /\ MaxLosses \in Nat
  BY ProcessNow DEF ProcessOK
<1>2. /\ polls' \in [0..MaxLosses -> PollRecord] /\ polls'[p] = r
      /\ \A q \in (0..MaxLosses) \ {p} : polls'[q] = polls[q]
  BY <1>1
<1>3. ASSUME NEW q \in 0..MaxLosses
      PROVE  /\ polls'[q].stage # "none" => polls'[q].session \in Sessions
             /\ q > losses' => polls'[q].stage = "none"
  BY <1>1, <1>2, <1>3 DEF PollsOK
<1>4. polls'[losses'].stage # "none" => worker'.pc = "polling"
  BY <1>1, <1>2 DEF PollsOK
<1>. QED
  BY <1>1, <1>2, <1>3, <1>4 DEF ProcessOK, PollsOK

\* NoPoll, and a poll under way.
LEMMA PollRecords ==
    /\ NoPoll \in PollRecord /\ NoPoll.stage = "none"
    /\ \A st \in {"queue", "durable"}, s \in Sessions :
         LET r == [stage |-> st, session |-> s]
         IN  r \in PollRecord /\ r.stage = st /\ r.session = s
BY DEF NoPoll, PollRecord

\* The answer to a poll.
LEMMA AnswerKeeps ==
    ASSUME PInv, RegistryMove, UNCHANGED losses, NEW p \in 0..MaxLosses,
           polls[p].stage # "none", NEW m \in Message, Answer(p, m)
    PROVE  ProcessOK'
<1>1. worker \in WorkerRecord /\ WorkerOK /\ PollsOK /\ losses \in 0..MaxLosses
  BY ProcessNow DEF ProcessOK
<1>2. polls' = [polls EXCEPT ![p] = NoPoll]
  BY DEF Answer
<1>3. WorkerOK'
  <2>1. CASE p # losses
    BY <1>1, <2>1 DEF Answer, WorkerOK, RegistryMove
  <2>2. CASE p = losses
    <3>1. worker.pc = "polling"
      BY <1>1, <2>2 DEF PollsOK
    <3>2. \E pc \in {"start", "cancel_ack"} :
            worker' = [worker EXCEPT !.pc = pc, !.attempt = m.attempt,
                                     !.activity = m.activity]
      BY <2>2 DEF Answer
    <3>3. /\ worker' \in WorkerRecord /\ worker'.session = worker.session
          /\ worker'.pc # "down"
      BY <1>1, <3>2 DEF WorkerRecord, PCs, Message
    <3>. QED
      BY <1>1, <3>1, <3>3 DEF WorkerOK, RegistryMove
  <2>. QED
    BY <2>1, <2>2
<1>4. p # losses => UNCHANGED worker
  BY DEF Answer
<1>. QED
  BY <1>2, <1>3, <1>4, PollChanges, PollRecords

\* poll_work: the queue, its time-out and the durable fallback.
LEMMA ServeKeeps ==
    ASSUME PInv, RegistryMove, NEW p \in DOMAIN polls, Serve(p)
    PROVE  ProcessOK'
<1>1. /\ p \in 0..MaxLosses /\ polls[p] \in PollRecord /\ PollsOK
      /\ WorkerOK /\ losses \in 0..MaxLosses
  BY ProcessNow DEF ProcessOK
<1>2. UNCHANGED losses
  BY DEF Serve, poll_delivery, QueueTimesOut, DurableFallback, faults
<1>3. ASSUME polls[p].stage # "none" PROVE polls[p].session \in Sessions /\ p <= losses
  BY <1>1, <1>3, ProcessNow DEF PollsOK
<1>4. CASE poll_delivery(p)
  <2>1. polls[p].stage = "queue" /\ polls[p].session \in Sessions
    BY <1>3, <1>4 DEF poll_delivery
  <2>2. PICK m : m = Head(queue[polls[p].session])
    OBVIOUS
  <2>3. m \in Message
    <3>1. queue[polls[p].session] \in Seq(Message) /\ queue[polls[p].session] # <<>>
      BY <1>4, <2>1 DEF poll_delivery, PInv, Shape
    <3>. QED
      BY <2>2, <3>1
  <2>4. Answer(p, m)
    BY <1>4, <2>2 DEF poll_delivery
  <2>. QED
    BY <1>1, <1>2, <2>1, <2>3, <2>4, AnswerKeeps
<1>5. CASE QueueTimesOut(p)
  <2>1. /\ polls' = [polls EXCEPT ![p].stage = "durable"] /\ UNCHANGED worker
        /\ polls[p].stage = "queue"
    BY <1>5 DEF QueueTimesOut
  <2>2. PICK r : r = [stage |-> "durable", session |-> polls[p].session]
    OBVIOUS
  <2>3. polls' = [polls EXCEPT ![p] = r]
    <3>1. [polls[p] EXCEPT !.stage = "durable"] = r
      BY <1>1, <2>2 DEF PollRecord
    <3>. QED
      BY <2>1, <3>1
  <2>4. r \in PollRecord /\ r.stage = "durable" /\ r.session \in Sessions /\ p <= losses
    BY <1>3, <2>1, <2>2, PollRecords
  <2>5. WorkerOK'
    BY <1>1, <2>1 DEF WorkerOK, RegistryMove
  <2>6. p = losses => worker'.pc = "polling"
    BY <1>1, <2>1 DEF PollsOK
  <2>. QED
    BY <1>1, <1>2, <2>1, <2>3, <2>4, <2>5, <2>6, PollChanges
<1>6. CASE DurableFallback(p)
  <2>1. polls[p].stage = "durable"
    BY <1>6 DEF DurableFallback
  <2>2. ASSUME NEW i \in ClaimedBy(polls[p].session),
               Answer(p, [status |-> "ASSIGNMENT", attempt |-> claims[i],
                          activity |-> task_definition_id[claims[i]]])
        PROVE  ProcessOK'
    <3>1. claims[i] \in Attempts
      BY DEF ClaimedBy, PInv, Shape
    <3>2. [status |-> "ASSIGNMENT", attempt |-> claims[i],
           activity |-> task_definition_id[claims[i]]] \in Message
      BY <3>1, MessageFacts
    <3>. QED
      BY <1>1, <1>2, <2>1, <2>2, <3>2, AnswerKeeps
  <2>3. CASE /\ polls' = [polls EXCEPT ![p] = NoPoll]
             /\ worker' = IF p = losses THEN Ready ELSE worker
    <3>1. WorkerOK'
      <4>1. CASE p = losses
        <5>1. worker' = Ready /\ worker.pc = "polling"
          BY <1>1, <2>1, <2>3, <4>1 DEF PollsOK
        <5>. QED
          BY <1>1, <5>1, ProcessNow DEF WorkerOK, RegistryMove
      <4>2. CASE p # losses
        BY <1>1, <2>3, <4>2 DEF WorkerOK, RegistryMove
      <4>. QED
        BY <4>1, <4>2
    <3>. QED
      BY <1>1, <1>2, <2>3, <3>1, PollChanges, PollRecords
  <2>. QED
    BY <1>6, <2>2, <2>3 DEF DurableFallback
<1>. QED
  BY <1>4, <1>5, <1>6 DEF Serve

\* Starts, poll requests, crashes and restarts.
LEMMA LifeKeeps ==
    ASSUME PInv, RegistryMove,
           start \/ PollRequest \/ WorkerCrashes \/ ControlPlaneRestarts
    PROVE  ProcessOK'
<1>1. /\ worker \in WorkerRecord /\ WorkerOK /\ PollsOK /\ losses \in 0..MaxLosses
      /\ polls \in [0..MaxLosses -> PollRecord] /\ MaxLosses \in Nat
  BY ProcessNow DEF ProcessOK
<1>2. CASE start
  <2>1. PICK s \in Sessions : worker' = Idle(s) /\ registry' = [registry EXCEPT ![s] = "live"]
    BY <1>2 DEF start
  <2>2. worker.pc = "down" /\ UNCHANGED <<polls, losses>>
    BY <1>2 DEF start, faults
  <2>3. registry'[s] = "live"
    BY <2>1 DEF PInv, WorkerTypeOK
  <2>4. WorkerOK'
    BY <2>1, <2>3, IdleFacts DEF WorkerOK
  <2>5. PollsOK'
    BY <1>1, <2>2 DEF PollsOK
  <2>. QED
    BY <1>1, <2>2, <2>4, <2>5 DEF ProcessOK
<1>3. CASE PollRequest
  <2>1. /\ worker.pc = "poll" /\ worker' = [worker EXCEPT !.pc = "polling"]
        /\ polls' = [polls EXCEPT ![losses] = [stage |-> "queue", session |-> worker.session]]
        /\ UNCHANGED losses
    BY <1>3 DEF PollRequest, faults
  <2>2. worker' \in WorkerRecord /\ worker'.pc = "polling" /\ worker'.session = worker.session
    BY <1>1, <2>1 DEF WorkerRecord, PCs
  <2>3. WorkerOK' /\ worker.session \in Sessions
    BY <1>1, <2>1, <2>2 DEF WorkerOK, RegistryMove
  <2>4. PICK r : r = [stage |-> "queue", session |-> worker.session]
    OBVIOUS
  <2>5. r \in PollRecord /\ r.session \in Sessions /\ losses <= losses
    BY <1>1, <2>3, <2>4, PollRecords
  <2>. QED
    BY <1>1, <2>1, <2>2, <2>3, <2>4, <2>5, PollChanges
<1>4. CASE WorkerCrashes
  <2>1. /\ worker' = [Idle(NoSession) EXCEPT !.pc = "down"]
        /\ polls' = [polls EXCEPT ![losses] = NoPoll]
        /\ UNCHANGED losses
    BY <1>4 DEF WorkerCrashes
  <2>2. WorkerOK'
    BY <2>1, IdleFacts DEF WorkerOK
  <2>. QED
    BY <1>1, <2>1, <2>2, PollChanges, PollRecords
<1>5. CASE ControlPlaneRestarts
  <2>1. /\ polls' = [p \in DOMAIN polls |-> NoPoll] /\ UNCHANGED losses
        /\ worker' = [worker EXCEPT !.pc = IF @ = "polling" THEN "poll" ELSE @]
    BY <1>5 DEF ControlPlaneRestarts
  <2>2. /\ worker' \in WorkerRecord /\ worker'.session = worker.session
        /\ worker'.pc = "down" <=> worker.pc = "down"
    BY <1>1, <2>1 DEF WorkerRecord, PCs
  <2>3. WorkerOK'
    BY <1>1, <2>2 DEF WorkerOK, RegistryMove
  <2>4. /\ polls' \in [0..MaxLosses -> PollRecord]
        /\ \A p \in 0..MaxLosses : polls'[p].stage = "none"
    BY <1>1, <2>1, PollRecords
  <2>. QED
    BY <1>1, <2>1, <2>3, <2>4 DEF ProcessOK, PollsOK
<1>. QED
  BY <1>2, <1>3, <1>4, <1>5

-----------------------------------------------------------------------------
(***************************************************************************)
(* The worker runs handlers for attempts.                                  *)
(***************************************************************************)
LEMMA RanMoves ==
    ASSUME PInv, ProtocolNext
    PROVE  /\ ran' \in [Attempts -> Nat]
           /\ \/ UNCHANGED ran
              \/ StartAnswered /\ ran' = [ran EXCEPT ![worker.attempt] = @ + 1]
              \/ HandlerReturns /\ "TYPE_ERROR" \in Outcomes
<1>1. ran \in [Attempts -> Nat] /\ worker.attempt \in Attempts
  BY DEF PInv, WorkerTypeOK
<1>2. CASE StartAnswered
  <2>1. UNCHANGED ran \/ ran' = [ran EXCEPT ![worker.attempt] = @ + 1]
    BY <1>2 DEF StartAnswered
  <2>. QED
    BY <1>1, <1>2, <2>1
<1>3. CASE HandlerReturns
  <2>1. \/ UNCHANGED ran
        \/ "TYPE_ERROR" \in Outcomes /\ ran' = [ran EXCEPT ![worker.attempt] = @ + 1]
    BY <1>3 DEF HandlerReturns
  <2>. QED
    BY <1>1, <1>3, <2>1
<1>4. CASE UNCHANGED ran
  BY <1>1, <1>4
<1>5. CASE start \/ Heartbeat \/ PollRequest \/ StartServed \/ CallbackAnswered \/ Faults
  BY <1>4, <1>5 DEF start, Heartbeat, PollRequest, StartServed, CallbackAnswered, Faults,
       PollLost, StartLost, CallbackLost, WorkerCrashes, ControlPlaneRestarts, SessionExpires
<1>6. ASSUME NEW p \in DOMAIN polls, Serve(p) PROVE UNCHANGED ran
  BY <1>6 DEF Serve, poll_delivery, QueueTimesOut, DurableFallback
<1>7. ASSUME NEW m \in hints, queue_delivery(m) PROVE UNCHANGED ran
  BY <1>7 DEF queue_delivery
<1>8. ASSUME NEW a \in Attempts,
             \/ ClaimAttempt(a) \/ DrainAttempt(a)
             \/ SettleWithoutWorker(a) \/ StartDeadlinePasses(a)
      PROVE  UNCHANGED ran
  BY <1>8 DEF ClaimAttempt, DrainAttempt, SettleWithoutWorker, StartDeadlinePasses
<1>. QED
  BY <1>2, <1>3, <1>4, <1>5, <1>6, <1>7, <1>8 DEF ProtocolNext, RunOnce

\* Steps that neither the worker nor poll_work takes.
LEMMA OthersAreQuiet ==
    ASSUME \/ Heartbeat \/ \E s \in Sessions : SessionExpires(s)
           \/ \E m \in hints : queue_delivery(m)
           \/ \E a \in Attempts : \/ ClaimAttempt(a) \/ DrainAttempt(a)
                                  \/ SettleWithoutWorker(a) \/ StartDeadlinePasses(a)
    PROVE  UNCHANGED <<worker, polls, losses>>
BY DEF Heartbeat, SessionExpires, queue_delivery, ClaimAttempt, DrainAttempt,
       SettleWithoutWorker, StartDeadlinePasses, faults

\* Every step keeps states well formed.
LEMMA ProtocolKeeps == PInv /\ [ProtocolNext]_pvars => PInv'
<1>. SUFFICES ASSUME PInv, [ProtocolNext]_pvars PROVE PInv'
  OBVIOUS
<1>1. CASE UNCHANGED pvars
  BY <1>1 DEF pvars, faults, PInv, WorkerTypeOK, Shape, SessionsOK, PollsOK
<1>2. CASE ProtocolNext
  <2>1. RegistryMove /\ DeliveryTypes' /\ StoreTypes' /\ OwnersOK' /\ ran' \in [Attempts -> Nat]
    BY <1>2, RegistryMoves, DeliveryMoves, StoreMoves, RanMoves
  <2>2. ProcessOK'
    BY <1>2, <2>1, QuietProcess, OthersAreQuiet, RunOnceKeeps, ServeKeeps, LifeKeeps
       DEF ProtocolNext, RunOnce, Faults
  <2>. QED
    BY <2>1, <2>2 DEF PInv, WorkerTypeOK, Shape, SessionsOK, RegistryMove, Registered,
         DeliveryTypes, StoreTypes, OwnersOK, ProcessOK, WorkerOK, WorkerRecord, PollRecord
<1>. QED
  BY <1>1, <1>2

\* The first state is well formed.
LEMMA ProtocolStarts == ProtocolInit => PInv
<1>. SUFFICES ASSUME ProtocolInit PROVE PInv
  OBVIOUS
<1>1. MaxLosses \in Nat
  BY ProtocolAssumption DEF ProtocolAssumption
<1>2. ProcessOK
  <2>1. WorkerOK
    BY IdleFacts DEF ProtocolInit, WorkerOK
  <2>2. polls \in [0..MaxLosses -> PollRecord] /\ \A p \in 0..MaxLosses : polls[p].stage = "none"
    BY PollRecords DEF ProtocolInit
  <2>3. losses \in 0..MaxLosses
    BY <1>1 DEF ProtocolInit
  <2>. QED
    BY <2>1, <2>2, <2>3 DEF ProcessOK, PollsOK
<1>3. \A a \in Attempts : attempt[a].state = "ABSENT"
  BY DEF ProtocolInit
<1>4. StoreTypes
  <2>1. attempt \in [Attempts -> AttemptRow]
    BY ProtocolAssumption DEF ProtocolAssumption, ProtocolInit, AttemptRow
  <2>2. claims \in Seq(Attempts) /\ DOMAIN claims = {}
    BY DEF ProtocolInit
  <2>. QED
    BY <1>3, <2>1, <2>2 DEF StoreTypes
<1>5. OwnersOK
  BY <1>3 DEF OwnersOK, Active
<1>6. /\ registry \in [Sessions -> Registered] /\ DeliveryTypes /\ ran \in [Attempts -> Nat]
  BY DEF ProtocolInit, Registered, DeliveryTypes
<1>. QED
  BY <1>2, <1>4, <1>5, <1>6
     DEF PInv, WorkerTypeOK, Shape, SessionsOK, Registered, DeliveryTypes, StoreTypes,
         OwnersOK, ProcessOK, WorkerOK, WorkerRecord, PollRecord

(***************************************************************************)
(* States are well formed throughout: whoever works is registered, an      *)
(* active attempt belongs to a session that was registered, and the worker *)
(* waits for no poll but its last, however many polls it gave up.          *)
(***************************************************************************)
THEOREM ProtocolInvariance == ProtocolSpec => []PInv
BY ProtocolStarts, ProtocolKeeps, PTL DEF ProtocolSpec

\* Rows, queues, polls and the worker have their types, and claims lists
\* the attempts that were claimed, with any faults.
THEOREM ProtocolTypes == ProtocolSpec => []WorkerTypeOK
<1>1. PInv => WorkerTypeOK
  BY DEF PInv
<1>. QED
  BY <1>1, ProtocolInvariance, PTL

-----------------------------------------------------------------------------
(***************************************************************************)
(* One run of the handler.  Handlers that raise TypeError are called twice *)
(* for one attempt, and an attempt whose callback is lost or not made      *)
(* stays RUNNING while its worker polls on; both are excluded below.       *)
(***************************************************************************)
Executing(a) == worker.pc \in {"execute", "report"} /\ worker.attempt = a

Busy == {"started", "execute", "report"}

\* The worker at work owns a RUNNING attempt, unless it was settled meanwhile,
\* also before the handler is called.
AtWork ==
    worker.pc \in Busy =>
        /\ attempt[worker.attempt].worker_session_id = worker.session
        /\ attempt[worker.attempt].state \in {"RUNNING"} \cup Terminal
        /\ worker.pc = "started" => ran[worker.attempt] = 0
        /\ worker.pc = "report" => worker.outcome \in {"SUCCESS", "FAILURE"}

\* An attempt whose handler was called is settled, or its worker is at it,
\* or its session is gone.
Executed ==
    \A a \in Attempts : ran[a] > 0 =>
        \/ attempt[a].state \in Terminal
        \/ /\ attempt[a].state = "RUNNING"
           /\ Executing(a) \/ attempt[a].worker_session_id # worker.session

RInv == PInv /\ AtWork /\ Executed /\ RunsOnce

\* The handlers and the network for which a handler runs once.
Reliable ==
    /\ Outcomes \subseteq {"SUCCESS", "FAILURE"}
    /\ "callback" \notin LossyCalls

\* An accepted start is for an attempt whose handler was never called.
LEMMA StartIsFirst ==
    ASSUME RInv, worker.pc = "start", StartAccepted
    PROVE  /\ ran[worker.attempt] = 0
           /\ attempt[worker.attempt].state \in Active
           /\ attempt[worker.attempt].worker_session_id = worker.session
<1>1. /\ attempt[worker.attempt].state \in Active
      /\ attempt[worker.attempt].worker_session_id = worker.session
  BY DEF StartAccepted, Mine, Active
<1>2. worker.attempt \in Attempts /\ ran[worker.attempt] \in Nat
  BY DEF RInv, PInv, WorkerTypeOK
<1>3. ~(ran[worker.attempt] > 0)
  BY <1>1, <1>2 DEF RInv, Executed, Executing, Active, Terminal
<1>. QED
  BY <1>1, <1>2, <1>3

\* A claimed attempt was not executed.
LEMMA ClaimKeepsExecuted ==
    ASSUME RInv, NEW a \in Attempts, ClaimAttempt(a)
    PROVE  AtWork' /\ Executed' /\ RunsOnce'
<1>1. UNCHANGED <<worker, ran>> /\ attempt[a].state = "ABSENT"
  BY DEF ClaimAttempt
<1>2. \A b \in Attempts \ {a} : attempt'[b] = attempt[b]
  BY DEF ClaimAttempt, RInv, PInv, WorkerTypeOK
<1>3. ran[a] \in Nat /\ ~(ran[a] > 0)
  BY <1>1 DEF RInv, PInv, WorkerTypeOK, Executed, Terminal
<1>4. worker.attempt \in Attempts
  BY DEF RInv, PInv, WorkerTypeOK
<1>5. worker.pc \in Busy => worker.attempt # a
  BY <1>1 DEF RInv, AtWork, Terminal
<1>6. AtWork'
  BY <1>1, <1>2, <1>4, <1>5 DEF RInv, AtWork
<1>7. Executed'
  BY <1>1, <1>2, <1>3 DEF RInv, Executed, Executing
<1>. QED
  BY <1>1, <1>6, <1>7 DEF RInv, RunsOnce

\* Rows move forward while the worker stays where it is.
LEMMA QuietExecuted ==
    ASSUME RInv, AttemptsMove, UNCHANGED ran,
           worker'.session = worker.session,
           UNCHANGED worker \/ worker'.pc \notin Busy,
           worker.pc \in {"execute", "report"} => UNCHANGED worker
    PROVE  AtWork' /\ Executed' /\ RunsOnce'
<1>1. worker.attempt \in Attempts
  BY DEF RInv, PInv, WorkerTypeOK
<1>2. AtWork'
  BY <1>1 DEF RInv, AtWork, AttemptsMove, Forward, Active, Terminal
<1>3. Executed'
  <2>. SUFFICES ASSUME NEW a \in Attempts, ran[a] > 0
                PROVE  \/ attempt'[a].state \in Terminal
                       \/ /\ attempt'[a].state = "RUNNING"
                          /\ Executing(a)' \/ attempt'[a].worker_session_id # worker'.session
    BY DEF Executed
  <2>1. Forward(a)
    BY DEF AttemptsMove
  <2>2. CASE attempt[a].state \in Terminal
    BY <2>1, <2>2 DEF Forward, Active, Terminal
  <2>3. CASE attempt[a].state = "RUNNING" /\ Executing(a)
    BY <2>1, <2>3 DEF Forward, Executing
  <2>4. CASE attempt[a].state = "RUNNING" /\ attempt[a].worker_session_id # worker.session
    BY <2>1, <2>4 DEF Forward
  <2>. QED
    BY <2>2, <2>3, <2>4 DEF RInv, Executed
<1>. QED
  BY <1>2, <1>3 DEF RInv, RunsOnce

\* A worker that takes a new session owns nothing that was executed.
LEMMA NewSessionExecuted ==
    ASSUME RInv, UNCHANGED <<attempt, ran>>, worker'.pc \notin Busy,
           \A a \in Attempts : attempt[a].state \in Active =>
               attempt[a].worker_session_id # worker'.session
    PROVE  AtWork' /\ Executed' /\ RunsOnce'
BY DEF RInv, AtWork, Executed, RunsOnce, Active

\* The callback settles what was executed.
LEMMA CallbackExecuted ==
    ASSUME RInv, CallbackAnswered
    PROVE  AtWork' /\ Executed' /\ RunsOnce'
<1>1. /\ worker' = Ready /\ Ready.pc = "poll" /\ Ready.session = worker.session
      /\ UNCHANGED ran
  BY ProcessNow DEF CallbackAnswered, RInv
<1>2. AttemptsMove
  BY ServedMoves DEF CallbackAnswered, RInv
<1>3. worker.attempt \in Attempts /\ attempt \in [Attempts -> AttemptRow] /\ UNCHANGED claims
  BY <1>2 DEF RInv, PInv, WorkerTypeOK, AttemptsMove
<1>4. CASE CancelAckServed
  <2>1. worker.pc = "cancel_ack"
    BY <1>4 DEF CancelAckServed
  <2>. QED
    BY <1>1, <1>2, <2>1, QuietExecuted DEF Busy
<1>5. CASE CallbackServed
  <2>1. worker.pc = "report"
    BY <1>5 DEF CallbackServed
  <2>2. attempt'[worker.attempt].state \in Terminal
    <3>1. CASE attempt[worker.attempt].state \in Terminal
      BY <1>2, <1>3, <3>1 DEF AttemptsMove, Forward, Active, Terminal
    <3>2. CASE attempt[worker.attempt].state \notin Terminal
      <4>1. /\ attempt[worker.attempt].state = "RUNNING" /\ Mine
            /\ worker.outcome \in {"SUCCESS", "FAILURE"}
        BY <2>1, <3>2 DEF RInv, AtWork, Busy, Mine
      <4>2. \/ Mine /\ SuccessAccepted(worker.attempt)
            \/ Mine /\ FailureAccepted(worker.attempt)
        BY <4>1 DEF SuccessAccepted, FailureAccepted, Active
      <4>3. Settle(worker.attempt, "SUCCEEDED") \/ Settle(worker.attempt, "FAILED")
        BY <1>5, <4>2 DEF CallbackServed
      <4>. QED
        BY <1>3, <4>1, <4>3, SettleMoves DEF Terminal, Active
    <3>. QED
      BY <3>1, <3>2
  <2>3. AtWork'
    BY <1>1 DEF AtWork, Busy
  <2>4. Executed'
    <3>. SUFFICES ASSUME NEW a \in Attempts, ran[a] > 0
                  PROVE  \/ attempt'[a].state \in Terminal
                         \/ /\ attempt'[a].state = "RUNNING"
                            /\ attempt'[a].worker_session_id # worker'.session
      BY <1>1 DEF Executed
    <3>1. Forward(a)
      BY <1>2 DEF AttemptsMove
    <3>2. CASE attempt[a].state \in Terminal
      BY <3>1, <3>2 DEF Forward, Active, Terminal
    <3>3. CASE Executing(a)
      BY <2>2, <3>3 DEF Executing
    <3>4. CASE attempt[a].state = "RUNNING" /\ attempt[a].worker_session_id # worker.session
      BY <1>1, <3>1, <3>4 DEF Forward
    <3>. QED
      BY <3>2, <3>3, <3>4 DEF RInv, Executed
  <2>. QED
    BY <1>1, <2>3, <2>4 DEF RInv, RunsOnce
<1>. QED
  BY <1>4, <1>5 DEF CallbackAnswered

\* An acknowledged start is for an attempt whose handler was never called.
LEMMA StartServedExecuted ==
    ASSUME RInv, StartServed
    PROVE  AtWork' /\ Executed' /\ RunsOnce'
<1>1. worker.pc = "start" /\ UNCHANGED ran
  BY DEF StartServed
<1>2. AttemptsMove
  BY ServedMoves DEF RInv
<1>3. /\ worker.attempt \in Attempts /\ attempt \in [Attempts -> AttemptRow]
      /\ UNCHANGED claims /\ worker \in WorkerRecord
  BY <1>2, ProcessNow DEF RInv, PInv, WorkerTypeOK, AttemptsMove
<1>4. CASE ~StartAccepted
  <2>1. worker' = Ready
    BY <1>4 DEF StartServed
  <2>. QED
    BY <1>1, <1>2, <2>1, ProcessNow, QuietExecuted DEF RInv, Busy
<1>5. CASE StartAccepted
  <2>1. /\ ran[worker.attempt] = 0 /\ attempt[worker.attempt].state \in Active
        /\ attempt[worker.attempt].worker_session_id = worker.session
    BY <1>1, <1>5, StartIsFirst
  <2>2. /\ worker'.pc = "started" /\ worker'.attempt = worker.attempt
        /\ worker'.session = worker.session
    BY <1>3, <1>5 DEF StartServed, WorkerRecord
  <2>3. /\ attempt'[worker.attempt].state = "RUNNING"
        /\ \A b \in Attempts \ {worker.attempt} : attempt'[b] = attempt[b]
    <3>1. CASE attempt[worker.attempt].state = "CLAIMED"
      <4>1. Settle(worker.attempt, "RUNNING") /\ ~attempt[worker.attempt].start_deadline_passed
        BY <1>5, <3>1 DEF StartServed, StartAccepted
      <4>. QED
        BY <1>3, <2>1, <3>1, <4>1, SettleMoves
    <3>2. CASE attempt[worker.attempt].state # "CLAIMED"
      <4>1. UNCHANGED attempt
        BY <3>2 DEF StartServed
      <4>. QED
        BY <2>1, <3>2, <4>1 DEF Active
    <3>. QED
      BY <3>1, <3>2
  <2>4. attempt'[worker.attempt].worker_session_id = worker.session
    BY <1>2, <1>3, <2>1 DEF AttemptsMove, Forward
  <2>5. AtWork'
    BY <1>1, <2>1, <2>2, <2>3, <2>4 DEF AtWork
  <2>6. Executed'
    <3>. SUFFICES ASSUME NEW a \in Attempts, ran[a] > 0
                  PROVE  \/ attempt'[a].state \in Terminal
                         \/ /\ attempt'[a].state = "RUNNING"
                            /\ attempt'[a].worker_session_id # worker'.session
      BY <1>1 DEF Executed
    <3>1. a # worker.attempt
      BY <2>1
    <3>. QED
      BY <1>1, <2>2, <2>3, <3>1 DEF RInv, Executed, Executing
  <2>. QED
    BY <1>1, <2>5, <2>6 DEF RInv, RunsOnce
<1>. QED
  BY <1>4, <1>5

\* The response to the start calls the handler, for the first time.
LEMMA StartExecuted ==
    ASSUME RInv, StartAnswered
    PROVE  AtWork' /\ Executed' /\ RunsOnce'
<1>1. worker.pc = "started" /\ UNCHANGED <<attempt, claims>>
  BY DEF StartAnswered, store
<1>2. /\ worker.attempt \in Attempts /\ attempt \in [Attempts -> AttemptRow]
      /\ ran \in [Attempts -> Nat] /\ worker \in WorkerRecord
  BY ProcessNow DEF RInv, PInv, WorkerTypeOK
<1>3. CASE worker' = Ready /\ UNCHANGED ran
  <2>1. AttemptsMove
    BY <1>1, <1>2, NothingMoves
  <2>. QED
    BY <1>1, <1>3, <2>1, ProcessNow, QuietExecuted DEF RInv, Busy
<1>4. CASE /\ worker' = [worker EXCEPT !.pc = "execute"]
           /\ ran' = [ran EXCEPT ![worker.attempt] = @ + 1]
  <2>1. /\ ran[worker.attempt] = 0
        /\ attempt[worker.attempt].worker_session_id = worker.session
        /\ attempt[worker.attempt].state \in {"RUNNING"} \cup Terminal
    BY <1>1 DEF RInv, AtWork, Busy
  <2>2. /\ worker'.pc = "execute" /\ worker'.attempt = worker.attempt
        /\ worker'.session = worker.session
    BY <1>2, <1>4 DEF WorkerRecord
  <2>3. /\ ran'[worker.attempt] = 1
        /\ \A b \in Attempts \ {worker.attempt} : ran'[b] = ran[b]
    BY <1>2, <1>4, <2>1
  <2>4. AtWork'
    BY <1>1, <2>1, <2>2 DEF AtWork
  <2>5. Executed'
    <3>. SUFFICES ASSUME NEW a \in Attempts, ran'[a] > 0
                  PROVE  \/ attempt[a].state \in Terminal
                         \/ /\ attempt[a].state = "RUNNING"
                            /\ Executing(a)' \/ attempt[a].worker_session_id # worker'.session
      BY <1>1 DEF Executed
    <3>1. CASE a = worker.attempt
      BY <2>1, <2>2, <3>1 DEF Executing
    <3>2. CASE a # worker.attempt
      BY <1>1, <2>2, <2>3, <3>2 DEF RInv, Executed, Executing
    <3>. QED
      BY <3>1, <3>2
  <2>6. RunsOnce'
    BY <2>3 DEF RInv, RunsOnce
  <2>. QED
    BY <2>4, <2>5, <2>6
<1>. QED
  BY <1>3, <1>4 DEF StartAnswered

\* A handler that succeeds or fails is followed by its callback.
LEMMA HandlerExecuted ==
    ASSUME Reliable, RInv, HandlerReturns
    PROVE  AtWork' /\ Executed' /\ RunsOnce'
<1>1. worker.pc = "execute" /\ UNCHANGED <<attempt, ran>>
  BY DEF HandlerReturns, Reliable, store
<1>2. \E o \in {"SUCCESS", "FAILURE"} :
        worker' = [worker EXCEPT !.pc = "report", !.outcome = o]
  BY DEF HandlerReturns, Reliable
<1>3. /\ worker'.pc = "report" /\ worker'.attempt = worker.attempt
      /\ worker'.session = worker.session /\ worker'.outcome \in {"SUCCESS", "FAILURE"}
  BY <1>2, ProcessNow DEF RInv, WorkerRecord
<1>. QED
  BY <1>1, <1>3 DEF RInv, AtWork, Busy, Executed, Executing, RunsOnce

\* The answers of poll_work reach a worker that is polling.
LEMMA ServeExecuted ==
    ASSUME RInv, NEW p \in DOMAIN polls, Serve(p)
    PROVE  AtWork' /\ Executed' /\ RunsOnce'
<1>1. /\ p \in 0..MaxLosses /\ PollsOK /\ worker \in WorkerRecord
      /\ polls[p].stage # "none" /\ UNCHANGED <<attempt, claims, ran>>
  BY ProcessNow
     DEF RInv, ProcessOK, Serve, poll_delivery, QueueTimesOut, DurableFallback, store
<1>2. AttemptsMove
  BY <1>1, NothingMoves DEF RInv, PInv, WorkerTypeOK
<1>3. CASE UNCHANGED worker
  BY <1>1, <1>2, <1>3, QuietExecuted
<1>4. CASE ~UNCHANGED worker
  <2>1. p = losses
    BY <1>4 DEF Serve, poll_delivery, QueueTimesOut, DurableFallback, Answer
  <2>2. worker.pc = "polling"
    BY <1>1, <2>1 DEF PollsOK
  <2>3. \/ worker' = Ready
        \/ \E pc \in {"start", "cancel_ack"} : \E m :
             worker' = [worker EXCEPT !.pc = pc, !.attempt = m.attempt,
                                      !.activity = m.activity]
    BY <1>4 DEF Serve, poll_delivery, QueueTimesOut, DurableFallback, Answer
  <2>4. worker'.session = worker.session /\ worker'.pc \notin Busy
    BY <1>1, <2>3, ProcessNow DEF RInv, WorkerRecord, Busy
  <2>. QED
    BY <1>1, <1>2, <2>2, <2>4, QuietExecuted
<1>. QED
  BY <1>3, <1>4

\* Polls, lost requests and the restart of the control plane.
LEMMA PlainExecuted ==
    ASSUME Reliable, RInv,
           PollRequest \/ PollLost \/ StartLost \/ CallbackLost \/ ControlPlaneRestarts
    PROVE  AtWork' /\ Executed' /\ RunsOnce'
<1>1. /\ worker \in WorkerRecord
      /\ Ready.pc = "poll" /\ Ready.session = worker.session
      /\ attempt \in [Attempts -> AttemptRow]
  BY ProcessNow DEF RInv, PInv, WorkerTypeOK
<1>2. CASE PollRequest
  <2>1. /\ worker.pc = "poll" /\ worker' = [worker EXCEPT !.pc = "polling"]
        /\ UNCHANGED <<attempt, claims, ran>>
    BY <1>2 DEF PollRequest, store
  <2>2. worker'.pc = "polling" /\ worker'.session = worker.session
    BY <1>1, <2>1 DEF WorkerRecord
  <2>. QED
    BY <1>1, <2>1, <2>2, NothingMoves, QuietExecuted DEF Busy
<1>3. CASE PollLost \/ StartLost
  <2>1. worker' = Ready /\ UNCHANGED ran /\ worker.pc \in {"polling", "start", "started"}
    BY <1>3 DEF PollLost, StartLost
  <2>2. AttemptsMove
    BY <1>1, <1>3, NothingMoves DEF PollLost, StartLost, store
  <2>. QED
    BY <1>1, <2>1, <2>2, QuietExecuted DEF Busy
<1>4. CASE CallbackLost
  BY <1>4 DEF CallbackLost, Reliable
<1>5. CASE ControlPlaneRestarts
  <2>1. /\ AttemptsMove /\ UNCHANGED ran
        /\ worker' = [worker EXCEPT !.pc = IF @ = "polling" THEN "poll" ELSE @]
    BY <1>5, RestartMoves DEF ControlPlaneRestarts, RInv
  <2>2. CASE worker.pc = "polling"
    <3>1. worker'.pc = "poll" /\ worker'.session = worker.session
      BY <1>1, <2>1, <2>2 DEF WorkerRecord
    <3>. QED
      BY <2>1, <2>2, <3>1, QuietExecuted DEF Busy
  <2>3. CASE worker.pc # "polling"
    <3>1. UNCHANGED worker
      BY <1>1, <2>1, <2>3 DEF WorkerRecord
    <3>. QED
      BY <2>1, <3>1, QuietExecuted
  <2>. QED
    BY <2>2, <2>3
<1>. QED
  BY <1>2, <1>3, <1>4, <1>5

\* A worker that starts or dies.
LEMMA LifeExecuted ==
    ASSUME RInv, start \/ WorkerCrashes
    PROVE  AtWork' /\ Executed' /\ RunsOnce'
<1>1. UNCHANGED <<attempt, ran>>
  BY DEF start, WorkerCrashes, store
<1>2. CASE start
  <2>1. PICK s \in Sessions : registry[s] = "unregistered" /\ worker' = Idle(s)
    BY <1>2 DEF start
  <2>2. worker'.pc = "poll" /\ worker'.session = s
    BY <2>1, IdleFacts
  <2>3. \A a \in Attempts : attempt[a].state \in Active => attempt[a].worker_session_id # s
    BY <2>1 DEF RInv, PInv, SessionsOK
  <2>. QED
    BY <1>1, <2>2, <2>3, NewSessionExecuted DEF Busy
<1>3. CASE WorkerCrashes
  <2>1. worker' = [Idle(NoSession) EXCEPT !.pc = "down"]
    BY <1>3 DEF WorkerCrashes
  <2>2. worker'.pc = "down" /\ worker'.session = NoSession
    BY <2>1, IdleFacts
  <2>3. \A a \in Attempts : attempt[a].state \in Active =>
          attempt[a].worker_session_id # NoSession
    BY ProtocolAssumption DEF ProtocolAssumption, RInv, PInv, SessionsOK
  <2>. QED
    BY <1>1, <2>2, <2>3, NewSessionExecuted DEF Busy
<1>. QED
  BY <1>2, <1>3

\* Steps of others.
LEMMA OthersExecuted ==
    ASSUME RInv,
           \/ Heartbeat \/ \E s \in Sessions : SessionExpires(s)
           \/ \E m \in hints : queue_delivery(m)
           \/ \E a \in Attempts :
                DrainAttempt(a) \/ SettleWithoutWorker(a) \/ StartDeadlinePasses(a)
    PROVE  AtWork' /\ Executed' /\ RunsOnce'
<1>1. UNCHANGED <<worker, ran>>
  BY DEF Heartbeat, SessionExpires, queue_delivery, DrainAttempt, SettleWithoutWorker,
         StartDeadlinePasses
<1>2. CASE UNCHANGED store
  BY <1>1, <1>2, NothingMoves, QuietExecuted DEF store, RInv, PInv, WorkerTypeOK
<1>3. CASE Heartbeat \/ \E s \in Sessions : SessionExpires(s)
  BY <1>2, <1>3 DEF Heartbeat, SessionExpires
<1>4. CASE \E m \in hints : queue_delivery(m)
  BY <1>2, <1>4 DEF queue_delivery
<1>5. CASE \E a \in Attempts :
             DrainAttempt(a) \/ SettleWithoutWorker(a) \/ StartDeadlinePasses(a)
  <2>1. AttemptsMove
    BY <1>5, ControlPlaneMoves DEF RInv
  <2>. QED
    BY <1>1, <2>1, QuietExecuted
<1>. QED
  BY <1>3, <1>4, <1>5

\* Every step.
LEMMA ExecutionKeeps ==
    ASSUME Reliable
    PROVE  RInv /\ [ProtocolNext]_pvars => RInv'
<1>. SUFFICES ASSUME RInv, [ProtocolNext]_pvars PROVE RInv'
  OBVIOUS
<1>1. PInv'
  BY ProtocolKeeps DEF RInv
<1>2. CASE UNCHANGED pvars
  BY <1>1, <1>2 DEF pvars, RInv, AtWork, Executed, Executing, RunsOnce
<1>3. CASE ProtocolNext
  <2>1. AtWork' /\ Executed' /\ RunsOnce'
    BY <1>3, ClaimKeepsExecuted, CallbackExecuted, StartServedExecuted, StartExecuted,
       HandlerExecuted,       ServeExecuted, PlainExecuted, LifeExecuted, OthersExecuted
       DEF ProtocolNext, RunOnce, Faults
  <2>. QED
    BY <1>1, <2>1 DEF RInv
<1>. QED
  BY <1>2, <1>3

\* What is known of executed attempts, throughout.
LEMMA ExecutionInvariance ==
    ASSUME Reliable
    PROVE  ProtocolSpec => []RInv
<1>1. ProtocolInit => RInv
  <2>. SUFFICES ASSUME ProtocolInit PROVE RInv
    OBVIOUS
  <2>1. worker.pc = "down"
    BY IdleFacts DEF ProtocolInit
  <2>2. \A a \in Attempts : ran[a] = 0
    BY DEF ProtocolInit
  <2>. QED
    BY <2>1, <2>2, ProtocolStarts DEF RInv, AtWork, Busy, Executed, RunsOnce
<1>2. RInv /\ [ProtocolNext]_pvars => RInv'
  BY ExecutionKeeps
<1>. QED
  BY <1>1, <1>2, PTL DEF ProtocolSpec

(***************************************************************************)
(* When handlers succeed or fail and callbacks arrive, the handler of an   *)
(* attempt is called once: whatever is delivered twice, by hints and by    *)
(* the durable fallback, with polls and starts lost, sessions expiring and *)
(* both processes restarting.                                              *)
(***************************************************************************)
THEOREM OneExecution ==
    ASSUME Reliable
    PROVE  ProtocolSpec => []RunsOnce
<1>1. RInv => RunsOnce
  BY DEF RInv
<1>2. ProtocolSpec => []RInv
  BY ExecutionInvariance
<1>. QED
  BY <1>1, <1>2, PTL

(***************************************************************************)
(* When handlers succeed or fail and callbacks arrive, a CANCEL_ACK        *)
(* settles no attempt whose handler was called.                            *)
(***************************************************************************)
THEOREM AcknowledgedIsStopped ==
    ASSUME Reliable
    PROVE  ProtocolSpec => AckedMeansStopped
<1>1. RInv /\ [ProtocolNext]_pvars =>
        [\A a \in Attempts :
           (worker.pc = "cancel_ack" /\ worker'.pc = "poll"
              /\ attempt[a].state \in Active /\ attempt'[a].state = "CANCELLED")
           => ran[a] = 0]_pvars
  <2>. SUFFICES ASSUME RInv, ProtocolNext, NEW a \in Attempts,
                       worker.pc = "cancel_ack", worker'.pc = "poll",
                       attempt[a].state \in Active, attempt'[a].state = "CANCELLED"
                PROVE  ran[a] = 0
    OBVIOUS
  <2>1. ran[a] \in Nat
    BY DEF RInv, PInv, WorkerTypeOK
  <2>2. CASE CancelAckServed
    <3>1. attempt' # attempt
      BY DEF Active
    <3>2. Mine /\ Settle(worker.attempt, "CANCELLED")
      BY <2>2, <3>1 DEF CancelAckServed
    <3>3. a = worker.attempt
      <4>1. a # worker.attempt => attempt'[a] = attempt[a]
        BY <3>2 DEF Settle, RInv, PInv, WorkerTypeOK
      <4>. QED
        BY <4>1 DEF Active
    <3>4. ~(ran[a] > 0)
      BY <3>2, <3>3 DEF Mine, RInv, Executed, Executing, Active, Terminal
    <3>. QED
      BY <2>1, <3>4
  <2>3. CASE ~CancelAckServed
    <3>1. worker' # worker /\ attempt' # attempt
      BY DEF Active
    <3>2. /\ ~StartServed /\ ~StartAnswered /\ ~CallbackAnswered
          /\ ~StartLost /\ ~CallbackLost
      BY <2>3 DEF StartAnswered, StartServed, CallbackAnswered, CallbackServed, StartLost,
                  CallbackLost, Reliable
    <3>3. ~ControlPlaneRestarts
      <4>1. ASSUME ControlPlaneRestarts PROVE worker' = [worker EXCEPT !.pc = "cancel_ack"]
        BY <4>1 DEF ControlPlaneRestarts
      <4>2. worker \in WorkerRecord
        BY ProcessNow DEF RInv
      <4>. QED
        BY <4>1, <4>2 DEF WorkerRecord
    <3>4. ~start /\ ~Heartbeat /\ ~PollRequest /\ ~HandlerReturns /\ ~PollLost /\ ~WorkerCrashes
      BY <3>1 DEF start, Heartbeat, PollRequest, HandlerReturns, PollLost, WorkerCrashes, store
    <3>5. ASSUME NEW p \in DOMAIN polls PROVE ~Serve(p)
      BY <3>1 DEF Serve, poll_delivery, QueueTimesOut, DurableFallback, store
    <3>. QED
      BY <3>1, <3>2, <3>3, <3>4, <3>5, OthersAreQuiet DEF ProtocolNext, RunOnce, Faults
  <2>. QED
    BY <2>2, <2>3
<1>2. ProtocolSpec => []RInv
  BY ExecutionInvariance
<1>. QED
  BY <1>1, <1>2, PTL DEF ProtocolSpec, AckedMeansStopped

-----------------------------------------------------------------------------
(***************************************************************************)
(* Expired assignments, with all outcomes and all losses.                  *)
(***************************************************************************)
NotStarted(a) ==
    attempt[a].state \in {"ABSENT", "CLAIMED"} \/ attempt[a].start_deadline_passed

\* The start of a was acknowledged and its handler is about to run or running.
UnderWay(a) == worker.pc \in {"started", "execute"} /\ worker.attempt = a

\* No handler was or will be called for what was not started in time.
EInv ==
    \A a \in Attempts :
        /\ attempt[a].start_deadline_passed => attempt[a].state # "RUNNING"
        /\ NotStarted(a) => ran[a] = 0 /\ ~UnderWay(a)

\* What was started stays so, and what expired is not started.
LEMMA RowsExpire ==
    ASSUME PInv, EInv, ProtocolNext, NEW a \in Attempts
    PROVE  /\ NotStarted(a)' => NotStarted(a)
           /\ attempt'[a].start_deadline_passed => attempt'[a].state # "RUNNING"
<1>1. attempt[a] \in AttemptRow
  BY DEF PInv, WorkerTypeOK
<1>2. CASE AttemptsMove
  <2>1. Forward(a)
    BY <1>2 DEF AttemptsMove
  <2>. QED
    BY <1>1, <2>1 DEF Forward, NotStarted, EInv, Active, Terminal
<1>3. ASSUME NEW b \in Attempts, ClaimAttempt(b)
      PROVE  /\ NotStarted(a)' => NotStarted(a)
             /\ attempt'[a].start_deadline_passed => attempt'[a].state # "RUNNING"
  <2>1. /\ attempt[b].state = "ABSENT" /\ attempt'[b].state = "CLAIMED"
        /\ \A c \in Attempts \ {b} : attempt'[c] = attempt[c]
    BY <1>3 DEF ClaimAttempt, PInv, WorkerTypeOK
  <2>. QED
    BY <2>1 DEF NotStarted, EInv
<1>. QED
  BY <1>2, <1>3, StepsMove

\* How a handler gets under way.
LEMMA WorkMoves ==
    ASSUME PInv, ProtocolNext
    PROVE  \/ /\ UNCHANGED ran
              /\ \A a \in Attempts : UnderWay(a)' => UnderWay(a)
           \/ StartServed \/ StartAnswered \/ HandlerReturns
<1>1. worker \in WorkerRecord /\ Ready.pc = "poll" /\ PollsOK
  BY ProcessNow DEF ProcessOK
<1>2. StartAnswered \/ HandlerReturns \/ UNCHANGED ran
  BY RanMoves
<1>3. CASE UNCHANGED worker
  BY <1>2, <1>3 DEF UnderWay
<1>4. CASE PollRequest \/ CallbackAnswered \/ PollLost \/ StartLost \/ CallbackLost
  <2>1. worker'.pc \in {"poll", "polling"}
    BY <1>1, <1>4 DEF PollRequest, CallbackAnswered, PollLost, StartLost, CallbackLost,
                      WorkerRecord
  <2>. QED
    BY <1>2, <2>1 DEF UnderWay
<1>5. CASE start \/ WorkerCrashes
  <2>1. CASE start
    BY <2>1, <1>2, IdleFacts DEF start, UnderWay
  <2>2. CASE WorkerCrashes
    <3>1. worker' = [Idle(NoSession) EXCEPT !.pc = "down"]
      BY <2>2 DEF WorkerCrashes
    <3>2. worker'.pc = "down"
      BY <3>1, IdleFacts
    <3>. QED
      BY <1>2, <3>2 DEF UnderWay
  <2>. QED
    BY <1>5, <2>1, <2>2
<1>6. CASE ControlPlaneRestarts
  <2>1. worker' = [worker EXCEPT !.pc = IF @ = "polling" THEN "poll" ELSE @]
    BY <1>6 DEF ControlPlaneRestarts
  <2>2. worker'.attempt = worker.attempt /\ worker'.pc \in {worker.pc, "poll"}
    BY <1>1, <2>1 DEF WorkerRecord
  <2>. QED
    BY <1>2, <2>2 DEF UnderWay
<1>7. ASSUME NEW p \in DOMAIN polls, Serve(p)
      PROVE  UNCHANGED ran /\ \A a \in Attempts : UnderWay(a)' => UnderWay(a)
  <2>1. UNCHANGED ran
    BY <1>7 DEF Serve, poll_delivery, QueueTimesOut, DurableFallback
  <2>2. \/ UNCHANGED worker
        \/ worker' = Ready
        \/ \E pc \in {"start", "cancel_ack"} : \E m :
             worker' = [worker EXCEPT !.pc = pc, !.attempt = m.attempt,
                                      !.activity = m.activity]
    BY <1>7 DEF Serve, poll_delivery, QueueTimesOut, DurableFallback, Answer
  <2>3. UNCHANGED worker \/ worker'.pc \in {"poll", "start", "cancel_ack"}
    BY <1>1, <2>2 DEF WorkerRecord
  <2>. QED
    BY <2>1, <2>3 DEF UnderWay
<1>. QED
  BY <1>2, <1>3, <1>4, <1>5, <1>6, <1>7, OthersAreQuiet DEF ProtocolNext, RunOnce, Faults

\* Every step keeps expired assignments from running.
LEMMA ExpiryKeeps == PInv /\ EInv /\ [ProtocolNext]_pvars => EInv'
<1>. SUFFICES ASSUME PInv, EInv, [ProtocolNext]_pvars PROVE EInv'
  OBVIOUS
<1>1. CASE UNCHANGED pvars
  BY <1>1 DEF pvars, EInv, NotStarted, UnderWay
<1>2. CASE ProtocolNext
  <2>. SUFFICES ASSUME NEW a \in Attempts, NotStarted(a)'
                PROVE  ran'[a] = 0 /\ ~UnderWay(a)'
    BY <1>2, RowsExpire DEF EInv
  <2>1. NotStarted(a) /\ ran[a] = 0 /\ ~UnderWay(a)
    BY <1>2, RowsExpire DEF EInv
  <2>2. worker \in WorkerRecord /\ worker.attempt \in Attempts /\ Ready.pc = "poll"
    BY ProcessNow
  <2>3. ran \in [Attempts -> Nat] /\ attempt \in [Attempts -> AttemptRow]
    BY DEF PInv, WorkerTypeOK
  <2>4. CASE StartServed
    <3>1. UNCHANGED ran
      BY <2>4 DEF StartServed
    <3>2. CASE StartAccepted
      <4>1. worker'.pc = "started" /\ worker'.attempt = worker.attempt
        BY <2>2, <2>4, <3>2 DEF StartServed, WorkerRecord
      <4>2. ~NotStarted(worker.attempt)'
        <5>1. CASE attempt[worker.attempt].state = "CLAIMED"
          <6>1. /\ attempt' = [attempt EXCEPT ![worker.attempt].state = "RUNNING"]
                /\ ~attempt[worker.attempt].start_deadline_passed
            BY <2>4, <3>2, <5>1 DEF StartServed, StartAccepted, Settle
          <6>2. /\ attempt'[worker.attempt].state = "RUNNING"
                /\ attempt'[worker.attempt].start_deadline_passed =
                     attempt[worker.attempt].start_deadline_passed
            BY <2>2, <2>3, <6>1 DEF AttemptRow
          <6>. QED
            BY <4>1, <6>1, <6>2 DEF NotStarted
        <5>2. CASE attempt[worker.attempt].state # "CLAIMED"
          <6>1. attempt[worker.attempt].state = "RUNNING" /\ UNCHANGED attempt
            BY <2>4, <3>2, <5>2 DEF StartServed, StartAccepted
          <6>. QED
            BY <2>2, <4>1, <6>1 DEF NotStarted, EInv
        <5>. QED
          BY <5>1, <5>2
      <4>. QED
        BY <2>1, <3>1, <4>1, <4>2 DEF UnderWay
    <3>3. CASE ~StartAccepted
      <4>1. worker'.pc = "poll"
        BY <2>2, <2>4, <3>3 DEF StartServed
      <4>. QED
        BY <2>1, <3>1, <4>1 DEF UnderWay
    <3>. QED
      BY <3>2, <3>3
  <2>5. CASE StartAnswered
    <3>1. a # worker.attempt
      BY <2>1, <2>5 DEF StartAnswered, UnderWay
    <3>2. ran'[a] = ran[a]
      BY <2>3, <2>5, <3>1 DEF StartAnswered
    <3>3. worker'.pc = "poll" \/ worker'.attempt = worker.attempt
      BY <2>2, <2>5 DEF StartAnswered, WorkerRecord
    <3>. QED
      BY <2>1, <3>1, <3>2, <3>3 DEF UnderWay
  <2>6. CASE HandlerReturns
    <3>1. a # worker.attempt
      BY <2>1, <2>6 DEF HandlerReturns, UnderWay
    <3>2. ran'[a] = ran[a]
      BY <2>3, <2>6, <3>1 DEF HandlerReturns
    <3>3. worker'.pc = "poll" \/ worker'.attempt = worker.attempt
      BY <2>2, <2>6 DEF HandlerReturns, WorkerRecord
    <3>. QED
      BY <2>1, <3>1, <3>2, <3>3 DEF UnderWay
  <2>. QED
    BY <1>2, <2>1, <2>4, <2>5, <2>6, WorkMoves
<1>. QED
  BY <1>1, <1>2

(***************************************************************************)
(* "Worker must not execute expired assignment" (lld-06, section 11.1),    *)
(* with any outcomes and any losses: an attempt whose start deadline       *)
(* passed before its start was acknowledged is never executed.             *)
(***************************************************************************)
THEOREM NoExpiredExecution == ProtocolSpec => []ExpiredNeverRuns
<1>1. ProtocolInit => EInv
  <2>. SUFFICES ASSUME ProtocolInit PROVE EInv
    OBVIOUS
  <2>1. worker.pc = "down"
    BY IdleFacts DEF ProtocolInit
  <2>2. \A a \in Attempts : ran[a] = 0 /\ attempt[a].state = "ABSENT"
    BY DEF ProtocolInit
  <2>. QED
    BY <2>1, <2>2 DEF EInv, UnderWay
<1>2. PInv /\ EInv /\ [ProtocolNext]_pvars => EInv'
  BY ExpiryKeeps
<1>3. EInv => ExpiredNeverRuns
  BY DEF EInv, NotStarted, ExpiredNeverRuns
<1>. QED
  BY <1>1, <1>2, <1>3, ProtocolInvariance, PTL DEF ProtocolSpec
=============================================================================
