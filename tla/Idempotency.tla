---------------------------- MODULE Idempotency ----------------------------
(***************************************************************************)
(* POST /v1/definitions and POST /v1/executions with an Idempotency-Key:   *)
(* concurrent calls, retries after a lost response, database errors and    *)
(* crashes of the control plane.                                           *)
(*                                                                         *)
(* A call is one invocation of a handler; a client that hears nothing      *)
(* calls again with the same request, so calls may share a request.  Every *)
(* call generates a fresh resource id and takes the time once: the call    *)
(* itself stands for both.  A body, the document of a registration or the  *)
(* workflow_input of a start, has a JSON type and the text of its members  *)
(* in the order received; a scalar is its own only member, and its text    *)
(* does not tell the string "1" from the number 1.  The recovery gate is   *)
(* always open here: the lifespan handler serves requests only once        *)
(* recovery has returned (StartupRecovery).                                *)
(***************************************************************************)
EXTENDS Integers, FiniteSets, Sequences, SequencesExt

CONSTANTS
    Calls,
    Request,          \* [Calls -> requests]
    NoKey,            \* the header is absent
    MalformedKeys,    \* values IdempotencyKey refuses
    KnownDefinitions, \* definitions that can be started
    Faults,           \* the kinds of fault that may happen
    MaxFaults         \* how many of them in a behaviour

Operations == {"REGISTER_DEFINITION", "START_EXECUTION"}

ASSUME IdempotencyAssumption ==
    /\ \A c \in Calls :
         /\ DOMAIN Request[c] = {"op", "key", "definition", "body"}
         /\ Request[c].op \in Operations
         /\ DOMAIN Request[c].body = {"type", "text"}
    /\ NoKey \notin MalformedKeys
    /\ Faults \subseteq {"rollback", "advance", "crash"}
    /\ MaxFaults \in Nat

VARIABLES
    up,         \* the control plane runs
    pc,         \* how far each call is
    ledger,     \* idempotency_records: fingerprint and resource of a key
    resources,  \* the ids of the committed definitions and executions
    scheduled,  \* executions whose root tasks have been evaluated
    answers,    \* the responses sent
    faults      \* how many faults have happened

idemVars == <<up, pc, ledger, resources, scheduled, answers, faults>>

Places == {"unsent", "received", "inserting", "creating", "committed",
           "answered", "failed", "dead"}

Keyed(c) == Request[c].key # NoKey

\* The primary key of idempotency_records.
LedgerKey(c) == <<Request[c].op, Request[c].key>>

\* json.dumps(..., sort_keys=True) of the serialised specification: what was
\* written in which order, and as which type, but not the order.
Canonical(body) == <<body.type, ToSet(body.text)>>

(***************************************************************************)
(* compute_registration_fingerprint digests the canonical serialisation.   *)
(* start_execution digests f"{definition_id}:{workflow_input}", the text   *)
(* of the input as Python prints it: an object whose keys come in another  *)
(* order has another fingerprint, "1" and 1 have the same.                 *)
(***************************************************************************)
Fingerprint(c) ==
    IF Request[c].op = "REGISTER_DEFINITION"
    THEN Canonical(Request[c].body)
    ELSE <<Request[c].definition, Request[c].body.text>>

IdemInit ==
    /\ up = TRUE
    /\ pc = [c \in Calls |-> "unsent"]
    /\ ledger = <<>>
    /\ resources = {} /\ scheduled = {} /\ answers = {}
    /\ faults = 0

-----------------------------------------------------------------------------
Goto(c, place) == pc' = [pc EXCEPT ![c] = place]

Answer(c, code, resource, created) ==
    answers' = answers \cup
        {[call |-> c, code |-> code, resource |-> resource, created_at |-> created]}

Send(c) ==
    /\ up /\ pc[c] = "unsent"
    /\ Goto(c, "received")
    /\ UNCHANGED <<up, ledger, resources, scheduled, answers, faults>>

(***************************************************************************)
(* Up to the transaction: an unknown definition is a 404, a key that       *)
(* IdempotencyKey refuses raises.                                          *)
(***************************************************************************)
Prepare(c) ==
    /\ up /\ pc[c] = "received"
    /\ IF Request[c].op = "START_EXECUTION" /\ Request[c].definition \notin KnownDefinitions
       THEN Goto(c, "answered") /\ Answer(c, 404, c, c)
       ELSE IF Request[c].key \in MalformedKeys
       THEN Goto(c, "failed") /\ Answer(c, 500, c, c)
       ELSE Goto(c, "inserting") /\ UNCHANGED answers
    /\ UNCHANGED <<up, ledger, resources, scheduled, faults>>

\* Plausible error: a transaction that was rolled back keeps its key.
HoldsAfterRollback(c) == Keyed(c) /\ pc[c] \in {"creating", "failed"}

\* The transaction of c has inserted its idempotency record and is open.
Holds(c) == Keyed(c) /\ pc[c] = "creating"

\* Plausible error: the key is looked up among the committed records only.
NotYetCommitted(c) == LedgerKey(c) \notin DOMAIN ledger

\* INSERT ... ON CONFLICT DO NOTHING inserts; it waits for an open
\* transaction that has inserted the same key.
InsertWins(c) ==
    /\ LedgerKey(c) \notin DOMAIN ledger
    /\ \A d \in Calls : Holds(d) => LedgerKey(d) # LedgerKey(c)

Insert(c) ==
    /\ up /\ pc[c] = "inserting"
    /\ Keyed(c) => InsertWins(c)
    /\ Goto(c, "creating")
    /\ UNCHANGED <<up, ledger, resources, scheduled, answers, faults>>

\* Plausible error: the key alone identifies the request.
AnyRequest(c) == TRUE

SameRequest(c) == ledger[LedgerKey(c)].request_fingerprint = Fingerprint(c)

(***************************************************************************)
(* The insert met a committed record.  start_execution answers with the    *)
(* row of the existing execution, register_definition with the existing id *)
(* and the time of this call.                                              *)
(***************************************************************************)
Replay(c) ==
    /\ up /\ pc[c] = "inserting"
    /\ Keyed(c) /\ LedgerKey(c) \in DOMAIN ledger
    /\ Goto(c, "answered")
    /\ LET existing == ledger[LedgerKey(c)].resource_id
       IN  IF SameRequest(c)
           THEN Answer(c, 201, existing,
                       IF Request[c].op = "REGISTER_DEFINITION" THEN c ELSE existing)
           ELSE Answer(c, 409, c, c)
    /\ UNCHANGED <<up, ledger, resources, scheduled, faults>>

(***************************************************************************)
(* The record and the resource are committed together: registration at the *)
(* end of its scope, a start, with its tasks, before the scheduler is      *)
(* called.                                                                 *)
(***************************************************************************)
Commit(c) ==
    /\ up /\ pc[c] = "creating"
    /\ resources' = resources \cup {c}
    /\ ledger' = [k \in DOMAIN ledger \cup (IF Keyed(c) THEN {LedgerKey(c)} ELSE {}) |->
                    IF Keyed(c) /\ k = LedgerKey(c)
                    THEN [request_fingerprint |-> Fingerprint(c), resource_id |-> c]
                    ELSE ledger[k]]
    /\ IF Request[c].op = "REGISTER_DEFINITION"
       THEN Goto(c, "answered") /\ Answer(c, 201, c, c)
       ELSE Goto(c, "committed") /\ UNCHANGED answers
    /\ UNCHANGED <<up, scheduled, faults>>

advance_workflow(c) ==
    /\ up /\ pc[c] = "committed"
    /\ scheduled' = scheduled \cup {c}
    /\ Goto(c, "answered")
    /\ Answer(c, 201, c, c)
    /\ UNCHANGED <<up, ledger, resources, faults>>

-----------------------------------------------------------------------------
Fault(kind) ==
    /\ kind \in Faults /\ faults < MaxFaults
    /\ faults' = faults + 1

\* A database error inside the transaction undoes it; the caller gets a 500.
Rollback(c) ==
    /\ up /\ pc[c] \in {"inserting", "creating"}
    /\ Fault("rollback")
    /\ Goto(c, "failed")
    /\ Answer(c, 500, c, c)
    /\ UNCHANGED <<up, ledger, resources, scheduled>>

\* advance_workflow raises: the execution is committed, the answer is a 500.
AdvanceFails(c) ==
    /\ up /\ pc[c] = "committed"
    /\ Fault("advance")
    /\ Goto(c, "failed")
    /\ Answer(c, 500, c, c)
    /\ UNCHANGED <<up, ledger, resources, scheduled>>

Crash ==
    /\ up
    /\ Fault("crash")
    /\ up' = FALSE
    /\ pc' = [c \in Calls |-> IF pc[c] \in {"unsent", "answered", "failed"}
                              THEN pc[c] ELSE "dead"]
    /\ UNCHANGED <<ledger, resources, scheduled, answers>>

\* Plausible error: recovery looks at interrupted attempts only.
RestartWithoutRepair ==
    /\ ~up
    /\ up' = TRUE
    /\ UNCHANGED <<pc, ledger, resources, scheduled, answers, faults>>

\* Recovery advances every workflow that has PENDING tasks before requests
\* are served.
Restart ==
    /\ ~up
    /\ up' = TRUE
    /\ scheduled' = {c \in resources : Request[c].op = "START_EXECUTION"}
    /\ UNCHANGED <<pc, ledger, resources, answers, faults>>

CallStep(c) ==
    Prepare(c) \/ Insert(c) \/ Replay(c) \/ Commit(c) \/ advance_workflow(c)

IdemNext ==
    \/ \E c \in Calls : Send(c) \/ CallStep(c) \/ Rollback(c) \/ AdvanceFails(c)
    \/ Crash \/ Restart

IdemSpec == IdemInit /\ [][IdemNext]_idemVars

\* A handler that can go on does, and a stopped control plane is restarted.
FairIdem ==
    /\ IdemSpec
    /\ \A c \in Calls : WF_idemVars(CallStep(c))
    /\ WF_idemVars(Restart)

-----------------------------------------------------------------------------
(***************************************************************************)
(* The idempotency ledger and the resources agree at every commit: a key   *)
(* has one resource, created by the request whose fingerprint is recorded, *)
(* and no resource made under a key is missing from the ledger (lld-08,    *)
(* section 8.3).                                                           *)
(***************************************************************************)
OneResourcePerKey ==
    /\ \A c, d \in resources : Keyed(c) /\ Keyed(d) /\ LedgerKey(c) = LedgerKey(d) => c = d
    /\ \A c \in resources : Keyed(c) =>
         /\ LedgerKey(c) \in DOMAIN ledger
         /\ ledger[LedgerKey(c)] =
              [request_fingerprint |-> Fingerprint(c), resource_id |-> c]
    /\ \A k \in DOMAIN ledger : ledger[k].resource_id \in resources

(***************************************************************************)
(* Whatever calls race, fail or are repeated: all calls of a key that      *)
(* succeed are answered with the same durable resource, made by a request  *)
(* with the caller's fingerprint, and only a caller with another           *)
(* fingerprint is refused.                                                 *)
(***************************************************************************)
AnswersAgree ==
    \A a \in answers :
        /\ a.code = 201 =>
             /\ a.resource \in resources
             /\ Request[a.resource].op = Request[a.call].op
             /\ Fingerprint(a.resource) = Fingerprint(a.call)
        /\ \A b \in answers :
             /\ Keyed(a.call) /\ Keyed(b.call)
             /\ LedgerKey(a.call) = LedgerKey(b.call)
             /\ a.code = 201
             => /\ b.code = 201 => b.resource = a.resource
                /\ b.code = 409 => Fingerprint(b.call) # Fingerprint(a.call)

(***************************************************************************)
(* No call waits for ever on the key of another one: in the end (calls are *)
(* finitely many, and none goes back) no call is in progress.              *)
(***************************************************************************)
CallsEnd ==
    <>[](\A c \in Calls : pc[c] \in {"unsent", "answered", "failed", "dead"})

(***************************************************************************)
(* The root tasks of every execution that was committed are evaluated, by  *)
(* the call that started it or by the recovery after a crash (lld-04,      *)
(* section on lost wakeups) - unless the scheduler call of the start       *)
(* itself raised: the repetition of such a start schedules nothing.        *)
(***************************************************************************)
StartedIsScheduled ==
    <>[](\A c \in resources :
            Request[c].op = "START_EXECUTION" => c \in scheduled \/ pc[c] = "failed")

=============================================================================
