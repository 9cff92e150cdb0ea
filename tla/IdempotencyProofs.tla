------------------------- MODULE IdempotencyProofs -------------------------
(***************************************************************************)
(* The idempotency ledger, for any number of calls, keys and requests and  *)
(* any faults: OneResourcePerKey and AnswersAgree are invariants of        *)
(* IdemSpec.                                                               *)
(*                                                                         *)
(* Neither is inductive.  What makes them so is that an open transaction   *)
(* has its key to itself (KeysAreExclusive), which rests on the waiting    *)
(* INSERT, and that every answer under a key can be read off the ledger    *)
(* (AnswersFollowLedger).                                                  *)
(***************************************************************************)
EXTENDS Idempotency, TLAPS

Responses == [call : Calls, code : {201, 404, 409, 500}, resource : Calls, created_at : Calls]

RowOf(r) == [request_fingerprint |-> Fingerprint(r), resource_id |-> r]

IdemTypeOK ==
    /\ pc \in [Calls -> Places]
    /\ resources \subseteq Calls

\* Every record belongs to a resource made under its key.
LedgerIsSound ==
    \A k \in DOMAIN ledger :
        \E r \in resources : Keyed(r) /\ LedgerKey(r) = k /\ ledger[k] = RowOf(r)

\* Every resource made under a key has its record.
LedgerIsComplete ==
    \A r \in resources :
        Keyed(r) => LedgerKey(r) \in DOMAIN ledger /\ ledger[LedgerKey(r)] = RowOf(r)

\* An open transaction that inserted a key is the only one, and first.
KeysAreExclusive ==
    \A c \in Calls : Holds(c) =>
        /\ LedgerKey(c) \notin DOMAIN ledger
        /\ \A d \in Calls : Holds(d) /\ LedgerKey(d) = LedgerKey(c) => d = c

CommittedIsDurable == \A c \in Calls : pc[c] = "committed" => c \in resources

\* What the ledger says of the call of an answer.
Granted(a) ==
    /\ a.resource \in resources
    /\ Request[a.resource].op = Request[a.call].op
    /\ Fingerprint(a.resource) = Fingerprint(a.call)
    /\ Keyed(a.call) =>
         /\ LedgerKey(a.call) \in DOMAIN ledger
         /\ ledger[LedgerKey(a.call)] = RowOf(a.resource)

Refused(a) ==
    /\ Keyed(a.call)
    /\ LedgerKey(a.call) \in DOMAIN ledger
    /\ ledger[LedgerKey(a.call)].request_fingerprint # Fingerprint(a.call)

Supported(a) ==
    /\ a \in Responses
    /\ a.code = 201 => Granted(a)
    /\ a.code = 409 => Refused(a)

AnswersFollowLedger == \A a \in answers : Supported(a)

IdemInv ==
    /\ IdemTypeOK
    /\ LedgerIsSound /\ LedgerIsComplete
    /\ KeysAreExclusive
    /\ CommittedIsDurable
    /\ AnswersFollowLedger

-----------------------------------------------------------------------------
(***************************************************************************)
(* Nothing has been sent and nothing stored (IdemInit).                    *)
(***************************************************************************)
LEMMA InitInv == IdemInit => IdemInv
  BY DEF IdemInit, IdemInv, IdemTypeOK, Places, LedgerIsSound, LedgerIsComplete,
         KeysAreExclusive, CommittedIsDurable, AnswersFollowLedger, Holds

(***************************************************************************)
(* A record is never changed, so what was answered stays true: the ledger  *)
(* only grows, by the key of the committing transaction.                   *)
(***************************************************************************)
LEMMA AnswersStayTrue ==
  ASSUME IdemInv,
         resources \subseteq resources',
         DOMAIN ledger \subseteq DOMAIN ledger',
         \A k \in DOMAIN ledger : ledger'[k] = ledger[k],
         answers' = answers
  PROVE  AnswersFollowLedger'
  <1>1. ASSUME NEW a \in answers, Granted(a) PROVE Granted(a)'
    BY <1>1 DEF Granted, Keyed, LedgerKey, Fingerprint, RowOf
  <1>2. ASSUME NEW a \in answers, Refused(a) PROVE Refused(a)'
    BY <1>2 DEF Refused, Keyed, LedgerKey, Fingerprint
  <1> QED BY <1>1, <1>2 DEF IdemInv, AnswersFollowLedger, Supported, Responses

(***************************************************************************)
(* A step that touches neither the ledger nor the resources, puts no call  *)
(* into an open transaction or past its commit, and sends only answers     *)
(* that the ledger supports.                                               *)
(***************************************************************************)
LEMMA LedgerUntouched ==
  ASSUME IdemInv,
         UNCHANGED <<ledger, resources>>,
         pc' \in [Calls -> Places],
         \A c \in Calls : pc'[c] \in {"creating", "committed"} => pc'[c] = pc[c],
         \A a \in answers' : a \in answers \/ Supported(a)
  PROVE  IdemInv'
  <1>1. IdemTypeOK'
    BY DEF IdemInv, IdemTypeOK
  <1>2. LedgerIsSound' /\ LedgerIsComplete'
    BY DEF IdemInv, LedgerIsSound, LedgerIsComplete, Keyed, LedgerKey, Fingerprint, RowOf
  <1>3. KeysAreExclusive'
    BY DEF IdemInv, IdemTypeOK, KeysAreExclusive, Holds, Keyed, LedgerKey
  <1>4. CommittedIsDurable'
    BY DEF IdemInv, CommittedIsDurable
  <1>5. AnswersFollowLedger'
    <2>1. ASSUME NEW a PROVE Supported(a)' <=> Supported(a)
      BY DEF Supported, Granted, Refused, Keyed, LedgerKey, Fingerprint, RowOf, Responses
    <2> QED BY <2>1 DEF IdemInv, AnswersFollowLedger
  <1> QED BY <1>1, <1>2, <1>3, <1>4, <1>5 DEF IdemInv

(***************************************************************************)
(* The answer that Replay sends is the one of the recorded request.        *)
(***************************************************************************)
LEMMA ReplayInv ==
  ASSUME IdemInv, NEW c \in Calls, Replay(c)
  PROVE  IdemInv'
  <1> DEFINE existing == ledger[LedgerKey(c)].resource_id
  <1>1. PICK r \in resources : Keyed(r) /\ LedgerKey(r) = LedgerKey(c)
                                 /\ ledger[LedgerKey(c)] = RowOf(r)
    BY DEF Replay, IdemInv, LedgerIsSound
  <1>2. existing = r /\ r \in Calls
    BY <1>1 DEF RowOf, IdemInv, IdemTypeOK
  <1>3. Request[r].op = Request[c].op
    BY <1>1 DEF LedgerKey
  <1>4. pc' \in [Calls -> Places]
    BY DEF Replay, Goto, Places, IdemInv, IdemTypeOK
  <1>5. \A d \in Calls : pc'[d] \in {"creating", "committed"} => pc'[d] = pc[d]
    BY DEF Replay, Goto, IdemInv, IdemTypeOK
  <1>6. CASE SameRequest(c)
    <2> DEFINE t == IF Request[c].op = "REGISTER_DEFINITION" THEN c ELSE existing
               a == [call |-> c, code |-> 201, resource |-> r, created_at |-> t]
    <2>1. answers' = answers \cup {a}
      BY <1>2, <1>6 DEF Replay, Answer
    <2>2. a \in Responses
      BY <1>2 DEF Responses
    <2>3. Granted(a)
      BY <1>1, <1>2, <1>3, <1>6 DEF Granted, Replay, SameRequest, RowOf
    <2>4. \A b \in answers' : b \in answers \/ Supported(b)
      BY <2>1, <2>2, <2>3 DEF Supported
    <2> QED BY <1>4, <1>5, <2>4, LedgerUntouched DEF Replay
  <1>7. CASE ~SameRequest(c)
    <2> DEFINE a == [call |-> c, code |-> 409, resource |-> c, created_at |-> c]
    <2>1. answers' = answers \cup {a}
      BY <1>7 DEF Replay, Answer
    <2>2. a \in Responses
      BY DEF Responses
    <2>3. Refused(a)
      BY <1>7 DEF Refused, Replay, SameRequest
    <2>4. \A b \in answers' : b \in answers \/ Supported(b)
      BY <2>1, <2>2, <2>3 DEF Supported
    <2> QED BY <1>4, <1>5, <2>4, LedgerUntouched DEF Replay
  <1> QED BY <1>6, <1>7

(***************************************************************************)
(* A call comes to hold its key only when no record and no other open      *)
(* transaction has it.                                                     *)
(***************************************************************************)
LEMMA InsertInv ==
  ASSUME IdemInv, NEW c \in Calls, Insert(c)
  PROVE  IdemInv'
  <1>1. IdemTypeOK'
    BY DEF Insert, Goto, Places, IdemInv, IdemTypeOK
  <1>2. LedgerIsSound' /\ LedgerIsComplete'
    BY DEF Insert, IdemInv, LedgerIsSound, LedgerIsComplete, Keyed, LedgerKey, Fingerprint, RowOf
  <1>3. \A d \in Calls : pc'[d] = IF d = c THEN "creating" ELSE pc[d]
    BY DEF Insert, Goto, IdemInv, IdemTypeOK
  <1>4. \A d \in Calls : Holds(d)' <=> Keyed(d) /\ (d = c \/ Holds(d))
    BY <1>3 DEF Holds, Keyed
  <1>5. KeysAreExclusive'
    <2> SUFFICES ASSUME NEW e \in Calls, Holds(e)'
                 PROVE  /\ LedgerKey(e) \notin DOMAIN ledger
                        /\ \A d \in Calls : Holds(d)' /\ LedgerKey(d) = LedgerKey(e) => d = e
      BY DEF KeysAreExclusive, Insert, LedgerKey
    <2>1. Keyed(c) => InsertWins(c)
      BY DEF Insert
    <2> QED BY <1>4, <2>1 DEF InsertWins, IdemInv, KeysAreExclusive
  <1>6. CommittedIsDurable'
    BY <1>3 DEF Insert, IdemInv, CommittedIsDurable
  <1>7. AnswersFollowLedger'
    BY AnswersStayTrue DEF Insert
  <1> QED BY <1>1, <1>2, <1>5, <1>6, <1>7 DEF IdemInv

(***************************************************************************)
(* The record and the resource are committed together, under a key that no *)
(* record has.                                                             *)
(***************************************************************************)
LEMMA CommitInv ==
  ASSUME IdemInv, NEW c \in Calls, Commit(c)
  PROVE  IdemInv'
  <1>1. Keyed(c) => Holds(c) /\ LedgerKey(c) \notin DOMAIN ledger
    BY DEF Commit, Holds, IdemInv, KeysAreExclusive
  <1>2. /\ resources' = resources \cup {c}
        /\ DOMAIN ledger' = DOMAIN ledger \cup (IF Keyed(c) THEN {LedgerKey(c)} ELSE {})
        /\ Keyed(c) => ledger'[LedgerKey(c)] = RowOf(c)
        /\ \A k \in DOMAIN ledger : ledger'[k] = ledger[k]
    BY <1>1 DEF Commit, RowOf
  <1>3. \A d \in Calls : pc'[d] = IF d # c THEN pc[d]
                                  ELSE IF Request[c].op = "REGISTER_DEFINITION"
                                       THEN "answered" ELSE "committed"
    BY DEF Commit, Goto, IdemInv, IdemTypeOK
  <1>4. LedgerIsSound'
    <2> SUFFICES ASSUME NEW k \in DOMAIN ledger'
                 PROVE  \E r \in resources' : Keyed(r) /\ LedgerKey(r) = k
                                                /\ ledger'[k] = RowOf(r)
      BY DEF LedgerIsSound, Keyed, LedgerKey, RowOf, Fingerprint
    <2> QED BY <1>1, <1>2 DEF IdemInv, LedgerIsSound
  <1>5. LedgerIsComplete'
    <2> SUFFICES ASSUME NEW r \in resources', Keyed(r)
                 PROVE  LedgerKey(r) \in DOMAIN ledger' /\ ledger'[LedgerKey(r)] = RowOf(r)
      BY DEF LedgerIsComplete, Keyed, LedgerKey, RowOf, Fingerprint
    <2> QED BY <1>1, <1>2 DEF IdemInv, LedgerIsComplete
  <1>6. \A d \in Calls : Holds(d)' => Holds(d) /\ d # c
    BY <1>3 DEF Holds, Keyed
  <1>7. KeysAreExclusive'
    <2> SUFFICES ASSUME NEW e \in Calls, Holds(e)'
                 PROVE  /\ LedgerKey(e) \notin DOMAIN ledger'
                        /\ \A d \in Calls : Holds(d)' /\ LedgerKey(d) = LedgerKey(e) => d = e
      BY DEF KeysAreExclusive, LedgerKey
    <2> QED BY <1>1, <1>2, <1>6 DEF IdemInv, KeysAreExclusive
  <1>8. CommittedIsDurable'
    BY <1>2, <1>3 DEF IdemInv, CommittedIsDurable
  <1>9. AnswersFollowLedger'
    <2>1. ASSUME NEW b, Supported(b) PROVE Supported(b)'
      BY <1>2, <2>1 DEF Supported, Granted, Refused, Keyed, LedgerKey, Fingerprint,
                        RowOf, Responses
    <2> DEFINE a == [call |-> c, code |-> 201, resource |-> c, created_at |-> c]
    <2>2. answers' = answers \/ answers' = answers \cup {a}
      BY DEF Commit, Answer
    <2>3. Granted(a)'
      BY <1>2 DEF Granted, Keyed, LedgerKey, Fingerprint, RowOf
    <2>4. Supported(a)'
      BY <2>3 DEF Supported, Responses
    <2> HIDE DEF a
    <2> QED BY <2>1, <2>2, <2>4 DEF IdemInv, AnswersFollowLedger
  <1>10. IdemTypeOK'
    <2>1. pc' \in [Calls -> Places]
      BY DEF Commit, Goto, Places, IdemInv, IdemTypeOK
    <2> QED BY <1>2, <2>1 DEF IdemInv, IdemTypeOK
  <1> QED BY <1>4, <1>5, <1>7, <1>8, <1>9, <1>10 DEF IdemInv

(***************************************************************************)
(* The scheduler call and the answer after the commit of a start.          *)
(***************************************************************************)
LEMMA AdvanceInv ==
  ASSUME IdemInv, NEW c \in Calls, advance_workflow(c)
  PROVE  IdemInv'
  <1> DEFINE a == [call |-> c, code |-> 201, resource |-> c, created_at |-> c]
  <1>1. pc' \in [Calls -> Places]
    BY DEF advance_workflow, Goto, Places, IdemInv, IdemTypeOK
  <1>2. \A d \in Calls : pc'[d] \in {"creating", "committed"} => pc'[d] = pc[d]
    BY DEF advance_workflow, Goto, IdemInv, IdemTypeOK
  <1>3. a \in Responses
    BY DEF Responses
  <1>4. Granted(a)
    BY DEF Granted, advance_workflow, IdemInv, CommittedIsDurable, LedgerIsComplete
  <1>5. answers' = answers \cup {a}
    BY DEF advance_workflow, Answer
  <1>6. \A b \in answers' : b \in answers \/ Supported(b)
    BY <1>3, <1>4, <1>5 DEF Supported
  <1> QED BY <1>1, <1>2, <1>6, LedgerUntouched DEF advance_workflow

(***************************************************************************)
(* The other steps: a call arrives, is turned away before its transaction, *)
(* fails or dies; what it had inserted is undone and nothing is recorded.  *)
(***************************************************************************)
LEMMA OtherInv ==
  ASSUME IdemInv,
         \/ \E c \in Calls : Send(c) \/ Prepare(c) \/ Rollback(c) \/ AdvanceFails(c)
         \/ Crash \/ Restart
  PROVE  IdemInv'
  <1>1. CASE Crash \/ Restart
    <2>1. pc' \in [Calls -> Places]
      BY <1>1 DEF Crash, Restart, Places, IdemInv, IdemTypeOK
    <2>2. \A d \in Calls : pc'[d] \in {"creating", "committed"} => pc'[d] = pc[d]
      BY <1>1 DEF Crash, Restart, IdemInv, IdemTypeOK
    <2>3. UNCHANGED <<ledger, resources, answers>>
      BY <1>1 DEF Crash, Restart
    <2> QED BY <2>1, <2>2, <2>3, LedgerUntouched
  <1>2. CASE \E c \in Calls : Send(c) \/ Prepare(c) \/ Rollback(c) \/ AdvanceFails(c)
    <2>1. PICK c \in Calls : Send(c) \/ Prepare(c) \/ Rollback(c) \/ AdvanceFails(c)
      BY <1>2
    <2>2. pc' \in [Calls -> Places]
      BY <2>1 DEF Send, Prepare, Rollback, AdvanceFails, Goto, Places, IdemInv, IdemTypeOK
    <2>3. \A d \in Calls : pc'[d] \in {"creating", "committed"} => pc'[d] = pc[d]
      BY <2>1 DEF Send, Prepare, Rollback, AdvanceFails, Goto, IdemInv, IdemTypeOK
    <2>4. UNCHANGED <<ledger, resources>>
      BY <2>1 DEF Send, Prepare, Rollback, AdvanceFails
    <2>5. \A b \in answers' : b \in answers \/ Supported(b)
      <3> DEFINE notFound == [call |-> c, code |-> 404, resource |-> c, created_at |-> c]
                 failed == [call |-> c, code |-> 500, resource |-> c, created_at |-> c]
      <3>1. answers' \subseteq answers \cup {notFound, failed}
        BY <2>1 DEF Send, Prepare, Rollback, AdvanceFails, Answer
      <3>2. Supported(notFound) /\ Supported(failed)
        BY DEF Supported, Responses
      <3> HIDE DEF notFound, failed
      <3> QED BY <3>1, <3>2
    <2> QED BY <2>2, <2>3, <2>4, <2>5, LedgerUntouched
  <1> QED BY <1>1, <1>2

(***************************************************************************)
(* Every step keeps the invariant (IdemNext).                              *)
(***************************************************************************)
LEMMA NextInv ==
  ASSUME IdemInv, [IdemNext]_idemVars
  PROVE  IdemInv'
  <1>1. CASE UNCHANGED idemVars
    <2>1. UNCHANGED <<pc, ledger, resources, answers>>
      BY <1>1 DEF idemVars
    <2> QED BY <2>1, LedgerUntouched DEF IdemInv, IdemTypeOK
  <1>2. CASE IdemNext
    BY <1>2, OtherInv, InsertInv, ReplayInv, CommitInv, AdvanceInv DEF IdemNext, CallStep
  <1> QED BY <1>1, <1>2

(***************************************************************************)
(* The ledger and the answers agree at every step, whatever races, fails   *)
(* or is repeated.                                                         *)
(***************************************************************************)
THEOREM LedgerInvariant == IdemSpec => []IdemInv
  BY InitInv, NextInv, PTL DEF IdemSpec

(***************************************************************************)
(* commit_workflow_creation and commit_registered_definition make at most  *)
(* one resource for a key and record it, for any calls and faults.         *)
(***************************************************************************)
THEOREM OneResource == IdemSpec => []OneResourcePerKey
  <1>1. IdemInv => OneResourcePerKey
    <2> SUFFICES ASSUME IdemInv PROVE OneResourcePerKey
      OBVIOUS
    <2>1. \A c \in resources :
            Keyed(c) => LedgerKey(c) \in DOMAIN ledger /\ ledger[LedgerKey(c)] = RowOf(c)
      BY DEF IdemInv, LedgerIsComplete
    <2>2. \A c : RowOf(c).resource_id = c
      BY DEF RowOf
    <2>3. ASSUME NEW c \in resources, NEW d \in resources,
                 Keyed(c), Keyed(d), LedgerKey(c) = LedgerKey(d)
          PROVE  c = d
      <3>1. RowOf(c) = RowOf(d)
        BY <2>1, <2>3
      <3> QED BY <2>2, <3>1
    <2>4. ASSUME NEW k \in DOMAIN ledger PROVE ledger[k].resource_id \in resources
      <3>1. PICK r \in resources : ledger[k] = RowOf(r)
        BY DEF IdemInv, LedgerIsSound
      <3> QED BY <2>2, <3>1
    <2> QED BY <2>1, <2>3, <2>4 DEF OneResourcePerKey, RowOf
  <1> QED BY <1>1, LedgerInvariant, PTL

(***************************************************************************)
(* All successful calls of a key are answered with the same durable        *)
(* resource, and only a caller with another fingerprint is refused.        *)
(***************************************************************************)
THEOREM Agreement == IdemSpec => []AnswersAgree
  <1>1. IdemInv => AnswersAgree
    <2> SUFFICES ASSUME IdemInv, NEW a \in answers, a.code = 201
                 PROVE  /\ a.resource \in resources
                        /\ Request[a.resource].op = Request[a.call].op
                        /\ Fingerprint(a.resource) = Fingerprint(a.call)
                        /\ \A b \in answers :
                             Keyed(a.call) /\ Keyed(b.call)
                               /\ LedgerKey(a.call) = LedgerKey(b.call)
                             => /\ b.code = 201 => b.resource = a.resource
                                /\ b.code = 409 => Fingerprint(b.call) # Fingerprint(a.call)
      BY DEF AnswersAgree
    <2>1. Granted(a)
      BY DEF IdemInv, AnswersFollowLedger, Supported
    <2>2. ASSUME NEW b \in answers, Keyed(a.call), Keyed(b.call),
                 LedgerKey(a.call) = LedgerKey(b.call)
          PROVE  /\ b.code = 201 => b.resource = a.resource
                 /\ b.code = 409 => Fingerprint(b.call) # Fingerprint(a.call)
      <3>1. (b.code = 201 => Granted(b)) /\ (b.code = 409 => Refused(b))
        BY DEF IdemInv, AnswersFollowLedger, Supported
      <3> QED BY <2>1, <2>2, <3>1 DEF Granted, Refused, RowOf
    <2> QED BY <2>1, <2>2 DEF Granted
  <1> QED BY <1>1, LedgerInvariant, PTL

=============================================================================
