------------------------- MODULE DefinitionPipeline -------------------------
(***************************************************************************)
(* What happens to a workflow definition after its YAML has been parsed    *)
(* into a structurally valid document: normalisation, semantic validation, *)
(* Kahn's reduction, serialisation into the definition row, and the        *)
(* reconstruction of the specification from that row.                      *)
(*                                                                         *)
(* Task names are numbers in the order of the strings they stand for.  The *)
(* input bindings of a task are reduced to the sources of its task_output  *)
(* bindings, in the order of their input names; likewise the output        *)
(* bindings of the workflow.  Python iterates over sets in no stated       *)
(* order: where the code does, any order is taken.                         *)
(***************************************************************************)
EXTENDS Integers, FiniteSets, Sequences, SequencesExt

CONSTANTS
    Documents,      \* the documents submitted
    Invalid,        \* strings TaskDefinitionId refuses
    AttemptLimit,   \* max_attempts_admission_limit
    MaxErrors       \* max_errors of the validator

ASSUME PipelineAssumption ==
    /\ AttemptLimit \in Nat \ {0}
    /\ MaxErrors \in Nat \ {0}

TaskDocument == [id : Int, dependencies : Seq(Int), sources : Seq(Int), max_attempts : Int]

\* What Pydantic and the YAML parser guarantee: tasks is a mapping, so no two
\* tasks have one name.
ASSUME DocumentsAssumption ==
    \A d \in Documents :
        /\ d \in [tasks : Seq(TaskDocument), outputs : Seq(Int)]
        /\ \A i, j \in DOMAIN d.tasks : d.tasks[i].id = d.tasks[j].id => i = j

VARIABLES
    doc,         \* the document
    stage,       \* how far it is
    errors,      \* the errors reported, in order
    stored,      \* validated_iws of the definition row
    in_degree, queue, visited,   \* locals of the reduction
    spec         \* what deserialize_validated_spec returned

pipelineVars == <<doc, stage, errors, stored, in_degree, queue, visited, spec>>

-----------------------------------------------------------------------------
Ids(d) == {t.id : t \in ToSet(d.tasks)}

\* TaskDefinition.dependencies, a frozenset
Deps(d) == [x \in Ids(d) |->
              UNION {ToSet(t.dependencies) : t \in {u \in ToSet(d.tasks) : u.id = x}}]

\* ValidatedWorkflowSpec: mappings and frozensets have no order
SpecOf(d) ==
    [tasks |-> {[id |-> t.id, dependencies |-> ToSet(t.dependencies),
                 sources |-> t.sources, max_attempts |-> t.max_attempts] :
                   t \in ToSet(d.tasks)},
     outputs |-> d.outputs]

Nothing == [tasks |-> <<>>, outputs |-> <<>>]

PipelineInit ==
    /\ doc \in Documents
    /\ stage = "received"
    /\ errors = <<>>
    /\ stored = Nothing
    /\ in_degree = <<>> /\ queue = <<>> /\ visited = <<>>
    /\ spec = Nothing

-----------------------------------------------------------------------------
(***************************************************************************)
(* normalize_workflow_dto builds identifiers and TaskDefinitions, whose    *)
(* constructors raise; register_definition does not catch it.              *)
(***************************************************************************)
Constructible(d) ==
    /\ \A t \in ToSet(d.tasks) :
         /\ ({t.id} \cup ToSet(t.dependencies) \cup ToSet(t.sources)) \cap Invalid = {}
         /\ t.max_attempts >= 1
    /\ ToSet(d.outputs) \cap Invalid = {}

normalize_workflow_dto ==
    /\ stage = "received"
    /\ stage' = IF Constructible(doc) THEN "candidate" ELSE "raised"
    /\ UNCHANGED <<doc, errors, stored, in_degree, queue, visited, spec>>

(***************************************************************************)
(* SemanticValidator.validate: the errors of a document, in the order of   *)
(* the checks; validation stops with the MaxErrors-th.                     *)
(***************************************************************************)
Report(bad, code, x) == IF bad THEN <<[code |-> code, task |-> x]>> ELSE <<>>

DependencyErrors(t, i) ==
    LET d == t.dependencies[i]
    IN  Report(d \in ToSet(SubSeq(t.dependencies, 1, i - 1)), "DUPLICATE_DEPENDENCY", t.id)
        \o Report(d = t.id, "SELF_DEPENDENCY", t.id)
        \o Report(d \notin Ids(doc), "UNKNOWN_DEPENDENCY", t.id)

\* Plausible error: any task of the workflow may feed a binding.
AnySource(t, i) ==
    Report(t.sources[i] \notin Ids(doc), "UNKNOWN_TASK_OUTPUT_SOURCE", t.id)

BindingErrors(t, i) ==
    IF t.sources[i] \notin Ids(doc)
    THEN Report(TRUE, "UNKNOWN_TASK_OUTPUT_SOURCE", t.id)
    ELSE Report(t.sources[i] \notin ToSet(t.dependencies),
                "TASK_OUTPUT_SOURCE_NOT_DEPENDENCY", t.id)

TaskErrors(t) ==
    Report(t.max_attempts > AttemptLimit, "ATTEMPTS_EXCEEDED_LIMIT", t.id)
    \o FlattenSeq([i \in 1..Len(t.dependencies) |-> DependencyErrors(t, i)])
    \o FlattenSeq([i \in 1..Len(t.sources) |-> BindingErrors(t, i)])

OutputErrors ==
    FlattenSeq([i \in 1..Len(doc.outputs) |->
                  Report(doc.outputs[i] \notin Ids(doc),
                         "UNKNOWN_WORKFLOW_OUTPUT_SOURCE", doc.outputs[i])])

AllErrors ==
    IF doc.tasks = <<>>
    THEN Report(TRUE, "EMPTY_WORKFLOW", 0)
    ELSE FlattenSeq([i \in 1..Len(doc.tasks) |-> TaskErrors(doc.tasks[i])]) \o OutputErrors

\* Plausible error: the cut-off comes one error late.
CutLate(s) == SubSeq(s, 1, IF Len(s) > MaxErrors THEN MaxErrors + 1 ELSE Len(s))

CutOff(s) == SubSeq(s, 1, IF Len(s) > MaxErrors THEN MaxErrors ELSE Len(s))

(***************************************************************************)
(* build_canonical_graph_and_verify_acyclic.  The popped tasks are kept in *)
(* order; visited_count is their number.  Every order in which sets can be *)
(* iterated is explored; the sorted iteration of                           *)
(* compute_deterministic_topological_order is one of them.                 *)
(***************************************************************************)
Dependents(d, x) == {y \in Ids(d) : x \in Deps(d)[y]}

StartReduction(d, where) ==
    /\ stage' = where
    /\ in_degree' = [x \in Ids(d) |-> Cardinality(Deps(d)[x])]
    /\ queue' \in SetToSeqs({x \in Ids(d) : Deps(d)[x] = {}})
    /\ visited' = <<>>

validate ==
    /\ stage = "candidate"
    /\ errors' = CutOff(AllErrors)
    /\ IF AllErrors # <<>>
       THEN stage' = "rejected" /\ UNCHANGED <<in_degree, queue, visited>>
       ELSE StartReduction(doc, "validating")
    /\ UNCHANGED <<doc, stored, spec>>

\* Plausible error: a task is queued by its first finished dependency.
QueuedEarly(released) == {x \in released : in_degree[x] >= 1}

Freed(released) == {x \in released : in_degree[x] = 1}

\* What the reduction runs over: the candidate, or the row that is loaded.
graph == IF stage = "loading" THEN stored ELSE doc

Reduce ==
    /\ stage \in {"validating", "loading"}
    /\ queue # <<>>
    /\ LET released == Dependents(graph, Head(queue))
       IN  /\ in_degree' = [x \in DOMAIN in_degree |->
                              IF x \in released THEN in_degree[x] - 1 ELSE in_degree[x]]
           /\ \E more \in SetToSeqs(Freed(released)) : queue' = Tail(queue) \o more
    /\ visited' = Append(visited, Head(queue))
    /\ UNCHANGED <<doc, stage, errors, stored, spec>>

CycleFound == Len(visited) # Cardinality(Ids(graph))

\* cycle_nodes of the error message
cycle_nodes == {x \in DOMAIN in_degree : in_degree[x] > 0}

(***************************************************************************)
(* serialize_validated_spec sorts tasks and dependencies by name.          *)
(***************************************************************************)
Ascending(s) == \A i, j \in DOMAIN s : i < j => s[i] < s[j]

sorted(names) == CHOOSE s \in SetToSeqs(names) : Ascending(s)

\* spec.tasks[task_id]
TaskNamed(tasks, x) == CHOOSE t \in tasks : t.id = x

SerializedTask(t) == [t EXCEPT !.dependencies = sorted(@)]

serialize_validated_spec(s) ==
    LET ids == sorted({t.id : t \in s.tasks})
    IN  [tasks |-> [i \in DOMAIN ids |-> SerializedTask(TaskNamed(s.tasks, ids[i]))],
         outputs |-> s.outputs]

EndValidation ==
    /\ stage = "validating"
    /\ queue = <<>>
    /\ IF CycleFound
       THEN /\ stage' = "rejected"
            /\ errors' = <<[code |-> "CYCLE_DETECTED", task |-> 0]>>
            /\ UNCHANGED stored
       ELSE /\ stage' = "registered"
            /\ stored' = serialize_validated_spec(SpecOf(doc))
            /\ UNCHANGED errors
    /\ UNCHANGED <<doc, in_degree, queue, visited, spec>>

(***************************************************************************)
(* deserialize_validated_spec checks the row again, on its own terms.  The *)
(* row need not have been written by this version of the program.          *)
(***************************************************************************)
RowFromElsewhere ==
    /\ stage = "received"
    /\ stored' = doc
    /\ stage' = "found"
    /\ UNCHANGED <<doc, errors, in_degree, queue, visited, spec>>

\* Plausible error: a stored binding is checked against the tasks only.
StoredTaskUnbound(t) ==
    /\ Cardinality(ToSet(t.dependencies)) = Len(t.dependencies)
    /\ t.id \notin ToSet(t.dependencies)
    /\ (ToSet(t.dependencies) \cup ToSet(t.sources)) \subseteq Ids(stored)
    /\ t.max_attempts >= 1

StoredTaskIsSound(t) ==
    /\ Cardinality(ToSet(t.dependencies)) = Len(t.dependencies)
    /\ t.id \notin ToSet(t.dependencies)
    /\ ToSet(t.dependencies) \subseteq Ids(stored)
    /\ t.max_attempts >= 1
    /\ ToSet(t.sources) \subseteq ToSet(t.dependencies)

Load ==
    /\ stage \in {"registered", "found"}
    /\ IF /\ stored.tasks # <<>>
          /\ Constructible(stored)
          /\ \A t \in ToSet(stored.tasks) : StoredTaskIsSound(t)
          /\ ToSet(stored.outputs) \subseteq Ids(stored)
       THEN StartReduction(stored, "loading")
       ELSE stage' = "corrupt" /\ UNCHANGED <<in_degree, queue, visited>>
    /\ UNCHANGED <<doc, errors, stored, spec>>

EndLoad ==
    /\ stage = "loading"
    /\ queue = <<>>
    /\ IF CycleFound
       THEN stage' = "corrupt" /\ UNCHANGED spec
       ELSE stage' = "loaded" /\ spec' = SpecOf(stored)
    /\ UNCHANGED <<doc, errors, stored, in_degree, queue, visited>>

PipelineNext ==
    \/ normalize_workflow_dto \/ validate \/ Reduce \/ EndValidation
    \/ RowFromElsewhere \/ Load \/ EndLoad

PipelineSpec == PipelineInit /\ [][PipelineNext]_pipelineVars

-----------------------------------------------------------------------------
(***************************************************************************)
(* Reference definitions.                                                  *)
(***************************************************************************)
\* The tasks can be numbered so that every dependency comes first.
Schedulable(d) ==
    \E rank \in [Ids(d) -> 1..Cardinality(Ids(d))] :
        \A x \in Ids(d) : \A y \in Deps(d)[x] : rank[y] < rank[x]

\* Every reference of the document means something.
Sound(d) ==
    /\ d.tasks # <<>>
    /\ Constructible(d)
    /\ \A t \in ToSet(d.tasks) :
         /\ \A i, j \in DOMAIN t.dependencies :
              t.dependencies[i] = t.dependencies[j] => i = j
         /\ \A i \in DOMAIN t.dependencies : t.dependencies[i] \in Ids(d) \ {t.id}
         /\ \A i \in DOMAIN t.sources :
              \E j \in DOMAIN t.dependencies : t.sources[i] = t.dependencies[j]
    /\ \A i \in DOMAIN d.outputs : d.outputs[i] \in Ids(d)
    /\ Schedulable(d)

Admissible(d) == \A t \in ToSet(d.tasks) : t.max_attempts <= AttemptLimit

\* The largest set of tasks each of which waits for another one of the set.
Stuck(d) == UNION {S \in SUBSET Ids(d) : \A x \in S : Deps(d)[x] \cap S # {}}

(***************************************************************************)
(* The validator registers exactly the documents in which every reference  *)
(* resolves, the tasks can be scheduled and the attempts are within the    *)
(* limit, whatever order sets are iterated in.                             *)
(***************************************************************************)
VerdictIsRight ==
    /\ stage = "registered" => Sound(doc) /\ Admissible(doc)
    /\ stage = "rejected" => ~(Sound(doc) /\ Admissible(doc))

(***************************************************************************)
(* A rejection says why, with at most max_errors errors, and a cycle is    *)
(* only reported for a document without other errors.                      *)
(***************************************************************************)
RejectionIsExplained ==
    stage = "rejected" =>
        /\ Len(errors) \in 1..MaxErrors
        /\ \A i \in DOMAIN errors :
             errors[i].code = "CYCLE_DETECTED" => ~Schedulable(doc) /\ Len(errors) = 1

(***************************************************************************)
(* The reduction releases a task when its last dependency is popped: the   *)
(* popped tasks are in a topological order, and what is left at the end is *)
(* the same whatever the order.                                            *)
(***************************************************************************)
ReductionIsTopological ==
    stage \in {"validating", "loading"} =>
        /\ \A i \in DOMAIN visited :
             Deps(doc)[visited[i]] \subseteq ToSet(SubSeq(visited, 1, i - 1))
        /\ queue = <<>> => cycle_nodes = Stuck(doc)

(***************************************************************************)
(* deserialize_validated_spec gives back what was validated, and accepts   *)
(* no row that the validator would not have (the attempt limit apart).     *)
(***************************************************************************)
LoadsBack ==
    /\ stage = "loaded" => Sound(doc) /\ spec = SpecOf(doc)
    /\ stage = "corrupt" => ~Sound(doc)

=============================================================================
