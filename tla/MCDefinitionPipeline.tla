------------------------ MODULE MCDefinitionPipeline ------------------------
(***************************************************************************)
(* Instances of DefinitionPipeline for TLC.                                *)
(***************************************************************************)
EXTENDS DefinitionPipeline

Task(x, deps, sources, max) ==
    [id |-> x, dependencies |-> deps, sources |-> sources, max_attempts |-> max]

\* Every dependency graph on four tasks.
Graphs4 ==
    {[tasks |-> [x \in 1..4 |-> Task(x, sorted(g[x]), <<>>, 1)],
      outputs |-> <<>>] :
        g \in {h \in [1..4 -> SUBSET (1..4)] : \A x \in 1..4 : x \notin h[x]}}

\* Every pair of tasks with up to two dependencies and one binding each, out
\* of the tasks of the document and the unknown name 3, with max_attempts up
\* to one above the limit of 1.
Pairs ==
    LET T(x) == {Task(x, deps, sources, max) :
                   deps \in BoundedSeq(1..3, 2),
                   sources \in BoundedSeq(1..3, 1), max \in 1..2}
    IN  {[tasks |-> <<t, u>>, outputs |-> o] :
           t \in T(1), u \in T(2), o \in {<<>>, <<1>>, <<3>>}}

\* 0 is a name that TaskDefinitionId refuses.
Oddities ==
    {[tasks |-> <<>>, outputs |-> o] : o \in BoundedSeq({1}, 1)}
    \cup
    {[tasks |-> <<Task(1, deps, <<>>, max)>>, outputs |-> <<>>] :
        deps \in BoundedSeq(0..1, 1), max \in 0..1}

AllDocuments == Graphs4 \cup Pairs \cup Oddities

=============================================================================
