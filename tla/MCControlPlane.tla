--------------------------- MODULE MCControlPlane ---------------------------
(***************************************************************************)
(* Small definitions for TLC: the shapes of the workflow graph.            *)
(***************************************************************************)
EXTENDS ControlPlaneProps, TLC

CONSTANTS ta, tb, tc

\* ta then tb
ChainDeps == (ta :> {} @@ tb :> {ta})

\* ta and tb, joined by tc
JoinDeps == (ta :> {} @@ tb :> {} @@ tc :> {ta, tb})

OneAttempt == [t \in Tasks |-> 1]

\* ta may be retried once, the other tasks not at all
RetryFirst == [t \in Tasks |-> IF t = ta THEN 2 ELSE 1]

Symmetry == Permutations(Handlers) \cup Permutations(Sessions)

=============================================================================
