-------------------------- MODULE MCWorkerProtocol --------------------------
(***************************************************************************)
(* Instances of WorkerProtocol for TLC.                                    *)
(***************************************************************************)
EXTENDS WorkerProtocol, TLC

CONSTANTS a1, a2, charge, ship, step_one

ActivityTypes == [a \in Attempts |-> IF a = a1 THEN charge ELSE ship]

\* The task of a1 has a name of its own, the task of a2 that of its activity.
TaskNames == [a \in Attempts |-> IF a = a1 THEN step_one ELSE ship]

SessionSymmetry == Permutations(Sessions)

=============================================================================
