----------------------------- MODULE MCRowLocks -----------------------------
(***************************************************************************)
(* Instances of RowLocks for TLC.                                          *)
(***************************************************************************)
EXTENDS RowLocks, TLC

LocksSymmetry == Permutations(Tasks) \cup Permutations(Txns)

=============================================================================
