----------------------------- MODULE MCRecovery -----------------------------
(***************************************************************************)
(* Instances of StartupRecovery for TLC.                                   *)
(***************************************************************************)
EXTENDS MCControlPlane, StartupRecovery

\* ta then tc, beside tb
ForkDeps == (ta :> {} @@ tb :> {} @@ tc :> {ta})

=============================================================================
