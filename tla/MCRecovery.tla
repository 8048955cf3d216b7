----------------------------- MODULE MCRecovery -----------------------------
(***************************************************************************)
(* Recovery of one run of up to two commits against a target that may be   *)
(* replaced by another database.                                           *)
(***************************************************************************)
EXTENDS RecoveryInvariants

CONSTANTS r1, k1, catalog1, catalog2

OneRun == {r1}
OneReconciler == {k1}
TwoDatabases == {catalog1, catalog2}
=============================================================================
