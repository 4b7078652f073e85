--------------------------- MODULE MCReconciliation ---------------------------
(***************************************************************************)
(* Small instances of Reconciliation for TLC.  Neither orders nor foreign  *)
(* ids are told apart.                                                     *)
(***************************************************************************)
EXTENDS Reconciliation, TLC

DeskSymmetry == Permutations(Orders) \cup Permutations(Foreign)
================================================================================
