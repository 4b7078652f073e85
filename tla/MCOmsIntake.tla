------------------------------ MODULE MCOmsIntake ------------------------------
(***************************************************************************)
(* Small instances of OmsIntake for TLC.  Signals are interchangeable      *)
(* model values.                                                           *)
(***************************************************************************)
EXTENDS OmsIntake, TLC

SignalSymmetry == Permutations(Signals)
================================================================================
