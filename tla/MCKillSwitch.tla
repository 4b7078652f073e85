----------------------------- MODULE MCKillSwitch -----------------------------
(***************************************************************************)
(* Small instances of KillSwitch for TLC.  Operators are interchangeable   *)
(* model values.                                                           *)
(***************************************************************************)
EXTENDS KillSwitch, TLC

OperatorSymmetry == Permutations(Operators)

AllSwitchFaults == SwitchFaults
================================================================================
