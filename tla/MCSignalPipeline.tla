---------------------------- MODULE MCSignalPipeline ---------------------------
(***************************************************************************)
(* The instances of SignalPipeline that TLC checks.  Nothing tells the     *)
(* loop's cycles from the requested ones.                                  *)
(***************************************************************************)
EXTENDS SignalPipeline, TLC

ScanSymmetry == Permutations(Scans)
=============================================================================
