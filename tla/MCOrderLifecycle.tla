--------------------------- MODULE MCOrderLifecycle ---------------------------
(***************************************************************************)
(* Small instances of OrderLifecycle for TLC.  Nothing distinguishes one   *)
(* cancel request of an order from another, so safety runs may identify    *)
(* states that differ by a permutation of them.                            *)
(***************************************************************************)
EXTENDS OrderLifecycle, TLC

RequestSymmetry == Permutations(Requests)

AllFaults == FaultKinds
================================================================================
