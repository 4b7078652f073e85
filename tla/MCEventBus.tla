------------------------------ MODULE MCEventBus ------------------------------
(***************************************************************************)
(* Small instances of EventBus for TLC.                                    *)
(***************************************************************************)
EXTENDS EventBus

AllBusFaults == BusFaults
================================================================================
