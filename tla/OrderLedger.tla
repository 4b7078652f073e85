------------------------------ MODULE OrderLedger ------------------------------
(***************************************************************************)
(* What the OMS promises of the orders table, whoever writes it: an order  *)
(* appears as PENDING, moves only along the order state machine, has some  *)
(* of its quantity filled exactly when it is PARTIALLY_FILLED or FILLED    *)
(* for the first time, and rests for ever in a terminal state.             *)
(*                                                                         *)
(* Operators who cancel past the tasks that work on an order break this in *)
(* two ways and no other: a row of any state may become CANCELLED, or get  *)
(* back an older quantity, and a CANCELLED one may become what a task had  *)
(* under way.                                                              *)
(***************************************************************************)
EXTENDS Naturals, OrderStates

CONSTANTS
  Orders, Qty,
  Overrides    \* whether operators cancel past the tasks

VARIABLE ledger   \* ledger[o] = [state, filled]

\* The monitor passes an order through OPEN in memory only, so one stored step
\* is one transition of the state machine, or two with OPEN in between.
StoredMoves(s) ==
  Successors[s] \cup (IF "OPEN" \in Successors[s] THEN Successors["OPEN"] ELSE {})

LedgerInit == ledger = [o \in Orders |-> [state |-> "NONE", filled |-> 0]]

Enter(o) ==
  /\ ledger[o].state = "NONE"
  /\ ledger' = [ledger EXCEPT ![o] = [state |-> "PENDING", filled |-> 0]]

\* The quantity of an order that reaches state s from having q filled.
FilledIn(s, q) ==
  CASE s = "FILLED"           -> {Qty}
    [] s = "PARTIALLY_FILLED" -> 1..(Qty - 1)
    [] OTHER                  -> {q}

Advance(o) ==
  /\ ledger[o].state \in OrderState
  /\ \E s \in StoredMoves(ledger[o].state) : \E q \in FilledIn(s, ledger[o].filled) :
       ledger' = [ledger EXCEPT ![o] = [state |-> s, filled |-> q]]

\* A cancel request writes the columns in which its copy differs from the row
\* it has loaded: CANCELLED, an older quantity, or both.
Override(o) ==
  /\ Overrides
  /\ ledger[o].state \in OrderState
  /\ \E s \in {ledger[o].state, "CANCELLED"} :
       \E q \in 0..(Qty - 1) \cup {ledger[o].filled} :
         ledger' = [ledger EXCEPT ![o] = [state |-> s, filled |-> q]]

\* What a router or a monitor that was at work on the order saves over it.
UnderWay ==
  {"SUBMITTING", "SUBMITTED", "REJECTED_PRE_SUBMIT", "REJECTED", "PARTIALLY_FILLED", "FILLED"}

Revive(o) ==
  /\ Overrides
  /\ ledger[o].state = "CANCELLED"
  /\ \E s \in UnderWay : \E q \in FilledIn(s, 0) :
       ledger' = [ledger EXCEPT ![o] = [state |-> s, filled |-> q]]

LedgerNext == \E o \in Orders : Enter(o) \/ Advance(o) \/ Override(o) \/ Revive(o)

LedgerSpec == LedgerInit /\ [][LedgerNext]_ledger

================================================================================
