------------------------------ MODULE OrderStates ------------------------------
(***************************************************************************)
(* The order state machine of core/domain/enums/order_state.py: the        *)
(* states, the terminal states and the transition table that               *)
(* Order._transition_to consults.  Constant-level: every module that       *)
(* handles orders extends it.                                              *)
(***************************************************************************)

Terminal ==
  {"FILLED", "CANCELLED", "REJECTED", "REJECTED_PRE_SUBMIT", "EXPIRED"}

OrderState ==
  {"PENDING", "SUBMITTING", "SUBMITTED", "OPEN", "PARTIALLY_FILLED"}
    \cup Terminal

\* VALID_ORDER_TRANSITIONS: the states an order may move to from s.
Successors ==
  [s \in OrderState |->
     CASE s = "PENDING"          -> {"SUBMITTING", "CANCELLED"}
       [] s = "SUBMITTING"       -> {"SUBMITTED", "REJECTED_PRE_SUBMIT"}
       [] s = "SUBMITTED"        -> {"OPEN"}
       [] s = "OPEN"             -> {"FILLED", "PARTIALLY_FILLED", "CANCELLED",
                                     "REJECTED", "EXPIRED"}
       [] s = "PARTIALLY_FILLED" -> {"FILLED", "CANCELLED"}
       [] OTHER                  -> {}]

\* Order._transition_to: the move is made iff the table has it, otherwise
\* OrderStateError is raised.
MayMove(from, to) == to \in Successors[from]

\* The states process_execution_report and poll_and_process look at.
Monitorable == {"SUBMITTED", "OPEN", "PARTIALLY_FILLED"}
================================================================================
