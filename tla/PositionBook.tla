------------------------------ MODULE PositionBook ------------------------------
(***************************************************************************)
(* The positions table and the consumer that fills it: for every           *)
(* OrderFilled message PipelineEventHandler.handle_order_filled reads the  *)
(* order and has PositionManagerService open a position for what it        *)
(* bought.  The bus hands the handler one message at a time and hands no   *)
(* message out twice: one whose handling failed or was cut off by a crash  *)
(* stays pending and is never read again.                                  *)
(*                                                                         *)
(* Positions are only ever opened: no order has a parent_position_id,      *)
(* since a position is opened without stop and target prices and           *)
(* place_stop_loss_order places nothing for it.                            *)
(***************************************************************************)
EXTENDS OrderLifecycle

VARIABLES
  taken,   \* taken[o]: OrderFilled messages for o the consumer has read
  at,      \* at[o]: where the handler stands with the message about o
  size,    \* size[o]: the quantity of the order it has read
  held     \* held[o]: the quantity of the positions opened for o

bookVars == <<taken, at, size, held>>

BookTypeOK ==
  /\ taken \in [Orders -> Nat]
  /\ at \in [Orders -> {"idle", "taken", "loaded"}]
  /\ size \in [Orders -> 0..Qty]
  /\ held \in [Orders -> Nat]

BookInit ==
  /\ taken = [o \in Orders |-> 0]
  /\ at = [o \in Orders |-> "idle"]
  /\ size = [o \in Orders |-> 0]
  /\ held = [o \in Orders |-> 0]

HandlerDone(o) ==
  /\ at' = [at EXCEPT ![o] = "idle"]
  /\ size' = [size EXCEPT ![o] = 0]

\* Mutant of TakeFilled: a message that was read once is handed out again.
TakeAgain(o) ==
  /\ \A p \in Orders : at[p] = "idle"
  /\ emitted[o] > 0
  /\ at' = [at EXCEPT ![o] = "taken"]
  /\ UNCHANGED <<taken, size, held>>

\* The consumer reads the next message.
TakeFilled(o) ==
  /\ \A p \in Orders : at[p] = "idle"
  /\ taken[o] < emitted[o]
  /\ taken' = [taken EXCEPT ![o] = @ + 1]
  /\ at' = [at EXCEPT ![o] = "taken"]
  /\ UNCHANGED <<size, held>>

\* The handler reads the order, whatever its state; a read that raises sends
\* the message to the dead letters.
LoadFilled(o) ==
  /\ at[o] = "taken"
  /\ \/ /\ size' = [size EXCEPT ![o] = row[o].filled]
        /\ at' = [at EXCEPT ![o] = "loaded"]
     \/ "db" \in Faults /\ HandlerDone(o)
  /\ UNCHANGED <<taken, held>>

\* open_position saves the position under a new id.  It raises for an order
\* without a price, which is one without a fill, or one whose price a cancel
\* request has overwritten.  What raises, the save too, is logged and the message
\* acknowledged: the order keeps no position.
OpenPosition(o) ==
  /\ at[o] = "loaded"
  /\ \/ held' = [held EXCEPT ![o] = @ + size[o]]
     \/ ("db" \in Faults \/ Requests # {}) /\ UNCHANGED held
  /\ HandlerDone(o)
  /\ UNCHANGED taken

\* The handler is gone with the process, the table is not.
BookCrash ==
  /\ at' = [o \in Orders |-> "idle"]
  /\ size' = [o \in Orders |-> 0]
  /\ UNCHANGED <<taken, held>>

BookNext == \E o \in Orders : TakeFilled(o) \/ LoadFilled(o) \/ OpenPosition(o)

\* Every position is backed by the broker, quantity for quantity: not more is
\* held for an order than the broker has filled of it, whatever messages,
\* saves and crashes do.
PositionsAreBacked == \A o \in Orders : held[o] <= brk[o].filled

\* Why: a fill is announced once, after the broker has completed the order, and
\* its message is handled at most once, from no position to one.
BookInv(o) ==
  /\ emitted[o] > 0 \/ monPc[o] = "publishing" => brk[o].filled = Qty
  /\ taken[o] <= emitted[o]
  /\ taken[o] = 0 => at[o] = "idle" /\ held[o] = 0
  /\ at[o] # "idle" => held[o] = 0
  /\ held[o] <= brk[o].filled
================================================================================
