----------------------------- MODULE Reconciliation -----------------------------
(***************************************************************************)
(* ReconciliationService.run, next to the order tasks and the position     *)
(* consumer it checks up on.  One loop of the application runs it, one run *)
(* at a time, when BrokerReconciliationService finds a broker session      *)
(* under the name it asks for.                                             *)
(*                                                                         *)
(* A run is a sequence of reads, and everything may move between two of    *)
(* them: the OMS orders state by state, then the broker's book; the OMS    *)
(* positions, then the broker's.  What it finds goes into its result.  The *)
(* comparison of trades at the end, which can only find nothing or fail,   *)
(* is one step; the run's record in reconciliation_runs, which nothing but *)
(* the API reads, is left out.                                             *)
(*                                                                         *)
(* The broker lists the orders, positions and trades of the day.  Orders   *)
(* placed from the account's own terminal are in the book beside those of  *)
(* the OMS.                                                                *)
(***************************************************************************)
EXTENDS PositionBook

CONSTANTS
  Foreign,    \* ids of orders placed at the broker's own terminal
  StoredAs,   \* the broker_name of the sessions that logins store
  AskedFor    \* the broker_name BrokerReconciliationService was built with

\* The broker does not answer about an order of an earlier day.
ASSUME PollAssumption == "poll" \in Faults

VARIABLES
  past,      \* the orders the broker holds from earlier days
  terminal,  \* the foreign orders in today's book
  session,   \* whether the sessions table has one that is active and unexpired
  stage,     \* where the run stands
  unread,    \* the states whose orders it still has to read
  listed,    \* the orders it has read, each with whether its id was known
  seen,      \* the orders with a position that it has read
  found      \* its result

runVars == <<stage, unread, listed, seen, found>>
dayVars == <<past, terminal, session>>
deskVars == <<vars, bookVars, dayVars, runVars>>

--------------------------------------------------------------------------------
NonTerminal == OrderState \ Terminal

Stages == {"idle", "orders", "book", "held", "holdings", "fills", "complete"}

\* What a run tells of missing orders and of orphan positions.
Result == [missing : SUBSET Orders, orphans : SUBSET Orders]

NothingFound == [missing |-> {}, orphans |-> {}]

DeskTypeOK ==
  /\ BookTypeOK
  /\ past \subseteq Orders
  /\ terminal \subseteq Foreign
  /\ session \in BOOLEAN
  /\ stage \in Stages
  /\ unread \subseteq NonTerminal
  /\ listed \subseteq Orders \X BOOLEAN
  /\ seen \subseteq Orders
  /\ found \in Result
  /\ unread # {} => stage = "orders"
  /\ stage \in {"idle", "orders"} => seen = {} /\ found = NothingFound

DeskInit ==
  /\ Init
  /\ BookInit
  /\ past = {}
  /\ terminal = {}
  /\ session = FALSE
  /\ stage = "idle"
  /\ unread = {}
  /\ listed = {}
  /\ seen = {}
  /\ found = NothingFound

--------------------------------------------------------------------------------
(***************************************************************************)
(* The broker's day.                                                       *)
(***************************************************************************)

\* Mutant of Book: only the orders still open are asked for.
OpenBook == {o \in Orders \ past : brk[o].status = "OPEN"} \cup terminal

\* broker.get_orders: every order of the day.
Book == {o \in Orders \ past : brk[o].status # "NONE"} \cup terminal

\* The OMS orders of the day that traded: broker.get_positions and get_trades
\* list them, and whatever the foreign orders traded.
Traded == {o \in Orders \ past : brk[o].filled > 0}

PlaceForeign ==
  /\ \E f \in Foreign \ terminal : terminal' = terminal \cup {f}
  /\ UNCHANGED <<past, session>>

\* Overnight: the day's orders have all ended and intraday positions have been
\* squared off; the next day's lists begin empty.
NewDay ==
  /\ \A o \in Orders : brk[o].status # "OPEN"
  /\ past' = {o \in Orders : brk[o].status # "NONE"}
  /\ terminal' = {}
  /\ UNCHANGED session

\* POST /broker/callback: create_session replaces the session of that name.
Login == session' = TRUE /\ UNCHANGED <<past, terminal>>

\* It expires, every morning at the latest, or a new login that fails has
\* deactivated it; terminate_session only tidies an expired one up.
Expire ==
  /\ session
  /\ session' = FALSE
  /\ UNCHANGED <<past, terminal>>

--------------------------------------------------------------------------------
(***************************************************************************)
(* The run.                                                                *)
(***************************************************************************)
Goto(l) == stage' = l

\* Mutant of Over: the result is the service's, not the run's.
OverKeeping ==
  /\ Goto("idle")
  /\ unread' = {} /\ listed' = {} /\ seen' = {}
  /\ UNCHANGED found

\* The run is over, by its end, by an exception that its except branch turns
\* into FAILED, or with the process.  Its result goes no further.
Over ==
  /\ Goto("idle")
  /\ unread' = {} /\ listed' = {} /\ seen' = {}
  /\ found' = NothingFound

\* BrokerReconciliationService.run: get_active compares the broker_name exactly,
\* and without a session there is no run.  start_run may fail without consequence.
StartRun ==
  /\ stage = "idle"
  /\ session /\ AskedFor = StoredAs
  /\ Goto("orders")
  /\ unread' = NonTerminal
  /\ UNCHANGED <<listed, seen, found>>

\* get_by_state for the next state of the set, in no particular order.
ReadState ==
  /\ stage = "orders"
  /\ \E s \in unread :
       /\ unread' = unread \ {s}
       /\ listed' = listed \cup {<<o, row[o].bid>> : o \in {p \in Orders : row[p].state = s}}
  /\ UNCHANGED <<stage, seen, found>>

\* Orders that were read with a broker_order_id.
Tracked == {o \in Orders : <<o, TRUE>> \in listed}

\* All states are read: without orders there is nothing to compare.
AllRead ==
  /\ stage = "orders"
  /\ unread = {}
  /\ Goto(IF listed = {} THEN "held" ELSE "book")
  /\ UNCHANGED <<unread, listed, seen, found>>

\* Mutant of AskBook: the early return after a failed get_orders is missing.
AskBookRegardless ==
  /\ stage = "book"
  /\ \E book \in {Book, {}} :
       /\ found' = [found EXCEPT !.missing = Tracked \ book]
       /\ Goto(IF book \subseteq Tracked THEN "held" ELSE "complete")
  /\ listed' = {}
  /\ UNCHANGED <<unread, seen>>

\* get_orders and the comparison of the book with the orders read before: one
\* that is not among them raises RogueOrderDetectedError, which skips positions
\* and fills but completes the record.  A failed get_orders is logged.
AskBook ==
  /\ stage = "book"
  /\ \/ /\ found' = [found EXCEPT !.missing = Tracked \ Book]
        /\ Goto(IF Book \subseteq Tracked THEN "held" ELSE "complete")
     \/ Goto("held") /\ UNCHANGED found
  /\ listed' = {}
  /\ UNCHANGED <<unread, seen>>

\* get_open_positions.
ReadPositions ==
  /\ stage = "held"
  /\ seen' = {o \in Orders : held[o] > 0}
  /\ Goto("holdings")
  /\ UNCHANGED <<unread, listed, found>>

ToFills ==
  /\ Goto("fills")
  /\ seen' = {}
  /\ UNCHANGED <<unread, listed>>

\* Mutant of AskHoldings: the early return after a failed get_positions is
\* missing.
AskHoldingsRegardless ==
  /\ stage = "holdings"
  /\ found' = [found EXCEPT !.orphans = seen]
  /\ ToFills

\* get_positions answers with nothing, and every position read is an orphan; or
\* it fails and the comparison is left out.
AskHoldings ==
  /\ stage = "holdings"
  /\ \/ Traded = {} /\ found' = [found EXCEPT !.orphans = seen]
     \/ UNCHANGED found
  /\ ToFills

\* _reconcile_fills: no order is read that has an id, or get_trades answers with
\* nothing, or it fails.
ReconcileFills ==
  /\ stage = "fills"
  /\ Goto("complete")
  /\ UNCHANGED <<unread, listed, seen, found>>

\* BrokerPosition has no instrument_token and BrokerTrade no exchange_trade_id,
\* and neither has the dict's get that is tried instead: the first one listed
\* raises AttributeError.
Unreadable ==
  /\ stage \in {"holdings", "fills"}
  /\ Traded # {} \/ terminal # {}
  /\ Over

\* A query of the OMS tables raises.
QueryFails ==
  /\ "db" \in Faults
  /\ stage \in {"orders", "held", "fills"}
  /\ stage = "orders" => unread # {}
  /\ Over

\* complete_run and ReconciliationCompleted, neither of which can fail the run.
Complete == stage = "complete" /\ Over

RunStep ==
  \/ StartRun \/ ReadState \/ AllRead \/ AskBook \/ ReadPositions
  \/ AskHoldings \/ ReconcileFills \/ Unreadable \/ QueryFails \/ Complete

--------------------------------------------------------------------------------
\* A step of the order tasks; an order of an earlier day gets no report.
OrderStep ==
  /\ PollStart \/ \E o \in Orders : OrderTask(o)
  /\ \A o \in past : monPc[o] = "listed" => monPc'[o] # "reported"
  /\ UNCHANGED <<bookVars, dayVars, runVars>>

DeskNext ==
  \/ OrderStep
  \/ BookNext /\ UNCHANGED <<vars, dayVars, runVars>>
  \/ (PlaceForeign \/ NewDay \/ Login \/ Expire) /\ UNCHANGED <<vars, bookVars, runVars>>
  \/ RunStep /\ UNCHANGED <<vars, bookVars, dayVars>>
  \/ Crash /\ BookCrash /\ Over /\ UNCHANGED dayVars

DeskSpec == DeskInit /\ [][DeskNext]_deskVars

\* The loop calls run every 60 seconds and the run's awaits return.  Nothing is
\* assumed of logins, of the broker or of the order tasks.
FairDeskSpec ==
  DeskSpec /\ WF_deskVars(RunStep /\ UNCHANGED <<vars, bookVars, dayVars>>)

--------------------------------------------------------------------------------
\* An order reported missing is missing: it was the broker's on an earlier day
\* and is not in today's book, however the order moved while the run read.
MissingIsMissing == found.missing \subseteq past

\* A position reported as an orphan has none behind it at the broker: its
\* order is of an earlier day, however fills and positions arrived while the
\* run read.
OrphansAreOrphans == found.orphans \subseteq past

\* Why: what a run has read stays true of the broker, except that the day ends.
RunInv ==
  /\ \A o \in past : brk[o].status # "NONE"
  /\ \A o \in Tracked : brk[o].status # "NONE"
  /\ \A o \in seen : held[o] > 0
  /\ MissingIsMissing
  /\ OrphansAreOrphans

DeskInv == IInv /\ DeskTypeOK /\ (\A o \in Orders : BookInv(o)) /\ RunInv

\* The broker is reconciled with: while a session lasts, runs start again and
\* again.
SessionIsReconciled == session ~> (stage # "idle" \/ ~session)
================================================================================
