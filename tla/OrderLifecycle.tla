---------------------------- MODULE OrderLifecycle ----------------------------
(***************************************************************************)
(* The life of OMS orders between the orders table and the broker.         *)
(*                                                                         *)
(* Three kinds of asyncio tasks of one process touch an order, and every   *)
(* await is a point where another one may run:                             *)
(*   - the router: PipelineEventHandler hands an order that                *)
(*     OrderManagementService persisted to OrderRouterService.route;       *)
(*   - the monitor: BrokerExecutionMonitorService.poll_and_process, one    *)
(*     loop for all orders, which reads the table, asks the broker about   *)
(*     every order, and then applies the reports one at a time;            *)
(*   - the HTTP handlers of POST /orders/{id}/cancel.                      *)
(* Each task works on its own copy of the Order entity and has             *)
(* SqlAlchemyOrderRepository.save store it, which loads the row in one     *)
(* step and writes the columns that differ from what it loaded in another. *)
(* The table and the broker outlive the process; the tasks do not.         *)
(*                                                                         *)
(* The data of an order is reduced to its state, whether its               *)
(* broker_order_id is known, and its filled quantity.  Every order is for  *)
(* Qty units.  A broker order is named by the OMS order it came from,      *)
(* because route calls place_order once per order.                         *)
(***************************************************************************)
EXTENDS Naturals, OrderStates

CONSTANTS
  Orders,         \* the orders of the run
  Qty,            \* the quantity of every order
  Faults,         \* the failures the environment may produce
  Requests,       \* the cancel requests an order may have under way at a time
  PollSession     \* whether the monitor's poll carries a broker session

\* "db"    a call of the repository raises   "crash" the process dies
\* "reply" the broker's answer is lost       "bus"   an event is not published
\* "poll"  the broker cannot be asked about an order
FaultKinds == {"db", "crash", "reply", "bus", "poll"}

ASSUME QtyAssumption == Qty \in Nat \ {0}
ASSUME FaultsAssumption == Faults \subseteq FaultKinds
ASSUME SessionAssumption == PollSession \in BOOLEAN

VARIABLES
  row,      \* row[o]: the row of o in the orders table
  brk,      \* brk[o]: the order at the broker that came from o
  pc,       \* pc[o]: where the router stands with o
  mem,      \* mem[o]: the router's copy of o
  base,     \* base[o]: the row the router's save has loaded
  monPc,    \* monPc[o]: where the monitor's current poll stands with o
  report,   \* report[o]: the broker snapshot that poll took of o
  monMem,   \* monMem[o]: the monitor's copy of o
  monBase,  \* monBase[o]: the row the monitor's save has loaded
  req,      \* req[o][r]: where cancel request r of o stands
  emitted   \* emitted[o]: OrderFilled events on the bus for o (history)

table      == <<row, brk>>
routerVars == <<pc, mem, base>>
monVars    == <<monPc, report, monMem, monBase>>
vars       == <<table, routerVars, monVars, req, emitted>>

--------------------------------------------------------------------------------
Entity == [state : OrderState \cup {"NONE"}, bid : BOOLEAN, filled : 0..Qty]

BrokerOrder ==
  [status : {"NONE", "OPEN", "COMPLETE", "REJECTED", "CANCELLED"}, filled : 0..Qty]

\* A missing row, and a missing broker order.
NoEntity == [state |-> "NONE", bid |-> FALSE, filled |-> 0]
NoBrokerOrder == [status |-> "NONE", filled |-> 0]

\* A cancel request has its cancelled copy of the order, then the row its save
\* has loaded.
Request == [at : {"idle", "read", "saving"}, copy : Entity, base : Entity]
NoRequest == [at |-> "idle", copy |-> NoEntity, base |-> NoEntity]

RouterPc == {"new", "created", "loaded", "submitting", "calling", "replying", "failed",
             "storing", "done"}
MonitorPc == {"idle", "listed", "reported", "loaded", "filling", "storing", "publishing"}

\* Every variable has its type: rows and copies are orders in a state of the
\* order state machine, filled quantities stay within the order's quantity.
TypeOK ==
  /\ row \in [Orders -> Entity]
  /\ brk \in [Orders -> BrokerOrder]
  /\ pc \in [Orders -> RouterPc]
  /\ mem \in [Orders -> Entity]
  /\ base \in [Orders -> Entity]
  /\ monPc \in [Orders -> MonitorPc]
  /\ report \in [Orders -> BrokerOrder]
  /\ monMem \in [Orders -> Entity]
  /\ monBase \in [Orders -> Entity]
  /\ req \in [Orders -> [Requests -> Request]]
  /\ emitted \in [Orders -> Nat]

Init ==
  /\ row = [o \in Orders |-> NoEntity]
  /\ brk = [o \in Orders |-> NoBrokerOrder]
  /\ pc = [o \in Orders |-> "new"]
  /\ mem = [o \in Orders |-> NoEntity]
  /\ base = [o \in Orders |-> NoEntity]
  /\ monPc = [o \in Orders |-> "idle"]
  /\ report = [o \in Orders |-> NoBrokerOrder]
  /\ monMem = [o \in Orders |-> NoEntity]
  /\ monBase = [o \in Orders |-> NoEntity]
  /\ req = [o \in Orders |-> [r \in Requests |-> NoRequest]]
  /\ emitted = [o \in Orders |-> 0]

--------------------------------------------------------------------------------
(***************************************************************************)
(* The repository.  save awaits session.get, assigns every mutable column  *)
(* of the caller's copy e to the row b it has got, and awaits the commit.  *)
(* The UPDATE names the columns in which e differs from b and leaves the   *)
(* others to whoever wrote them in between; nothing compares versions.     *)
(***************************************************************************)
Column(now, loaded, new) == IF new = loaded THEN now ELSE new

Merged(now, b, e) ==
  [state  |-> Column(now.state, b.state, e.state),
   bid    |-> Column(now.bid, b.bid, e.bid),
   filled |-> Column(now.filled, b.filled, e.filled)]

Commit(o, b, e) == row' = [row EXCEPT ![o] = Merged(row[o], b, e)]

\* The caller gets an exception, whether or not the database has committed.
CommitRaises(o, b, e) == "db" \in Faults /\ (Commit(o, b, e) \/ UNCHANGED row)

\* A task that is through with an order forgets what it knew of it.
RouterDone(o) ==
  /\ pc' = [pc EXCEPT ![o] = "done"]
  /\ mem' = [mem EXCEPT ![o] = NoEntity]
  /\ base' = [base EXCEPT ![o] = NoEntity]

MonitorForgets(o) ==
  /\ report' = [report EXCEPT ![o] = NoBrokerOrder]
  /\ monMem' = [monMem EXCEPT ![o] = NoEntity]
  /\ monBase' = [monBase EXCEPT ![o] = NoEntity]

MonitorDone(o) == monPc' = [monPc EXCEPT ![o] = "idle"] /\ MonitorForgets(o)

--------------------------------------------------------------------------------
(***************************************************************************)
(* The router task.                                                        *)
(***************************************************************************)
Created == [NoEntity EXCEPT !.state = "PENDING"]

\* OrderManagementService: Order.create and the persistence-first save, an
\* INSERT; when it raises OrderPersistenceError the order is not routed.
Create(o) ==
  /\ pc[o] = "new"
  /\ \/ /\ Commit(o, NoEntity, Created)
        /\ pc' = [pc EXCEPT ![o] = "created"]
        /\ UNCHANGED <<mem, base>>
     \/ CommitRaises(o, NoEntity, Created) /\ RouterDone(o)
  /\ UNCHANGED <<brk, monVars, req, emitted>>

\* handle_signal_risk_approved reads the order back before routing it.
LoadForRouting(o) ==
  /\ pc[o] = "created"
  /\ \/ /\ mem' = [mem EXCEPT ![o] = row[o]]
        /\ pc' = [pc EXCEPT ![o] = "loaded"]
        /\ UNCHANGED base
     \/ "db" \in Faults /\ RouterDone(o)
  /\ UNCHANGED <<table, monVars, req, emitted>>

\* The router's copy becomes e, and its save loads the row or fails to.
RouterSaves(o, e, next) ==
  /\ \/ /\ mem' = [mem EXCEPT ![o] = e]
        /\ base' = [base EXCEPT ![o] = row[o]]
        /\ pc' = [pc EXCEPT ![o] = next]
     \/ "db" \in Faults /\ RouterDone(o)
  /\ UNCHANGED <<table, monVars, req, emitted>>

\* Mutant of StartSubmission: the transition stays in memory, not saved before
\* the broker is called.
SubmitUnsaved(o) ==
  /\ pc[o] = "loaded"
  /\ MayMove(mem[o].state, "SUBMITTING")
  /\ mem' = [mem EXCEPT ![o].state = "SUBMITTING"]
  /\ pc' = [pc EXCEPT ![o] = "calling"]
  /\ UNCHANGED <<table, base, monVars, req, emitted>>

\* route: start_submission on the router's copy, then save.
StartSubmission(o) ==
  /\ pc[o] = "loaded"
  /\ MayMove(mem[o].state, "SUBMITTING")
  /\ RouterSaves(o, [mem[o] EXCEPT !.state = "SUBMITTING"], "submitting")

\* The save commits, and only then is the broker called.
CommitSubmission(o) ==
  /\ pc[o] = "submitting"
  /\ \/ /\ Commit(o, base[o], mem[o])
        /\ pc' = [pc EXCEPT ![o] = "calling"]
        /\ base' = [base EXCEPT ![o] = NoEntity]
        /\ UNCHANGED mem
     \/ CommitRaises(o, base[o], mem[o]) /\ RouterDone(o)
  /\ UNCHANGED <<brk, monVars, req, emitted>>

\* start_submission raises OrderStateError: the handler logs it and the order
\* is not routed.
SubmissionRefused(o) ==
  /\ pc[o] = "loaded"
  /\ ~MayMove(mem[o].state, "SUBMITTING")
  /\ RouterDone(o)
  /\ UNCHANGED <<table, monVars, req, emitted>>

\* The broker takes the order; the router still waits for the answer.
BrokerAccept(o) ==
  /\ pc[o] = "calling"
  /\ brk' = [brk EXCEPT ![o] = [status |-> "OPEN", filled |-> 0]]
  /\ pc' = [pc EXCEPT ![o] = "replying"]
  /\ UNCHANGED <<row, mem, base, monVars, req, emitted>>

\* No session, no connection, or a refusal: place_order raises and the broker
\* holds no order.
BrokerRefuse(o) ==
  /\ pc[o] = "calling"
  /\ pc' = [pc EXCEPT ![o] = "failed"]
  /\ UNCHANGED <<table, mem, base, monVars, req, emitted>>

\* The broker took the order but its answer does not come back: place_order
\* raises all the same.
ReplyLost(o) ==
  /\ "reply" \in Faults
  /\ pc[o] = "replying"
  /\ pc' = [pc EXCEPT ![o] = "failed"]
  /\ UNCHANGED <<table, mem, base, monVars, req, emitted>>

\* confirm_submitted with the broker's order id, then save.
ConfirmSubmitted(o) ==
  /\ pc[o] = "replying"
  /\ RouterSaves(o, [mem[o] EXCEPT !.state = "SUBMITTED", !.bid = TRUE], "storing")

\* Mutant of RejectPreSubmit: the order is put back for a later attempt.
PutBackPreSubmit(o) ==
  /\ pc[o] = "failed"
  /\ RouterSaves(o, [mem[o] EXCEPT !.state = "PENDING"], "storing")

\* Both except branches of route: reject_pre_submit, then save.
RejectPreSubmit(o) ==
  /\ pc[o] = "failed"
  /\ RouterSaves(o, [mem[o] EXCEPT !.state = "REJECTED_PRE_SUBMIT"], "storing")

\* The save of either outcome ends; what follows is events.
CommitOutcome(o) ==
  /\ pc[o] = "storing"
  /\ Commit(o, base[o], mem[o]) \/ CommitRaises(o, base[o], mem[o])
  /\ RouterDone(o)
  /\ UNCHANGED <<brk, monVars, req, emitted>>

--------------------------------------------------------------------------------
(***************************************************************************)
(* The broker, which works on its own orders at any time.                  *)
(***************************************************************************)

\* n more units trade; the last unit completes the order.
BrokerFill(o) ==
  /\ brk[o].status = "OPEN"
  /\ \E n \in 1..(Qty - brk[o].filled) :
       LET total == brk[o].filled + n IN
       brk' = [brk EXCEPT ![o] =
                 [status |-> IF total = Qty THEN "COMPLETE" ELSE "OPEN",
                  filled |-> total]]
  /\ UNCHANGED <<row, routerVars, monVars, req, emitted>>

\* The exchange rejects an order that has not traded.
BrokerReject(o) ==
  /\ brk[o].status = "OPEN"
  /\ brk[o].filled = 0
  /\ brk' = [brk EXCEPT ![o].status = "REJECTED"]
  /\ UNCHANGED <<row, routerVars, monVars, req, emitted>>

\* What is left of the order is cancelled: the remainder of an IOC order, the
\* end of the day, or a cancel from the broker's own terminal.
BrokerCancel(o) ==
  /\ brk[o].status = "OPEN"
  /\ brk' = [brk EXCEPT ![o].status = "CANCELLED"]
  /\ UNCHANGED <<row, routerVars, monVars, req, emitted>>

--------------------------------------------------------------------------------
(***************************************************************************)
(* The monitor task.  A poll lists the orders, fetches all their reports,  *)
(* and only then applies them, one order at a time.                        *)
(***************************************************************************)

\* Mutant of Pollable: partly filled orders are left out of the listing.
PollableSubmitted == {o \in Orders : row[o].state \in {"SUBMITTED", "OPEN"} /\ row[o].bid}

\* Orders get_by_state returns for the monitored states, those without a
\* broker_order_id skipped.
Pollable == {o \in Orders : row[o].state \in Monitorable /\ row[o].bid}

PollStart ==
  /\ \A o \in Orders : monPc[o] = "idle"
  /\ Pollable # {}
  /\ monPc' = [o \in Orders |-> IF o \in Pollable THEN "listed" ELSE "idle"]
  /\ UNCHANGED <<table, routerVars, report, monMem, monBase, req, emitted>>

\* _to_execution_report makes a report of a broker order, or nothing of an
\* open one that has not traded.
Reportable(b) == b.status # "OPEN" \/ b.filled > 0

\* broker.get_order answers: the report is kept for the second phase.
Fetch(o) ==
  /\ PollSession
  /\ monPc[o] = "listed"
  /\ \/ /\ Reportable(brk[o])
        /\ report' = [report EXCEPT ![o] = brk[o]]
        /\ monPc' = [monPc EXCEPT ![o] = "reported"]
        /\ UNCHANGED <<monMem, monBase>>
     \/ ~Reportable(brk[o]) /\ MonitorDone(o)
  /\ UNCHANGED <<table, routerVars, req, emitted>>

\* get_order raises (always, when the session is None): the order is skipped.
FetchFails(o) ==
  /\ ~PollSession \/ "poll" \in Faults
  /\ monPc[o] = "listed"
  /\ MonitorDone(o)
  /\ UNCHANGED <<table, routerVars, req, emitted>>

\* process_execution_report looks the order up again by its broker order id and
\* drops the report when it is no longer in a monitored state.
LoadForReport(o) ==
  /\ monPc[o] = "reported"
  /\ \A p \in Orders : monPc[p] \in {"idle", "reported"}
  /\ \/ /\ o \in Pollable
        /\ monMem' = [monMem EXCEPT ![o] = row[o]]
        /\ monPc' = [monPc EXCEPT ![o] = "loaded"]
        /\ UNCHANGED <<report, monBase>>
     \/ (o \notin Pollable \/ "db" \in Faults) /\ MonitorDone(o)
  /\ UNCHANGED <<table, routerVars, req, emitted>>

\* Mutants: any traded quantity counts as a full fill; a cancelled order counts
\* as refused though some of it traded.
TradedAtAll(r) == r.filled > 0
RefusedOrCancelled(r) == r.status \in {"REJECTED", "CANCELLED"}

\* ExecutionReport.is_fully_filled, is_partial_fill and is_rejected, in the
\* order process_execution_report tests them.  Reports of rejected and
\* cancelled orders carry no fill price.
Priced(r) == r.status \in {"OPEN", "COMPLETE"}
FullyFilled(r) == r.filled = Qty
PartlyFilled(r) == r.filled \in 1..(Qty - 1)
Refused(r) == r.filled = 0

\* A fill or rejection first opens a SUBMITTED order (open_at_exchange).
Opened(e) == IF e.state = "SUBMITTED" THEN [e EXCEPT !.state = "OPEN"] ELSE e

\* The monitor's copy becomes e, and its save loads the row or fails to, which
\* ends the handling of the report.
MonitorSaves(o, e, next) ==
  /\ \/ /\ monMem' = [monMem EXCEPT ![o] = e]
        /\ monBase' = [monBase EXCEPT ![o] = row[o]]
        /\ monPc' = [monPc EXCEPT ![o] = next]
        /\ UNCHANGED report
     \/ "db" \in Faults /\ MonitorDone(o)
  /\ UNCHANGED <<table, routerVars, req, emitted>>

\* Mutant of ApplyFill: the reported quantity is added to what the order has.
ApplyFillAdding(o) ==
  /\ monPc[o] = "loaded"
  /\ FullyFilled(report[o]) /\ Priced(report[o])
  /\ MayMove(Opened(monMem[o]).state, "FILLED")
  /\ MonitorSaves(o, [monMem[o] EXCEPT !.state = "FILLED",
                                       !.filled = @ + report[o].filled], "filling")

\* _handle_full_fill: record_fill, save; the OrderFilled event comes after.
ApplyFill(o) ==
  /\ monPc[o] = "loaded"
  /\ FullyFilled(report[o]) /\ Priced(report[o])
  /\ MayMove(Opened(monMem[o]).state, "FILLED")
  /\ MonitorSaves(o, [monMem[o] EXCEPT !.state = "FILLED",
                                       !.filled = report[o].filled], "filling")

\* Mutant of CommitFill: the event goes out though the save failed.
CommitFillRegardless(o) ==
  /\ monPc[o] = "filling"
  /\ Commit(o, monBase[o], monMem[o]) \/ CommitRaises(o, monBase[o], monMem[o])
  /\ monPc' = [monPc EXCEPT ![o] = "publishing"]
  /\ MonitorForgets(o)
  /\ UNCHANGED <<brk, routerVars, req, emitted>>

\* The save of a fill ends; when it raises there is no event.
CommitFill(o) ==
  /\ monPc[o] = "filling"
  /\ \/ /\ Commit(o, monBase[o], monMem[o])
        /\ monPc' = [monPc EXCEPT ![o] = "publishing"]
        /\ MonitorForgets(o)
     \/ CommitRaises(o, monBase[o], monMem[o]) /\ MonitorDone(o)
  /\ UNCHANGED <<brk, routerVars, req, emitted>>

\* _handle_partial_fill: record_partial_fill, save.
ApplyPartial(o) ==
  /\ monPc[o] = "loaded"
  /\ PartlyFilled(report[o]) /\ Priced(report[o])
  /\ MayMove(Opened(monMem[o]).state, "PARTIALLY_FILLED")
  /\ MonitorSaves(o, [monMem[o] EXCEPT !.state = "PARTIALLY_FILLED",
                                       !.filled = report[o].filled], "storing")

\* _handle_rejection: a SUBMITTED or OPEN order is REJECTED, a partly filled
\* one CANCELLED.
ApplyRejection(o) ==
  /\ monPc[o] = "loaded"
  /\ Refused(report[o])
  /\ MonitorSaves(o, [monMem[o] EXCEPT !.state =
                        IF @ = "PARTIALLY_FILLED" THEN "CANCELLED" ELSE "REJECTED"],
                  "storing")

\* The save of a partial fill or a rejection ends.
CommitReport(o) ==
  /\ monPc[o] = "storing"
  /\ Commit(o, monBase[o], monMem[o]) \/ CommitRaises(o, monBase[o], monMem[o])
  /\ MonitorDone(o)
  /\ UNCHANGED <<brk, routerVars, req, emitted>>

\* The handler returns on a fill without a price, and record_partial_fill
\* raises OrderStateError on an order that is PARTIALLY_FILLED already.
ApplyNothing(o) ==
  /\ monPc[o] = "loaded"
  /\ ~Refused(report[o])
  /\ \/ ~Priced(report[o])
     \/ /\ PartlyFilled(report[o])
        /\ ~MayMove(Opened(monMem[o]).state, "PARTIALLY_FILLED")
  /\ MonitorDone(o)
  /\ UNCHANGED <<table, routerVars, req, emitted>>

\* _publish_safe(OrderFilled): a failure is logged and forgotten.
PublishFilled(o) ==
  /\ monPc[o] = "publishing"
  /\ \/ emitted' = [emitted EXCEPT ![o] = @ + 1]
     \/ "bus" \in Faults /\ UNCHANGED emitted
  /\ MonitorDone(o)
  /\ UNCHANGED <<table, routerVars, req>>

--------------------------------------------------------------------------------
(***************************************************************************)
(* POST /orders/{id}/cancel: read, Order.cancel on the copy, save.  The    *)
(* broker is not told.                                                     *)
(***************************************************************************)
CancelRead(o, r) ==
  /\ req[o][r].at = "idle"
  /\ row[o].state # "NONE"
  /\ MayMove(row[o].state, "CANCELLED")
  /\ req' = [req EXCEPT ![o][r] = [at |-> "read", base |-> NoEntity,
                                   copy |-> [row[o] EXCEPT !.state = "CANCELLED"]]]
  /\ UNCHANGED <<table, routerVars, monVars, emitted>>

\* The request's save loads the row, whatever it is by now, or fails to.
CancelLoad(o, r) ==
  /\ req[o][r].at = "read"
  /\ \/ req' = [req EXCEPT ![o][r] = [@ EXCEPT !.at = "saving", !.base = row[o]]]
     \/ "db" \in Faults /\ req' = [req EXCEPT ![o][r] = NoRequest]
  /\ UNCHANGED <<table, routerVars, monVars, emitted>>

CancelCommit(o, r) ==
  /\ req[o][r].at = "saving"
  /\ \/ Commit(o, req[o][r].base, req[o][r].copy)
     \/ CommitRaises(o, req[o][r].base, req[o][r].copy)
  /\ req' = [req EXCEPT ![o][r] = NoRequest]
  /\ UNCHANGED <<brk, routerVars, monVars, emitted>>

--------------------------------------------------------------------------------
\* The process dies and is started again: every task and its copies are gone.
\* A message whose handling had begun is not read again (its stream entry stays
\* pending), so the router never comes back to such an order.
Crash ==
  /\ "crash" \in Faults
  /\ pc' = [o \in Orders |-> IF pc[o] = "new" THEN "new" ELSE "done"]
  /\ mem' = [o \in Orders |-> NoEntity]
  /\ base' = [o \in Orders |-> NoEntity]
  /\ monPc' = [o \in Orders |-> "idle"]
  /\ report' = [o \in Orders |-> NoBrokerOrder]
  /\ monMem' = [o \in Orders |-> NoEntity]
  /\ monBase' = [o \in Orders |-> NoEntity]
  /\ req' = [o \in Orders |-> [r \in Requests |-> NoRequest]]
  /\ UNCHANGED <<table, emitted>>

Router(o) ==
  \/ Create(o) \/ LoadForRouting(o)
  \/ StartSubmission(o) \/ CommitSubmission(o) \/ SubmissionRefused(o)
  \/ BrokerAccept(o) \/ BrokerRefuse(o) \/ ReplyLost(o)
  \/ ConfirmSubmitted(o) \/ RejectPreSubmit(o) \/ CommitOutcome(o)

Broker(o) == BrokerFill(o) \/ BrokerReject(o) \/ BrokerCancel(o)

Apply(o) == ApplyFill(o) \/ ApplyPartial(o) \/ ApplyRejection(o) \/ ApplyNothing(o)

Store(o) == CommitFill(o) \/ CommitReport(o)

Monitor(o) ==
  \/ Fetch(o) \/ FetchFails(o) \/ LoadForReport(o)
  \/ Apply(o) \/ Store(o) \/ PublishFilled(o)

Cancel(o) == \E r \in Requests : CancelRead(o, r) \/ CancelLoad(o, r) \/ CancelCommit(o, r)

OrderTask(o) == Router(o) \/ Broker(o) \/ Monitor(o) \/ Cancel(o)

Next ==
  \/ \E o \in Orders : OrderTask(o)
  \/ PollStart
  \/ Crash

Spec == Init /\ [][Next]_vars

\* The event loop runs every ready task, the poll loop never ends, and a broker
\* or a database that fails does not fail for ever.  Nothing is assumed of the
\* broker's own progress, of crashes or of operators.
Fairness ==
  /\ WF_vars(PollStart)
  /\ \A o \in Orders :
       /\ WF_vars(Router(o))
       /\ WF_vars(Monitor(o))
       /\ SF_vars(Fetch(o))
       /\ SF_vars(LoadForReport(o) /\ monPc'[o] = "loaded")
       /\ SF_vars(Apply(o) /\ monPc'[o] \in {"filling", "storing"})
       /\ SF_vars(Store(o) /\ row' # row)

FairSpec == Spec /\ Fairness

--------------------------------------------------------------------------------
(***************************************************************************)
(* Safety.                                                                 *)
(***************************************************************************)

\* Persistence-first: whatever fails and whoever cancels, an order at the
\* broker has a row, saved before place_order and never set back to PENDING.
PersistedBeforeBroker ==
  \A o \in Orders :
    brk[o].status # "NONE" => row[o].state \notin {"NONE", "PENDING"}

\* The table never claims a fill the broker has not made: stale reports, stale
\* copies and rows put together from the columns of two tasks only lag behind.
\* A FILLED row is a completed broker order, and filled_quantity reaches quantity
\* only in a row that is FILLED, or CANCELLED by a request that raced the fill.
FillsAreReal ==
  \A o \in Orders :
    /\ row[o].filled <= brk[o].filled
    /\ row[o].state = "FILLED" => brk[o].status = "COMPLETE"
    /\ row[o].filled = Qty => row[o].state \in {"FILLED", "CANCELLED"}

\* A row is REJECTED only when the broker order is dead and never traded: no
\* exposure hides behind a rejection by the exchange.
RejectionsAreReal ==
  \A o \in Orders :
    row[o].state = "REJECTED" =>
      brk[o].status \in {"REJECTED", "CANCELLED"} /\ brk[o].filled = 0

\* The monitor announces a fill at most once per order, across polls that see
\* the same completed order, failed saves, crashes and cancels: the position
\* manager opens a position for every event it receives.
OneFillEvent == \A o \in Orders : emitted[o] <= 1

\* An announced fill is a FILLED row (no cancels by operators).
FillEventMeansFilled ==
  \A o \in Orders : emitted[o] > 0 => row[o].state = "FILLED"

--------------------------------------------------------------------------------
(***************************************************************************)
(* The inductive invariant behind the safety properties: what each task    *)
(* knows of an order at each point.  Copies may be stale, never ahead of   *)
(* the broker.                                                             *)
(***************************************************************************)

\* A broker order is complete exactly when all of it has traded.
BrokerConsistent(b) ==
  /\ b.filled = Qty <=> b.status = "COMPLETE"
  /\ b.status \in {"NONE", "REJECTED"} => b.filled = 0

\* What e says of an order is backed by the broker order b.  Every conjunct is
\* about one column of e, so a row whose columns come from two such entities is
\* backed as well.  OPEN and EXPIRED are never stored.
Backed(e, b) ==
  /\ e.state \notin {"OPEN", "EXPIRED"}
  /\ e.state = "FILLED" => b.status = "COMPLETE"
  /\ e.state = "PARTIALLY_FILLED" => b.filled > 0
  /\ e.state = "REJECTED" => b.status \in {"REJECTED", "CANCELLED"} /\ b.filled = 0
  /\ e.bid => b.status # "NONE"
  /\ e.filled <= b.filled

\* Neither the row nor a cancel request claims a fill.
Unfilled(o) == row[o].filled = 0 /\ \A r \in Requests : req[o][r].copy.filled = 0

\* An operator has cancelled the order under the task that works on it.
Overridden(o) == Requests # {} /\ row[o].state = "CANCELLED"

RowKnown(o) ==
  /\ Backed(row[o], brk[o])
  /\ row[o].bid => pc[o] = "done"
  /\ row[o].state \in {"NONE", "PENDING"} => brk[o].status = "NONE"
  /\ row[o].state = "SUBMITTED" => Unfilled(o)

\* The row is where the router left it, unless it is overridden, and so is the
\* row its save has loaded.
RouterKnows(o) ==
  /\ mem[o].filled = 0 /\ base[o].filled = 0
  /\ mem[o].bid => pc[o] = "storing" /\ mem[o].state = "SUBMITTED"
  /\ pc[o] # "done" => Unfilled(o) /\ monPc[o] = "idle"
  /\ pc[o] = "new" => row[o] = NoEntity
  /\ pc[o] \in {"created", "loaded", "submitting"} =>
       row[o].state = "PENDING" \/ Overridden(o)
  /\ pc[o] = "loaded" => mem[o].state \in {"PENDING", "CANCELLED"}
  /\ pc[o] = "submitting" => base[o].state \in {"PENDING", "CANCELLED"}
  /\ pc[o] \in {"submitting", "calling", "replying", "failed"} =>
       mem[o].state = "SUBMITTING"
  /\ pc[o] \in {"calling", "replying", "failed", "storing"} =>
       row[o].state = "SUBMITTING" \/ Overridden(o)
  /\ pc[o] = "storing" =>
       /\ base[o].state \in {"SUBMITTING", "CANCELLED"}
       /\ mem[o].state \in {"SUBMITTED", "REJECTED_PRE_SUBMIT"}
       /\ mem[o].state = "SUBMITTED" => brk[o].status # "NONE"
  /\ pc[o] \in {"new", "created", "loaded", "submitting", "calling"} =>
       brk[o].status = "NONE"
  /\ pc[o] = "replying" => brk[o].status # "NONE"

\* The monitor holds reports the broker has made, copies no newer, and rows in
\* the state it found the order in, unless overridden.
MonitorKnows(o) ==
  /\ monPc[o] # "idle" => pc[o] = "done" /\ brk[o].status # "NONE"
  /\ monPc[o] \in {"reported", "loaded"} =>
       /\ BrokerConsistent(report[o])
       /\ Reportable(report[o])
       /\ report[o].status # "NONE"
       /\ report[o].filled <= brk[o].filled
       /\ report[o].status \in {"REJECTED", "CANCELLED"} => brk[o] = report[o]
  /\ monPc[o] \in {"loaded", "filling", "storing"} => Backed(monMem[o], brk[o])
  /\ monPc[o] = "loaded" =>
       /\ monMem[o].state \in {"SUBMITTED", "PARTIALLY_FILLED"}
       /\ monMem[o].state = "SUBMITTED" => monMem[o].filled = 0 /\ Unfilled(o)
       /\ row[o].state = monMem[o].state \/ Overridden(o)
  /\ monPc[o] = "filling" =>
       /\ monMem[o].state = "FILLED" /\ monMem[o].filled = Qty
       /\ monBase[o].state \in {"SUBMITTED", "PARTIALLY_FILLED", "CANCELLED"}
       /\ monBase[o].filled < Qty
       /\ row[o].state \in {"SUBMITTED", "PARTIALLY_FILLED"} \/ Overridden(o)
  /\ monPc[o] = "storing" =>
       /\ \/ monMem[o].state = "PARTIALLY_FILLED" /\ monMem[o].filled \in 1..(Qty - 1)
          \/ monMem[o].state = "REJECTED" /\ monMem[o].filled = 0
       /\ monBase[o].state \in {"SUBMITTED", "CANCELLED"} /\ monBase[o].filled = 0
       /\ Unfilled(o)
       /\ row[o].state = "SUBMITTED" \/ Overridden(o)

\* A cancel request holds a copy that was not filled, of an order that has a row.
RequestKnows(o, r) ==
  req[o][r].at # "idle" =>
    /\ row[o].state # "NONE"
    /\ req[o][r].copy.state = "CANCELLED"
    /\ req[o][r].copy.filled < Qty
    /\ Backed(req[o][r].copy, brk[o])
    /\ req[o][r].copy.bid => pc[o] = "done"

\* Once a fill is stored in full or about to be announced, no task but a cancel
\* request takes up the order again.
FillSettled(o) ==
  /\ monPc[o] = "publishing" => emitted[o] = 0
  /\ emitted[o] <= 1
  /\ (row[o].filled = Qty \/ emitted[o] = 1 \/ monPc[o] = "publishing") =>
       /\ row[o].state = "FILLED" \/ Overridden(o)
       /\ monPc[o] \in {"idle", "publishing"}
       /\ pc[o] = "done"

OrderInv(o) ==
  /\ BrokerConsistent(brk[o])
  /\ RowKnown(o)
  /\ RouterKnows(o)
  /\ MonitorKnows(o)
  /\ \A r \in Requests : RequestKnows(o, r)
  /\ FillSettled(o)

IInv == TypeOK /\ \A o \in Orders : OrderInv(o)

--------------------------------------------------------------------------------
(***************************************************************************)
(* Refinement: tasks that write into each other's rows keep to the order   *)
(* ledger, with the overrides of cancels that bypass the broker.           *)
(***************************************************************************)
Ledger == INSTANCE OrderLedger
  WITH Overrides <- Requests # {},
       ledger <- [o \in Orders |-> [state |-> row[o].state, filled |-> row[o].filled]]

\* Every stored row follows the state machine and stops in a terminal state; only a
\* cancel request leaves one, and only a cancelled row is taken up again.
LedgerRefined == Ledger!LedgerSpec

--------------------------------------------------------------------------------
(***************************************************************************)
(* Liveness, under FairSpec.                                               *)
(***************************************************************************)

\* A completed broker order that the OMS monitors ends up FILLED.
CompletionIsRecorded ==
  \A o \in Orders :
    (brk[o].status = "COMPLETE" /\ row[o].state \in Monitorable)
      ~> row[o].state = "FILLED"

================================================================================
