------------------------- MODULE OrderLifecycleProofs -------------------------
(***************************************************************************)
(* Proofs about OrderLifecycle for every set of orders, every quantity,    *)
(* every set of faults and every number of cancel requests.                *)
(***************************************************************************)
EXTENDS OrderLifecycle, TLAPS

--------------------------------------------------------------------------------
\* The constants in their sets, for the leaves that need them.
LEMMA Constants ==
  /\ Qty \in Nat /\ Qty > 0 /\ 0 \in 0..Qty
  /\ NoEntity \in Entity
  /\ NoBrokerOrder \in BrokerOrder
  /\ NoRequest \in Request
  /\ OrderState = {"PENDING", "SUBMITTING", "SUBMITTED", "OPEN", "PARTIALLY_FILLED",
                   "FILLED", "CANCELLED", "REJECTED", "REJECTED_PRE_SUBMIT", "EXPIRED"}
<1>1. Qty \in Nat /\ Qty > 0
  BY QtyAssumption
<1>2. OrderState = {"PENDING", "SUBMITTING", "SUBMITTED", "OPEN", "PARTIALLY_FILLED",
                   "FILLED", "CANCELLED", "REJECTED", "REJECTED_PRE_SUBMIT", "EXPIRED"}
  BY DEF OrderState, Terminal
<1>3. NoEntity \in Entity /\ NoBrokerOrder \in BrokerOrder
  BY <1>1 DEF Entity, BrokerOrder, NoEntity, NoBrokerOrder
<1>4. NoRequest \in Request
  BY <1>3 DEF Request, NoRequest
<1> QED
  BY <1>1, <1>2, <1>3, <1>4

\* Changing the state, the id flag or the quantity of an entity gives an entity.
LEMMA EntityUpdate ==
  ASSUME NEW e \in Entity, NEW s \in OrderState, NEW b \in BOOLEAN, NEW q \in 0..Qty
  PROVE  /\ [e EXCEPT !.state = s] \in Entity
         /\ [e EXCEPT !.state = s, !.bid = b] \in Entity
         /\ [e EXCEPT !.state = s, !.filled = q] \in Entity
BY DEF Entity

\* The row a save leaves is an entity, each of whose columns is the one the row
\* had or the caller's, and the caller's where that differs from the loaded one.
LEMMA MergedEntity ==
  ASSUME NEW now \in Entity, NEW b \in Entity, NEW e \in Entity
  PROVE  /\ Merged(now, b, e) \in Entity
         /\ Merged(now, b, e).state = IF e.state = b.state THEN now.state ELSE e.state
         /\ Merged(now, b, e).bid = IF e.bid = b.bid THEN now.bid ELSE e.bid
         /\ Merged(now, b, e).filled = IF e.filled = b.filled THEN now.filled ELSE e.filled
BY DEF Merged, Column, Entity

\* A row put together from two entities that the broker backs is backed.
LEMMA MergedBacked ==
  ASSUME NEW now \in Entity, NEW b \in Entity, NEW e \in Entity, NEW k \in BrokerOrder,
         Backed(now, k), Backed(e, k)
  PROVE  Backed(Merged(now, b, e), k)
<1> DEFINE m == Merged(now, b, e)
<1>1. /\ m.state = now.state \/ m.state = e.state
      /\ m.bid = now.bid \/ m.bid = e.bid
      /\ m.filled = now.filled \/ m.filled = e.filled
  BY MergedEntity
<1> HIDE DEF m
<1>2. Backed(m, k)
  BY <1>1 DEF Backed
<1> QED
  BY <1>2 DEF m

\* A commit changes one row, to one merged with the caller's copy.
LEMMA CommitRow ==
  ASSUME row \in [Orders -> Entity], NEW o \in Orders, NEW b \in Entity, NEW e \in Entity,
         Commit(o, b, e)
  PROVE  /\ row' \in [Orders -> Entity]
         /\ row'[o] = Merged(row[o], b, e)
         /\ \A p \in Orders : p # o => row'[p] = row[p]
<1>1. Merged(row[o], b, e) \in Entity
  BY MergedEntity
<1> QED
  BY <1>1 DEF Commit

\* Whatever entity is saved, and whether the save raises, the table holds entities.
LEMMA SaveType ==
  ASSUME row \in [Orders -> Entity], NEW o \in Orders, NEW b \in Entity, NEW e \in Entity,
         Commit(o, b, e) \/ CommitRaises(o, b, e)
  PROVE  row' \in [Orders -> Entity]
BY CommitRow DEF CommitRaises

--------------------------------------------------------------------------------
(***************************************************************************)
(* Type correctness.                                                       *)
(***************************************************************************)
\* The initial values have their types.
LEMMA TypeInit == Init => TypeOK
BY Constants DEF Init, TypeOK, RouterPc, MonitorPc

\* A task that is through leaves its variables in their types.
LEMMA RouterDoneType ==
  ASSUME TypeOK, NEW o \in Orders, RouterDone(o)
  PROVE  pc' \in [Orders -> RouterPc] /\ mem' \in [Orders -> Entity]
         /\ base' \in [Orders -> Entity]
<1>1. "done" \in RouterPc
  BY DEF RouterPc
<1> QED
  BY <1>1, Constants DEF TypeOK, RouterDone

LEMMA MonitorForgetsType ==
  ASSUME TypeOK, NEW o \in Orders, MonitorForgets(o)
  PROVE  report' \in [Orders -> BrokerOrder] /\ monMem' \in [Orders -> Entity]
         /\ monBase' \in [Orders -> Entity]
BY Constants DEF TypeOK, MonitorForgets

LEMMA MonitorDoneType ==
  ASSUME TypeOK, NEW o \in Orders, MonitorDone(o)
  PROVE  monPc' \in [Orders -> MonitorPc] /\ report' \in [Orders -> BrokerOrder]
         /\ monMem' \in [Orders -> Entity] /\ monBase' \in [Orders -> Entity]
<1>1. "idle" \in MonitorPc
  BY DEF MonitorPc
<1> QED
  BY <1>1, MonitorForgetsType DEF TypeOK, MonitorDone

\* The first half of a save by the router keeps the types.
LEMMA TypeRouterSaves ==
  ASSUME TypeOK, NEW o \in Orders, NEW e \in Entity, NEW next \in RouterPc,
         RouterSaves(o, e, next)
  PROVE  TypeOK'
<1>1. CASE RouterDone(o)
  BY <1>1, RouterDoneType DEF TypeOK, RouterSaves, table, monVars
<1>2. CASE /\ mem' = [mem EXCEPT ![o] = e]
           /\ base' = [base EXCEPT ![o] = row[o]]
           /\ pc' = [pc EXCEPT ![o] = next]
  BY <1>2 DEF TypeOK, RouterSaves, table, monVars
<1> QED
  BY <1>1, <1>2 DEF RouterSaves

\* Every step of the router task, save or no save, keeps the types.
LEMMA TypeRouter ==
  ASSUME TypeOK, NEW o \in Orders, Router(o)
  PROVE  TypeOK'
<1>a. mem[o] \in Entity /\ base[o] \in Entity
  BY DEF TypeOK
<1>1. CASE Create(o)
  <2>1. Created \in Entity
    BY EntityUpdate, Constants DEF Created
  <2>2. row' \in [Orders -> Entity]
    BY <1>1, <2>1, SaveType, Constants DEF Create, TypeOK
  <2> QED
    BY <1>1, <2>2, RouterDoneType DEF TypeOK, Create, RouterPc, monVars
<1>2. CASE LoadForRouting(o)
  BY <1>2, RouterDoneType DEF TypeOK, LoadForRouting, RouterPc, table, monVars
<1>3. CASE StartSubmission(o)
  <2>1. [mem[o] EXCEPT !.state = "SUBMITTING"] \in Entity /\ "submitting" \in RouterPc
    BY <1>a, EntityUpdate, Constants DEF RouterPc
  <2> QED
    BY <1>3, <2>1, TypeRouterSaves DEF StartSubmission
<1>4. CASE CommitSubmission(o)
  <2>1. row' \in [Orders -> Entity]
    BY <1>4, <1>a, SaveType DEF CommitSubmission, TypeOK
  <2> QED
    <3>1. CASE RouterDone(o)
      BY <1>4, <2>1, <3>1, RouterDoneType DEF TypeOK, CommitSubmission, monVars
    <3>2. CASE /\ pc' = [pc EXCEPT ![o] = "calling"]
               /\ base' = [base EXCEPT ![o] = NoEntity]
               /\ UNCHANGED mem
      BY <1>4, <2>1, <3>2, Constants DEF TypeOK, CommitSubmission, RouterPc, monVars
    <3> QED
      BY <1>4, <3>1, <3>2 DEF CommitSubmission
<1>5. CASE SubmissionRefused(o)
  BY <1>5, RouterDoneType DEF TypeOK, SubmissionRefused, table, monVars
<1>6. CASE BrokerAccept(o)
  BY <1>6, Constants DEF TypeOK, BrokerAccept, BrokerOrder, RouterPc, monVars
<1>7. CASE BrokerRefuse(o) \/ ReplyLost(o)
  BY <1>7 DEF TypeOK, BrokerRefuse, ReplyLost, RouterPc, table, monVars
<1>8. CASE ConfirmSubmitted(o)
  <2>1. [mem[o] EXCEPT !.state = "SUBMITTED", !.bid = TRUE] \in Entity /\ "storing" \in RouterPc
    BY <1>a, EntityUpdate, Constants DEF RouterPc
  <2> QED
    BY <1>8, <2>1, TypeRouterSaves DEF ConfirmSubmitted
<1>9. CASE RejectPreSubmit(o)
  <2>1. [mem[o] EXCEPT !.state = "REJECTED_PRE_SUBMIT"] \in Entity /\ "storing" \in RouterPc
    BY <1>a, EntityUpdate, Constants DEF RouterPc
  <2> QED
    BY <1>9, <2>1, TypeRouterSaves DEF RejectPreSubmit
<1>10. CASE CommitOutcome(o)
  <2>1. row' \in [Orders -> Entity]
    BY <1>10, <1>a, SaveType DEF CommitOutcome, TypeOK
  <2> QED
    BY <1>10, <2>1, RouterDoneType DEF TypeOK, CommitOutcome, monVars
<1> QED
  BY <1>1, <1>2, <1>3, <1>4, <1>5, <1>6, <1>7, <1>8, <1>9, <1>10 DEF Router

\* Fills never exceed the quantity, so broker orders keep their type.
LEMMA TypeBroker ==
  ASSUME TypeOK, NEW o \in Orders, Broker(o)
  PROVE  TypeOK'
<1> USE Constants DEF TypeOK
<1>1. CASE BrokerFill(o)
  BY <1>1 DEF BrokerFill, BrokerOrder, routerVars, monVars
<1>2. CASE BrokerReject(o)
  BY <1>2 DEF BrokerReject, BrokerOrder, routerVars, monVars
<1>3. CASE BrokerCancel(o)
  BY <1>3 DEF BrokerCancel, BrokerOrder, routerVars, monVars
<1> QED
  BY <1>1, <1>2, <1>3 DEF Broker

\* The first half of a save by the monitor keeps the types.
LEMMA TypeMonitorSaves ==
  ASSUME TypeOK, NEW o \in Orders, NEW e \in Entity, NEW next \in MonitorPc,
         MonitorSaves(o, e, next)
  PROVE  TypeOK'
<1>1. CASE MonitorDone(o)
  BY <1>1, MonitorDoneType DEF TypeOK, MonitorSaves, table, routerVars
<1>2. CASE /\ monMem' = [monMem EXCEPT ![o] = e]
           /\ monBase' = [monBase EXCEPT ![o] = row[o]]
           /\ monPc' = [monPc EXCEPT ![o] = next]
           /\ UNCHANGED report
  BY <1>2 DEF TypeOK, MonitorSaves, table, routerVars
<1> QED
  BY <1>1, <1>2 DEF MonitorSaves

\* Every step of the monitor task keeps the types.
LEMMA TypeMonitor ==
  ASSUME TypeOK, NEW o \in Orders, Monitor(o)
  PROVE  TypeOK'
<1>a. monMem[o] \in Entity /\ monBase[o] \in Entity /\ report[o].filled \in 0..Qty
  BY DEF TypeOK, BrokerOrder
<1>1. CASE Fetch(o)
  BY <1>1, MonitorDoneType DEF TypeOK, MonitorPc, Fetch, table, routerVars
<1>2. CASE FetchFails(o)
  BY <1>2, MonitorDoneType DEF TypeOK, MonitorPc, FetchFails, table, routerVars
<1>3. CASE LoadForReport(o)
  <2>1. CASE MonitorDone(o)
    BY <1>3, <2>1, MonitorDoneType DEF TypeOK, LoadForReport, table, routerVars
  <2>2. CASE /\ monMem' = [monMem EXCEPT ![o] = row[o]]
             /\ monPc' = [monPc EXCEPT ![o] = "loaded"]
             /\ UNCHANGED <<report, monBase>>
    BY <1>3, <2>2 DEF TypeOK, MonitorPc, LoadForReport, table, routerVars
  <2> QED
    BY <1>3, <2>1, <2>2 DEF LoadForReport
<1>4. CASE ApplyFill(o)
  <2>1. [monMem[o] EXCEPT !.state = "FILLED", !.filled = report[o].filled] \in Entity
    BY <1>a, EntityUpdate, Constants
  <2> QED
    BY <1>4, <2>1, TypeMonitorSaves DEF ApplyFill, MonitorPc
<1>5. CASE ApplyPartial(o)
  <2>1. [monMem[o] EXCEPT !.state = "PARTIALLY_FILLED", !.filled = report[o].filled]
          \in Entity
    BY <1>a, EntityUpdate, Constants
  <2> QED
    BY <1>5, <2>1, TypeMonitorSaves DEF ApplyPartial, MonitorPc
<1>6. CASE ApplyRejection(o)
  <2>1. [monMem[o] EXCEPT !.state = IF @ = "PARTIALLY_FILLED" THEN "CANCELLED"
                                                             ELSE "REJECTED"] \in Entity
    BY <1>a, Constants DEF Entity
  <2> QED
    BY <1>6, <2>1, TypeMonitorSaves DEF ApplyRejection, MonitorPc
<1>7. CASE ApplyNothing(o)
  BY <1>7, MonitorDoneType DEF TypeOK, MonitorPc, ApplyNothing, table, routerVars
<1>8. CASE Store(o)
  <2>1. row' \in [Orders -> Entity]
    BY <1>8, <1>a, SaveType DEF Store, CommitFill, CommitReport, TypeOK
  <2> QED
    BY <1>8, <2>1, MonitorDoneType, MonitorForgetsType
       DEF Store, CommitFill, CommitReport, TypeOK, MonitorPc, routerVars
<1>9. CASE PublishFilled(o)
  BY <1>9, MonitorDoneType DEF TypeOK, MonitorPc, PublishFilled, table, routerVars
<1> QED
  BY <1>1, <1>2, <1>3, <1>4, <1>5, <1>6, <1>7, <1>8, <1>9 DEF Monitor, Apply

\* Every step of a cancel request keeps the types.
LEMMA TypeCancel ==
  ASSUME TypeOK, NEW o \in Orders, Cancel(o)
  PROVE  TypeOK'
<1>1. PICK r \in Requests : CancelRead(o, r) \/ CancelLoad(o, r) \/ CancelCommit(o, r)
  BY DEF Cancel
<1>2. /\ row[o] \in Entity /\ req[o][r] \in Request
      /\ req[o][r].copy \in Entity /\ req[o][r].base \in Entity
  BY DEF TypeOK, Request
<1>3. ASSUME NEW q \in Request, req' = [req EXCEPT ![o][r] = q]
      PROVE  req' \in [Orders -> [Requests -> Request]]
  BY <1>3 DEF TypeOK
<1>4. CASE CancelRead(o, r)
  <2> DEFINE q == [at |-> "read", base |-> NoEntity,
                   copy |-> [row[o] EXCEPT !.state = "CANCELLED"]]
  <2>1. q \in Request
    BY <1>2, EntityUpdate, Constants DEF Request
  <2>2. req' = [req EXCEPT ![o][r] = q]
    BY <1>4 DEF CancelRead
  <2> HIDE DEF q
  <2> QED
    BY <1>3, <1>4, <2>1, <2>2 DEF CancelRead, TypeOK, table, routerVars, monVars
<1>5. CASE CancelLoad(o, r)
  <2> DEFINE q == [req[o][r] EXCEPT !.at = "saving", !.base = row[o]]
  <2>1. q \in Request
    BY <1>2 DEF Request
  <2>2. req' = [req EXCEPT ![o][r] = q] \/ req' = [req EXCEPT ![o][r] = NoRequest]
    BY <1>5 DEF CancelLoad
  <2> HIDE DEF q
  <2> QED
    BY <1>3, <1>5, <2>1, <2>2, Constants DEF CancelLoad, TypeOK, table, routerVars, monVars
<1>6. CASE CancelCommit(o, r)
  <2>1. row' \in [Orders -> Entity]
    BY <1>2, <1>6, SaveType DEF CancelCommit, TypeOK
  <2>2. req' \in [Orders -> [Requests -> Request]]
    BY <1>3, <1>6, Constants DEF CancelCommit
  <2> QED
    BY <1>6, <2>1, <2>2 DEF CancelCommit, TypeOK, routerVars, monVars
<1> QED
  BY <1>1, <1>4, <1>5, <1>6

--------------------------------------------------------------------------------
(***************************************************************************)
(* The inductive invariant.  A step of one order leaves the other orders   *)
(* alone, so it is enough to look at the order that moves.                 *)
(***************************************************************************)
Untouched(p) ==
  /\ row'[p] = row[p] /\ brk'[p] = brk[p]
  /\ pc'[p] = pc[p] /\ mem'[p] = mem[p] /\ base'[p] = base[p]
  /\ monPc'[p] = monPc[p] /\ report'[p] = report[p]
  /\ monMem'[p] = monMem[p] /\ monBase'[p] = monBase[p]
  /\ req'[p] = req[p] /\ emitted'[p] = emitted[p]

\* The invariant of an order speaks of that order only.
LEMMA Frame ==
  ASSUME NEW p \in Orders, OrderInv(p), Untouched(p)
  PROVE  OrderInv(p)'
<1> USE DEF Untouched, OrderInv
<1>0. (Unfilled(p)' <=> Unfilled(p)) /\ (Overridden(p)' <=> Overridden(p))
  BY DEF Unfilled, Overridden
<1>1. BrokerConsistent(brk[p])'
  BY DEF BrokerConsistent
<1>2. RowKnown(p)'
  BY <1>0 DEF RowKnown, Backed
<1>3. RouterKnows(p)'
  BY <1>0 DEF RouterKnows, NoEntity
<1>4. MonitorKnows(p)'
  BY <1>0 DEF MonitorKnows, Backed, BrokerConsistent, Reportable
<1>5. \A r \in Requests : RequestKnows(p, r)'
  BY DEF RequestKnows, Backed
<1>6. FillSettled(p)'
  BY <1>0 DEF FillSettled
<1> QED
  BY <1>1, <1>2, <1>3, <1>4, <1>5, <1>6

\* What is true of an order before it exists.
LEMMA InvInit == Init => \A o \in Orders : OrderInv(o)
BY Constants DEF Init, OrderInv, BrokerConsistent, RowKnown, Backed, Unfilled, Overridden,
  RouterKnows, MonitorKnows, RequestKnows, FillSettled, NoEntity, NoBrokerOrder, NoRequest

\* A step of one order leaves the others untouched.
LEMMA OthersUntouched ==
  ASSUME TypeOK, NEW o \in Orders, OrderTask(o), NEW p \in Orders, p # o
  PROVE  Untouched(p)
<1> USE DEF TypeOK, Untouched, Commit, CommitRaises, RouterDone, MonitorDone, MonitorForgets,
           table, routerVars, monVars
<1>1. CASE Create(o) \/ LoadForRouting(o)
  BY <1>1 DEF Create, LoadForRouting
<1>2. CASE StartSubmission(o) \/ ConfirmSubmitted(o) \/ RejectPreSubmit(o)
  BY <1>2 DEF StartSubmission, ConfirmSubmitted, RejectPreSubmit, RouterSaves
<1>3. CASE CommitSubmission(o) \/ CommitOutcome(o)
  BY <1>3 DEF CommitSubmission, CommitOutcome
<1>4. CASE SubmissionRefused(o) \/ BrokerAccept(o) \/ BrokerRefuse(o) \/ ReplyLost(o)
  BY <1>4 DEF SubmissionRefused, BrokerAccept, BrokerRefuse, ReplyLost
<1>5. CASE Broker(o)
  BY <1>5 DEF Broker, BrokerFill, BrokerReject, BrokerCancel
<1>6. CASE Fetch(o) \/ FetchFails(o) \/ LoadForReport(o) \/ ApplyNothing(o)
  BY <1>6 DEF Fetch, FetchFails, LoadForReport, ApplyNothing
<1>7. CASE ApplyFill(o) \/ ApplyPartial(o) \/ ApplyRejection(o)
  BY <1>7 DEF ApplyFill, ApplyPartial, ApplyRejection, MonitorSaves
<1>8. CASE Store(o) \/ PublishFilled(o)
  BY <1>8 DEF Store, CommitFill, CommitReport, PublishFilled
<1>9. CASE Cancel(o)
  BY <1>9 DEF Cancel, CancelRead, CancelLoad, CancelCommit
<1> QED
  BY <1>1, <1>2, <1>3, <1>4, <1>5, <1>6, <1>7, <1>8, <1>9
     DEF OrderTask, Router, Monitor, Apply

\* What the broker backs it still backs once its order grows or ends.
LEMMA BackedLater ==
  ASSUME NEW e \in Entity, NEW k \in BrokerOrder, NEW l \in BrokerOrder, Backed(e, k),
         k.status \in {"NONE", "OPEN"}, l.status # "NONE", k.filled <= l.filled
  PROVE  Backed(e, l)
BY DEF Backed, BrokerOrder, Entity

\* A step of the router: the monitor and the requests know nothing of a fill yet.
LEMMA RouterStep ==
  ASSUME TypeOK, TypeOK', NEW o \in Orders, OrderInv(o), pc[o] # "done",
         monPc'[o] = monPc[o], req'[o] = req[o], emitted'[o] = emitted[o],
         BrokerConsistent(brk'[o]),
         \A e \in Entity : Backed(e, brk[o]) => Backed(e, brk'[o]),
         Backed(row'[o], brk'[o]), row'[o].filled = 0,
         row'[o].bid => pc'[o] = "done",
         row[o].state # "NONE" => row'[o].state # "NONE",
         row'[o].state \in {"NONE", "PENDING"} => brk'[o].status = "NONE",
         Unfilled(o)' => RouterKnows(o)'
  PROVE  OrderInv(o)'
<1>0. emitted[o] \in Nat /\ emitted[o] <= 1 /\ emitted[o] # 1
  BY DEF OrderInv, FillSettled, TypeOK
<1>1. Unfilled(o) /\ monPc[o] = "idle" /\ emitted[o] = 0
  BY <1>0 DEF OrderInv, RouterKnows
<1>2. Unfilled(o)'
  BY <1>1 DEF Unfilled
<1>3. RowKnown(o)'
  BY <1>2 DEF RowKnown
<1>4. MonitorKnows(o)'
  BY <1>1 DEF MonitorKnows
<1>5. ASSUME NEW r \in Requests PROVE RequestKnows(o, r)'
  <2>1. req[o][r].copy \in Entity
    BY DEF TypeOK, Request
  <2> QED
    BY <2>1 DEF OrderInv, RequestKnows
<1>6. FillSettled(o)'
  BY <1>1, Constants DEF FillSettled
<1> QED
  BY <1>2, <1>3, <1>4, <1>5, <1>6 DEF OrderInv

\* A step of the monitor: the router is through with the order.
LEMMA MonitorStep ==
  ASSUME TypeOK, NEW o \in Orders, OrderInv(o), pc[o] = "done",
         pc'[o] = pc[o], mem'[o] = mem[o], base'[o] = base[o],
         brk'[o] = brk[o], req'[o] = req[o],
         row[o].state # "NONE" => row'[o].state # "NONE",
         RowKnown(o)', MonitorKnows(o)', FillSettled(o)'
  PROVE  OrderInv(o)'
<1>1. BrokerConsistent(brk[o])'
  BY DEF OrderInv, BrokerConsistent
<1>2. RouterKnows(o)'
  BY DEF OrderInv, RouterKnows
<1>3. \A r \in Requests : RequestKnows(o, r)'
  BY DEF OrderInv, RequestKnows, Backed
<1> QED
  BY <1>1, <1>2, <1>3 DEF OrderInv

\* A step of a cancel request, which adds no fill.
LEMMA CancelStep ==
  ASSUME TypeOK, NEW o \in Orders, OrderInv(o), Requests # {}, row[o].state # "NONE",
         pc'[o] = pc[o], mem'[o] = mem[o], base'[o] = base[o], brk'[o] = brk[o],
         monPc'[o] = monPc[o], report'[o] = report[o], monMem'[o] = monMem[o],
         monBase'[o] = monBase[o], emitted'[o] = emitted[o],
         Unfilled(o) => Unfilled(o)',
         Backed(row'[o], brk[o]), row'[o].bid => pc[o] = "done",
         row'[o].state = row[o].state \/ row'[o].state = "CANCELLED",
         row'[o].filled = Qty => row[o].filled = Qty,
         \A r \in Requests : RequestKnows(o, r)'
  PROVE  OrderInv(o)'
<1>0. Overridden(o)' \/ (row'[o].state = row[o].state /\ (Overridden(o)' <=> Overridden(o)))
  BY DEF Overridden
<1>1. BrokerConsistent(brk[o])'
  BY DEF OrderInv, BrokerConsistent
<1>2. RowKnown(o)'
  BY DEF OrderInv, RowKnown, Backed
<1>3. RouterKnows(o)'
  BY <1>0 DEF OrderInv, RouterKnows, NoEntity
<1>4. MonitorKnows(o)'
  BY <1>0 DEF OrderInv, MonitorKnows, Backed, BrokerConsistent, Reportable
<1>5. FillSettled(o)'
  BY <1>0 DEF OrderInv, FillSettled
<1> QED
  BY <1>1, <1>2, <1>3, <1>4, <1>5 DEF OrderInv


\* What is left of the router's knowledge when it is through with an order.
LEMMA RouterDoneKnows ==
  ASSUME TypeOK, NEW o \in Orders, RouterDone(o)
  PROVE  RouterKnows(o)'
BY DEF TypeOK, RouterDone, RouterKnows, NoEntity

\* A step of the router that leaves the table and the broker alone.
LEMMA RouterQuiet ==
  ASSUME TypeOK, TypeOK', NEW o \in Orders, OrderInv(o), pc[o] # "done",
         UNCHANGED <<table, monVars, req, emitted>>, Unfilled(o)' => RouterKnows(o)'
  PROVE  OrderInv(o)'
<1>1. row'[o].filled = 0 /\ ~row[o].bid /\ Backed(row[o], brk[o])
  BY DEF OrderInv, RowKnown, RouterKnows, Unfilled, table
<1>2. BrokerConsistent(brk[o]) /\ RowKnown(o)
  BY DEF OrderInv
<1> QED
  BY <1>1, <1>2, RouterStep DEF RowKnown, table, monVars

\* The end of a save by the router, whose copy claims no fill.
LEMMA RouterCommits ==
  ASSUME TypeOK, TypeOK', NEW o \in Orders, OrderInv(o), pc[o] # "done",
         NEW b \in Entity, NEW e \in Entity, Commit(o, b, e) \/ CommitRaises(o, b, e),
         UNCHANGED <<brk, monVars, req, emitted>>,
         Backed(e, brk[o]), e.filled = 0, e.bid => pc'[o] = "done",
         e.state \notin {"NONE", "PENDING"} \/ (e.state = "PENDING" /\ brk[o].status = "NONE"),
         Unfilled(o)' => RouterKnows(o)'
  PROVE  OrderInv(o)'
<1>1. row[o] \in Entity /\ brk[o] \in BrokerOrder
  BY DEF TypeOK
<1>2. row[o].filled = 0 /\ ~row[o].bid /\ Backed(row[o], brk[o])
  BY DEF OrderInv, RowKnown, RouterKnows, Unfilled
<1>3. row'[o] = row[o] \/ row'[o] = Merged(row[o], b, e)
  BY CommitRow DEF TypeOK, CommitRaises
<1>4. /\ row'[o].state = row[o].state \/ row'[o].state = e.state
      /\ row'[o].bid = row[o].bid \/ row'[o].bid = e.bid
      /\ row'[o].filled = 0
      /\ Backed(row'[o], brk[o])
  <2>1. Backed(Merged(row[o], b, e), brk[o])
    BY <1>1, <1>2, MergedBacked
  <2>2. /\ Merged(row[o], b, e).state \in {row[o].state, e.state}
        /\ Merged(row[o], b, e).bid = row[o].bid \/ Merged(row[o], b, e).bid = e.bid
        /\ Merged(row[o], b, e).filled = 0
    BY <1>1, <1>2, MergedEntity
  <2> QED
    BY <1>2, <1>3, <2>1, <2>2
<1>5. BrokerConsistent(brk[o]) /\ RowKnown(o)
  BY DEF OrderInv
<1>6. row'[o].state \in {"NONE", "PENDING"} => brk'[o].status = "NONE"
  BY <1>4, <1>5 DEF RowKnown
<1> QED
  BY <1>2, <1>4, <1>5, <1>6, RouterStep DEF monVars

\* The router is the first to claim anything of an order, and claims no fill.
LEMMA InvRouter ==
  ASSUME TypeOK, TypeOK', NEW o \in Orders, OrderInv(o), Router(o)
  PROVE  OrderInv(o)'
<1>a. pc[o] # "done"
  BY DEF Router, Create, LoadForRouting, StartSubmission, CommitSubmission,
    SubmissionRefused, BrokerAccept, BrokerRefuse, ReplyLost, ConfirmSubmitted,
    RejectPreSubmit, CommitOutcome
<1>b. /\ row[o] \in Entity /\ mem[o] \in Entity /\ base[o] \in Entity
      /\ brk[o] \in BrokerOrder
  BY DEF TypeOK
<1>c. /\ RouterKnows(o) /\ Unfilled(o) /\ row[o].filled = 0 /\ ~row[o].bid
      /\ mem[o].filled = 0 /\ 0 <= brk[o].filled
  BY <1>a, <1>b, Constants DEF OrderInv, RowKnown, RouterKnows, Unfilled, BrokerOrder
<1>1. CASE Create(o)
  <2>1. /\ Created \in Entity /\ Created.state = "PENDING" /\ Created.filled = 0
        /\ Created.bid = FALSE
    BY Constants, EntityUpdate DEF Created, NoEntity
  <2>2. pc[o] = "new" /\ brk[o].status = "NONE" /\ row[o] = NoEntity
    BY <1>1, <1>c DEF Create, RouterKnows
  <2>3. Backed(Created, brk[o])
    BY <1>c, <2>1 DEF Backed
  <2>4. RouterKnows(o)'
    <3>1. CASE RouterDone(o)
      BY <3>1, RouterDoneKnows
    <3>2. CASE /\ Commit(o, NoEntity, Created)
               /\ pc' = [pc EXCEPT ![o] = "created"]
               /\ UNCHANGED <<mem, base>>
      <4>1. row'[o].state = "PENDING" /\ row'[o].filled = 0
        <5>1. row'[o] = Merged(row[o], NoEntity, Created)
          BY <2>1, <3>2, CommitRow, Constants DEF TypeOK
        <5> QED
          BY <2>1, <2>2, <5>1, Constants, MergedEntity DEF NoEntity
      <4>2. pc'[o] = "created" /\ mem'[o] = mem[o] /\ base'[o] = base[o]
        BY <3>2 DEF TypeOK
      <4>3. Unfilled(o)' /\ brk'[o] = brk[o] /\ monPc'[o] = monPc[o]
        BY <1>1, <1>c, <4>1 DEF Create, Unfilled, monVars
      <4> QED
        BY <1>c, <2>2, <4>1, <4>2, <4>3 DEF RouterKnows
    <3> QED
      BY <1>1, <3>1, <3>2 DEF Create
  <2> QED
    BY <1>1, <1>a, <2>1, <2>2, <2>3, <2>4, RouterCommits, Constants DEF Create
<1>2. CASE LoadForRouting(o)
  <2>1. RouterKnows(o)'
    <3>1. CASE RouterDone(o)
      BY <3>1, RouterDoneKnows
    <3>2. CASE /\ mem' = [mem EXCEPT ![o] = row[o]]
               /\ pc' = [pc EXCEPT ![o] = "loaded"]
               /\ UNCHANGED base
      <4>1. /\ pc[o] = "created" /\ pc'[o] = "loaded" /\ mem'[o] = row[o]
            /\ base'[o] = base[o] /\ row' = row /\ brk' = brk /\ monPc' = monPc /\ req' = req
        BY <1>2, <3>2 DEF LoadForRouting, TypeOK, table, monVars
      <4> QED
        BY <1>c, <4>1 DEF RouterKnows, Overridden, Unfilled
    <3> QED
      BY <1>2, <3>1, <3>2 DEF LoadForRouting
  <2> QED
    BY <1>2, <1>a, <2>1, RouterQuiet DEF LoadForRouting
<1>d. ASSUME NEW e \in Entity, NEW next, RouterSaves(o, e, next),
             (/\ pc'[o] = next /\ mem'[o] = e /\ base'[o] = row[o] /\ row' = row
              /\ brk' = brk /\ monPc' = monPc /\ req' = req) => RouterKnows(o)'
      PROVE  OrderInv(o)'
  <2>1. RouterKnows(o)'
    <3>1. CASE RouterDone(o)
      BY <3>1, RouterDoneKnows
    <3>2. CASE /\ mem' = [mem EXCEPT ![o] = e]
               /\ base' = [base EXCEPT ![o] = row[o]]
               /\ pc' = [pc EXCEPT ![o] = next]
      BY <1>d, <3>2 DEF RouterSaves, TypeOK, table, monVars
    <3> QED
      BY <1>d, <3>1, <3>2 DEF RouterSaves
  <2> QED
    BY <1>a, <1>d, <2>1, RouterQuiet DEF RouterSaves
<1>3. CASE StartSubmission(o)
  <2> DEFINE e == [mem[o] EXCEPT !.state = "SUBMITTING"]
  <2>1. RouterSaves(o, e, "submitting") /\ pc[o] = "loaded"
    BY <1>3 DEF StartSubmission
  <2>2. e \in Entity
    BY <1>b, EntityUpdate, Constants
  <2>3. e.state = "SUBMITTING" /\ e.filled = 0 /\ e.bid = mem[o].bid
    BY <1>b, <1>c DEF Entity
  <2> HIDE DEF e
  <2> QED
    BY <1>c, <1>d, <2>1, <2>2, <2>3 DEF RouterKnows, Overridden, Unfilled
<1>4. CASE CommitSubmission(o)
  <2>1. /\ pc[o] = "submitting" /\ mem[o].state = "SUBMITTING" /\ ~mem[o].bid
        /\ base[o].state \in {"PENDING", "CANCELLED"} /\ brk[o].status = "NONE"
    BY <1>4, <1>c DEF CommitSubmission, RouterKnows
  <2>2. Backed(mem[o], brk[o])
    BY <1>c, <2>1 DEF Backed
  <2>3. RouterKnows(o)'
    <3>1. CASE RouterDone(o)
      BY <3>1, RouterDoneKnows
    <3>2. CASE /\ Commit(o, base[o], mem[o])
               /\ pc' = [pc EXCEPT ![o] = "calling"]
               /\ base' = [base EXCEPT ![o] = NoEntity]
               /\ UNCHANGED mem
      <4>1. row'[o].state = "SUBMITTING" /\ row'[o].filled = 0
        <5>1. row'[o] = Merged(row[o], base[o], mem[o])
          BY <1>b, <3>2, CommitRow DEF TypeOK
        <5> QED
          BY <1>b, <1>c, <2>1, <5>1, MergedEntity
      <4>2. pc'[o] = "calling" /\ mem'[o] = mem[o] /\ base'[o].filled = 0
        BY <3>2 DEF TypeOK, NoEntity
      <4>3. Unfilled(o)' /\ brk'[o] = brk[o] /\ monPc'[o] = monPc[o]
        BY <1>4, <1>c, <4>1 DEF CommitSubmission, Unfilled, monVars
      <4> QED
        BY <1>c, <2>1, <4>1, <4>2, <4>3 DEF RouterKnows
    <3> QED
      BY <1>4, <3>1, <3>2 DEF CommitSubmission
  <2>4. Commit(o, base[o], mem[o]) \/ CommitRaises(o, base[o], mem[o])
    BY <1>4 DEF CommitSubmission
  <2> QED
    BY <1>4, <1>a, <1>b, <1>c, <2>1, <2>2, <2>3, <2>4, RouterCommits DEF CommitSubmission
<1>5. CASE SubmissionRefused(o)
  BY <1>5, <1>a, RouterQuiet, RouterDoneKnows DEF SubmissionRefused
<1>6. CASE BrokerAccept(o)
  <2>1. /\ pc[o] = "calling" /\ pc'[o] = "replying" /\ brk[o].status = "NONE"
        /\ brk'[o].status = "OPEN" /\ brk'[o].filled = 0
        /\ row' = row /\ mem' = mem /\ base' = base /\ monPc' = monPc /\ req' = req
        /\ emitted' = emitted
    BY <1>6, <1>c DEF BrokerAccept, TypeOK, RouterKnows, monVars
  <2>2. RouterKnows(o)'
    BY <1>c, <2>1 DEF RouterKnows, Overridden, Unfilled
  <2>3. BrokerConsistent(brk[o]) /\ RowKnown(o) /\ Backed(row[o], brk[o])
    BY DEF OrderInv, RowKnown
  <2>4. BrokerConsistent(brk'[o]) /\ brk[o].filled = 0
    BY <2>1, <2>3, Constants DEF BrokerConsistent
  <2>5. \A e \in Entity : Backed(e, brk[o]) => Backed(e, brk'[o])
    <3>1. brk'[o] \in BrokerOrder
      BY DEF TypeOK
    <3> QED
      BY <1>b, <2>1, <2>4, <3>1, BackedLater
  <2>6. row[o].state \notin {"NONE", "PENDING"}
    BY <1>c, <2>1 DEF RouterKnows, Overridden
  <2> QED
    BY <1>a, <1>b, <1>c, <2>1, <2>2, <2>3, <2>4, <2>5, <2>6, RouterStep
<1>7. CASE BrokerRefuse(o) \/ ReplyLost(o)
  <2>1. /\ pc[o] \in {"calling", "replying"} /\ pc'[o] = "failed"
        /\ mem' = mem /\ base' = base /\ UNCHANGED <<table, monVars, req, emitted>>
    BY <1>7 DEF BrokerRefuse, ReplyLost, TypeOK
  <2>2. RouterKnows(o)'
    BY <1>c, <2>1 DEF RouterKnows, Overridden, Unfilled, table, monVars
  <2> QED
    BY <1>a, <2>1, <2>2, RouterQuiet
<1>8. CASE ConfirmSubmitted(o)
  <2> DEFINE e == [mem[o] EXCEPT !.state = "SUBMITTED", !.bid = TRUE]
  <2>1. RouterSaves(o, e, "storing") /\ pc[o] = "replying"
    BY <1>8 DEF ConfirmSubmitted
  <2>2. e \in Entity
    BY <1>b, EntityUpdate, Constants
  <2>3. e.state = "SUBMITTED" /\ e.filled = 0
    BY <1>b, <1>c DEF Entity
  <2> HIDE DEF e
  <2> QED
    BY <1>c, <1>d, <2>1, <2>2, <2>3 DEF RouterKnows, Overridden, Unfilled
<1>9. CASE RejectPreSubmit(o)
  <2> DEFINE e == [mem[o] EXCEPT !.state = "REJECTED_PRE_SUBMIT"]
  <2>1. RouterSaves(o, e, "storing") /\ pc[o] = "failed"
    BY <1>9 DEF RejectPreSubmit
  <2>2. e \in Entity
    BY <1>b, EntityUpdate, Constants
  <2>3. e.state = "REJECTED_PRE_SUBMIT" /\ e.filled = 0 /\ e.bid = mem[o].bid
    BY <1>b, <1>c DEF Entity
  <2> HIDE DEF e
  <2> QED
    BY <1>c, <1>d, <2>1, <2>2, <2>3 DEF RouterKnows, Overridden, Unfilled
<1>10. CASE CommitOutcome(o)
  <2>1. /\ pc[o] = "storing" /\ RouterDone(o) /\ pc'[o] = "done"
        /\ mem[o].state \in {"SUBMITTED", "REJECTED_PRE_SUBMIT"}
        /\ mem[o].bid => brk[o].status # "NONE"
    BY <1>10, <1>c DEF CommitOutcome, RouterDone, RouterKnows, TypeOK
  <2>2. Backed(mem[o], brk[o])
    BY <1>c, <2>1 DEF Backed
  <2>3. Commit(o, base[o], mem[o]) \/ CommitRaises(o, base[o], mem[o])
    BY <1>10 DEF CommitOutcome
  <2> QED
    BY <1>10, <1>a, <1>b, <1>c, <2>1, <2>2, <2>3, RouterDoneKnows, RouterCommits
       DEF CommitOutcome
<1> QED
  BY <1>1, <1>2, <1>3, <1>4, <1>5, <1>6, <1>7, <1>8, <1>9, <1>10 DEF Router

\* The broker only ever adds to what copies and rows already claim.
LEMMA InvBroker ==
  ASSUME TypeOK, TypeOK', NEW o \in Orders, OrderInv(o), Broker(o)
  PROVE  OrderInv(o)'
<1>a. /\ row[o] \in Entity /\ monMem[o] \in Entity
      /\ brk[o] \in BrokerOrder /\ brk'[o] \in BrokerOrder
      /\ \A r \in Requests : req[o][r].copy \in Entity
  BY DEF TypeOK, Request
<1>b. /\ brk[o].status = "OPEN" /\ brk'[o].status # "NONE"
      /\ brk[o].filled <= brk'[o].filled
      /\ BrokerConsistent(brk'[o])
  <2>1. BrokerConsistent(brk[o]) /\ brk[o].filled \in 0..Qty
    BY <1>a DEF OrderInv, BrokerOrder
  <2>2. CASE BrokerFill(o)
    BY <1>a, <2>1, <2>2, Constants DEF BrokerFill, BrokerConsistent, BrokerOrder, TypeOK
  <2>3. CASE BrokerReject(o)
    BY <1>a, <2>1, <2>3, Constants DEF BrokerReject, BrokerConsistent, BrokerOrder, TypeOK
  <2>4. CASE BrokerCancel(o)
    BY <1>a, <2>1, <2>4, Constants DEF BrokerCancel, BrokerConsistent, BrokerOrder, TypeOK
  <2> QED
    BY <2>2, <2>3, <2>4 DEF Broker
<1>c. UNCHANGED <<row, routerVars, monVars, req, emitted>>
  BY DEF Broker, BrokerFill, BrokerReject, BrokerCancel
<1>d. \A e \in Entity : Backed(e, brk[o]) => Backed(e, brk'[o])
  BY <1>a, <1>b, BackedLater
<1>e. (Unfilled(o)' <=> Unfilled(o)) /\ (Overridden(o)' <=> Overridden(o))
  BY <1>c DEF Unfilled, Overridden
<1>1. RowKnown(o)'
  BY <1>a, <1>b, <1>c, <1>d, <1>e DEF OrderInv, RowKnown, routerVars
<1>2. RouterKnows(o)'
  BY <1>b, <1>c, <1>e DEF OrderInv, RouterKnows, NoEntity, routerVars, monVars
<1>3. MonitorKnows(o)'
  <2>1. report[o].filled \in 0..Qty /\ brk[o].filled \in 0..Qty /\ brk'[o].filled \in 0..Qty
    BY DEF TypeOK, BrokerOrder
  <2>2. report[o].filled <= brk[o].filled => report[o].filled <= brk'[o].filled
    BY <1>b, <2>1
  <2> QED
    BY <1>a, <1>b, <1>c, <1>d, <1>e, <2>2
       DEF OrderInv, MonitorKnows, BrokerConsistent, Reportable, routerVars, monVars
<1>4. ASSUME NEW r \in Requests PROVE RequestKnows(o, r)'
  BY <1>a, <1>c, <1>d DEF OrderInv, RequestKnows, routerVars
<1>5. FillSettled(o)'
  BY <1>c, <1>e DEF OrderInv, FillSettled, routerVars, monVars
<1> QED
  BY <1>b, <1>1, <1>2, <1>3, <1>4, <1>5 DEF OrderInv

--------------------------------------------------------------------------------
\* A monitor that is through with an order knows nothing of it.
LEMMA MonitorDoneKnows ==
  ASSUME TypeOK, NEW o \in Orders, MonitorDone(o)
  PROVE  MonitorKnows(o)'
BY DEF TypeOK, MonitorDone, MonitorKnows

\* A step of the monitor before any save, and not from an announcement.
LEMMA MonitorQuiet ==
  ASSUME TypeOK, NEW o \in Orders, OrderInv(o), pc[o] = "done",
         UNCHANGED <<table, routerVars, req, emitted>>,
         monPc[o] \notin {"idle", "publishing"}, monPc'[o] # "publishing", MonitorKnows(o)'
  PROVE  OrderInv(o)'
<1>1. RowKnown(o)'
  BY DEF OrderInv, RowKnown, Backed, Unfilled, table, routerVars
<1>2. emitted[o] # 1 /\ row[o].filled # Qty
  BY DEF OrderInv, FillSettled
<1>3. FillSettled(o)'
  BY <1>2 DEF OrderInv, FillSettled, table
<1> QED
  BY <1>1, <1>3, MonitorStep DEF table, routerVars

\* The end of a save by the monitor: what it stores is backed by the broker, and
\* it takes the state column of its own copy.
LEMMA MonitorCommits ==
  ASSUME TypeOK, TypeOK', NEW o \in Orders, OrderInv(o),
         monPc[o] \in {"filling", "storing"},
         Commit(o, monBase[o], monMem[o]) \/ CommitRaises(o, monBase[o], monMem[o]),
         UNCHANGED <<brk, routerVars, req, emitted>>,
         \/ monPc'[o] = "idle"
         \/ /\ monPc[o] = "filling" /\ monPc'[o] = "publishing"
            /\ Commit(o, monBase[o], monMem[o])
  PROVE  OrderInv(o)'
<1>a. /\ row[o] \in Entity /\ monMem[o] \in Entity /\ monBase[o] \in Entity
      /\ brk[o] \in BrokerOrder /\ emitted[o] \in Nat
  BY DEF TypeOK
<1>b. /\ pc[o] = "done" /\ Backed(monMem[o], brk[o]) /\ Backed(row[o], brk[o])
      /\ RowKnown(o) /\ emitted[o] # 1 /\ emitted[o] <= 1 /\ row[o].filled # Qty
      /\ row[o].state \notin {"NONE", "PENDING"}
  BY DEF OrderInv, MonitorKnows, RowKnown, FillSettled, Overridden
<1>c. emitted[o] = 0
  BY <1>a, <1>b
<1>1. row'[o] = row[o] \/ row'[o] = Merged(row[o], monBase[o], monMem[o])
  BY <1>a, CommitRow DEF TypeOK, CommitRaises
<1>2. CASE row'[o] = row[o] /\ monPc'[o] = "idle"
  <2>1. RowKnown(o)' /\ MonitorKnows(o)'
    BY <1>b, <1>2 DEF RowKnown, Backed, Unfilled, MonitorKnows, routerVars
  <2>2. FillSettled(o)'
    BY <1>b, <1>c, <1>2, Constants DEF FillSettled
  <2> QED
    BY <1>b, <1>2, <2>1, <2>2, MonitorStep DEF routerVars
<1>3. CASE row'[o] = Merged(row[o], monBase[o], monMem[o])
  <2>1. Backed(row'[o], brk[o])
    BY <1>a, <1>b, <1>3, MergedBacked
  <2>2. row'[o].state = monMem[o].state
    BY <1>a, <1>3, MergedEntity DEF OrderInv, MonitorKnows
  <2>3. row'[o].state \notin {"NONE", "PENDING", "SUBMITTED"}
    BY <2>2 DEF OrderInv, MonitorKnows
  <2>4. RowKnown(o)'
    BY <1>b, <2>1, <2>3 DEF RowKnown, routerVars
  <2>5. MonitorKnows(o)'
    BY DEF MonitorKnows, OrderInv, routerVars
  <2>6. FillSettled(o)'
    <3>1. CASE monPc[o] = "filling"
      <4>1. row'[o].state = "FILLED"
        BY <2>2, <3>1 DEF OrderInv, MonitorKnows
      <4> QED
        BY <1>b, <1>c, <3>1, <4>1, Constants DEF FillSettled, routerVars
    <3>2. CASE monPc[o] = "storing"
      <4>1. row'[o].filled # Qty
        <5>1. /\ row[o].filled = 0 /\ monBase[o].filled = 0
              /\ monMem[o].filled \in 1..(Qty - 1) \/ monMem[o].filled = 0
          BY <3>2 DEF OrderInv, MonitorKnows, Unfilled
        <5> QED
          BY <1>3, <1>a, <5>1, MergedEntity, Constants
      <4> QED
        BY <1>b, <1>c, <3>2, <4>1, Constants DEF FillSettled
    <3> QED
      BY <3>1, <3>2
  <2> QED
    BY <1>b, <2>3, <2>4, <2>5, <2>6, MonitorStep DEF routerVars
<1>4. Commit(o, monBase[o], monMem[o]) => row'[o] = Merged(row[o], monBase[o], monMem[o])
  BY <1>a, CommitRow DEF TypeOK
<1> QED
  BY <1>1, <1>2, <1>3, <1>4

\* A report without any fill meets a copy without any fill: the broker's order
\* is dead and never traded.
LEMMA RefusedNeverTraded ==
  ASSUME TypeOK, NEW o \in Orders, OrderInv(o), monPc[o] = "loaded", Refused(report[o])
  PROVE  /\ monMem[o].state = "SUBMITTED"
         /\ brk[o].status \in {"REJECTED", "CANCELLED"} /\ brk[o].filled = 0
<1>1. report[o] \in BrokerOrder /\ brk[o] \in BrokerOrder /\ monMem[o] \in Entity
  BY DEF TypeOK
<1>2. report[o].status \in {"REJECTED", "CANCELLED"}
  BY <1>1, Constants DEF OrderInv, MonitorKnows, BrokerConsistent, Reportable,
    Refused, BrokerOrder
<1>3. brk[o] = report[o]
  BY <1>2 DEF OrderInv, MonitorKnows
<1>4. brk[o].filled = 0
  BY <1>3 DEF Refused
<1> QED
  BY <1>2, <1>3, <1>4, Constants DEF OrderInv, MonitorKnows, Backed

\* The monitor stores what a report says, which the broker has done.
LEMMA InvMonitor ==
  ASSUME TypeOK, TypeOK', NEW o \in Orders, OrderInv(o), Monitor(o)
  PROVE  OrderInv(o)'
<1>a. monPc[o] # "idle"
  BY DEF Monitor, Apply, Store, Fetch, FetchFails, LoadForReport, ApplyFill, ApplyPartial,
    ApplyRejection, ApplyNothing, CommitFill, CommitReport, PublishFilled
<1>b. /\ pc[o] = "done" /\ brk[o].status # "NONE" /\ MonitorKnows(o)
      /\ RowKnown(o) /\ BrokerConsistent(brk[o]) /\ FillSettled(o)
  BY <1>a DEF OrderInv, MonitorKnows
<1>c. /\ row[o] \in Entity /\ monMem[o] \in Entity
      /\ report[o] \in BrokerOrder /\ brk[o] \in BrokerOrder
      /\ report[o].filled \in 0..Qty /\ brk[o].filled \in 0..Qty
      /\ row[o].filled \in 0..Qty
  BY DEF TypeOK, BrokerOrder, Entity
<1>d. ASSUME MonitorDone(o) PROVE monPc'[o] = "idle" /\ MonitorKnows(o)'
  BY <1>d, MonitorDoneKnows DEF TypeOK, MonitorDone
<1>1. CASE Fetch(o)
  <2>1. monPc[o] = "listed" /\ UNCHANGED <<table, routerVars, req, emitted>>
    BY <1>1 DEF Fetch
  <2>2. CASE MonitorDone(o)
    BY <1>b, <1>d, <2>1, <2>2, MonitorQuiet
  <2>3. CASE /\ Reportable(brk[o])
             /\ report' = [report EXCEPT ![o] = brk[o]]
             /\ monPc' = [monPc EXCEPT ![o] = "reported"]
             /\ UNCHANGED <<monMem, monBase>>
    <3>1. monPc'[o] = "reported" /\ report'[o] = brk[o] /\ brk'[o] = brk[o] /\ pc'[o] = "done"
      BY <1>b, <2>1, <2>3 DEF TypeOK, table, routerVars
    <3>2. MonitorKnows(o)'
      BY <1>b, <1>c, <2>3, <3>1 DEF MonitorKnows, BrokerConsistent, Reportable
    <3> QED
      BY <1>b, <2>1, <3>1, <3>2, MonitorQuiet
  <2> QED
    BY <1>1, <2>2, <2>3 DEF Fetch
<1>2. CASE FetchFails(o)
  BY <1>2, <1>b, <1>d, MonitorQuiet DEF FetchFails
<1>3. CASE LoadForReport(o)
  <2>1. monPc[o] = "reported" /\ UNCHANGED <<table, routerVars, req, emitted>>
    BY <1>3 DEF LoadForReport
  <2>2. CASE MonitorDone(o)
    BY <1>b, <1>d, <2>1, <2>2, MonitorQuiet
  <2>3. CASE /\ o \in Pollable
             /\ monMem' = [monMem EXCEPT ![o] = row[o]]
             /\ monPc' = [monPc EXCEPT ![o] = "loaded"]
             /\ UNCHANGED <<report, monBase>>
    <3>1. /\ monPc'[o] = "loaded" /\ monMem'[o] = row[o] /\ report'[o] = report[o]
          /\ row' = row /\ brk' = brk /\ req' = req /\ pc' = pc
      BY <2>1, <2>3 DEF TypeOK, table, routerVars
    <3>2. row[o].state \in {"SUBMITTED", "PARTIALLY_FILLED"}
      BY <1>b, <2>3 DEF Pollable, Monitorable, RowKnown, Backed
    <3>3. row[o].state = "SUBMITTED" => row[o].filled = 0 /\ Unfilled(o)
      BY <1>b DEF RowKnown, Unfilled
    <3>4. MonitorKnows(o)'
      BY <1>b, <2>1, <3>1, <3>2, <3>3
         DEF MonitorKnows, RowKnown, BrokerConsistent, Reportable, Unfilled, Backed
    <3> QED
      BY <1>b, <2>1, <3>1, <3>4, MonitorQuiet
  <2> QED
    BY <1>3, <2>2, <2>3 DEF LoadForReport
<1>e. ASSUME NEW e \in Entity, NEW next, next # "publishing", MonitorSaves(o, e, next),
             monPc[o] = "loaded",
             (/\ monPc'[o] = next /\ monMem'[o] = e /\ monBase'[o] = row[o] /\ row' = row
              /\ brk' = brk /\ req' = req /\ pc' = pc) => MonitorKnows(o)'
      PROVE  OrderInv(o)'
  <2>1. CASE MonitorDone(o)
    BY <1>b, <1>d, <1>e, <2>1, MonitorQuiet DEF MonitorSaves
  <2>2. CASE /\ monMem' = [monMem EXCEPT ![o] = e]
             /\ monBase' = [monBase EXCEPT ![o] = row[o]]
             /\ monPc' = [monPc EXCEPT ![o] = next]
             /\ UNCHANGED report
    <3>1. /\ monPc'[o] = next /\ monMem'[o] = e /\ monBase'[o] = row[o] /\ row' = row
          /\ brk' = brk /\ req' = req /\ pc' = pc
      BY <1>e, <2>2 DEF MonitorSaves, TypeOK, table, routerVars
    <3> QED
      BY <1>b, <1>e, <3>1, MonitorQuiet DEF MonitorSaves
  <2> QED
    BY <1>e, <2>1, <2>2 DEF MonitorSaves
<1>f. ASSUME monPc[o] = "loaded"
      PROVE  /\ monMem[o].state \in {"SUBMITTED", "PARTIALLY_FILLED"}
             /\ monMem[o].state = "SUBMITTED" => monMem[o].filled = 0 /\ Unfilled(o)
             /\ row[o].state = monMem[o].state \/ Overridden(o)
             /\ row[o].filled < Qty
             /\ report[o].filled <= brk[o].filled
  BY <1>b, <1>c, <1>f, Constants DEF MonitorKnows, FillSettled
<1>4. CASE ApplyFill(o)
  <2> DEFINE e == [monMem[o] EXCEPT !.state = "FILLED", !.filled = report[o].filled]
  <2>1. monPc[o] = "loaded" /\ report[o].filled = Qty /\ MonitorSaves(o, e, "filling")
    BY <1>4 DEF ApplyFill, FullyFilled
  <2>2. e \in Entity
    BY <1>c, EntityUpdate, Constants
  <2>3. e.state = "FILLED" /\ e.filled = Qty
    BY <1>c, <2>1 DEF Entity
  <2>4. brk[o].filled = Qty /\ brk[o].status = "COMPLETE"
    BY <1>b, <1>c, <1>f, <2>1, Constants DEF BrokerConsistent
  <2> HIDE DEF e
  <2>5. Backed(e, brk[o])
    BY <2>3, <2>4, Constants DEF Backed
  <2> QED
    BY <1>b, <1>e, <1>f, <2>1, <2>2, <2>3, <2>4, <2>5 DEF MonitorKnows, Overridden
<1>5. CASE ApplyPartial(o)
  <2> DEFINE e == [monMem[o] EXCEPT !.state = "PARTIALLY_FILLED",
                                    !.filled = report[o].filled]
  <2>1. /\ monPc[o] = "loaded" /\ report[o].filled \in 1..(Qty - 1)
        /\ MonitorSaves(o, e, "storing")
    BY <1>5 DEF ApplyPartial, PartlyFilled
  <2>2. e \in Entity
    BY <1>c, EntityUpdate, Constants
  <2>3. e.state = "PARTIALLY_FILLED" /\ e.filled = report[o].filled
    BY <1>c, <2>1 DEF Entity
  <2>4. monMem[o].state = "SUBMITTED"
    BY <1>5, <1>f, <2>1, Constants DEF ApplyPartial, Opened, MayMove, Successors
  <2>5. row[o].filled = 0 /\ Unfilled(o) /\ (row[o].state = "SUBMITTED" \/ Overridden(o))
    BY <1>f, <2>1, <2>4 DEF Unfilled
  <2> HIDE DEF e
  <2>6. Backed(e, brk[o])
    BY <1>b, <1>c, <1>f, <2>1, <2>3, Constants DEF Backed
  <2> QED
    BY <1>b, <1>e, <1>f, <2>1, <2>2, <2>3, <2>5, <2>6 DEF MonitorKnows, Overridden, Unfilled
<1>6. CASE ApplyRejection(o)
  <2> DEFINE e == [monMem[o] EXCEPT !.state = "REJECTED"]
  <2>1. /\ monPc[o] = "loaded" /\ monMem[o].state = "SUBMITTED"
        /\ brk[o].status \in {"REJECTED", "CANCELLED"} /\ brk[o].filled = 0
    BY <1>6, RefusedNeverTraded DEF ApplyRejection
  <2>2. MonitorSaves(o, e, "storing")
    BY <1>6, <2>1 DEF ApplyRejection
  <2>3. e \in Entity
    BY <1>c, EntityUpdate, Constants
  <2>4. e.state = "REJECTED" /\ e.filled = 0
    BY <1>c, <1>f, <2>1 DEF Entity
  <2>5. row[o].filled = 0 /\ Unfilled(o) /\ (row[o].state = "SUBMITTED" \/ Overridden(o))
    BY <1>f, <2>1 DEF Unfilled
  <2> HIDE DEF e
  <2>6. Backed(e, brk[o])
    BY <2>1, <2>4 DEF Backed
  <2> QED
    BY <1>b, <1>e, <1>f, <2>1, <2>2, <2>3, <2>4, <2>5, <2>6
       DEF MonitorKnows, Overridden, Unfilled
<1>7. CASE ApplyNothing(o)
  BY <1>7, <1>b, <1>d, MonitorQuiet DEF ApplyNothing
<1>8. CASE CommitFill(o)
  <2>1. CASE MonitorDone(o) /\ CommitRaises(o, monBase[o], monMem[o])
    BY <1>8, <1>d, <2>1, MonitorCommits DEF CommitFill
  <2>2. CASE /\ Commit(o, monBase[o], monMem[o])
             /\ monPc' = [monPc EXCEPT ![o] = "publishing"]
    <3>1. monPc'[o] = "publishing"
      BY <2>2 DEF TypeOK
    <3> QED
      BY <1>8, <2>2, <3>1, MonitorCommits DEF CommitFill
  <2> QED
    BY <1>8, <2>1, <2>2 DEF CommitFill
<1>9. CASE CommitReport(o)
  BY <1>9, <1>d, MonitorCommits DEF CommitReport
<1>10. CASE PublishFilled(o)
  <2>1. /\ monPc[o] = "publishing" /\ emitted[o] = 0 /\ emitted'[o] \in {0, 1}
        /\ monPc'[o] = "idle" /\ MonitorKnows(o)' /\ UNCHANGED <<table, routerVars, req>>
    BY <1>10, <1>b, <1>d DEF PublishFilled, FillSettled, TypeOK
  <2>2. RowKnown(o)'
    BY <1>b, <2>1 DEF RowKnown, Backed, Unfilled, table, routerVars
  <2>3. FillSettled(o)'
    BY <1>b, <2>1 DEF FillSettled, Overridden, table, routerVars
  <2> QED
    BY <1>b, <2>1, <2>2, <2>3, MonitorStep DEF table, routerVars
<1> QED
  BY <1>1, <1>2, <1>3, <1>4, <1>5, <1>6, <1>7, <1>8, <1>9, <1>10 DEF Monitor, Apply, Store

--------------------------------------------------------------------------------
\* A cancel request stores a quantity the broker has filled, however stale.
LEMMA InvCancel ==
  ASSUME TypeOK, TypeOK', NEW o \in Orders, OrderInv(o), Cancel(o)
  PROVE  OrderInv(o)'
<1>1. PICK r \in Requests : CancelRead(o, r) \/ CancelLoad(o, r) \/ CancelCommit(o, r)
  BY DEF Cancel
<1> DEFINE q == req[o][r]
<1>a. /\ row[o] \in Entity /\ q.copy \in Entity /\ q.base \in Entity
      /\ brk[o] \in BrokerOrder /\ RowKnown(o) /\ FillSettled(o) /\ RequestKnows(o, r)
      /\ \A s \in Requests : RequestKnows(o, s)
      /\ Requests # {}
  BY DEF TypeOK, Request, OrderInv
<1>b. ASSUME NEW n, req' = [req EXCEPT ![o][r] = n]
      PROVE  req'[o][r] = n /\ \A s \in Requests : s # r => req'[o][s] = req[o][s]
  BY <1>b DEF TypeOK
<1>c. ASSUME NEW n, req' = [req EXCEPT ![o][r] = n], UNCHANGED <<brk, routerVars>>,
             row[o].state # "NONE" => row'[o].state # "NONE",
             \/ n.at = "idle"
             \/ /\ row[o].state # "NONE" /\ n.copy.state = "CANCELLED" /\ n.copy.filled < Qty
                /\ Backed(n.copy, brk[o]) /\ (n.copy.bid => pc[o] = "done")
      PROVE  \A s \in Requests : RequestKnows(o, s)'
  <2> SUFFICES ASSUME NEW s \in Requests PROVE RequestKnows(o, s)'
    OBVIOUS
  <2>1. CASE s = r
    BY <1>b, <1>c, <2>1 DEF RequestKnows, Backed, routerVars
  <2>2. CASE s # r
    BY <1>a, <1>b, <1>c, <2>2 DEF RequestKnows, Backed, routerVars
  <2> QED
    BY <2>1, <2>2
<1>d. ASSUME NEW n, req' = [req EXCEPT ![o][r] = n], Unfilled(o),
             row'[o].filled = 0, n.copy.filled = 0
      PROVE  Unfilled(o)'
  BY <1>b, <1>d DEF Unfilled
<1>2. CASE CancelRead(o, r)
  <2> DEFINE c == [row[o] EXCEPT !.state = "CANCELLED"]
  <2> DEFINE n == [at |-> "read", base |-> NoEntity, copy |-> c]
  <2>1. /\ req' = [req EXCEPT ![o][r] = n] /\ UNCHANGED <<table, routerVars, monVars, emitted>>
        /\ row[o].state # "NONE" /\ MayMove(row[o].state, "CANCELLED")
    BY <1>2 DEF CancelRead
  <2>2. c \in Entity /\ c.state = "CANCELLED" /\ c.filled = row[o].filled /\ c.bid = row[o].bid
    BY <1>a, Constants DEF Entity
  <2> HIDE DEF c
  <2>3. n.copy = c
    OBVIOUS
  <2>4. row[o].state \notin {"FILLED", "CANCELLED"}
    BY <1>a, <2>1, Constants DEF MayMove, Successors, Entity
  <2>5. row[o].filled < Qty
    <3>1. row[o].filled \in 0..Qty /\ row[o].filled # Qty
      BY <1>a, <2>4 DEF FillSettled, Overridden, Entity
    <3> QED
      BY <3>1, Constants
  <2>6. Backed(c, brk[o]) /\ (c.bid => pc[o] = "done")
    BY <1>a, <2>2 DEF Backed, RowKnown
  <2> HIDE DEF n
  <2>7. \A s \in Requests : RequestKnows(o, s)'
    BY <1>c, <2>1, <2>2, <2>3, <2>5, <2>6 DEF table
  <2>8. Unfilled(o) => Unfilled(o)'
    BY <1>d, <2>1, <2>2, <2>3 DEF Unfilled, table
  <2> QED
    BY <1>a, <2>1, <2>7, <2>8, CancelStep DEF table, routerVars, monVars, RowKnown
<1>3. CASE CancelLoad(o, r)
  <2> DEFINE n == [req[o][r] EXCEPT !.at = "saving", !.base = row[o]]
  <2>1. UNCHANGED <<table, routerVars, monVars, emitted>> /\ q.at = "read"
    BY <1>3 DEF CancelLoad
  <2>2. n.copy = q.copy
    BY DEF TypeOK, Request
  <2>3. req' = [req EXCEPT ![o][r] = n] \/ req' = [req EXCEPT ![o][r] = NoRequest]
    BY <1>3 DEF CancelLoad
  <2>4. NoRequest.at = "idle" /\ NoRequest.copy.filled = 0
    BY DEF NoRequest, NoEntity
  <2> HIDE DEF n
  <2>5. \A s \in Requests : RequestKnows(o, s)'
    BY <1>a, <1>c, <2>1, <2>2, <2>3, <2>4 DEF table, RequestKnows
  <2>6. Unfilled(o) => Unfilled(o)'
    BY <1>d, <2>1, <2>2, <2>3, <2>4 DEF Unfilled, table
  <2>7. row[o].state # "NONE"
    BY <1>a, <2>1 DEF RequestKnows
  <2> QED
    BY <1>a, <2>1, <2>5, <2>6, <2>7, CancelStep DEF table, routerVars, monVars, RowKnown
<1>4. CASE CancelCommit(o, r)
  <2>1. /\ Commit(o, q.base, q.copy) \/ CommitRaises(o, q.base, q.copy)
        /\ req' = [req EXCEPT ![o][r] = NoRequest]
        /\ UNCHANGED <<brk, routerVars, monVars, emitted>> /\ q.at = "saving"
    BY <1>4 DEF CancelCommit
  <2>2. /\ row[o].state # "NONE" /\ q.copy.state = "CANCELLED" /\ q.copy.filled < Qty
        /\ Backed(q.copy, brk[o]) /\ (q.copy.bid => pc[o] = "done")
    BY <1>a, <2>1 DEF RequestKnows
  <2> DEFINE m == Merged(row[o], q.base, q.copy)
  <2>3. row'[o] = row[o] \/ row'[o] = m
    BY <1>a, <2>1, CommitRow DEF TypeOK, CommitRaises
  <2>4. /\ m.state = row[o].state \/ m.state = "CANCELLED"
        /\ m.bid => pc[o] = "done"
        /\ m.filled = row[o].filled \/ m.filled = q.copy.filled
        /\ Backed(m, brk[o])
    <3>1. Backed(m, brk[o])
      BY <1>a, <2>2, MergedBacked DEF RowKnown
    <3>2. /\ m.state \in {row[o].state, q.copy.state}
          /\ m.bid = row[o].bid \/ m.bid = q.copy.bid
          /\ m.filled \in {row[o].filled, q.copy.filled}
      BY <1>a, MergedEntity
    <3> HIDE DEF m
    <3> QED
      BY <1>a, <2>2, <3>1, <3>2 DEF RowKnown
  <2> HIDE DEF m
  <2>5. /\ Backed(row'[o], brk[o]) /\ (row'[o].bid => pc[o] = "done")
        /\ row'[o].state = row[o].state \/ row'[o].state = "CANCELLED"
        /\ row'[o].filled = row[o].filled \/ row'[o].filled = q.copy.filled
    BY <1>a, <2>3, <2>4 DEF RowKnown
  <2>6. NoRequest.at = "idle" /\ NoRequest.copy.filled = 0
    BY DEF NoRequest, NoEntity
  <2>7. \A s \in Requests : RequestKnows(o, s)'
    BY <1>c, <2>1, <2>2, <2>5, <2>6
  <2>8. Unfilled(o) => Unfilled(o)'
    BY <1>d, <2>1, <2>5, <2>6 DEF Unfilled
  <2>9. row'[o].filled = Qty => row[o].filled = Qty
    <3>1. q.copy.filled # Qty
      BY <1>a, <2>2, Constants DEF Entity
    <3> QED
      BY <2>5, <3>1
  <2> QED
    BY <1>a, <2>1, <2>2, <2>5, <2>7, <2>8, <2>9, CancelStep DEF routerVars, monVars
<1> QED
  BY <1>1, <1>2, <1>3, <1>4

--------------------------------------------------------------------------------
\* Starting a poll lists only orders that the router is through with.
LEMMA InvPollStart ==
  ASSUME TypeOK, \A o \in Orders : OrderInv(o), PollStart
  PROVE  \A o \in Orders : OrderInv(o)'
<1> SUFFICES ASSUME NEW o \in Orders PROVE OrderInv(o)'
  OBVIOUS
<1>a. OrderInv(o) /\ UNCHANGED <<table, routerVars, report, monMem, monBase, req, emitted>>
  BY DEF PollStart
<1>1. CASE o \in Pollable
  <2>1. monPc[o] = "idle" /\ monPc'[o] = "listed" /\ row[o].bid
        /\ row[o].state \in {"SUBMITTED", "OPEN", "PARTIALLY_FILLED"}
    BY <1>1 DEF PollStart, Pollable, Monitorable
  <2>2. pc[o] = "done" /\ brk[o].status # "NONE"
    BY <1>a, <2>1 DEF OrderInv, RowKnown, Backed
  <2>3. MonitorKnows(o)'
    BY <1>a, <2>1, <2>2 DEF MonitorKnows, table, routerVars
  <2>4. RowKnown(o)'
    BY <1>a DEF OrderInv, RowKnown, Backed, Unfilled, table, routerVars
  <2>5. FillSettled(o)'
    BY <1>a, <2>1 DEF OrderInv, FillSettled, Overridden, table
  <2> QED
    BY <1>a, <2>1, <2>2, <2>3, <2>4, <2>5, MonitorStep DEF table, routerVars
<1>2. CASE o \notin Pollable
  BY <1>2, <1>a, Frame DEF TypeOK, PollStart, Untouched, table, routerVars
<1> QED
  BY <1>1, <1>2

\* A crash takes the tasks; what the table and the broker hold stays consistent.
LEMMA InvCrash ==
  ASSUME TypeOK, \A o \in Orders : OrderInv(o), Crash
  PROVE  \A o \in Orders : OrderInv(o)'
<1> SUFFICES ASSUME NEW o \in Orders PROVE OrderInv(o)'
  OBVIOUS
<1>a. /\ pc'[o] = IF pc[o] = "new" THEN "new" ELSE "done"
      /\ mem'[o] = NoEntity /\ base'[o] = NoEntity
      /\ monPc'[o] = "idle" /\ report'[o] = NoBrokerOrder
      /\ row'[o] = row[o] /\ brk'[o] = brk[o] /\ emitted'[o] = emitted[o]
      /\ \A r \in Requests : req'[o][r] = NoRequest
  BY DEF Crash, table
<1>b. /\ NoEntity.filled = 0 /\ ~NoEntity.bid /\ NoRequest.at = "idle"
      /\ NoRequest.copy.filled = 0
  BY DEF NoEntity, NoRequest
<1>c. (Unfilled(o) => Unfilled(o)') /\ (Overridden(o)' <=> Overridden(o))
  BY <1>a, <1>b DEF Unfilled, Overridden
<1>d. OrderInv(o)
  OBVIOUS
<1>1. BrokerConsistent(brk[o])' /\ MonitorKnows(o)'
  BY <1>a, <1>d DEF OrderInv, BrokerConsistent, MonitorKnows
<1>2. RowKnown(o)'
  BY <1>a, <1>c, <1>d DEF OrderInv, RowKnown, Backed, NoEntity
<1>3. RouterKnows(o)'
  BY <1>a, <1>b, <1>c, <1>d DEF OrderInv, RouterKnows
<1>4. \A r \in Requests : RequestKnows(o, r)'
  BY <1>a, <1>b DEF RequestKnows
<1>5. FillSettled(o)'
  BY <1>a, <1>c, <1>d DEF OrderInv, FillSettled
<1> QED
  BY <1>1, <1>2, <1>3, <1>4, <1>5 DEF OrderInv

\* One step of one order keeps the invariant of all of them.
LEMMA InvOrderStep ==
  ASSUME IInv, TypeOK', NEW o \in Orders, OrderTask(o)
  PROVE  \A p \in Orders : OrderInv(p)'
<1>1. OrderInv(o)'
  BY InvRouter, InvBroker, InvMonitor, InvCancel DEF IInv, OrderTask
<1>2. ASSUME NEW p \in Orders, p # o PROVE OrderInv(p)'
  BY <1>2, OthersUntouched, Frame DEF IInv
<1> QED
  BY <1>1, <1>2

\* One step keeps every variable in its type.
LEMMA TypeStep == TypeOK /\ [Next]_vars => TypeOK'
<1> SUFFICES ASSUME TypeOK, [Next]_vars PROVE TypeOK'
  OBVIOUS
<1>1. CASE \E o \in Orders : OrderTask(o)
  BY <1>1, TypeRouter, TypeBroker, TypeMonitor, TypeCancel DEF OrderTask
<1>2. CASE PollStart
  BY <1>2 DEF PollStart, TypeOK, MonitorPc, table, routerVars
<1>3. CASE Crash
  BY <1>3, Constants DEF Crash, TypeOK, MonitorPc, RouterPc, table
<1>4. CASE UNCHANGED vars
  BY <1>4 DEF vars, TypeOK, table, routerVars, monVars
<1> QED
  BY <1>1, <1>2, <1>3, <1>4 DEF Next

\* The invariant holds before any order exists.
LEMMA InvariantInit == Init => IInv
BY TypeInit, InvInit DEF IInv

\* The invariant is inductive.
LEMMA InvariantStep == IInv /\ [Next]_vars => IInv'
<1> SUFFICES ASSUME IInv, [Next]_vars PROVE IInv'
  OBVIOUS
<1>1. TypeOK'
  BY TypeStep DEF IInv
<1>2. CASE \E o \in Orders : OrderTask(o)
  BY <1>1, <1>2, InvOrderStep DEF IInv
<1>3. CASE PollStart
  BY <1>1, <1>3, InvPollStart DEF IInv
<1>4. CASE Crash
  BY <1>1, <1>4, InvCrash DEF IInv
<1>5. CASE UNCHANGED vars
  BY <1>1, <1>5, Frame DEF IInv, Untouched, vars, table, routerVars, monVars
<1> QED
  BY <1>2, <1>3, <1>4, <1>5 DEF Next

\* Every reachable state satisfies the inductive invariant: copies and loaded rows
\* may be stale, but no task ever holds or stores more than the broker has done.
THEOREM Invariance == Spec => []IInv
BY InvariantInit, InvariantStep, PTL DEF Spec

\* Type correctness: rows are orders of the state machine, quantities in range.
THEOREM TypeCorrect == Spec => []TypeOK
BY TypeInit, TypeStep, PTL DEF Spec

\* Persistence-first: no failure, crash or cancel leaves an order at the broker
\* without a row that is past PENDING.
THEOREM PersistenceFirst == Spec => []PersistedBeforeBroker
<1>1. IInv => PersistedBeforeBroker
  BY DEF IInv, OrderInv, RowKnown, PersistedBeforeBroker
<1> QED
  BY <1>1, Invariance, PTL

\* The fills the table claims were made by the broker, though a row may combine
\* the columns of two tasks' saves.
THEOREM FillsBacked == Spec => []FillsAreReal
<1>1. IInv => FillsAreReal
  BY DEF IInv, OrderInv, RowKnown, Backed, FillSettled, Overridden, FillsAreReal
<1> QED
  BY <1>1, Invariance, PTL

\* A REJECTED row hides no exposure.
THEOREM RejectionsBacked == Spec => []RejectionsAreReal
<1>1. IInv => RejectionsAreReal
  BY DEF IInv, OrderInv, RowKnown, Backed, RejectionsAreReal
<1> QED
  BY <1>1, Invariance, PTL

\* No fill is announced twice.
THEOREM AnnouncedOnce == Spec => []OneFillEvent
<1>1. IInv => OneFillEvent
  BY DEF IInv, OrderInv, FillSettled, OneFillEvent
<1> QED
  BY <1>1, Invariance, PTL

\* Without cancel requests an announced fill stays FILLED in the table.
THEOREM AnnouncedIsFilled == ASSUME Requests = {} PROVE Spec => []FillEventMeansFilled
<1>1. IInv => FillEventMeansFilled
  <2> SUFFICES ASSUME IInv, NEW o \in Orders, emitted[o] > 0
               PROVE  row[o].state = "FILLED"
    BY DEF FillEventMeansFilled
  <2>1. emitted[o] \in Nat /\ emitted[o] <= 1
    BY DEF IInv, TypeOK, OrderInv, FillSettled
  <2>2. emitted[o] = 1
    BY <2>1
  <2> QED
    BY <2>2 DEF IInv, OrderInv, FillSettled, Overridden
<1> QED
  BY <1>1, Invariance, PTL

--------------------------------------------------------------------------------
(***************************************************************************)
(* The table refines the order ledger.                                     *)
(***************************************************************************)
\* The ledger's view of the table.
View == [o \in Orders |-> [state |-> row[o].state, filled |-> row[o].filled]]

\* The ledger lets an order in row r become the row n.
Follows(r, n) ==
  \/ r.state = "NONE" /\ n.state = "PENDING" /\ n.filled = 0
  \/ /\ r.state \in OrderState
     /\ n.state \in Ledger!StoredMoves(r.state)
     /\ n.filled \in Ledger!FilledIn(n.state, r.filled)
  \/ /\ Requests # {} /\ r.state \in OrderState
     /\ n.state \in {r.state, "CANCELLED"}
     /\ n.filled \in 0..(Qty - 1) \cup {r.filled}
  \/ /\ Requests # {} /\ r.state = "CANCELLED"
     /\ n.state \in Ledger!UnderWay
     /\ n.filled \in Ledger!FilledIn(n.state, 0)

\* Committing a row that the ledger lets an order become is a step of the ledger.
LEMMA CommitIsLedgerStep ==
  ASSUME TypeOK, NEW o \in Orders, NEW b \in Entity, NEW e \in Entity, Commit(o, b, e),
         Follows(row[o], row'[o])
  PROVE  Ledger!LedgerNext
<1> DEFINE n == row'[o]
<1>1. View' = [View EXCEPT ![o] = [state |-> n.state, filled |-> n.filled]]
  BY CommitRow DEF TypeOK, View
<1>2. View[o].state = row[o].state /\ View[o].filled = row[o].filled
  BY DEF View
<1>3. Ledger!OrderState = OrderState
  BY DEF Ledger!OrderState, Ledger!Terminal, OrderState, Terminal
<1>0. Follows(row[o], n)
  OBVIOUS
<1> HIDE DEF n
<1>4. CASE row[o].state = "NONE" /\ n.state = "PENDING" /\ n.filled = 0
  <2>1. Ledger!Enter(o)
    BY <1>1, <1>2, <1>4 DEF Ledger!Enter, View
  <2> QED
    BY <2>1 DEF Ledger!LedgerNext
<1>5. CASE /\ row[o].state \in OrderState
           /\ n.state \in Ledger!StoredMoves(row[o].state)
           /\ n.filled \in Ledger!FilledIn(n.state, row[o].filled)
  <2>1. Ledger!Advance(o)
    BY <1>1, <1>2, <1>3, <1>5 DEF Ledger!Advance, View
  <2> QED
    BY <2>1 DEF Ledger!LedgerNext
<1>6. CASE /\ Requests # {} /\ row[o].state \in OrderState
           /\ n.state \in {row[o].state, "CANCELLED"}
           /\ n.filled \in 0..(Qty - 1) \cup {row[o].filled}
  <2>1. Ledger!Override(o)
    BY <1>1, <1>2, <1>3, <1>6 DEF Ledger!Override, View
  <2> QED
    BY <2>1 DEF Ledger!LedgerNext
<1>7. CASE /\ Requests # {} /\ row[o].state = "CANCELLED"
           /\ n.state \in Ledger!UnderWay
           /\ n.filled \in Ledger!FilledIn(n.state, 0)
  <2>1. Ledger!Revive(o)
    BY <1>1, <1>2, <1>7 DEF Ledger!Revive, View
  <2> QED
    BY <2>1 DEF Ledger!LedgerNext
<1> QED
  BY <1>0, <1>4, <1>5, <1>6, <1>7 DEF Follows

\* What a task leaves in a row that is where it found it or is cancelled.
LEMMA TurnFollows ==
  ASSUME NEW r \in Entity, NEW n \in Entity, NEW s \in OrderState,
         \/ r.state = s /\ r.filled = 0
         \/ Requests # {} /\ r.state = "CANCELLED",
         n.state \in Ledger!StoredMoves(s) \cap Ledger!UnderWay,
         n.filled \in Ledger!FilledIn(n.state, 0)
  PROVE  Follows(r, n)
BY DEF Follows

\* The columns of the row after a commit.
LEMMA Committed ==
  ASSUME TypeOK, NEW o \in Orders, NEW b \in Entity, NEW e \in Entity, Commit(o, b, e)
  PROVE  /\ row'[o] \in Entity
         /\ row'[o].state = IF e.state = b.state THEN row[o].state ELSE e.state
         /\ row'[o].filled = IF e.filled = b.filled THEN row[o].filled ELSE e.filled
<1>1. row[o] \in Entity /\ row'[o] = Merged(row[o], b, e)
  BY CommitRow DEF TypeOK
<1> QED
  BY <1>1, MergedEntity

\* A step of the router that stores a row is a step of the ledger.
LEMMA RouterRefines ==
  ASSUME IInv, NEW o \in Orders, Router(o)
  PROVE  Ledger!LedgerNext \/ UNCHANGED View
<1>a. /\ row[o] \in Entity /\ mem[o] \in Entity /\ base[o] \in Entity
      /\ RouterKnows(o) /\ TypeOK
  BY DEF IInv, TypeOK, OrderInv
<1>1. CASE UNCHANGED row
  BY <1>1 DEF View
<1>2. CASE Create(o) /\ Commit(o, NoEntity, Created)
  <2>1. Created \in Entity /\ Created.state = "PENDING" /\ Created.filled = 0
    BY Constants, EntityUpdate DEF Created, NoEntity
  <2>2. row[o] = NoEntity
    BY <1>2, <1>a DEF Create, RouterKnows
  <2>3. row'[o].state = "PENDING" /\ row'[o].filled = 0
    BY <1>a, <1>2, <2>1, <2>2, Committed, Constants DEF NoEntity
  <2>4. Follows(row[o], row'[o])
    BY <2>2, <2>3 DEF Follows, NoEntity
  <2> QED
    BY <1>a, <1>2, <2>1, <2>4, CommitIsLedgerStep, Constants
<1>b. ASSUME NEW s \in OrderState, row[o].state = s \/ Overridden(o), pc[o] # "done",
             Commit(o, base[o], mem[o]), mem[o].state # base[o].state,
             mem[o].state \in {"SUBMITTING", "SUBMITTED", "REJECTED_PRE_SUBMIT"},
             mem[o].state \in Ledger!StoredMoves(s)
      PROVE  Ledger!LedgerNext
  <2>1. row[o].filled = 0 /\ mem[o].filled = 0
    BY <1>a, <1>b DEF RouterKnows, Unfilled
  <2>2. row'[o] \in Entity /\ row'[o].state = mem[o].state /\ row'[o].filled = 0
    BY <1>a, <1>b, <2>1, Committed
  <2>3. /\ row'[o].state \in Ledger!UnderWay
        /\ row'[o].filled \in Ledger!FilledIn(row'[o].state, 0)
    BY <1>b, <2>2 DEF Ledger!UnderWay, Ledger!FilledIn
  <2>4. Follows(row[o], row'[o])
    BY <1>a, <1>b, <2>1, <2>2, <2>3, TurnFollows DEF Overridden
  <2> QED
    BY <1>a, <1>b, <2>4, CommitIsLedgerStep
<1>c. /\ "SUBMITTING" \in Ledger!StoredMoves("PENDING")
      /\ {"SUBMITTED", "REJECTED_PRE_SUBMIT"} \subseteq Ledger!StoredMoves("SUBMITTING")
      /\ {"PENDING", "SUBMITTING"} \subseteq OrderState
  BY Constants DEF Ledger!StoredMoves, Ledger!Successors, Ledger!OrderState, Ledger!Terminal
<1>3. CASE CommitSubmission(o) /\ Commit(o, base[o], mem[o])
  <2>1. /\ pc[o] = "submitting" /\ mem[o].state = "SUBMITTING"
        /\ base[o].state \in {"PENDING", "CANCELLED"}
        /\ row[o].state = "PENDING" \/ Overridden(o)
    BY <1>a, <1>3 DEF CommitSubmission, RouterKnows
  <2> QED
    BY <1>b, <1>c, <1>3, <2>1
<1>4. CASE CommitOutcome(o) /\ Commit(o, base[o], mem[o])
  <2>1. /\ pc[o] = "storing" /\ mem[o].state \in {"SUBMITTED", "REJECTED_PRE_SUBMIT"}
        /\ base[o].state \in {"SUBMITTING", "CANCELLED"}
        /\ row[o].state = "SUBMITTING" \/ Overridden(o)
    BY <1>a, <1>4 DEF CommitOutcome, RouterKnows
  <2> QED
    BY <1>b, <1>c, <1>4, <2>1
<1> QED
  BY <1>1, <1>2, <1>3, <1>4
     DEF Router, Create, LoadForRouting, StartSubmission, CommitSubmission,
       SubmissionRefused, BrokerAccept, BrokerRefuse, ReplyLost, ConfirmSubmitted,
       RejectPreSubmit, CommitOutcome, RouterSaves, CommitRaises, table

\* A step of the monitor that stores a row is a step of the ledger.
LEMMA MonitorRefines ==
  ASSUME IInv, NEW o \in Orders, Monitor(o)
  PROVE  Ledger!LedgerNext \/ UNCHANGED View
<1>a. /\ row[o] \in Entity /\ monMem[o] \in Entity /\ monBase[o] \in Entity
      /\ MonitorKnows(o) /\ TypeOK
  BY DEF IInv, TypeOK, OrderInv
<1>1. CASE UNCHANGED row
  BY <1>1 DEF View
<1>2. /\ {"REJECTED", "PARTIALLY_FILLED", "FILLED"} \subseteq Ledger!StoredMoves("SUBMITTED")
      /\ "FILLED" \in Ledger!StoredMoves("PARTIALLY_FILLED")
      /\ {"REJECTED", "PARTIALLY_FILLED", "FILLED"} \subseteq Ledger!UnderWay
      /\ {"SUBMITTED", "PARTIALLY_FILLED"} \subseteq OrderState
  BY Constants DEF Ledger!StoredMoves, Ledger!Successors, Ledger!OrderState,
    Ledger!Terminal, Ledger!UnderWay
<1>3. CASE CommitFill(o) /\ Commit(o, monBase[o], monMem[o])
  <2>1. /\ monMem[o].state = "FILLED" /\ monMem[o].filled = Qty
        /\ monBase[o].state # "FILLED" /\ monBase[o].filled # Qty
        /\ row[o].state \in {"SUBMITTED", "PARTIALLY_FILLED"} \/ Overridden(o)
    BY <1>a, <1>3, Constants DEF CommitFill, MonitorKnows, Entity
  <2>2. row'[o].state = "FILLED" /\ row'[o].filled = Qty
    BY <1>a, <1>3, <2>1, Committed
  <2>3. \A q : row'[o].filled \in Ledger!FilledIn(row'[o].state, q)
    BY <2>2 DEF Ledger!FilledIn
  <2>4. Follows(row[o], row'[o])
    BY <1>2, <2>1, <2>2, <2>3 DEF Follows, Overridden
  <2> QED
    BY <1>a, <1>3, <2>4, CommitIsLedgerStep
<1>4. CASE CommitReport(o) /\ Commit(o, monBase[o], monMem[o])
  <2>1. /\ \/ monMem[o].state = "PARTIALLY_FILLED" /\ monMem[o].filled \in 1..(Qty - 1)
           \/ monMem[o].state = "REJECTED" /\ monMem[o].filled = 0
        /\ monBase[o].state \in {"SUBMITTED", "CANCELLED"} /\ monBase[o].filled = 0
        /\ row[o].filled = 0
        /\ row[o].state = "SUBMITTED" \/ Overridden(o)
    BY <1>a, <1>4 DEF CommitReport, MonitorKnows, Unfilled
  <2>2. /\ row'[o] \in Entity /\ row'[o].state = monMem[o].state
        /\ row'[o].filled = monMem[o].filled
    BY <1>a, <1>4, <2>1, Committed
  <2>3. row'[o].filled \in Ledger!FilledIn(row'[o].state, 0)
    BY <2>1, <2>2 DEF Ledger!FilledIn
  <2>4. Follows(row[o], row'[o])
    BY <1>a, <1>2, <2>1, <2>2, <2>3, TurnFollows DEF Overridden
  <2> QED
    BY <1>a, <1>4, <2>4, CommitIsLedgerStep
<1> QED
  BY <1>1, <1>3, <1>4
     DEF Monitor, Apply, Store, Fetch, FetchFails, LoadForReport, ApplyFill, ApplyPartial,
       ApplyRejection, ApplyNothing, CommitFill, CommitReport, PublishFilled,
       MonitorSaves, CommitRaises, table

\* A cancel request that stores some columns of its copy overrides the row.
LEMMA CancelRefines ==
  ASSUME IInv, NEW o \in Orders, Cancel(o)
  PROVE  Ledger!LedgerNext \/ UNCHANGED View
<1>1. PICK r \in Requests : CancelRead(o, r) \/ CancelLoad(o, r) \/ CancelCommit(o, r)
  BY DEF Cancel
<1>2. CASE UNCHANGED row
  BY <1>2 DEF View
<1>3. CASE CancelCommit(o, r) /\ Commit(o, req[o][r].base, req[o][r].copy)
  <2> DEFINE b == req[o][r].base
  <2> DEFINE e == req[o][r].copy
  <2>1. b \in Entity /\ e \in Entity /\ row[o] \in Entity /\ TypeOK
    BY DEF IInv, TypeOK, Request
  <2>2. e.state = "CANCELLED" /\ e.filled < Qty /\ row[o].state # "NONE"
    BY <1>3 DEF CancelCommit, IInv, OrderInv, RequestKnows
  <2>3. Commit(o, b, e)
    BY <1>3
  <2> HIDE DEF b, e
  <2>4. /\ row'[o].state \in {row[o].state, "CANCELLED"}
        /\ row'[o].filled \in {row[o].filled, e.filled}
    BY <2>1, <2>2, <2>3, Committed
  <2>5. row[o].state \in OrderState /\ e.filled \in 0..(Qty - 1)
    BY <2>1, <2>2, Constants DEF Entity
  <2>6. Follows(row[o], row'[o])
    BY <2>4, <2>5 DEF Follows
  <2> QED
    BY <2>1, <2>3, <2>6, CommitIsLedgerStep
<1> QED
  BY <1>1, <1>2, <1>3 DEF CancelRead, CancelLoad, CancelCommit, CommitRaises, table

\* A step that stores a row is a step of the ledger, any other one a stutter.
LEMMA RefineStep ==
  ASSUME IInv, [Next]_vars
  PROVE  Ledger!LedgerNext \/ UNCHANGED View
<1>1. ASSUME NEW o \in Orders, Broker(o) PROVE UNCHANGED View
  BY <1>1 DEF Broker, BrokerFill, BrokerReject, BrokerCancel, View
<1>2. CASE PollStart \/ Crash \/ UNCHANGED vars
  BY <1>2 DEF PollStart, Crash, vars, table, View
<1> QED
  BY <1>1, <1>2, RouterRefines, MonitorRefines, CancelRefines DEF Next, OrderTask

\* The rows follow the order ledger, whatever fails and whoever cancels: every
\* stored row is reached along the state machine and rests once terminal, but
\* for the columns a cancel request overrides and what a task saves over a
\* cancelled row.
THEOREM LedgerImplemented == Spec => LedgerRefined
<1>1. Init => Ledger!LedgerInit
  BY DEF Init, Ledger!LedgerInit, NoEntity
<1>2. IInv /\ [Next]_vars => [Ledger!LedgerNext]_View
  BY RefineStep
<1>3. Spec => []IInv
  BY Invariance
<1> QED
  BY <1>1, <1>2, <1>3, PTL DEF Spec, LedgerRefined, Ledger!LedgerSpec, View

================================================================================
