-------------------------- MODULE ReconciliationProofs --------------------------
(***************************************************************************)
(* Proofs about the desk - order tasks, position consumer, reconciliation  *)
(* run - for every set of orders and foreign ids, every quantity, every    *)
(* set of faults, any number of cancel requests, and whatever names the    *)
(* sessions go by.  The order tasks keep their invariant IInv in this      *)
(* company because nothing else writes their variables.                    *)
(***************************************************************************)
EXTENDS Reconciliation, OrderLifecycleProofs

--------------------------------------------------------------------------------
\* A step of the desk is a step of the order tasks or leaves them alone.
LEMMA OrdersMove == DeskNext => [Next]_vars
BY DEF DeskNext, OrderStep, Next

\* What the broker holds only grows.
LEMMA BrokerGrows ==
  ASSUME IInv, [Next]_vars, NEW o \in Orders
  PROVE  /\ brk[o].filled \in Nat /\ brk'[o].filled \in Nat
         /\ brk[o].filled <= brk'[o].filled
         /\ brk[o].status # "NONE" => brk'[o].status # "NONE"
<1> USE QtyAssumption DEF IInv, TypeOK
<1>1. brk[o] \in BrokerOrder /\ brk'[o] \in BrokerOrder
  BY InvariantStep
<1>2. brk[o].filled \in Nat /\ brk'[o].filled \in Nat
  BY <1>1 DEF BrokerOrder
<1>3. CASE brk' = brk
  BY <1>2, <1>3
<1>4. CASE \E p \in Orders : OrderTask(p)
  <2>1. PICK p \in Orders : Router(p) \/ Broker(p) \/ Monitor(p) \/ Cancel(p)
    BY <1>4 DEF OrderTask
  <2>2. CASE BrokerAccept(p)
    <3>1. brk[p].status = "NONE"
      BY <2>2 DEF BrokerAccept, OrderInv, RouterKnows
    <3>2. brk[p].filled = 0
      BY <3>1 DEF OrderInv, BrokerConsistent
    <3> QED
      BY <1>2, <2>2, <3>1, <3>2 DEF BrokerAccept
  <2>3. CASE BrokerFill(p)
    <3>1. PICK n \in 1..(Qty - brk[p].filled) :
            brk' = [brk EXCEPT ![p] =
                      [status |-> IF brk[p].filled + n = Qty THEN "COMPLETE" ELSE "OPEN",
                       filled |-> brk[p].filled + n]]
      BY <2>3 DEF BrokerFill
    <3>2. CASE p = o
      <4>1. brk'[o].filled = brk[o].filled + n /\ brk'[o].status \in {"COMPLETE", "OPEN"}
        BY <3>1, <3>2
      <4> QED
        BY <1>2, <4>1
    <3>3. CASE p # o
      BY <1>2, <3>1, <3>3
    <3> QED
      BY <3>2, <3>3
  <2>6. CASE BrokerReject(p) \/ BrokerCancel(p)
    <3>1. /\ brk[p].status = "OPEN"
          /\ \E s \in {"REJECTED", "CANCELLED"} : brk' = [brk EXCEPT ![p].status = s]
      BY <2>6 DEF BrokerReject, BrokerCancel
    <3>2. PICK s \in {"REJECTED", "CANCELLED"} : brk' = [brk EXCEPT ![p].status = s]
      BY <3>1
    <3>3. brk'[o].filled = brk[o].filled /\ (brk'[o].status = brk[o].status \/ brk'[o].status = s)
      BY <1>1, <3>2 DEF BrokerOrder
    <3> QED
      BY <1>2, <3>2, <3>3
  <2>4. CASE Router(p) /\ ~BrokerAccept(p)
    BY <1>3, <2>4 DEF Router, Create, LoadForRouting, StartSubmission, CommitSubmission,
      SubmissionRefused, BrokerRefuse, ReplyLost, ConfirmSubmitted, RejectPreSubmit,
      CommitOutcome, RouterSaves, table
  <2>5. CASE Monitor(p) \/ Cancel(p)
    BY <1>3, <2>5 DEF Monitor, Fetch, FetchFails, LoadForReport, Apply, ApplyFill,
      ApplyPartial, ApplyRejection, ApplyNothing, Store, CommitFill, CommitReport,
      PublishFilled, MonitorSaves, Cancel, CancelRead, CancelLoad, CancelCommit, table
  <2> QED
    BY <2>1, <2>2, <2>3, <2>4, <2>5, <2>6 DEF Broker
<1>5. CASE PollStart \/ Crash \/ UNCHANGED vars
  BY <1>3, <1>5 DEF PollStart, Crash, vars, table
<1> QED
  BY <1>4, <1>5 DEF Next

\* An announcement is new only when the broker has completed the order.
LEMMA Announcements ==
  ASSUME IInv, [Next]_vars, NEW o \in Orders,
         emitted[o] > 0 \/ monPc[o] = "publishing" => brk[o].filled = Qty
  PROVE  /\ emitted[o] <= emitted'[o]
         /\ emitted'[o] > 0 \/ monPc'[o] = "publishing" => brk'[o].filled = Qty
<1>1. IInv' /\ brk[o].filled <= brk'[o].filled
  BY InvariantStep, BrokerGrows
<1> USE QtyAssumption DEF IInv, TypeOK
<1>2. brk[o].filled \in 0..Qty /\ brk'[o].filled \in 0..Qty
  BY <1>1 DEF BrokerOrder
<1>3. emitted[o] \in Nat /\ emitted'[o] \in Nat
  BY <1>1
<1>4. brk[o].filled = Qty => brk'[o].filled = Qty
  <2>1. brk[o].filled <= brk'[o].filled
    BY <1>1
  <2> QED
    BY ONLY <1>2, <2>1, QtyAssumption
<1>5. SUFFICES
        /\ emitted[o] <= emitted'[o]
        /\ \/ /\ emitted'[o] > 0 => emitted[o] > 0 \/ monPc[o] = "publishing"
              /\ monPc'[o] = "publishing" => monPc[o] = "publishing"
           \/ brk'[o].filled = Qty
  BY <1>4
<1>6. CASE \E p \in Orders : OrderTask(p)
  <2>1. PICK p \in Orders : Router(p) \/ Broker(p) \/ Monitor(p) \/ Cancel(p)
    BY <1>6 DEF OrderTask
  <2>2. CASE Router(p) \/ Broker(p) \/ Cancel(p)
    <3>1. UNCHANGED <<monPc, emitted>>
      BY ONLY <2>2 DEF Router, Create, LoadForRouting, StartSubmission, CommitSubmission,
        SubmissionRefused, BrokerAccept, BrokerRefuse, ReplyLost, ConfirmSubmitted,
        RejectPreSubmit, CommitOutcome, RouterSaves, Broker, BrokerFill, BrokerReject,
        BrokerCancel, Cancel, CancelRead, CancelLoad, CancelCommit, monVars
    <3> QED
      BY <1>3, <3>1
  <2>3. CASE CommitFill(p)
    <3>1. CASE p = o
      <4>1. brk[o].status = "COMPLETE"
        BY <2>3, <3>1 DEF CommitFill, OrderInv, MonitorKnows, Backed
      <4>2. brk[o].filled = Qty
        BY <4>1 DEF OrderInv, BrokerConsistent
      <4> QED
        BY <1>3, <1>4, <2>3, <4>2 DEF CommitFill
    <3>2. CASE p # o
      BY <1>3, <2>3, <3>2 DEF CommitFill, MonitorDone
    <3> QED
      BY <3>1, <3>2
  <2>4. CASE PublishFilled(p)
    BY <1>3, <2>4 DEF PublishFilled, MonitorDone
  <2>5. CASE Monitor(p) /\ ~CommitFill(p) /\ ~PublishFilled(p)
    BY <1>3, <2>5 DEF Monitor, Fetch, FetchFails, LoadForReport, Apply, ApplyFill,
      ApplyPartial, ApplyRejection, ApplyNothing, Store, CommitReport, MonitorSaves,
      MonitorDone
  <2> QED
    BY <2>1, <2>2, <2>3, <2>4, <2>5
<1>7. CASE PollStart \/ Crash \/ UNCHANGED vars
  BY <1>3, <1>7 DEF PollStart, Crash, vars, monVars
<1> QED
  BY <1>6, <1>7 DEF Next

--------------------------------------------------------------------------------
(***************************************************************************)
(* Type correctness of what the desk adds.                                 *)
(***************************************************************************)
\* The states a run lists, spelled out for the provers.
LEMMA Listing ==
  NonTerminal = {"PENDING", "SUBMITTING", "SUBMITTED", "OPEN", "PARTIALLY_FILLED"}
BY Constants DEF NonTerminal, Terminal

\* A run begins and ends with an empty result.
LEMMA ResultType == NothingFound \in Result
BY DEF Result, NothingFound

\* The position consumer keeps its types.
LEMMA BookTypeStep ==
  ASSUME TypeOK, BookTypeOK, BookNext
  PROVE  BookTypeOK'
<1> USE QtyAssumption DEF BookTypeOK
<1>1. PICK o \in Orders : TakeFilled(o) \/ LoadFilled(o) \/ OpenPosition(o)
  BY DEF BookNext
<1>2. CASE TakeFilled(o)
  BY <1>2 DEF TakeFilled
<1>3. CASE LoadFilled(o)
  <2>1. row[o].filled \in 0..Qty
    BY DEF TypeOK, Entity
  <2> QED
    BY <1>3, <2>1 DEF LoadFilled, HandlerDone
<1>4. CASE OpenPosition(o)
  <2>1. held[o] + size[o] \in Nat
    OBVIOUS
  <2> QED
    BY <1>4, <2>1 DEF OpenPosition, HandlerDone
<1> QED
  BY <1>1, <1>2, <1>3, <1>4

\* A step of a run keeps the types.
LEMMA RunTypeStep ==
  ASSUME TypeOK, DeskTypeOK, RunStep, UNCHANGED <<bookVars, dayVars>>
  PROVE  DeskTypeOK'
<1>1. BookTypeOK'
  BY DEF DeskTypeOK, BookTypeOK, bookVars
<1>2. past' \subseteq Orders /\ terminal' \subseteq Foreign /\ session' \in BOOLEAN
  BY DEF DeskTypeOK, dayVars
<1> USE ResultType DEF DeskTypeOK, Stages, Goto
<1>3. CASE StartRun
  BY <1>1, <1>2, <1>3 DEF StartRun
<1>4. CASE ReadState
  <2>1. \A o \in Orders : row[o].bid \in BOOLEAN
    BY DEF TypeOK, Entity
  <2>2. listed' \subseteq Orders \X BOOLEAN
    <3>1. PICK s \in unread :
            listed' = listed \cup {<<o, row[o].bid>> : o \in {p \in Orders : row[p].state = s}}
      BY <1>4 DEF ReadState
    <3>2. {<<o, row[o].bid>> : o \in {p \in Orders : row[p].state = s}}
            \subseteq Orders \X BOOLEAN
      <4>1. \A o \in Orders : <<o, row[o].bid>> \in Orders \X BOOLEAN
        BY <2>1
      <4> QED
        BY <4>1, Zenon
    <3> QED
      BY <3>1, <3>2
  <2>3. unread' \subseteq NonTerminal
    BY <1>4 DEF ReadState
  <2> QED
    BY <1>1, <1>2, <1>4, <2>2, <2>3 DEF ReadState
<1>5. CASE AllRead
  <2>1. stage' \in {"held", "book"}
    BY <1>5 DEF AllRead
  <2>2. unread' = {}
    BY <1>5 DEF AllRead
  <2> QED
    BY <1>1, <1>2, <1>5, <2>1, <2>2 DEF AllRead
<1>6. CASE AskBook
  <2>1. Tracked \ Book \in SUBSET Orders
    BY DEF Tracked
  <2>2. found' \in Result
    <3>1. [found EXCEPT !.missing = Tracked \ Book] \in Result
      BY <2>1 DEF Result
    <3> QED
      BY <1>6, <3>1 DEF AskBook
  <2>3. stage' \in {"held", "complete"} /\ unread' = {} /\ seen' \subseteq Orders
    BY <1>6 DEF AskBook
  <2> QED
    BY <1>1, <1>2, <1>6, <2>2, <2>3 DEF AskBook
<1>7. CASE ReadPositions
  BY <1>1, <1>2, <1>7 DEF ReadPositions
<1>8. CASE AskHoldings
  <2>1. found' \in Result
    <3>1. found \in Result /\ seen \in SUBSET Orders
      OBVIOUS
    <3>2. [found EXCEPT !.orphans = seen] \in Result
      BY <3>1 DEF Result
    <3> QED
      BY <1>8, <3>1, <3>2 DEF AskHoldings
  <2> QED
    BY <1>1, <1>2, <1>8, <2>1 DEF AskHoldings, ToFills
<1>9. CASE ReconcileFills
  BY <1>1, <1>2, <1>9 DEF ReconcileFills
<1>10. CASE Over
  BY <1>1, <1>2, <1>10 DEF Over
<1> QED
  BY <1>3, <1>4, <1>5, <1>6, <1>7, <1>8, <1>9, <1>10 DEF RunStep, Unreadable,
    QueryFails, Complete

\* Every step of the desk keeps the types.
LEMMA DeskTypeStep ==
  ASSUME TypeOK, DeskTypeOK, [DeskNext]_deskVars
  PROVE  DeskTypeOK'
<1> USE DEF DeskTypeOK
<1>1. CASE OrderStep \/ UNCHANGED deskVars
  BY <1>1 DEF OrderStep, deskVars, bookVars, dayVars, runVars, BookTypeOK, Tracked
<1>2. CASE BookNext /\ UNCHANGED <<vars, dayVars, runVars>>
  BY <1>2, BookTypeStep DEF dayVars, runVars
<1>3. CASE (PlaceForeign \/ NewDay \/ Login \/ Expire) /\ UNCHANGED <<vars, bookVars, runVars>>
  <2>1. past' \subseteq Orders /\ terminal' \subseteq Foreign /\ session' \in BOOLEAN
    BY <1>3 DEF PlaceForeign, NewDay, Login, Expire
  <2> QED
    BY <1>3, <2>1 DEF bookVars, runVars, BookTypeOK
<1>4. CASE RunStep /\ UNCHANGED <<vars, bookVars, dayVars>>
  BY <1>4, RunTypeStep
<1>5. CASE Crash /\ BookCrash /\ Over /\ UNCHANGED dayVars
  <2>1. BookTypeOK'
    BY <1>5, QtyAssumption DEF BookCrash, BookTypeOK
  <2> QED
    BY <1>5, <2>1, ResultType DEF Over, Goto, Stages, dayVars
<1> QED
  BY <1>1, <1>2, <1>3, <1>4, <1>5 DEF DeskNext

--------------------------------------------------------------------------------
(***************************************************************************)
(* Positions.                                                              *)
(***************************************************************************)
\* The consumer's own steps keep its invariant: the one message about an order
\* finds no position and leaves at most the order's quantity.
LEMMA BookInvStep ==
  ASSUME IInv, BookTypeOK, NEW o \in Orders, BookInv(o), BookNext, UNCHANGED vars
  PROVE  BookInv(o)'
<1>1. /\ emitted[o] \in Nat /\ emitted[o] <= 1
      /\ emitted' = emitted /\ monPc' = monPc /\ brk' = brk
  BY DEF IInv, TypeOK, OrderInv, FillSettled, vars, table, monVars
<1>2. PICK p \in Orders : TakeFilled(p) \/ LoadFilled(p) \/ OpenPosition(p)
  BY DEF BookNext
<1> USE DEF BookTypeOK, BookInv, HandlerDone
<1>3. CASE TakeFilled(p)
  BY <1>1, <1>3 DEF TakeFilled
<1>4. CASE LoadFilled(p)
  BY <1>1, <1>4 DEF LoadFilled
<1>5. CASE OpenPosition(p)
  <2>1. CASE p = o
    <3>1. at[o] = "loaded" /\ size[o] \in 0..Qty
      BY <1>5, <2>1 DEF OpenPosition
    <3>2. taken[o] = 1 /\ emitted[o] = 1 /\ held[o] = 0
      BY <1>1, <3>1
    <3>3. brk[o].filled = Qty
      BY <3>2
    <3>4. held'[o] = held[o] + size[o] \/ held'[o] = held[o]
      BY <1>5, <2>1 DEF OpenPosition
    <3>5. held'[o] <= Qty
      BY <3>1, <3>2, <3>4, QtyAssumption
    <3> QED
      BY <1>1, <1>5, <2>1, <3>2, <3>3, <3>5 DEF OpenPosition
  <2>2. CASE p # o
    BY <1>1, <1>5, <2>2 DEF OpenPosition
  <2> QED
    BY <2>1, <2>2
<1> QED
  BY <1>2, <1>3, <1>4, <1>5

\* A step of the orders keeps it too, when the consumer stands still or dies.
LEMMA BookInvFrame ==
  ASSUME IInv, BookTypeOK, NEW o \in Orders, BookInv(o), [Next]_vars,
         UNCHANGED <<taken, held>>, at'[o] = at[o] \/ at'[o] = "idle"
  PROVE  BookInv(o)'
<1>1. emitted[o] <= emitted'[o] /\ brk[o].filled <= brk'[o].filled
  BY Announcements, BrokerGrows DEF BookInv
<1>2. emitted'[o] > 0 \/ monPc'[o] = "publishing" => brk'[o].filled = Qty
  BY Announcements DEF BookInv
<1>3. /\ emitted[o] \in Nat /\ emitted'[o] \in Nat
      /\ brk[o].filled \in Nat /\ brk'[o].filled \in Nat
  BY InvariantStep, BrokerGrows DEF IInv, TypeOK
<1>4. taken[o] \in Nat /\ held[o] \in Nat
  BY DEF BookTypeOK
<1> QED
  BY <1>1, <1>2, <1>3, <1>4 DEF BookInv

--------------------------------------------------------------------------------
(***************************************************************************)
(* The run.                                                                *)
(***************************************************************************)
\* Only an order the broker has taken is read with an id.
LEMMA TrackedAtBroker ==
  ASSUME IInv, NEW o \in Orders, row[o].bid
  PROVE  brk[o].status # "NONE"
BY DEF IInv, OrderInv, RowKnown, Backed

\* A run's own steps: what it reads is so, and stays so until it reports.
LEMMA RunInvStep ==
  ASSUME IInv, DeskTypeOK, \A o \in Orders : BookInv(o), RunInv, RunStep,
         UNCHANGED <<vars, bookVars, dayVars>>
  PROVE  RunInv'
<1>1. brk' = brk /\ held' = held /\ past' = past
  BY DEF vars, table, bookVars, dayVars
<1>2. \A o \in Orders : held[o] > 0 => brk[o].filled > 0
  <2>1. \A o \in Orders : brk[o].filled \in Nat /\ held[o] \in Nat
    BY QtyAssumption DEF IInv, TypeOK, BrokerOrder, DeskTypeOK, BookTypeOK
  <2> QED
    BY <2>1 DEF BookInv
<1> USE DEF RunInv, MissingIsMissing, OrphansAreOrphans
<1>3. CASE StartRun
  BY <1>1, <1>3 DEF StartRun, Tracked
<1>4. CASE ReadState
  <2>1. \A o \in Tracked' : o \in Tracked \/ row[o].bid
    <3>1. PICK s \in unread :
            listed' = listed \cup {<<o, row[o].bid>> : o \in {p \in Orders : row[p].state = s}}
      BY <1>4 DEF ReadState
    <3> QED
      BY <3>1 DEF Tracked
  <2>2. \A o \in Tracked' : brk[o].status # "NONE"
    BY <2>1, TrackedAtBroker DEF Tracked
  <2> QED
    BY <1>1, <1>4, <2>2 DEF ReadState
<1>5. CASE AllRead
  BY <1>1, <1>5 DEF AllRead, Tracked
<1>6. CASE AskBook
  <2>1. Tracked \ Book \subseteq past
    BY DEF Book, Tracked
  <2>2. Tracked' = {}
    BY <1>6 DEF AskBook, Tracked
  <2>3. found \in Result
    BY DEF DeskTypeOK
  <2>4. found'.missing \subseteq past /\ found'.orphans \subseteq past
    BY <1>6, <2>1, <2>3 DEF AskBook, Result
  <2> QED
    BY <1>1, <1>6, <2>2, <2>4 DEF AskBook
<1>7. CASE ReadPositions
  BY <1>1, <1>7 DEF ReadPositions, Tracked
<1>8. CASE AskHoldings
  <2>1. Traded = {} => seen \subseteq past
    BY <1>2 DEF Traded, DeskTypeOK
  <2>2. found \in Result
    BY DEF DeskTypeOK
  <2>3. found'.missing \subseteq past /\ found'.orphans \subseteq past
    BY <1>8, <2>1, <2>2 DEF AskHoldings, Result
  <2> QED
    BY <1>1, <1>8, <2>3 DEF AskHoldings, ToFills, Tracked
<1>9. CASE ReconcileFills
  BY <1>1, <1>9 DEF ReconcileFills, Tracked
<1>10. CASE Over
  BY <1>1, <1>10 DEF Over, Tracked, NothingFound
<1> QED
  BY <1>3, <1>4, <1>5, <1>6, <1>7, <1>8, <1>9, <1>10 DEF RunStep, Unreadable,
    QueryFails, Complete

\* While the run waits, orders and positions only add to what it has read, and
\* the end of the day turns everything at the broker into the past.
LEMMA RunInvFrame ==
  ASSUME IInv, DeskTypeOK, RunInv, [Next]_vars, UNCHANGED runVars,
         \A o \in Orders : held[o] > 0 => held'[o] > 0,
         past' = past \/ past' = {o \in Orders : brk[o].status # "NONE"}
  PROVE  RunInv'
<1>1. \A o \in Orders : brk[o].status # "NONE" => brk'[o].status # "NONE"
  BY BrokerGrows
<1>2. past \subseteq past' /\ past' \subseteq Orders
  BY DEF RunInv, DeskTypeOK
<1>3. Tracked' = Tracked
  BY DEF runVars, Tracked
<1> QED
  BY <1>1, <1>2, <1>3 DEF RunInv, MissingIsMissing, OrphansAreOrphans, runVars,
    DeskTypeOK, Tracked

--------------------------------------------------------------------------------
(***************************************************************************)
(* The theorems.                                                           *)
(***************************************************************************)
\* The desk starts without orders, positions or runs.
LEMMA DeskInvInit == DeskInit => DeskInv
<1> SUFFICES ASSUME DeskInit PROVE DeskInv
  OBVIOUS
<1>1. IInv
  BY InvariantInit DEF DeskInit
<1>2. DeskTypeOK
  <2>1. BookTypeOK
    BY QtyAssumption DEF DeskInit, BookInit, BookTypeOK
  <2> QED
    BY <2>1, ResultType DEF DeskInit, DeskTypeOK, Stages
<1>3. \A o \in Orders : BookInv(o)
  <2>1. \A o \in Orders : brk[o].filled = 0 /\ emitted[o] = 0 /\ monPc[o] = "idle"
    BY DEF DeskInit, Init, NoBrokerOrder
  <2> QED
    BY <2>1 DEF DeskInit, BookInit, BookInv
<1>4. RunInv
  BY DEF DeskInit, RunInv, MissingIsMissing, OrphansAreOrphans, NothingFound, Tracked
<1> QED
  BY <1>1, <1>2, <1>3, <1>4 DEF DeskInv

\* The desk's invariant is inductive.
LEMMA DeskInvStep == DeskInv /\ [DeskNext]_deskVars => DeskInv'
<1> SUFFICES ASSUME DeskInv, [DeskNext]_deskVars PROVE DeskInv'
  OBVIOUS
<1>1. [Next]_vars
  BY OrdersMove DEF deskVars
<1>2. IInv'
  BY <1>1, InvariantStep DEF DeskInv
<1>3. DeskTypeOK'
  BY DeskTypeStep DEF DeskInv, IInv
<1>4. BookTypeOK /\ \A o \in Orders : held[o] \in Nat /\ size[o] \in Nat
  BY QtyAssumption DEF DeskInv, DeskTypeOK, BookTypeOK
<1>5. CASE OrderStep \/ UNCHANGED deskVars
  <2>1. UNCHANGED <<taken, at, held, past>> /\ UNCHANGED runVars
    BY <1>5 DEF OrderStep, deskVars, bookVars, dayVars
  <2>2. \A o \in Orders : BookInv(o)'
    BY <1>1, <1>4, <2>1, BookInvFrame DEF DeskInv
  <2>3. RunInv'
    BY <1>1, <2>1, RunInvFrame DEF DeskInv
  <2> QED
    BY <1>2, <1>3, <2>2, <2>3 DEF DeskInv
<1>6. CASE BookNext /\ UNCHANGED <<vars, dayVars, runVars>>
  <2>1. \A o \in Orders : BookInv(o)'
    BY <1>4, <1>6, BookInvStep DEF DeskInv
  <2>2. \A o \in Orders : held[o] > 0 => held'[o] > 0
    BY <1>4, <1>6 DEF BookNext, TakeFilled, LoadFilled, OpenPosition, BookTypeOK
  <2>3. RunInv'
    BY <1>1, <1>6, <2>2, RunInvFrame DEF DeskInv, dayVars
  <2> QED
    BY <1>2, <1>3, <2>1, <2>3 DEF DeskInv
<1>7. CASE (PlaceForeign \/ NewDay \/ Login \/ Expire) /\ UNCHANGED <<vars, bookVars, runVars>>
  <2>1. UNCHANGED <<taken, at, held>>
    BY <1>7 DEF bookVars
  <2>2. \A o \in Orders : BookInv(o)'
    BY <1>1, <1>4, <2>1, BookInvFrame DEF DeskInv
  <2>3. RunInv'
    BY <1>1, <1>7, <2>1, RunInvFrame DEF DeskInv, PlaceForeign, NewDay, Login, Expire
  <2> QED
    BY <1>2, <1>3, <2>2, <2>3 DEF DeskInv
<1>8. CASE RunStep /\ UNCHANGED <<vars, bookVars, dayVars>>
  <2>1. UNCHANGED <<taken, at, held>>
    BY <1>8 DEF bookVars
  <2>2. \A o \in Orders : BookInv(o)'
    BY <1>1, <1>4, <2>1, BookInvFrame DEF DeskInv
  <2>3. RunInv'
    BY <1>8, RunInvStep DEF DeskInv
  <2> QED
    BY <1>2, <1>3, <2>2, <2>3 DEF DeskInv
<1>9. CASE Crash /\ BookCrash /\ Over /\ UNCHANGED dayVars
  <2>1. UNCHANGED <<taken, held, past>> /\ \A o \in Orders : at'[o] = "idle"
    BY <1>9 DEF BookCrash, dayVars
  <2>2. \A o \in Orders : BookInv(o)'
    BY <1>1, <1>4, <2>1, BookInvFrame DEF DeskInv
  <2>3. \A o \in past' : brk'[o].status # "NONE"
    BY <1>1, <2>1, BrokerGrows DEF DeskInv, RunInv, DeskTypeOK
  <2>4. RunInv'
    BY <1>9, <2>3 DEF Over, RunInv, MissingIsMissing, OrphansAreOrphans, NothingFound,
      Tracked
  <2> QED
    BY <1>2, <1>3, <2>2, <2>4 DEF DeskInv
<1> QED
  BY <1>5, <1>6, <1>7, <1>8, <1>9 DEF DeskNext

\* Every reachable state of the desk satisfies its invariant, and with it that
\* of the order tasks.
THEOREM DeskInvariance == DeskSpec => []DeskInv
BY DeskInvInit, DeskInvStep, PTL DEF DeskSpec

\* Type correctness of the consumer and the run, whose result is empty before
\* it compares anything.
THEOREM DeskTypeCorrect == DeskSpec => []DeskTypeOK
<1>1. DeskInv => DeskTypeOK
  BY DEF DeskInv
<1> QED
  BY <1>1, DeskInvariance, PTL

\* No fault, redelivery or cancel makes the OMS hold more than the broker has
\* filled.
THEOREM PositionsBacked == DeskSpec => []PositionsAreBacked
<1>1. DeskInv => PositionsAreBacked
  BY DEF DeskInv, BookInv, PositionsAreBacked
<1> QED
  BY <1>1, DeskInvariance, PTL

\* An order is reported missing only when the broker's book of the day lacks it.
THEOREM MissingReported == DeskSpec => []MissingIsMissing
<1>1. DeskInv => MissingIsMissing
  BY DEF DeskInv, RunInv
<1> QED
  BY <1>1, DeskInvariance, PTL

\* A position is reported as an orphan only when the broker's day has none.
THEOREM OrphansReported == DeskSpec => []OrphansAreOrphans
<1>1. DeskInv => OrphansAreOrphans
  BY DEF DeskInv, RunInv
<1> QED
  BY <1>1, DeskInvariance, PTL
================================================================================
