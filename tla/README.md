# Verification of the trading core of StockSignalAnalyzer

TLA+ models, TLC runs and TLAPS proofs about the part of this program that turns
a pattern in the market into an approved signal, the signal into an order at a
broker, and keeps track of what becomes of it. Paths below are relative to the repository; `core/` stands for
`src/src/core/`, and line numbers are in `PROJECT.json`.

Run a model with `tlc -config <name>.cfg MC<module>`, and check the proofs with
`tlapm <module>Proofs.tla`.

## 1. Inventory

The program is one asyncio process (FastAPI lifespan in `src/src/app.py`) with
PostgreSQL and Redis beside it and a broker behind an API. Everything below runs
on one event loop: two steps of two tasks never run at the same instant, but
every `await` is a point where another task, a crash or a failure may come in.

| Part | State it keeps | Operations | Correct when |
|---|---|---|---|
| Order entity (`domain/entities/order.py`, `domain/enums/order_state.py`) | state, broker order id, filled quantity | transitions of the order state machine | terminal states are final, fills grow to the quantity |
| Order router (`oms/order_router_service.py`) | its copy of the order | save SUBMITTING, call the broker, save the outcome | no broker order without a row saved before |
| Execution monitor (`broker/broker_execution_monitor_service.py`, `oms/execution_monitor_service.py`) | reports of the poll, copies of orders | list, fetch all reports, apply one by one, publish fills | the table claims nothing the broker did not do; each fill is announced once |
| Orders table and cancel endpoint (`database/repositories/order_repository.py`, `api/v1/routers/order_router.py`) | rows | get, save (loads the row, then writes the columns that differ from it), cancel | what two overlapping saves leave behind is still true of the broker |
| OMS intake (`oms/order_management_service.py`, `cache/order_cache_repository.py`, `pipeline_event_handler.py`) | idempotency keys (Redis), rate limiter (memory) | TTL, idempotency, kill switch, rate limit, persist, route | no more orders per signal than keys that expire, nothing past a pulled switch, the rate is kept |
| Kill switch (`kill_switch_service.py`, `dead_mans_switch_service.py`, `auto_kill_switch_service.py`) | a Redis hash, an audit table, events | activate, deactivate, startup deactivation, watchdogs | audit and events tell what the switch did |
| Execution lock (`execution_lock_service.py`) | a Redis hash | lock, unlock, set mode, seed | orders blocked while locked or MANUAL, across restarts |
| Event bus (`infrastructure/events/redis_event_bus.py`) | streams, cursors, pending entries, dead letters | publish, read, handle, acknowledge, bury | nothing is acknowledged unhandled, handlers see events once and in order |
| Positions and exits (`pipeline_event_handler.py`, `oms/position_manager_service.py`, `oms/exit_manager_service.py`) | positions | open on fill; the exit paths exist and are never reached | nothing is held that the broker did not fill |
| Reconciliation (`oms/reconciliation_service.py`, `broker/broker_reconciliation_service.py`) | the result of a run | read orders, book, positions, holdings, trades, and compare | what it reports is so, whatever moves while it reads |
| Signal scanner (`signal_scanner_service.py`, `risk_manager_service.py`, `signal_outcome_tracker_service.py`) | outcomes of signals | ask the risk manager, scan symbols side by side, gates before and after the engine, record, track | nothing is approved past a gate or a limit |
| Signal engine and expiry (`signal_engine_service.py`, `signal/signal_deduplication_service.py`, `signal_expiry_worker.py`, `market_close_exit_service.py`) | signals table, dedup keys | deduplicate, decide, persist, publish, register; expire and announce | the table precedes the stream; an expired row and a good message never go together |
| Risk engine (`risk_engine_service.py`, `domain/risk`) | an asyncio lock; reads of Redis hashes | queue, read, check, size, insert, publish, park | no approval without its audit row, none on a switch that is known to be on |
| Portfolio monitor (`portfolio_monitor_service.py`) | the tier of the graduated response | read the account, store the tier, tell | tiers only rise, and are told as stored |
| Capital allocation, portfolios, risk profiles | tables with one active row | deactivate all, save | one row is active |
| Broker retry (`broker/broker_retry_service.py`, `broker/execution_guard_service.py`) | attempts, in-flight guard | no caller in the order path | - |
| Market data, WebSocket, universe, option chain | quotes and snapshots | poll, reconnect | reconnects resume subscriptions |
| Scoring, regime, strategies, confidence | none | floating-point analytics | - |
| Research, reporting, AI, news, REST, auth, frontend | tables and views | read-only or external calls | - |

How they interact: the scanner, every five minutes and on request, hands
patterns to the signal engine, which asks the risk engine, stores the signal and
publishes `SignalRiskApproved`; the consumer task of `oms.signal_risk_approved`
runs the intake and then the router for one message at a time; the monitor loop
polls the broker every two seconds and publishes `OrderFilled`; the consumer of
`oms.order_filled` opens positions. Beside them run the reconciliation loop, the
expiry worker and the market close exit, the portfolio monitor and the tracker of
outcomes, and HTTP handlers cancel orders, toggle the kill switch and start
scans. Tasks share tables (no row version, no lock), Redis keys and the broker.

What is hard here: copies of an order held across awaits and saved column by column
over what others have written meanwhile;
answers of the broker, Redis or the database that are lost after the command was
carried out; a crash between any two of save, broker call, save and publish;
reports that are older than the row they are applied to; read-then-write on the
kill switch and on the dedup key; a count taken once for a cycle that runs for
minutes; two services that expire the same rows; a lock released on every way
out; a run that compares reads made at different times; keys and memory that die
before what they guard; messages that are read and never read again.
`PROJECT.json` lists each at its line under `hazards`, with the properties aimed
at it.

## 2. Plan

Done, in this order:

1. `OrderStates`, `OrderLifecycle`, `OrderLedger`: order rows between router,
   monitor, cancel endpoint, broker and crash; abstract ledger and refinement.
2. `OmsIntake`: from message to order: idempotency, switch, rate, clock, crash.
3. `KillSwitch`: concurrent activation, audit, events, restart.
4. `EventBus`, `OrderedDelivery`: the consumer loop and what it promises.
5. `PositionBook`, `Reconciliation`: fills to positions, and the run that
   compares all of it with the broker. Both extend `OrderLifecycle`: the run
   is checked against orders that move under it.
6. `RiskChecks`, `RiskEngine`, `PortfolioMonitor`, `RiskSystem`: the checks as
   operators, the engine around them, the monitor, and the two together.
7. `SignalPipeline`: scan, engine, expiry and close.
8. Proofs of every safety property of 1 to 7, of the two refinements, and of
   what the operators of the risk checks compute.

Left:

- `ActiveRow`, for capital allocations, portfolios and risk profiles: `activate`
  reads, deactivates all rows and saves one, in separate awaits
  (`capital_allocation_service.py:80-86`, `risk_profile_service.py:97-103`). Two
  overlapping activations should leave two active rows and a crash between the
  last two none. It stands by itself, off the order path.
- `ExecutionLock`: single HSETs and a seed at start; little to check beyond the
  gate that `OmsIntake` already has.
- Exits, once the code can reach them (see section 4): sibling cancels, the
  trailing stop, and "a position is closed once".
- The bus between `SignalPipeline` and `OmsIntake` in one specification. What
  joins them now is `ExpiredIsRefused` on one side and `ValidFor` on the other.

## 3. Modules and the code

**OrderStates** is the transition table of `order_state.py`; the other order
modules extend it.

**OrderLifecycle**. `row` is the table, `brk` the broker's order book (external:
modelled from how the adapters map Kite statuses to reports), `pc`/`mem`/`base` the
router, its copy and the row its save has loaded, `monPc`/`report`/`monMem`/`monBase`
the monitor's poll, `req[o][r]` a cancel request. `save` (`order_repository.py:109-127`)
is two steps wherever it is called: `session.get` loads the row, and the commit writes
those columns in which the caller's copy differs from what was loaded (`Merged`).
Between the two another task may commit, and the row then has columns of both: a
cancel that loaded a partly filled row before the monitor's FILLED commit leaves
CANCELLED with the whole quantity filled. An action is the code between two awaits:
`Create` (an INSERT), `LoadForRouting`, `StartSubmission` (transition, and the load of
its save), `CommitSubmission`, `BrokerAccept` / `BrokerRefuse` / `ReplyLost` (the broker
call), `ConfirmSubmitted` / `RejectPreSubmit`, `CommitOutcome`; `PollStart`, `Fetch`,
`FetchFails`, `LoadForReport`, `ApplyFill` / `ApplyPartial` / `ApplyRejection` /
`ApplyNothing` (the handlers of `process_execution_report` with their early returns),
`CommitFill`, `CommitReport`, `PublishFilled`; `CancelRead`, `CancelLoad`,
`CancelCommit`; `Crash`. A load may fail, and a commit that raises may have been
carried out. Orders of one consumer are handled one after another, but exit orders
come from the fill consumer, so two orders do interleave. After a crash a message whose
handling had begun is not read again (`EventBus` shows why).

**OrderLedger** is what the orders table promises whoever writes it.
`LedgerRefined` states that `OrderLifecycle` implements it, with the row's state
and filled quantity as the ledger. The monitor passes SUBMITTED orders through
OPEN in memory, so a stored step may be two steps of the table. What operators do to
the promise is part of it (`Overrides`): the commit of a cancel request may write
CANCELLED over any state, an older quantity, or both (`Override`), and a task at work
on the order may save over a CANCELLED row (`Revive`); nothing else leaves a terminal
state or skips one.

**OmsIntake**. `job` is the message the consumer handles and how far it has come,
`key` the idempotency keys with their expiry, `recent` the limiter's timestamps,
`killed` the switch, `orders` the rows in order of insertion, `copies` the unread
messages. The execution lock, the portfolio heat gate and the size multiplier
come before the OMS and can only stop a message, so `Take` has them as one
choice. The TTL check and the SET NX it leads to are one step: time is in ticks
that are long against a Redis round trip. All later steps may be any time apart.
Two variables are history: `slipped` counts the orders routed past a pulled switch,
`unseen` holds the rows the limiter cannot know of (their save raised after its
commit, or the process that stored them has died).

**KillSwitch**. Each task of `Operators` is an HTTP request in `activate` or
`deactivate`; `Startup` is the lifespan task, which runs `deactivate` before any
request is served. `Read`, `Write`, `Audit`, `Publish` are the awaits of both
calls. A Redis or database error may come after the command was carried out.
The watchdogs beside it (`DeadMansSwitchService`, `AutoKillSwitchService`) only
log at their thresholds and so have no action here.

**EventBus**. A message is its position in the stream; the batch in hand is
`head..cursor`. `Handle`, `Ack`, `Bury`, `AckDead` are the awaits of
`_handle_message`, with the except branch as the code has it: a failed XACK of a
handled entry goes to the dead letters too, and a failure there drops the rest
of the batch. **OrderedDelivery** is what that leaves the handlers with: each
message at most once, in order.

**PositionBook** adds the consumer of `OrderFilled` to the orders: `taken` counts
the messages read, `at`/`size` are the handler and what it has read, `held` the
positions. Opening is all there is: `open_position` passes no stop price, so
`place_stop_loss_order` returns at once, no exit order exists and no position is
ever closed.

**Reconciliation** adds the run: `stage` and `unread` say where it stands,
`listed` and `seen` what it has read, `found` its result. The OMS orders are read
state by state, the broker's book after them; in between orders move, are filled,
and the process may die. `NewDay` and `PlaceForeign` are what the broker does by
itself: its lists are the day's, and hold orders of the account's own terminal.
A run needs a broker session under the name the service was built with: `StoredAs` is
the name under which logins store theirs (`Login`, `Expire`), `AskedFor` the name the
service looks for. As the container wires them they differ, and no run ever starts
(`recon_without_run`); all that is said of a run is said of the service's code, as it
would behave with the name that logins use.
`Unreadable` is the AttributeError with which a run ends as soon as the broker
lists a position or a trade.

**RiskChecks** is the pure part: the checks of `risk_limit_checker` in their
order, and the sizer, in integers (comparisons of quotients are multiplied out,
float rounding is left out). Checks whose data the code never has are written as
the code has them, with what `getattr` answers: the VIX, the monthly loss and the
list of positions. **RiskEngine** puts a call around them: `line` is the lock with
its queue, `switch` and `data` what the holder has read so far, each hash at a time of
its own and in any order, and `Refuse` every early return. When all is read, `Judge` is
the checks and the sizer. The tier, which `gather` reads as well, only goes into the
wording of the decision: a read of it that fails is among `GatherFails`, and its value
is left out. `Reseed` is what the seeder does to the hashes at each start. **PortfolioMonitor** is the cycle
that stores and tells the tier; **RiskSystem** composes both with restarts. The
pollers of the account and the portfolio are external: the code names them and
does not have them.

**SignalPipeline**. `task[<<c, y>>]` is symbol `y` of the cycle of scan `c`; its
steps are the awaits of `process` that matter to others: the verdict and the row,
the publish, the registration, and the scanner's gates afterwards. `Abandon` is
the 30-second timeout or an exception, at any of them, with the command perhaps
carried out. `rows` is the signals table, `published` what `OmsIntake` will be
given, `dedup` the keys, `outcome` the column the risk manager counts. `sweep`
holds the two services that expire rows. Time is in minutes. A symbol may wait at
`start` for its turn in the cycle for as long as it takes; the 30 seconds and the
check of the time of day begin with its turn, which is the step `Score`, and from
then on it is done within a tick.

`MC*` modules only name sets of faults, inputs and symmetry for TLC. Definitions marked
"Mutant of" in a module are deliberately wrong variants of one definition; no
specification uses them. They are the evidence that a property can fail.

## 4. Runs

Passing runs:

| Run | Instance | Shows |
|---|---|---|
| `order_faults` | 1 order of 4 units, 3 cancel requests at a time, every fault | an order at the broker has a row past PENDING; fills and rejections in the table are the broker's, and a whole quantity filled is FILLED or CANCELLED; at most one `OrderFilled` per order; rows refine the ledger with the overrides of cancels |
| `order_live` | 2 orders of 3 units, all faults but crash, no cancels | rows refine the ledger without overrides; an announced fill is a FILLED row; a completed, monitored broker order becomes FILLED |
| `intake_once` | 2 signals of 2 ticks, 3 copies each, keys of 1 tick, crash and failing saves, 5 instants | a signal makes no more orders than keys can follow one another while it is good |
| `intake_limits` | 2 signals, 2 copies each, limit 1 per 2 ticks, every fault | one order at most slips past a pulled switch; a signal makes no more orders than copies of it were published; the rate holds for the rows the limiter can know of |
| `switch_faults` | 2 operators, restarts, every fault, 3 changes | events have audit rows, rows have writes; repeats bounded by overlapping requests |
| `bus_faults` | 5 messages in batches of 2, every fault | ordered delivery at most once; an acknowledged entry was handled or dead-lettered; no entry holds up the topic |
| `desk_faults` | 2 orders, 1 foreign order, days, sessions under the name asked for, failing polls and tables, crashes | no position beyond the broker's fills; an order reported missing is of an earlier day, a position reported orphaned too |
| `risk_engine` | 2 callers, 2 calls, 2 losses, every fault, restarts | approvals are in the audit table first; and are of a size within the limit; one approval at most is stale; tiers are told in order; one call decides at a time, and the lock is never left with a call that is over; a call that waits for the lock ends |
| `signals_faults` | 2 scans, 5 signals, 1 failure, a day of 3 ticks | the row precedes the stream; a pattern has one live approval for each scan at most, and as many again for a failure; open positions exceed their limit by no more than overlaps and failures; nothing is carried over; expired rows are refused by the OMS; an expiry is announced no more often than there are services |

Runs that end in a counterexample compare the code with what a document, a
comment or a docstring says of it; `findings` quotes each line.

| Run | Counterexample |
|---|---|
| `order_poll_without_session` | `poll_and_process(session=None)`: every poll fails, nothing is recorded |
| `recon_without_run` | the container builds the reconciliation with the trading mode, 'live', as broker name, logins store their sessions as 'kite': with a session that lasts, no run ever starts |
| `signal_gated` | a gate of the scanner drops a signal the engine has already approved and published |

Other places where the code and its documents differ, met while modelling and
visible in the models' actions, each with its line.

Orders and intake:

- `order_router_service.py:11` says "Fail-closed: if the broker is unavailable, no
  order exists at the exchange." When the broker's answer is lost, the row is
  REJECTED_PRE_SUBMIT and the order works (`:84`): `ReplyLost`.
- `docs/22_OMS_DESIGN.md:58` has PARTIALLY_FILLED -> CANCELLED. The report of a
  cancelled remainder counts as a partial fill without a price
  (`execution_monitor_service.py:187`), and the row never ends.
- `save` writes the columns in which a copy differs from the row it has just loaded,
  and compares no versions (`order_repository.py:111`): a router or monitor revives a
  row an operator has cancelled, a cancel request takes back the fills that its copy
  does not have, and one that races a fill leaves a CANCELLED row with the whole
  quantity: `Revive` and `Override` of `OrderLedger`.
- The cancel endpoint does not tell the broker (`order_router.py:119` of the API).
- A crash between the FILLED save and `OrderFilled` loses the event, since a FILLED
  row is not polled again (`execution_monitor_service.py:150`); so `OneFillEvent`
  says at most once, not exactly once.
- PARTIALLY_FILLED has no transition to itself, so a second partial fill is refused
  (`order.py:129`): `ApplyNothing`.
- `config/oms.yaml:7` says the idempotency key "covers signal_id reuse"; it lives
  300 seconds and a signal 15 minutes. `OneOrder` needs `ValidFor <= KeyTtl`; as
  configured, `OrdersFollowKeys` allows three.
- The idempotency command fails open (`order_cache_repository.py:55`); the claim is
  never given the order's id, since the second command is a SET NX as well
  (`order_management_service.py:213`): `ClaimUnanswered`, `Record`. Without keys
  every copy of a good signal may make an order; `OrdersFromCopies` says no more.
- A restart empties the rate limiter (`order_management_service.py:83`), and a row
  whose save raised is never recorded: `RateHolds` does not count these rows
  (`unseen`). A window may hold `MaxOrders` for each process that ran in it.

Kill switch and bus:

- Two overlapping activations both write, audit and publish
  (`kill_switch_service.py:65`), and overlapping calls may store their audit rows in
  the other order: `RepeatsBounded` and `AnnouncedIsAudited` are what remains of
  "idempotent" and "persisted in both". Every start deactivates the switch
  (`app.py:209`).
- `redis_event_bus.py:119` promises at-least-once delivery; the loop reads `>` only
  (`:202`), so what was read and not acknowledged before a crash is never read again.
- One failure of a handler makes a dead letter; `max_retries` is never read
  (`redis_event_bus.py:232`).

Positions and reconciliation:

- `exit_manager_service.py:4` places a stop-loss "immediately after position opens";
  none is ever placed, so positions never close. A failed `open_position` leaves a
  filled order without a position, which nothing retries: `OpenPosition`.
- `BrokerPosition` has no `instrument_token` and `BrokerTrade` no `exchange_trade_id`,
  which the comparisons read, so a run FAILS as soon as the broker lists either;
  the unit test sets the attribute itself (`test_reconciliation_service.py:91`). A
  FAILED run drops what it had found. Mismatches of quantity and price and missing
  fills are thus never reported.
- `docs/22_OMS_DESIGN.md:195` and `OPERATIONS.md:177` have the kill switch activated
  by a rogue order; the activation is disabled. With no open OMS order the book is
  not fetched at all, and a real rogue order goes unseen. Broker holdings without
  an OMS position are not looked for.
- No run starts: beside the name of the session (`recon_without_run`), the manual
  endpoint passes `trigger=`, which `run` does not take (`reconciliation_router.py:126`).
  The items above and below are what a run would do.
- An order of the OMS that the broker accepts between the run's two reads is taken for
  a rogue one, since its orders are read first and the book after them
  (`reconciliation_service.py:200`).
- A run completes as COMPLETED though the broker could not be asked (`AskBook`).

Risk:

- `config/risk.yaml:19` sets the size to 0 from 75 percent of the daily loss limit;
  the sizer uses the account's multiplier (`position_sizer.py:145`) and the tier is
  only written into the decision. `PortfolioMonitor`'s tiers thus change no size.
- `PHASE_13_REMEDIATION_PLAN.md:29` wants two evaluations not to see the same open
  positions; the lock covers evaluation only, and the position appears when a
  poller next writes the hash. For the same reason the limit is not a property here.
- `PHASE_13_FINAL_READINESS_REVIEW.md` has the switch read at check 1; it is read
  with the hashes, before all checks. `OneStaleApproval` is what remains.
- The VIX block cannot fire and the monthly loss is 0, since `AccountState` has
  neither field; exposure checks 18 to 21 see no positions, since `PortfolioState`
  has none; delta and margin are checked for one lot. `approvals_pending_delivery`
  has no consumer.

Signals:

- `risk_manager_service.py:10` says "reject new signals when N positions are already
  open"; it counts outcomes that are NULL, and the tracker writes 'OPEN' into the
  positions that are (`signal_outcome_tracker_service.py:236`).
- A scan on request takes no lock against the loop; the duplicate check and the
  registration are five awaits apart. `signal_deduplication_service.py:29` leaves
  duplicates to a "DB unique constraint" that no model declares.
- Three failed publishes still register the pattern for `dedup_ttl_minutes`, and so
  does a signal that a later gate drops. The 30-second timeout counts a symbol as
  rejected although its approval may be out (`Abandon`).
- A failed announcement drops the `SignalExpired` events of the rest
  (`signal_expiry_worker.py:99`); nothing subscribes to them.
- `signal_scanner_service.py:1601` names `signal`, which is not defined there, in a
  block whose errors are swallowed.

### Bounds

- An order of 4 units has room for two different partial fills and a last piece, and
  three requests for one that is behind the row, one that is level with it, and one
  that commits between another's load and commit. Requests are interchangeable
  (symmetry). Two orders of 3 units, in `order_live`, are the smallest number for which
  a poll holds a report of one while another is applied; that cancels of several
  orders do not meet is `Frame` of the proofs.
- `order_live` has no crash, since a crash may cut off every poll between two of its
  steps for ever, and no cancels, after which a row need not become FILLED.
- `EndOfTime`, `MaxCopies`, `MaxChanges`, `MaxMessages` cap counters in guards.
  Signals live 2 ticks, keys 1, so that a copy can come at the last good instant,
  at expiry and after it, and two keys of a signal follow one another; a third
  copy would make a third order if the signal were good one instant longer. In
  `intake_limits` keys outlive the run, and the limiter's window of 2 ticks is passed
  within its 3, so that a timestamp is pruned and its place taken again.
- `MaxChanges = 3` leaves room for three writes in a row by two requests, one
  more than `RepeatsBounded` allows. `MaxChanges` stops new requests, not those
  under way.
- Batches of 2 and 5 messages give full batches, a short one, and a batch that
  is dropped at its first and at its last entry.
- The desk has 2 orders of one unit: the run tells an order's states apart, not
  its quantity, and two orders suffice for one to move while the other is read.
  Lost replies are left to the theorems here: the row ends at once, and neither
  the position consumer nor the run's `missing` looks at it.
- The risk engine has 2 callers and 2 calls: one at the lock, one waiting or
  publishing. Accounts lose 60 and 100 percent of the daily limit, a tier below
  and one at the end of the scale, in either order. One position fills the limit. The
  other limits are those of `config/risk.yaml` and the defaults of `risk_config.py`,
  with money divided by 50, but for the three that `MCRiskSystem` names: one open
  position for 10 and 3 lots for 50, so that both limits are met, and the whole number
  2 for the ATR multiple of 1.5, which no option looks at.
- The day of the signals has 3 ticks with the last entry and the close at 2 and the
  cutoff at 3; signals live 2, so that some reach the close and some expire before.
  Two scans overlap; one pattern is what makes a duplicate; `MaxFaults` allows one
  failure anywhere. A crash loses the registrations of both scans, so four live
  approvals of one pattern are possible; `MaxSignals = 5` is one more than
  `DuplicatesBounded` allows, and what a longer day adds, an approval after the
  key of an earlier one has expired, is left to the theorem.
- The proofs do not use these bounds.

Deadlock checking is off where the environment is bounded and a system that has
handled all its orders, calls or messages rests: in every run but those of the
signals, where cycles can always start, and which TLC checks for deadlock.

### Fairness

`OrderLifecycle!FairSpec` has weak fairness for router and monitor steps of each
order and for the start of a poll: the event loop runs every ready task and the
poll loop is `while True`. Strong fairness of a `Fetch` that is answered, of a lookup of
the reported order (`LoadForReport`), of the load of the save that follows (`Apply`) and
of a commit that changes the row (`Store`) says that a broker or database that fails
now and then does not fail at every attempt for ever. Nothing is assumed of the
broker filling orders, of operators, or of crashes. `EventBus!FairSpec` has weak
fairness of the consumer loop, which is a `while True` as well; its steps may fail at
every attempt, and the process may crash at any time. `RiskSystem!FairSpec` has weak
fairness of the steps of each call: every await of `evaluate` has a timeout or returns,
the lock is an `asyncio.Lock`, which serves its waiters in order, and publishing is
tried three times. No read, insert or publish need ever succeed, and the process may
crash at any time. `Reconciliation!FairDeskSpec` has weak fairness of the loop and its
runs, and of nothing else. The other specifications state safety only.

## 5. Proofs

All theorems hold for every value of the constants within the named assumptions
of the modules: positive quantities, lifetimes and sizes, finite sets of
operators and scans, faults among the modelled kinds, a configuration of the
types of `config/risk.yaml`, and a day whose last entry, close and cutoff are in
that order. TLC evaluates them in each run.

**OrderLifecycleProofs**. `Invariance` proves `IInv`, checked with TLC before.
The safety properties are not inductive: a monitor with a copy that is ahead of
the broker, a report of a fill that was never made, or a save that has loaded a row
from which its copy differs in the wrong columns would break them in one step.
`IInv` says what is known at each point. `RowKnown`: what a row says is backed by the
broker's order, column by column (`Backed`), so that a row put together from the
columns of two backed entities is backed as well (`MergedBacked`). `RouterKnows`: the
row is where the router left it, or a request has cancelled it (`Overridden`), and so
is the row its save has loaded; before the broker call the broker has nothing.
`MonitorKnows`: reports and copies are old but never ahead of the broker, rejected or
cancelled broker orders no longer change, and the row is in the state in which the
monitor found it, unless overridden; what a partial fill or a rejection is saved over
is unfilled. `RequestKnows`: the copy of a cancel request is backed and has less than
the whole quantity. `FillSettled`: an order whose whole quantity is stored, or whose
fill is or is about to be announced, is not taken up again. Each is about one order, so
`Frame` carries it over steps of other orders, and the proof has one step per action.
From it follow `TypeCorrect`, `PersistenceFirst`, `FillsBacked`, `RejectionsBacked`,
`AnnouncedOnce` and, without requests, `AnnouncedIsFilled`.

`FillsBacked` has two parts: a FILLED row is a completed broker order, and a row whose
whole quantity is filled is FILLED or CANCELLED. The converse of the second does not
hold when a cancel and a fill overlap: a FILLED row may have less than its quantity, or
a CANCELLED one all of it.

`LedgerImplemented` proves the refinement of `OrderLedger` from `IInv`, with cancels
and without. The commit of a task is a step of the ledger when the columns it
writes follow the row it finds (`CommitIsLedgerStep`): that row is the one the task
had loaded, in its state, or a CANCELLED one, which it revives (`TurnFollows`), and a
request commits CANCELLED or less than the whole quantity. A monitor that applies a
rejection holds a SUBMITTED copy (`RefusedNeverTraded`): the branch of
`_handle_rejection` that cancels a partly filled order is never reached.

**OmsIntakeProofs**. `OrdersBounded` proves `OrdersFollowKeys` for any two lifetimes,
when no Redis command fails. `ClaimInv` counts, for each signal, its orders and the
one the message in hand is about to add (`Claimed`), and says that the last key
lives until that many lifetimes of a key after the signal's birth, since each
was set when the one before had expired, and that the last was set while the
signal was good. A save that raises keeps the claim and perhaps the row, a crash
drops the claim, so `Claimed` never grows but by a claim. With the configured 300
seconds and 15 minutes a signal makes at most three orders; `OneOrder`, for
`ValidFor <= KeyTtl`, is the case of one. Redis must answer: the fail-open SET NX
leaves no key, and then every copy of a good signal makes an order. What holds
also then is `OneOrderPerCopy`, whatever fails: `CopyInv` says that the orders of a
signal, the one the message in hand may still store and its unread copies are
together no more than were published (`Due`). A step moves a copy to the hand and
from the hand to the table, or drops it.

`SlipBounded` holds whatever fails, from `SlipInv`: when one order has slipped
past a pulled switch, no message is between the check and the broker.

`RateLimited` proves `RateHolds`, under every fault. `RateInv` says that every row of
the window that is not `unseen` has its timestamp in `recent` from the moment it is
saved until it is older than the window, except the one the message in hand is
about to record, and that the message in hand was let through with room for one
more. The rows of a window are then mapped one to one to the timestamps in it
(`FS_Injection`), and those are below the limit. A crash empties `recent` and puts
every row into `unseen` at once, so that the limiter and the window both start from
nothing (`CrashRateStep`); a save that raised adds a row that is `unseen` from its
first state.

**EventBusProofs**. `BusInvariance` (calls of the handler are behind the batch,
later entries of the batch are pending), from which
`NothingAcknowledgedUnsettled` and the refinement `DeliveryImplemented` follow.

**KillSwitchProofs**. `CountInv` strengthens "events <= rows <= writes" by the calls
that stand between two of them: each call counts once at its step, and moving
from step to step moves the count (`Moved`). `RepeatInv` says why races are
bounded: a call goes to write only after it has read the other position, so
while the switch is written to one position only, each write has been preceded by
its caller standing at `write`; writes so far and callers standing there are
together no more than the operators (`RepeatWritten`). Startup's call is kept
apart by `TypeOK`, which says that it runs beside no request.

**ReconciliationProofs** extends the invariant of the orders by `BookInv` (a message is
handled once, from no position to one, and only for a completed order) and
`RunInv` (an order read with a broker id is one the broker has or had; what a run
has read stays true, except that a day ends). The broker's side only grows
(`BrokerGrows`), which makes the old reads of a run harmless: `PositionsBacked`,
`MissingReported`, `OrphansReported`. They hold whatever names sessions are stored and
asked for under, and say something where the two are the same.

**RiskSystemProofs**. `LineInv` ties the lock to the calls: each stands in line once,
and only the head decides; so the lock is never left with a call that is over
(`LockNeverLost`). `StaleInv` then gives `OneStaleApproval`: `Armed` is a
call that has read the switch as off; after one approval under a switch that is
on, whoever comes next reads it anew. `AuditInv` has the row before every step
that tells of the approval. `TierInv` ties the cycle that is to tell to the
stored tier. `SizedWithinRisk` is about the operators: whatever account, history
and request, the lots are within `maxLots` and their cost within `riskPct` of the
session capital, also when Kelly's fraction is the smaller one.
The tier's multiplier is no factor of it, so the bound is that of the configuration
in every tier. `ApprovedWithinLimits` is about the verdict: an approval has passed every check, and
no early way out of the list skips one.

`DataInv` is what `TypeCorrect` and `Sized` need beside `IInv`: what a call has read
are an account and a portfolio, lots are within the limit from the judgement to the
row, and rows are finitely many. The type of the
portfolio that `Snapshot` writes is the hard part, since its delta is a fold, a
recursive function over the subsets of the rows. That the fold has integer values is
an induction over data. The library's induction theorems take a predicate as
parameter and cannot be cited; its theorem that every set of subsets of a finite set
has a smallest member (`WFMin`, `FS_StrictSubsetOrderingWellFounded`) can. `Unique`,
`Exists` and `SumIsInt` argue from a smallest set on which the recursive function is
not unique, does not exist, or is not an integer.

**SignalPipelineProofs**. `DayInv` is the heart: a symbol that has had its turn began at
most a tick ago, and before `LastEntry` when its signal is not stored yet, so no row is stored after
the cutoff, and no signal outlasts the close. From this and `SweepInv` (a sweep's
ids are due, the close's ids are all that is approved) follow
`NothingCarriedOver` and `RefusedWhenExpired`. `ToldInv` counts, for each signal,
what was announced and who is still to announce it: `AnnouncedOnceEach`.
`TaskInv` gives `Persisted`.

**SignalBoundsProofs** has the two properties that count, and the type invariant,
which needs that ids last (`BoundsInv`: rows and symbols at the risk engine are
together no more than `MaxSignals`).
`Counts`: the property counts the symbols under way together with the signals, and
is inductive as it stands. A cycle that starts below the limit makes all its symbols
busy, an accepted symbol is counted instead of being busy, a failure lets one cycle
pass the limit, and all else makes both fewer (`CountedMoves`). It needs
`MaxOpen + |Slots| > 0`; without room and without a symbol the bound is -1.

`Duplicates` splits the live approvals of a pattern into those its key guards, those
a scan is about to register, and those that are `Lost`. `DuplicatesInv` bounds the
lost ones by one of each scan for each failure, and the live ones together with the
symbols that are deciding (`Deciding`) by the property's bound: a pattern is scored
again only when every live approval of it is lost or about to be registered by
another scan, or when Redis did not answer, which is a failure. `PatternInv` is why
a key outlives its signal. The assumptions are those of the module, `ValidFor <=
DedupTtl` among them.

The proof corrected this property. It used to say `|Scans| + faults`, one approval
more for each failure, and TLC had found no counterexample with 3 signals, since it
takes a fourth: a crash while two scans stand between the publish and the
registration loses both, and both scans approve the pattern again. The run's
instance now has room for more signals than the bound allows.

Only model-checked: liveness under fairness (`CompletionIsRecorded`, `TopicMovesOn`,
`CallsEnd`), which the proof system does not reach.

## 6. Not modelled

- `process_pending_orders` and `expire_stale_orders` of the execution monitor
  have no caller; so EXPIRED is never stored. `OrderRouterService.cancel` is
  called by the exit manager only, which no position reaches.
- Prices, slippage, symbols and lot arithmetic of orders; `order_events` writes,
  which no property reads.
- Trimming of streams (MAXLEN 10,000 and more) and `replay`.
- Exits, the trailing stop and the force exit, which no position reaches; the
  broker retry and the execution guard, which the order path does not call; the
  state FORWARDED, which is never written, and `SignalExpirationService`, which is
  never started; the active-signal cache, which is never read.
- Indicators, overlays and scores of the scanner: a gate is a choice.
- Market data, analytics, scoring, research, reporting, AI, REST plumbing and the
  frontend: I/O, statistics over stored trades, or floating-point analytics,
  without protocol state. They are most of the source (some 80,000 of 85,000
  lines), which is why the map covers only a small share of it: the protocol core
  is small, and nothing in the rest has states or interleavings to check.
- `DeadMansSwitchService` and `AutoKillSwitchService` count failures and time, but
  at their thresholds only log (`dead_mans_switch_service.py:76`).
