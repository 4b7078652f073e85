------------------------------ MODULE RiskEngine ------------------------------
(***************************************************************************)
(* RiskEngineService.evaluate: calls queue for the evaluation lock; its    *)
(* holder reads the kill switch and the risk hashes from Redis, runs the   *)
(* checks and inserts the decision; the lock is released before the event  *)
(* is published and the decision returned.  Writers go on meanwhile.       *)
(* The writers of the account and portfolio hashes are external: the code  *)
(* names an AccountStatePoller and a PortfolioStatePoller it does not have. *)
(***************************************************************************)
EXTENDS RiskChecks, Sequences

CONSTANTS
  Callers,     \* calls of evaluate that may be under way at a time
  MaxCalls,    \* bound: the calls made
  Requests,    \* the requests evaluated
  Accounts,    \* the account states a poller writes
  Quotes,      \* correlation matrix, margin of a lot and win/loss history
  Faults,      \* the failures the environment may produce
  NoRequest    \* the request of a call that is not under way

\* "source" a hash is missing, expired or cannot be read   "db"  the insert fails
\* "redis"  a write to Redis fails                         "bus" a publish fails
\* "crash"  the process dies
RiskFaults == {"source", "db", "redis", "bus", "crash"}

ASSUME CallersAssumption == Callers # {} /\ MaxCalls \in Nat
ASSUME InputsAssumption ==
  /\ Requests \subseteq Request
  /\ Accounts \subseteq Account
  /\ \A q \in Quotes :
       /\ q.matrix \in [DOMAIN q.matrix -> 0..100]
       /\ DOMAIN q.matrix \subseteq Underlyings \X Underlyings
       /\ q.margin \in Nat /\ q.history \in History
  /\ NoRequest \notin Requests
ASSUME RiskFaultsAssumption == Faults \subseteq RiskFaults

VARIABLES
  \* Redis
  ks,          \* whether the kill switch is on
  account,     \* risk:account_state
  portfolio,   \* risk:portfolio_state
  tier,        \* risk:graduated_response
  \* the engine
  calls,       \* how many calls were made
  line,        \* the evaluation lock: its holder, then those who wait for it
  pc,          \* pc[c]: where the call of c stands
  call,        \* call[c]: its number, its request and what is approved of it
  switch,      \* switch[c]: what it has read of the switch, {} before it has
  data,        \* data[c]: what it has read of each hash, {} before it has
  \* the table, the stream and what callers were told
  rows,        \* the rows of risk_decisions that approve
  approvals,   \* the RiskApproved events on the stream
  parked,      \* risk:approvals_pending_delivery
  granted,     \* the calls answered with an approval
  late         \* approvals decided since the switch last went on (history)

redis == <<ks, account, portfolio, tier>>
outcome == <<rows, approvals, parked, granted, late>>
seen == <<switch, data>>
engine == <<calls, line, pc, call, seen>>
engineVars == <<redis, engine, outcome>>

EnginePc == {"idle", "line", "gather", "insert", "publish", "retry", "again", "park"}

NoData == [account |-> {}, portfolio |-> {}]

NoCall == [id |-> 0, request |-> NoRequest, lots |-> 0]

EmptyPortfolio ==
  [open |-> 0, counts |-> [u \in Underlyings |-> 0], capitalPct |-> [u \in Underlyings |-> 0],
   delta |-> 0, vega |-> 0, lastMinute |-> 0, today |-> 0]

SeededAccount ==
  [capital |-> Config.capital, session |-> Config.capital, available |-> Config.capital,
   used |-> 0, dailyPnl |-> 0, dailyUsed |-> 0, weeklyPnl |-> 0, weeklyUsed |-> 0,
   drawdown |-> 0, multiplier |-> 2]

\* A first start: the seeder has filled both hashes.
EngineInit ==
  /\ ks = FALSE /\ account = SeededAccount /\ portfolio = EmptyPortfolio /\ tier = "NORMAL"
  /\ calls = 0 /\ line = <<>>
  /\ pc = [c \in Callers |-> "idle"]
  /\ call = [c \in Callers |-> NoCall]
  /\ switch = [c \in Callers |-> {}]
  /\ data = [c \in Callers |-> NoData]
  /\ rows = {} /\ approvals = {} /\ parked = {} /\ granted = {} /\ late = 0

--------------------------------------------------------------------------------
Goto(c, step) == pc' = [pc EXCEPT ![c] = step]

\* The holder leaves the line; the lock goes to the next.
Release == line' = Tail(line)

\* What the call has read is no longer needed once it is decided.
Decided(c) ==
  /\ switch' = [switch EXCEPT ![c] = {}]
  /\ data' = [data EXCEPT ![c] = NoData]

\* evaluate is called with a request; calls queue, none is refused.
Call(c, r) ==
  /\ pc[c] = "idle" /\ calls < MaxCalls
  /\ calls' = calls + 1
  /\ call' = [call EXCEPT ![c] = [NoCall EXCEPT !.id = calls', !.request = r]]
  /\ line' = Append(line, c)
  /\ Goto(c, "line")
  /\ UNCHANGED <<seen, redis, outcome>>

\* Mutant of Acquire: calls do not wait for one another.
AcquireUnlocked(c) ==
  /\ pc[c] = "line"
  /\ Goto(c, "gather")
  /\ UNCHANGED <<calls, line, call, seen, redis, outcome>>

Acquire(c) ==
  /\ pc[c] = "line" /\ Head(line) = c
  /\ Goto(c, "gather")
  /\ UNCHANGED <<calls, line, call, seen, redis, outcome>>

\* gather reads the switch and the hashes side by side, so each of them at a time
\* of its own.  A switch that cannot be read counts as on.  The tier, which only goes
\* into the wording of the decision, is read as well and its value left out.
FetchSwitch(c) ==
  /\ pc[c] = "gather" /\ switch[c] = {}
  /\ \E value \in {ks} \cup (IF "source" \in Faults THEN {TRUE} ELSE {}) :
       switch' = [switch EXCEPT ![c] = {value}]
  /\ UNCHANGED <<data, calls, line, pc, call, redis, outcome>>

FetchHash(c) ==
  /\ pc[c] = "gather"
  /\ \/ data[c].account = {} /\ data' = [data EXCEPT ![c].account = {account}]
     \/ data[c].portfolio = {} /\ data' = [data EXCEPT ![c].portfolio = {portfolio}]
  /\ UNCHANGED <<switch, calls, line, pc, call, redis, outcome>>

\* Mutant of Refuse: an early return leaves the lock held.
RefuseHolding(c) ==
  /\ Goto(c, "idle") /\ Decided(c)
  /\ call' = [call EXCEPT ![c] = NoCall]
  /\ UNCHANGED <<calls, line, redis, outcome>>

\* The call ends without an approval.  The row of a rejection, best effort, and
\* its event are left out: nothing reads them.
Refuse(c) ==
  /\ Goto(c, "idle") /\ Release /\ Decided(c)
  /\ call' = [call EXCEPT ![c] = NoCall]
  /\ UNCHANGED <<calls, redis, outcome>>

\* The reads take too long together, or one of the account, the portfolio, the tier
\* or the margin fails: fail closed.
GatherFails(c) ==
  /\ "source" \in Faults
  /\ pc[c] = "gather"
  /\ Refuse(c)

\* What the checks and the sizer, which are pure, make of what was read: the lots
\* they approve.  An assertion of the sizer ends the call like a failed check.
Judged(a, p, r, q) ==
  IF Verdict(a, p, r, q) = "APPROVED" THEN Lots(a, r, q.history) ELSE 0

\* Mutant of Judge: the size is not looked at.
JudgeUnsized(c, q) ==
  /\ pc[c] = "gather"
  /\ \E on \in switch[c], a \in data[c].account, p \in data[c].portfolio :
       LET lots == Judged(a, p, call[c].request, q) IN
       IF on THEN Refuse(c)
       ELSE /\ call' = [call EXCEPT ![c].lots = lots]
            /\ Goto(c, "insert") /\ Decided(c)
            /\ UNCHANGED <<calls, line, redis, outcome>>

\* Everything is read.  The switch is looked at first: one that is on ends the
\* call, and so do the checks that refuse.
Judge(c, q) ==
  /\ pc[c] = "gather"
  /\ \E on \in switch[c], a \in data[c].account, p \in data[c].portfolio :
       LET lots == Judged(a, p, call[c].request, q) IN
       IF on \/ lots = 0 THEN Refuse(c)
       ELSE /\ call' = [call EXCEPT ![c].lots = lots]
            /\ Goto(c, "insert") /\ Decided(c)
            /\ UNCHANGED <<calls, line, redis, outcome>>

\* Mutant of Insert: an approval whose row failed is only logged.
InsertLogged(c) ==
  /\ pc[c] = "insert"
  /\ \/ rows' = rows \cup {call[c]}
     \/ "db" \in Faults /\ UNCHANGED rows
  /\ late' = IF ks THEN late + 1 ELSE 0
  /\ Goto(c, "publish") /\ Release
  /\ UNCHANGED <<calls, call, seen, redis, approvals, parked, granted>>

\* Persistence first: an approval whose insert fails becomes a rejection with
\* no event, although the row may have been committed.
Insert(c) ==
  /\ pc[c] = "insert"
  /\ \/ /\ rows' = rows \cup {call[c]}
        /\ late' = IF ks THEN late + 1 ELSE 0
        /\ Goto(c, "publish") /\ Release
        /\ UNCHANGED <<call, seen>>
     \/ /\ "db" \in Faults
        /\ rows' \in {rows, rows \cup {call[c]}}
        /\ Goto(c, "idle") /\ Release /\ Decided(c)
        /\ call' = [call EXCEPT ![c] = NoCall]
        /\ UNCHANGED late
  /\ UNCHANGED <<calls, redis, approvals, parked, granted>>

\* The call returns its approval.
Return(c) ==
  /\ Goto(c, "idle")
  /\ call' = [call EXCEPT ![c] = NoCall]
  /\ granted' = granted \cup {call[c].id}

\* Mutant of NextTry: the attempts are not counted.
NextTryAlways(step) == IF step = "retry" THEN "again" ELSE "retry"

NextTry(step) == CASE step = "publish" -> "retry" [] step = "retry" -> "again" [] step = "again" -> "park"

\* One of three attempts; one that fails may have stored the event.
Publish(c) ==
  /\ pc[c] \in {"publish", "retry", "again"}
  /\ \/ approvals' = approvals \cup {call[c].id} /\ Return(c)
     \/ /\ "bus" \in Faults
        /\ approvals' \in {approvals, approvals \cup {call[c].id}}
        /\ Goto(c, NextTry(pc[c]))
        /\ UNCHANGED <<call, granted>>
  /\ UNCHANGED <<calls, line, seen, redis, rows, parked, late>>

\* After the last attempt the event is pushed to a list in Redis, or lost.
Park(c) ==
  /\ pc[c] = "park"
  /\ \/ parked' = parked \cup {call[c].id}
     \/ "redis" \in Faults /\ UNCHANGED parked
  /\ Return(c)
  /\ UNCHANGED <<calls, line, seen, redis, rows, approvals, late>>

Step(c) ==
  \/ Acquire(c)
  \/ FetchSwitch(c) \/ FetchHash(c) \/ GatherFails(c) \/ (\E q \in Quotes : Judge(c, q))
  \/ Insert(c) \/ Publish(c) \/ Park(c)

--------------------------------------------------------------------------------
(***************************************************************************)
(* The writers of Redis.                                                   *)
(***************************************************************************)

\* Operators turn the switch on and off.
Switch ==
  /\ ks' = ~ks
  /\ late' = 0
  /\ UNCHANGED <<account, portfolio, tier, engine, rows, approvals, parked, granted>>

PollAccount ==
  /\ account' \in Accounts
  /\ UNCHANGED <<ks, portfolio, tier, engine, outcome>>

\* The portfolio in which every approval told to its caller is a position.
Opened == {row \in rows : row.id \in granted}

\* The delta of a position is that of its lots.
RowDelta(row) == row.lots * LotDelta(row.request, 50)

Snapshot ==
  [EmptyPortfolio EXCEPT
     !.open = Cardinality(Opened),
     !.counts = [u \in Underlyings |-> Cardinality({row \in Opened : row.request.underlying = u})],
     !.delta = MapThenSumSet(RowDelta, Opened),
     !.lastMinute = Cardinality(Opened),
     !.today = Cardinality(Opened)]

PollPortfolio ==
  /\ portfolio' = Snapshot
  /\ UNCHANGED <<ks, account, tier, engine, outcome>>

\* The seeder at startup: an account hash that is there gets the capital of the
\* configuration, one that has expired all defaults; the portfolio is only seeded
\* when it has expired.  What fails is logged.
Reseed ==
  /\ \/ account' = [account EXCEPT !.capital = Config.capital, !.session = Config.capital]
     \/ "source" \in Faults /\ account' = SeededAccount
     \/ "redis" \in Faults /\ UNCHANGED account
  /\ \/ UNCHANGED portfolio
     \/ "source" \in Faults /\ portfolio' = EmptyPortfolio
  /\ UNCHANGED <<ks, tier>>

\* The process dies and starts again.
Restart ==
  /\ "crash" \in Faults
  /\ line' = <<>>
  /\ pc' = [c \in Callers |-> "idle"]
  /\ call' = [c \in Callers |-> NoCall]
  /\ switch' = [c \in Callers |-> {}]
  /\ data' = [c \in Callers |-> NoData]
  /\ Reseed
  /\ UNCHANGED <<calls, outcome>>

EngineNext ==
  \/ \E c \in Callers : Step(c) \/ \E r \in Requests : Call(c, r)
  \/ Switch \/ PollAccount \/ PollPortfolio

================================================================================
