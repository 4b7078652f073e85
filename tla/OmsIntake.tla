------------------------------- MODULE OmsIntake -------------------------------
(***************************************************************************)
(* From an approved signal to an order: PipelineEventHandler takes the     *)
(* SignalRiskApproved messages of its consumer group one at a time and     *)
(* OrderManagementService puts each through TTL, idempotency, kill switch  *)
(* and rate limit before it persists an order and hands it to the router.  *)
(*                                                                         *)
(* The checks read state kept elsewhere: idempotency keys and the kill     *)
(* switch in Redis, which operators toggle at any time and which outlive   *)
(* the process; the rate limiter's timestamps in memory, which do not.     *)
(* Every await lies between two actions.  Time is in ticks long against a  *)
(* Redis round trip.                                                       *)
(***************************************************************************)
EXTENDS Integers, Sequences, FiniteSets

CONSTANTS
  Signals,    \* the approved signals of the run
  ValidFor,   \* a signal's lifetime (signal.yaml ttl_minutes)
  KeyTtl,     \* an idempotency key's lifetime (oms.yaml idempotency_ttl_seconds)
  Window,     \* _RATE_LIMIT_WINDOW_SECONDS
  MaxOrders,  \* max_orders_per_minute
  MaxCopies,  \* bound: how often one signal is published
  EndOfTime,  \* bound: the last tick
  Faults      \* the failures the environment may produce

\* "redis" a command on an idempotency key or the switch raises
\* "db"    the save of an order raises, its row stored or not
\* "crash" the process dies
IntakeFaults == {"redis", "db", "crash"}

ASSUME TimesAssumption ==
  /\ ValidFor \in Nat \ {0} /\ KeyTtl \in Nat \ {0} /\ Window \in Nat \ {0}
  /\ EndOfTime \in Nat
ASSUME LimitsAssumption == MaxOrders \in Nat \ {0} /\ MaxCopies \in Nat \ {0}
ASSUME IntakeFaultsAssumption == Faults \subseteq IntakeFaults

VARIABLES
  now,      \* the clock
  born,     \* born[s]: when s was approved; NotYet before
  sent,     \* sent[s]: how often s has been published
  copies,   \* copies[s]: messages about s not yet handled
  job,      \* the message in hand: how far it has come, and its signal
  key,      \* key[s]: the idempotency key of s, alive until key[s].until
  killed,   \* the kill switch in Redis
  recent,   \* the rate limiter: [nth, at] of orders recorded by this process
  orders,   \* the orders table: [sig, at] in the order of insertion
  slipped,  \* orders handed to the router since the switch was pulled (history)
  unseen    \* rows the limiter does not know of: their save raised, or the process
            \* that stored them has died (history)

stream  == <<born, sent, copies>>
history == <<slipped, unseen>>
vars    == <<now, born, sent, copies, job, key, killed, recent, orders, slipped, unseen>>

NotYet == -1

Step == {"idle", "claim", "switch", "rate", "persist", "record", "place"}

Order == [sig : Signals, at : Nat]

\* A message in hand, past its first check or later.
Working == [step : Step \ {"idle"}, sig : Signals]

Idle == [step |-> "idle"]

\* Every variable has its type; only a message in hand has a signal.
TypeOK ==
  /\ now \in Nat
  /\ born \in [Signals -> Nat \cup {NotYet}]
  /\ sent \in [Signals -> 0..MaxCopies]
  /\ copies \in [Signals -> Nat]
  /\ job \in Working \cup {Idle}
  /\ key \in [Signals -> [until : Nat, order : Nat]]
  /\ killed \in BOOLEAN
  /\ recent \subseteq [nth : Nat, at : Nat]
  /\ orders \in Seq(Order)
  /\ slipped \in Nat
  /\ unseen \subseteq DOMAIN orders

\* The sentinel uuid a key is created with, before any order exists.
Sentinel == 0

Init ==
  /\ now = 0
  /\ born = [s \in Signals |-> NotYet]
  /\ sent = [s \in Signals |-> 0]
  /\ copies = [s \in Signals |-> 0]
  /\ job = Idle
  /\ key = [s \in Signals |-> [until |-> 0, order |-> Sentinel]]
  /\ killed \in BOOLEAN
  /\ recent = {}
  /\ orders = <<>>
  /\ slipped = 0
  /\ unseen = {}

--------------------------------------------------------------------------------
(***************************************************************************)
(* The signal engine, the clock and the operators.                         *)
(***************************************************************************)

\* _publish_events: the first copy, and one more for each publish that raised
\* after Redis had stored the message.
Publish(s) ==
  /\ sent[s] < MaxCopies
  /\ born' = [born EXCEPT ![s] = IF sent[s] = 0 THEN now ELSE @]
  /\ sent' = [sent EXCEPT ![s] = @ + 1]
  /\ copies' = [copies EXCEPT ![s] = @ + 1]
  /\ UNCHANGED <<now, job, key, killed, recent, orders, history>>

Tick ==
  /\ now < EndOfTime
  /\ now' = now + 1
  /\ UNCHANGED <<stream, job, key, killed, recent, orders, history>>

PullSwitch ==
  /\ ~killed
  /\ killed' = TRUE
  /\ slipped' = 0
  /\ UNCHANGED <<now, stream, job, key, recent, orders, unseen>>

ReleaseSwitch ==
  /\ killed
  /\ killed' = FALSE
  /\ UNCHANGED <<now, stream, job, key, recent, orders, history>>

--------------------------------------------------------------------------------
(***************************************************************************)
(* The consumer: one message at a time, each return or raise ends it.      *)
(***************************************************************************)
At(step) == job.step = step

Goto(step) == job' = [job EXCEPT !.step = step]

\* The message is acknowledged whatever became of it.
Finish == job' = Idle

\* Mutant of Take: handled whether or not there is a message.
TakeUnread(s) ==
  /\ At("idle")
  /\ copies' = [copies EXCEPT ![s] = @ - 1]
  /\ job' = [step |-> "claim", sig |-> s]
  /\ UNCHANGED <<now, born, sent, key, killed, recent, orders, history>>

\* The message is read; the execution lock, the portfolio heat or the size
\* multiplier may stop it before the OMS sees it.
Take(s) ==
  /\ At("idle")
  /\ copies[s] > 0
  /\ copies' = [copies EXCEPT ![s] = @ - 1]
  /\ \/ job' = [step |-> "claim", sig |-> s]
     \/ UNCHANGED job
  /\ UNCHANGED <<now, born, sent, key, killed, recent, orders, history>>

\* Mutant of Expired: a signal is still good at its valid_until.
ExpiredAfter(s) == now > born[s] + ValidFor

\* OrderRequest.is_expired.
Expired(s) == now >= born[s] + ValidFor

\* Redis: SET key order NX EX ttl.
SetNX(s, order) ==
  key' = [key EXCEPT ![s] = IF now < @.until THEN @
                            ELSE [until |-> now + KeyTtl, order |-> order]]

Expire ==
  /\ At("claim")
  /\ Expired(job.sig)
  /\ Finish
  /\ UNCHANGED <<now, stream, key, killed, recent, orders, history>>

\* The key is set with the sentinel, or found: a duplicate.
Claim ==
  /\ At("claim")
  /\ ~Expired(job.sig)
  /\ SetNX(job.sig, Sentinel)
  /\ IF now < key[job.sig].until THEN Finish ELSE Goto("switch")
  /\ UNCHANGED <<now, stream, killed, recent, orders, history>>

\* Fail-open: an error of the command, whether or not Redis carried it out,
\* counts as a first occurrence.
ClaimUnanswered ==
  /\ "redis" \in Faults
  /\ At("claim")
  /\ ~Expired(job.sig)
  /\ SetNX(job.sig, Sentinel) \/ UNCHANGED key
  /\ Goto("switch")
  /\ UNCHANGED <<now, stream, killed, recent, orders, history>>

\* get_state: an active switch raises KillSwitchActiveError.
CheckSwitch ==
  /\ At("switch")
  /\ IF killed THEN Finish ELSE Goto("rate")
  /\ UNCHANGED <<now, stream, key, killed, recent, orders, history>>

\* Mutant of SwitchUnreadable: an unreadable switch counts as inactive.
SwitchAssumedOff ==
  /\ "redis" \in Faults
  /\ At("switch")
  /\ Goto("rate")
  /\ UNCHANGED <<now, stream, key, killed, recent, orders, history>>

\* Fail-closed: DataSourceUnavailableError ends the message.
SwitchUnreadable ==
  /\ "redis" \in Faults
  /\ At("switch")
  /\ Finish
  /\ UNCHANGED <<now, stream, key, killed, recent, orders, history>>

\* Mutant of CheckRate: one order too many.
CheckRateLoose ==
  /\ At("rate")
  /\ recent' = {r \in recent : r.at > now - Window}
  /\ IF Cardinality(recent') > MaxOrders THEN Finish ELSE Goto("persist")
  /\ UNCHANGED <<now, stream, key, killed, orders, history>>

\* _check_rate_limit: prune, then count.
CheckRate ==
  /\ At("rate")
  /\ recent' = {r \in recent : r.at > now - Window}
  /\ IF Cardinality(recent') >= MaxOrders THEN Finish ELSE Goto("persist")
  /\ UNCHANGED <<now, stream, key, killed, orders, history>>

Insert == orders' = Append(orders, [sig |-> job.sig, at |-> now])

\* Mutant of Persist: a save that raised is tried again.
PersistRetried ==
  /\ At("persist")
  /\ \/ Insert /\ Goto("record") /\ UNCHANGED unseen
     \/ /\ "db" \in Faults /\ UNCHANGED job
        /\ \/ Insert /\ unseen' = unseen \cup {Len(orders')}
           \/ UNCHANGED <<orders, unseen>>
  /\ UNCHANGED <<now, stream, key, killed, recent, slipped>>

\* _persist: on OrderPersistenceError the message ends, though the row may have
\* been stored.
Persist ==
  /\ At("persist")
  /\ \/ Insert /\ Goto("record") /\ UNCHANGED unseen
     \/ /\ "db" \in Faults /\ Finish
        /\ \/ Insert /\ unseen' = unseen \cup {Len(orders')}
           \/ UNCHANGED <<orders, unseen>>
  /\ UNCHANGED <<now, stream, key, killed, recent, slipped>>

\* The second set_idempotency_key, with the order's id, and the timestamp for
\* the rate limiter.
Record ==
  /\ At("record")
  /\ SetNX(job.sig, Len(orders)) \/ ("redis" \in Faults /\ UNCHANGED key)
  /\ recent' = recent \cup {[nth |-> Len(orders), at |-> now]}
  /\ Goto("place")
  /\ UNCHANGED <<now, stream, killed, orders, history>>

\* OrderRouterService.route calls the broker; the next message waits for it.
Place ==
  /\ At("place")
  /\ slipped' = IF killed THEN slipped + 1 ELSE slipped
  /\ Finish
  /\ UNCHANGED <<now, stream, key, killed, recent, orders, unseen>>

\* The process dies and starts again.  The message in hand, and messages of the
\* same read, are not delivered again; startup deactivates the kill switch, or
\* logs that it could not.
Crash ==
  /\ "crash" \in Faults
  /\ job' = Idle
  /\ recent' = {}
  /\ copies' \in {c \in [Signals -> 0..MaxCopies] : \A s \in Signals : c[s] <= copies[s]}
  /\ killed' \in {killed, FALSE}
  /\ unseen' = DOMAIN orders
  /\ UNCHANGED <<now, born, sent, key, orders, slipped>>

Consumer ==
  \/ \E s \in Signals : Take(s)
  \/ Expire \/ Claim \/ ClaimUnanswered \/ CheckSwitch \/ SwitchUnreadable
  \/ CheckRate \/ Persist \/ Record \/ Place

Next ==
  \/ \E s \in Signals : Publish(s)
  \/ Tick \/ PullSwitch \/ ReleaseSwitch
  \/ Consumer
  \/ Crash

Spec == Init /\ [][Next]_vars

--------------------------------------------------------------------------------
(***************************************************************************)
(* Properties.                                                             *)
(***************************************************************************)

OrdersOf(s) == {i \in DOMAIN orders : orders[i].sig = s}

\* A signal published, crashed over and published again makes no more orders than
\* keys of it can expire while it is good, and one more: the key is set before the
\* order, and is found until it expires.
OrdersFollowKeys ==
  \A s \in Signals : Cardinality(OrdersOf(s)) * KeyTtl < ValidFor + KeyTtl

\* With keys that live as long as signals, a signal makes one order.
OneOrderPerSignal ==
  \A i, j \in DOMAIN orders : orders[i].sig = orders[j].sig => i = j

\* The kill switch is read before the row is saved and the broker called, so an
\* order may slip past an operator who pulls it in between: one, not more,
\* since the next message is taken up only after the router returns.
OneSlipAtMost == slipped <= 1

\* Whatever fails, a message makes one order at most: a signal has no more orders
\* than copies of it were published, also when no key answers.
OrdersFromCopies ==
  \A s \in Signals : Cardinality(OrdersOf(s)) <= sent[s]

\* No more than MaxOrders rows are stored within any window that ends with one
\* of them, however long the steps between the check and the record take.  The
\* limiter forgets the rows of a process that has died, and never learns of a row
\* whose save raised; no other row is over the limit.
RateHolds ==
  \A i \in DOMAIN orders :
    Cardinality({j \in ((1..i) \ unseen) \cup {i} :
                   orders[j].at > orders[i].at - Window}) <= MaxOrders

--------------------------------------------------------------------------------
(***************************************************************************)
(* The inductive invariants.                                               *)
(***************************************************************************)

\* Past the claim and not yet stored: the job will add an order for s.
Adding(s) == job.step \in {"switch", "rate", "persist"} /\ job.sig = s

\* The job has passed the kill switch and is not yet with the router.
PastSwitch == job.step \in {"rate", "persist", "record", "place"}

\* The orders of s, with the one the job will add.
Claimed(s) == Cardinality(OrdersOf(s)) + (IF Adding(s) THEN 1 ELSE 0)

\* Each was claimed when the key of the one before had expired, and the last while
\* the signal was good.
ClaimsApart ==
  \A s \in Signals : Claimed(s) > 0 =>
    /\ born[s] # NotYet /\ key[s].until >= born[s] + Claimed(s) * KeyTtl
    /\ Claimed(s) * KeyTtl < ValidFor + KeyTtl

\* Messages exist only about signals that were published, in the past.
Published ==
  \A s \in Signals :
    /\ born[s] # NotYet => born[s] <= now /\ sent[s] > 0
    /\ sent[s] > 0 => born[s] # NotYet
    /\ copies[s] > 0 => born[s] # NotYet
    /\ job # Idle => born[job.sig] # NotYet

ClaimInv == TypeOK /\ Published /\ ClaimsApart

\* The message in hand may yet store an order for s.
Ahead(s) == job.step \in {"claim", "switch", "rate", "persist"} /\ job.sig = s

\* The orders of s, and the one that each message not yet through may make.
Due(s) == Cardinality(OrdersOf(s)) + (IF Ahead(s) THEN 1 ELSE 0) + copies[s]

CopyInv == \A s \in Signals : Due(s) <= sent[s]

SlipInv == slipped <= 1 /\ (killed /\ slipped = 1 => ~PastSwitch)

\* The rows the limit is about while it is now.
InWindow == {i \in DOMAIN orders \ unseen : orders[i].at > now - Window}

\* The limiter counts no less than the rows of the window, but for the row whose
\* message has yet to record it: its records are later than the rows.
RateInv ==
  /\ IsFiniteSet(recent)
  /\ \A i \in DOMAIN orders : orders[i].at <= now
  /\ \A i \in InWindow :
       \/ At("record") /\ i = Len(orders)
       \/ \E r \in recent : r.nth = i /\ r.at >= orders[i].at
  /\ At("persist") => Cardinality(InWindow) < MaxOrders
  /\ RateHolds
================================================================================
