---------------------------- MODULE SignalPipeline ----------------------------
(***************************************************************************)
(* From a scan to an approval, or an expired row.  SignalScannerService     *)
(* puts each symbol of a cycle through its gates and SignalEngineService,  *)
(* which stores the signal, publishes its approval, for OmsIntake to take, *)
(* and registers it with the deduplication.  Two services expire the rows. *)
(*                                                                         *)
(* A cycle runs every five minutes and on request, and nothing keeps two   *)
(* cycles apart.  A symbol waits for its turn in the cycle, however long,  *)
(* and has 30 seconds from then on; the clock counts minutes.              *)
(***************************************************************************)
EXTENDS Integers, Sequences, FiniteSets

CONSTANTS
  Scans,      \* the scan loop and the requests for a scan
  Symbols,    \* the symbols a cycle scans
  Patterns,   \* direction, strategy, regime and weights of a signal
  ValidFor,   \* signal.yaml ttl_minutes
  DedupTtl,   \* signal.yaml dedup_ttl_minutes
  LastEntry,  \* 14:30, from when the scanner lets nothing pass
  Close,      \* signal.yaml market_close_time
  Cutoff,     \* signal.yaml intraday_risk.cutoff_time
  MaxOpen,    \* strategy.yaml risk_manager.max_open_positions
  MaxSignals, \* bound: the signals stored
  MaxFaults,  \* bound: the failures
  EndOfDay    \* bound: the last tick

ASSUME ScansAssumption == IsFiniteSet(Scans) /\ IsFiniteSet(Symbols)
ASSUME ConfigAssumption ==
  /\ ValidFor \in Nat \ {0} /\ DedupTtl \in Nat /\ DedupTtl >= ValidFor
  /\ MaxOpen \in Nat /\ MaxSignals \in Nat /\ MaxFaults \in Nat
ASSUME DayAssumption ==
  /\ LastEntry \in Nat /\ Close \in Nat /\ Cutoff \in Nat /\ EndOfDay \in Nat
  /\ LastEntry <= Close /\ LastEntry < Cutoff /\ Close <= Cutoff /\ Cutoff <= EndOfDay

VARIABLES
  now,       \* the clock
  task,      \* task[c][y]: how far symbol y of the cycle of c has come
  rows,      \* the signals table: rows[i], i the order of insertion
  published, \* the signals with a SignalRiskApproved on the stream
  dedup,     \* dedup[p]: until when a pattern counts as a duplicate
  outcome,   \* outcome[i]: what signal_analytics says became of signal i
  sweep,     \* sweep[w]: what an expiring service is about
  fired,     \* whether the market close exit has run today
  told,      \* told[i]: how often the expiry of i was announced
  faults     \* the failures so far

signals == <<rows, published, dedup, outcome>>
sweeping == <<sweep, fired, told>>
vars == <<now, task, signals, sweeping, faults>>

Slots == Scans \X Symbols
Pattern == Symbols \X Patterns
Ids == 1..MaxSignals
Sweepers == {"expiry", "close"}
States == {"RISK_APPROVED", "RISK_REJECTED", "EXPIRED"}

Row == [state : States, pattern : Pattern, until : Nat]
Steps == {"idle", "start", "risk", "publish", "register", "gates"}
Least(a, b) == IF a < b THEN a ELSE b

\* A symbol that is not being scanned.
NoPattern == <<>>
Idle == [step |-> "idle", since |-> 0, pattern |-> NoPattern, until |-> 0, sig |-> 0]
Asleep == [step |-> "idle", ids |-> {}]

\* "over": settled, or nothing was recorded of it.
Outcomes == {"over", "NULL", "OPEN"}

Approved == {i \in DOMAIN rows : rows[i].state = "RISK_APPROVED"}

Init ==
  /\ now = 0
  /\ task = [t \in Slots |-> Idle]
  /\ rows = <<>> /\ published = {}
  /\ dedup = [p \in Pattern |-> 0]
  /\ outcome = [i \in Ids |-> "over"]
  /\ sweep = [w \in Sweepers |-> Asleep]
  /\ fired = FALSE
  /\ told = [i \in Ids |-> 0]
  /\ faults = 0

--------------------------------------------------------------------------------
(***************************************************************************)
(* The clock, and failures, of which there are MaxFaults.                  *)
(***************************************************************************)
Fails ==
  /\ faults < MaxFaults
  /\ faults' = faults + 1

\* No symbol is under way for longer than a tick, once it has had its turn.
Tick ==
  /\ now < EndOfDay
  /\ \A t \in Slots : task[t].step \notin {"idle", "start"} => task[t].since = now
  /\ now' = now + 1
  /\ UNCHANGED <<task, signals, sweeping, faults>>

--------------------------------------------------------------------------------
(***************************************************************************)
(* A scan cycle.  Its symbols are processed side by side, fifteen at a     *)
(* time: the others wait at "start".                                       *)
(***************************************************************************)
At(t, step) == task[t].step = step

Goto(t, step) == task' = [task EXCEPT ![t].step = step]
Stop(t) == task' = [task EXCEPT ![t] = Idle]

Start(c) ==
  /\ \A y \in Symbols : task[<<c, y>>] = Idle
  /\ task' = [t \in Slots |-> IF t[1] = c THEN [Idle EXCEPT !.step = "start"] ELSE task[t]]
  /\ UNCHANGED <<now, signals, sweeping>>

\* Mutant of ScanCycle: the risk manager is not asked.
ScanCycleUnasked(c) == Start(c) /\ UNCHANGED faults

\* What the risk manager counts: no outcome yet.
Counted == {i \in Ids : outcome[i] = "NULL"}

\* The risk manager is asked once for the whole cycle.
ScanCycle(c) ==
  /\ Cardinality(Counted) < MaxOpen
  /\ Start(c)
  /\ UNCHANGED faults

\* The risk manager cannot read the table and lets the cycle pass.
FailOpenCycle(c) ==
  /\ Cardinality(Counted) >= MaxOpen
  /\ Start(c)
  /\ Fails

\* The symbol stops before the engine has stored anything: at a gate of the
\* scanner, at the score, as a duplicate, or as a weak signal.
Drop(t) ==
  /\ At(t, "start")
  /\ Stop(t)
  /\ UNCHANGED <<now, signals, sweeping, faults>>

\* _compute_valid_until: not past the close, unless the market is closed.
ValidUntil == IF now >= Close THEN now + ValidFor ELSE Least(now + ValidFor, Close)

\* The symbol with the signal its 30 seconds are for.
Created(p) ==
  [step |-> "risk", since |-> now, pattern |-> p, until |-> ValidUntil, sig |-> 0]

\* Mutant of Score: a scan on request is not held to the time of day.
ScoreAnytime(t, p) ==
  /\ At(t, "start")
  /\ Len(rows) + Cardinality({u \in Slots : At(u, "risk")}) < MaxSignals
  /\ p[1] = t[2]
  /\ task' = [task EXCEPT ![t] = Created(p)]
  /\ UNCHANGED <<now, signals, sweeping>>

\* The symbol has its turn and passes the gates; the engine scores it and creates its signal.
Score(t, p) ==
  /\ At(t, "start")
  /\ now < LastEntry
  /\ Len(rows) + Cardinality({u \in Slots : At(u, "risk")}) < MaxSignals
  /\ p[1] = t[2]
  /\ task' = [task EXCEPT ![t] = Created(p)]
  /\ UNCHANGED <<now, signals, sweeping>>

\* A pattern registered and not yet expired is a duplicate.
Process(t, p) ==
  /\ dedup[p] <= now
  /\ Score(t, p)
  /\ UNCHANGED faults

\* Redis does not answer: the signal counts as new.
ProcessUndeduplicated(t, p) ==
  /\ dedup[p] > now
  /\ Score(t, p)
  /\ Fails

\* The row is stored with what the risk engine said of the signal.
Store(t, state) ==
  rows' = Append(rows, [state |-> state, pattern |-> task[t].pattern, until |-> task[t].until])

\* The signal of a symbol past the risk engine.
Stored(t) ==
  task' = [task EXCEPT ![t].step = "publish", ![t].until = 0, ![t].sig = Len(rows')]

\* Mutant of Reject: the row is stored before the verdict is in it.
RejectUndecided(t) ==
  /\ At(t, "risk")
  /\ Store(t, "RISK_PENDING")
  /\ Stop(t)
  /\ UNCHANGED <<now, published, dedup, outcome, sweeping, faults>>

Reject(t) ==
  /\ At(t, "risk")
  /\ Store(t, "RISK_REJECTED")
  /\ Stop(t)
  /\ UNCHANGED <<now, published, dedup, outcome, sweeping, faults>>

\* Mutant of Persist: the approval is out before the row is stored.
PersistLast(t) ==
  /\ At(t, "risk")
  /\ \/ Store(t, "RISK_APPROVED") /\ Stored(t)
     \/ rows' = rows /\ Stop(t)
  /\ published' = published \cup {Len(rows) + 1}
  /\ UNCHANGED <<now, dedup, outcome, sweeping, faults>>

Persist(t) ==
  /\ At(t, "risk")
  /\ Store(t, "RISK_APPROVED")
  /\ Stored(t)
  /\ UNCHANGED <<now, published, dedup, outcome, sweeping, faults>>

Publish(t) ==
  /\ At(t, "publish")
  /\ published' = published \cup {task[t].sig}
  /\ Goto(t, "register")
  /\ UNCHANGED <<now, rows, dedup, outcome, sweeping, faults>>

\* Every try raised; the engine goes on as if it had published.
PublishFails(t) ==
  /\ At(t, "publish")
  /\ Goto(t, "register")
  /\ Fails
  /\ UNCHANGED <<now, signals, sweeping>>

\* Mutant of Register: the key lives no longer than a scan interval.
RegisterBriefly(t) ==
  /\ At(t, "register")
  /\ dedup' = [dedup EXCEPT ![task[t].pattern] = now + 1]
  /\ Goto(t, "gates")
  /\ UNCHANGED <<now, rows, published, outcome, sweeping, faults>>

Register(t) ==
  /\ At(t, "register")
  /\ dedup' = [dedup EXCEPT ![task[t].pattern] = now + DedupTtl]
  /\ Goto(t, "gates")
  /\ UNCHANGED <<now, rows, published, outcome, sweeping, faults>>

RegisterFails(t) ==
  /\ At(t, "register")
  /\ Goto(t, "gates")
  /\ Fails
  /\ UNCHANGED <<now, signals, sweeping>>

\* The engine has answered; the scanner records the signal as accepted, which
\* it also does with one it has found no contract for.
Accept(t) ==
  /\ At(t, "gates")
  /\ outcome' = [outcome EXCEPT ![task[t].sig] = "NULL"]
  /\ Stop(t)
  /\ UNCHANGED <<now, rows, published, dedup, sweeping, faults>>

\* Or one of its gates drops the signal: overbought, momentum against it, score
\* below the floor of the regime, a wall, volatility too expensive, expiry day.
Gate(t) ==
  /\ At(t, "gates")
  /\ Stop(t)
  /\ UNCHANGED <<now, signals, sweeping, faults>>

\* The 30 seconds are over, or the step raised: the symbol counts as rejected,
\* whatever the step it was at has done.
Abandon(t) ==
  /\ task[t] # Idle
  /\ \/ UNCHANGED <<rows, published, dedup>>
     \/ At(t, "risk") /\ Store(t, "RISK_APPROVED") /\ UNCHANGED <<published, dedup>>
     \/ /\ At(t, "publish")
        /\ published' = published \cup {task[t].sig}
        /\ UNCHANGED <<rows, dedup>>
  /\ Stop(t)
  /\ Fails
  /\ UNCHANGED <<now, outcome, sweeping>>

--------------------------------------------------------------------------------
\* The tracker of outcomes: a signal that hit neither target nor stop is written down as OPEN.
Track(i, result) ==
  /\ outcome[i] \in {"NULL", "OPEN"}
  /\ outcome' = [outcome EXCEPT ![i] = result]
  /\ UNCHANGED <<now, task, rows, published, dedup, sweeping, faults>>

--------------------------------------------------------------------------------
(***************************************************************************)
(* The services that expire rows.  Each selects the rows, updates them by  *)
(* their ids in the same transaction, and announces them after its commit. *)
(***************************************************************************)
Resting(w) == sweep[w] = Asleep

\* Mutant of Due: rows are expired a tick early.
DueEarly(w) ==
  IF w = "expiry" THEN {i \in Approved : rows[i].until <= now + 1}
  ELSE IF now >= Cutoff /\ ~fired THEN Approved ELSE {}

Due(w) ==
  IF w = "expiry" THEN {i \in Approved : rows[i].until < now}
  ELSE IF now >= Cutoff /\ ~fired THEN Approved ELSE {}

Select(w) ==
  /\ Resting(w) /\ Due(w) # {}
  /\ sweep' = [sweep EXCEPT ![w] = [step |-> "update", ids |-> Due(w)]]
  /\ UNCHANGED <<now, task, signals, fired, told, faults>>

\* Nothing was left open at the cutoff.
NothingOpen ==
  /\ Resting("close") /\ now >= Cutoff /\ ~fired /\ Approved = {}
  /\ fired' = TRUE
  /\ UNCHANGED <<now, task, signals, sweep, told, faults>>

Update(w) ==
  /\ sweep[w].step = "update"
  /\ rows' = [i \in DOMAIN rows |->
       IF i \in sweep[w].ids THEN [rows[i] EXCEPT !.state = "EXPIRED"] ELSE rows[i]]
  /\ sweep' = [sweep EXCEPT ![w].step = "announce"]
  /\ UNCHANGED <<now, task, published, dedup, outcome, fired, told, faults>>

\* The market close exit is done for the day when it has told of every row.
Announce(w, i) ==
  /\ sweep[w].step = "announce" /\ i \in sweep[w].ids
  /\ told' = [told EXCEPT ![i] = @ + 1]
  /\ IF sweep[w].ids = {i}
     THEN sweep' = [sweep EXCEPT ![w] = Asleep] /\ fired' = (fired \/ w = "close")
     ELSE sweep' = [sweep EXCEPT ![w].ids = @ \ {i}] /\ fired' = fired
  /\ UNCHANGED <<now, task, signals, faults>>

\* Mutant of AnnounceFails: what was not announced is announced all over again.
AnnounceAgain(w) ==
  /\ sweep[w].step = "announce"
  /\ sweep' = [sweep EXCEPT ![w] = [step |-> "announce", ids |-> DOMAIN rows]]
  /\ Fails
  /\ UNCHANGED <<now, task, signals, fired, told>>

\* The publish raises: the rest is not announced.
AnnounceFails(w) ==
  /\ sweep[w].step = "announce"
  /\ sweep' = [sweep EXCEPT ![w] = Asleep]
  /\ Fails
  /\ UNCHANGED <<now, task, signals, fired, told>>

--------------------------------------------------------------------------------
\* The process dies, with the scans and the sweeps under way.
Crash ==
  /\ task' = [t \in Slots |-> Idle]
  /\ sweep' = [w \in Sweepers |-> Asleep]
  /\ fired' = FALSE
  /\ Fails
  /\ UNCHANGED <<now, signals, told>>

Step(t) ==
  \/ Drop(t)
  \/ \E p \in Pattern : Process(t, p) \/ ProcessUndeduplicated(t, p)
  \/ Reject(t) \/ Persist(t)
  \/ Publish(t) \/ PublishFails(t)
  \/ Register(t) \/ RegisterFails(t)
  \/ Accept(t) \/ Gate(t)

Sweep(w) == Select(w) \/ Update(w) \/ \E i \in Ids : Announce(w, i)

Next ==
  \/ Tick
  \/ \E c \in Scans : ScanCycle(c) \/ FailOpenCycle(c)
  \/ \E t \in Slots : Step(t) \/ Abandon(t)
  \/ \E i \in Ids : \E result \in {"OPEN", "over"} : Track(i, result)
  \/ NothingOpen
  \/ \E w \in Sweepers : Sweep(w) \/ AnnounceFails(w)
  \/ Crash

Spec == Init /\ [][Next]_vars

--------------------------------------------------------------------------------
(***************************************************************************)
(* Properties.                                                             *)
(***************************************************************************)

\* Every variable has its type; rows exist for all ids that are spoken of.
TypeOK ==
  /\ now \in 0..EndOfDay
  /\ \A t \in Slots : task[t].step \in Steps
  /\ rows \in Seq(Row) /\ Len(rows) <= MaxSignals
  /\ dedup \in [Pattern -> Nat]
  /\ published \subseteq Ids
  /\ outcome \in [Ids -> Outcomes]
  /\ \A w \in Sweepers : sweep[w].ids \subseteq DOMAIN rows
  /\ fired \in BOOLEAN /\ told \in [Ids -> Nat] /\ faults \in 0..MaxFaults

\* The database comes first: an approval is on the stream only when its row is
\* in the table as approved, or expired since.
PublishedIsPersisted ==
  \A i \in published : i \in DOMAIN rows /\ rows[i].state # "RISK_REJECTED"

Live(p) == {i \in published : rows[i].pattern = p /\ now < rows[i].until}

\* Overlapping scans may approve one pattern again before either registers it,
\* and a failure may lose a registration, a crash those of all scans: the live
\* approvals of a pattern are no more than one of each scan, once more for each
\* failure.
DuplicatesBounded ==
  \A p \in Pattern : Cardinality(Live(p)) <= Cardinality(Scans) * (1 + faults)

Busy == {t \in Slots : task[t] # Idle}

\* The risk manager, asked once a cycle, lets through at most the limit and
\* what the cycles under way still find.
CountedBounded ==
  Cardinality(Counted) + Cardinality(Busy)
    <= MaxOpen - 1 + Cardinality(Slots) + Cardinality(Symbols) * faults

\* After the cutoff has been dealt with no row is left open.
NoCarryOver == fired => Approved = {}

\* Two services expire rows, so an expiry may be announced twice, never more.
AnnouncedByEach == \A i \in Ids : told[i] <= Cardinality(Sweepers)

\* What the table says has expired the OMS, which goes by the time in the
\* message and never looks at the row, does not take either.
ExpiredIsRefused ==
  \A i \in published : rows[i].state = "EXPIRED" => rows[i].until <= now

--------------------------------------------------------------------------------
(***************************************************************************)
(* Why rows and messages agree.                                            *)
(***************************************************************************)
Task ==
  [step : Steps, since : Nat, pattern : Pattern \cup {NoPattern}, until : Nat, sig : Nat]

Variables ==
  /\ now \in Nat
  /\ task \in [Slots -> Task]
  /\ rows \in Seq(Row)
  /\ sweep \in [Sweepers -> [step : {"idle", "update", "announce"}, ids : SUBSET DOMAIN rows]]
  /\ fired \in BOOLEAN
  /\ told \in [Ids -> Nat]

\* A symbol that has a signal has stored its row.
TaskInv ==
  /\ PublishedIsPersisted
  /\ \A t \in Slots : task[t].step \in {"publish", "register", "gates"} =>
       task[t].sig \in DOMAIN rows /\ rows[task[t].sig].state # "RISK_REJECTED"

\* A signal is created before LastEntry and stored a tick later at most, so that
\* none is stored after the cutoff, and none outlasts the close.
DayInv ==
  /\ \A t \in Slots : task[t].step \notin {"idle", "start"} => task[t].since \in {now - 1, now}
  /\ \A t \in Slots : task[t].step = "risk" =>
       /\ task[t].pattern \in Pattern
       /\ task[t].since < LastEntry
       /\ task[t].until <= Close
  /\ \A i \in DOMAIN rows : rows[i].until <= Close

\* What a sweep is about to expire is due, and what it announces has expired.
SweepInv ==
  /\ \A i \in DOMAIN rows : rows[i].state = "EXPIRED" => rows[i].until <= now
  /\ \A i \in sweep["expiry"].ids : rows[i].until <= now
  /\ sweep["close"].step # "idle" => now >= Cutoff /\ Approved \subseteq sweep["close"].ids
  /\ \A w \in Sweepers : sweep[w].step = "announce" => sweep[w].ids \cap Approved = {}

CloseInv == fired => now >= Cutoff /\ Approved = {}

\* Who is still to announce the expiry of i; what is not expired was not announced.
Announcers(i) == {w \in Sweepers : i \in sweep[w].ids}

ToldInv ==
  \A i \in Ids :
    /\ told[i] + Cardinality(Announcers(i)) <= Cardinality(Sweepers)
    /\ i \notin DOMAIN rows \/ i \in Approved => told[i] = 0

IInv == Variables /\ TaskInv /\ DayInv /\ SweepInv /\ CloseInv /\ ToldInv

(***************************************************************************)
(* Why the bounds hold: the ids last, and what is live of a pattern has     *)
(* been registered, is about to be, or was lost to a failure.              *)
(***************************************************************************)
AtRisk == {t \in Slots : At(t, "risk")}

BoundsInv ==
  /\ now <= EndOfDay /\ faults \in 0..MaxFaults
  /\ dedup \in [Pattern -> Nat] /\ outcome \in [Ids -> Outcomes]
  /\ Len(rows) + Cardinality(AtRisk) <= MaxSignals

\* A registration outlasts the signal, and is made for the pattern of its row.
PatternInv ==
  /\ \A p \in Pattern : dedup[p] <= now + DedupTtl
  /\ \A t \in Slots : task[t].step \in {"risk", "publish", "register"} =>
       task[t].pattern \in Pattern /\ task[t].pattern[1] = t[2]
  /\ \A t \in Slots : task[t].step = "risk" => task[t].until <= now + ValidFor
  /\ \A t \in Slots : task[t].step \in {"publish", "register"} =>
       /\ rows[task[t].sig].pattern = task[t].pattern
       /\ rows[task[t].sig].until <= now + ValidFor

\* The symbols that will yet publish a signal of pattern p, or register one.
Deciding(p) == {t \in Slots : task[t].step \in {"risk", "publish"} /\ task[t].pattern = p}
Registering(p) == {t \in Slots : At(t, "register") /\ task[t].pattern = p}

\* The live approvals that neither a registration nor a symbol stands for.
Lost(p) ==
  {i \in Live(p) : dedup[p] < rows[i].until /\ \A t \in Registering(p) : task[t].sig # i}

DuplicatesInv ==
  \A p \in Pattern :
    /\ Cardinality(Lost(p)) <= Cardinality(Scans) * faults
    /\ Cardinality(Live(p)) + Cardinality(Deciding(p)) <= Cardinality(Scans) * (1 + faults)

--------------------------------------------------------------------------------
(***************************************************************************)
(* What the documents say and the code does not do.                        *)
(***************************************************************************)

\* A signal that one of the scanner's gates drops has not been approved.
GatedNotApproved ==
  [][\A t \in Slots : Gate(t) => task[t].sig \notin published]_vars
=============================================================================
