------------------------- MODULE SignalPipelineProofs -------------------------
(***************************************************************************)
(* Proofs about scans, the signal engine and the services that expire      *)
(* signals, for every set of scans, symbols and patterns, every day and    *)
(* any number of signals and failures.                                     *)
(***************************************************************************)
EXTENDS SignalPipeline, FiniteSetTheorems, TLAPS

\* A new row at the end of the table.
LEMMA NewRow ==
  ASSUME rows \in Seq(Row), NEW r \in Row, rows' = Append(rows, r)
  PROVE  /\ rows' \in Seq(Row)
         /\ Len(rows) \in Nat /\ Len(rows') = Len(rows) + 1
         /\ DOMAIN rows = 1..Len(rows) /\ DOMAIN rows' = DOMAIN rows \cup {Len(rows')}
         /\ Len(rows') \notin DOMAIN rows
         /\ \A i \in DOMAIN rows : rows'[i] = rows[i]
         /\ rows'[Len(rows')] = r
OBVIOUS

\* An update of rows by their ids.
LEMMA Expired ==
  ASSUME Variables, NEW w \in Sweepers, Update(w)
  PROVE  /\ rows' \in Seq(Row)
         /\ DOMAIN rows' = DOMAIN rows
         /\ \A i \in DOMAIN rows :
              /\ rows'[i].pattern = rows[i].pattern /\ rows'[i].until = rows[i].until
              /\ rows'[i].state = IF i \in sweep[w].ids THEN "EXPIRED" ELSE rows[i].state
<1> DEFINE new(i) == IF i \in sweep[w].ids THEN [rows[i] EXCEPT !.state = "EXPIRED"] ELSE rows[i]
<1>1. rows' = [i \in DOMAIN rows |-> new(i)]
  BY DEF Update
<1>2. rows \in Seq(Row) /\ DOMAIN rows = 1..Len(rows) /\ Len(rows) \in Nat
  BY DEF Variables
<1>3. ASSUME NEW i \in DOMAIN rows
      PROVE  /\ new(i) \in Row
             /\ new(i).pattern = rows[i].pattern /\ new(i).until = rows[i].until
             /\ new(i).state = IF i \in sweep[w].ids THEN "EXPIRED" ELSE rows[i].state
  <2>1. rows[i] \in Row
    BY <1>2
  <2> QED
    BY <2>1 DEF Row, States
<1> HIDE DEF new
<1>4. rows' \in [1..Len(rows) -> Row]
  BY <1>1, <1>2, <1>3
<1>5. rows' \in Seq(Row)
  BY <1>2, <1>4
<1> QED
  BY <1>1, <1>3, <1>5

--------------------------------------------------------------------------------
\* There are two sweepers.
LEMMA TwoSweepers ==
  /\ Cardinality(Sweepers) = 2
  /\ \A S \in SUBSET Sweepers : IsFiniteSet(S) /\ Cardinality(S) \in 0..2
  /\ Cardinality({}) = 0
<1>1. Cardinality({}) = 0 /\ IsFiniteSet({})
  BY FS_EmptySet
<1>2. IsFiniteSet({"expiry"}) /\ Cardinality({"expiry"}) = 1
  BY FS_Singleton
<1>3. {"expiry"} \cup {"close"} = Sweepers
  BY DEF Sweepers
<1>4. IsFiniteSet(Sweepers) /\ Cardinality(Sweepers) = 2
  BY <1>2, <1>3, FS_AddElement
<1>5. ASSUME NEW S \in SUBSET Sweepers PROVE IsFiniteSet(S) /\ Cardinality(S) \in 0..2
  <2>1. IsFiniteSet(S) /\ Cardinality(S) <= Cardinality(Sweepers)
    BY <1>4, FS_Subset
  <2>2. Cardinality(S) \in Nat
    BY <2>1, FS_CardinalityType
  <2> QED
    BY <1>4, <2>1, <2>2
<1> QED
  BY <1>1, <1>4, <1>5

\* The first states satisfy the invariant.
LEMMA InitInv == Init => IInv
<1> SUFFICES ASSUME Init PROVE IInv
  OBVIOUS
<1> USE DEF Init
<1>1. rows \in Seq(Row) /\ DOMAIN rows = {}
  OBVIOUS
<1>2. Variables
  <2>1. task \in [Slots -> Task]
    BY DEF Task, Idle, Steps
  <2>2. sweep \in [Sweepers -> [step : {"idle", "update", "announce"}, ids : SUBSET DOMAIN rows]]
    BY DEF Asleep
  <2> QED
    BY <1>1, <2>1, <2>2 DEF Variables
<1>3. TaskInv /\ DayInv
  BY <1>1 DEF TaskInv, DayInv, PublishedIsPersisted, Idle
<1>4. SweepInv /\ CloseInv
  BY <1>1 DEF SweepInv, CloseInv, Sweepers, Asleep, Approved
<1>5. ToldInv
  <2>1. \A i \in Ids : told[i] = 0 /\ Announcers(i) = {}
    BY DEF Announcers, Asleep
  <2>2. ASSUME NEW i \in Ids PROVE told[i] + Cardinality(Announcers(i)) <= Cardinality(Sweepers)
    <3>1. Cardinality(Announcers(i)) = 0
      BY <2>1, TwoSweepers
    <3> QED
      BY <2>1, <3>1, TwoSweepers
  <2> QED
    BY <2>1, <2>2 DEF ToldInv
<1> QED
  BY <1>2, <1>3, <1>4, <1>5 DEF IInv

--------------------------------------------------------------------------------
\* What a step does to the table and the sweeps.
Quiet == UNCHANGED <<now, rows, sweep, fired, told>>

Stores(t, state) == At(t, "risk") /\ Store(t, state) /\ UNCHANGED <<now, sweep, fired, told>>

\* A step is quiet, stores the row of a signal past the risk engine, or is one of
\* the clock, of a sweep, or a crash.
LEMMA Kinds ==
  ASSUME [Next]_vars
  PROVE  \/ Quiet
         \/ \E t \in Slots : \E state \in {"RISK_APPROVED", "RISK_REJECTED"} : Stores(t, state)
         \/ Tick \/ NothingOpen \/ Crash
         \/ \E w \in Sweepers : Select(w) \/ Update(w) \/ AnnounceFails(w)
         \/ \E w \in Sweepers : \E i \in Ids : Announce(w, i)
<1> USE DEF Quiet, Stores
<1>1. ASSUME NEW t \in Slots, Abandon(t)
      PROVE  Quiet \/ Stores(t, "RISK_APPROVED")
  BY <1>1 DEF Abandon, sweeping
<1>2. ASSUME NEW t \in Slots, Step(t)
      PROVE  Quiet \/ \E state \in {"RISK_APPROVED", "RISK_REJECTED"} : Stores(t, state)
  <2>1. Reject(t) => Stores(t, "RISK_REJECTED")
    BY DEF Reject, sweeping
  <2>2. Persist(t) => Stores(t, "RISK_APPROVED")
    BY DEF Persist, sweeping
  <2>3. Drop(t) \/ (\E p \in Pattern : Process(t, p) \/ ProcessUndeduplicated(t, p)) => Quiet
    BY DEF Drop, Process, ProcessUndeduplicated, Score, signals, sweeping
  <2>4. Publish(t) \/ PublishFails(t) \/ Register(t) \/ RegisterFails(t) => Quiet
    BY DEF Publish, PublishFails, Register, RegisterFails, signals, sweeping
  <2>5. Accept(t) \/ Gate(t) => Quiet
    BY DEF Accept, Gate, signals, sweeping
  <2> QED
    BY <1>2, <2>1, <2>2, <2>3, <2>4, <2>5 DEF Step
<1>3. ASSUME NEW c \in Scans, ScanCycle(c) \/ FailOpenCycle(c)
      PROVE  Quiet
  BY <1>3 DEF ScanCycle, FailOpenCycle, Start, signals, sweeping
<1>4. ASSUME NEW i \in Ids, NEW result, Track(i, result)
      PROVE  Quiet
  BY <1>4 DEF Track, sweeping
<1>5. UNCHANGED vars => Quiet
  BY DEF vars, signals, sweeping
<1> HIDE DEF Quiet, Stores
<1> QED
  BY <1>1, <1>2, <1>3, <1>4, <1>5 DEF Next, Sweep

\* What a step does to the symbol of a cycle.
Moves(t) ==
  \/ task'[t] = task[t]
  \/ task'[t].step = "idle"
  \/ task'[t].step = "start"
  \/ \E p \in Pattern :
       /\ task[t].step = "start" /\ now < LastEntry /\ now' = now
       /\ task'[t] = Created(p)
  \/ /\ task[t].step = "risk" /\ Store(t, "RISK_APPROVED") /\ task'[t].step = "publish"
     /\ task'[t].sig = Len(rows') /\ task'[t].since = task[t].since /\ now' = now
  \/ /\ task[t].step \in {"publish", "register"} /\ task'[t].step \in {"register", "gates"}
     /\ task'[t].sig = task[t].sig /\ task'[t].since = task[t].since /\ now' = now

\* A signal is valid for some time, but not past the close.
LEMMA Validity ==
  ASSUME now \in Nat
  PROVE  ValidUntil \in Nat /\ (now < LastEntry => ValidUntil <= Close)
BY DayAssumption, ConfigAssumption DEF ValidUntil, Least

\* Each symbol moves on, or does not.
LEMMA TasksMove ==
  ASSUME Variables, [Next]_vars
  PROVE  task' \in [Slots -> Task] /\ \A t \in Slots : Moves(t)
<1>1. task \in [Slots -> Task] /\ now \in Nat /\ Len(rows) \in Nat
  BY DEF Variables
<1>2. CASE UNCHANGED task
  BY <1>1, <1>2 DEF Moves
<1>3. ASSUME NEW t \in Slots, NEW new \in Task, task' = [task EXCEPT ![t] = new], Moves(t)
      PROVE  task' \in [Slots -> Task] /\ \A u \in Slots : Moves(u)
  <2>1. \A u \in Slots : u # t => task'[u] = task[u]
    BY <1>1, <1>3
  <2> QED
    BY <1>1, <1>3, <2>1 DEF Moves
<1>4. ASSUME NEW t \in Slots, Stop(t)
      PROVE  task' \in [Slots -> Task] /\ \A u \in Slots : Moves(u)
  <2>1. Idle \in Task
    BY DEF Idle, Task, Steps
  <2>2. task'[t].step = "idle"
    BY <1>1, <1>4 DEF Stop, Idle
  <2> QED
    BY <1>3, <1>4, <2>1, <2>2 DEF Stop, Moves
<1>5. ASSUME NEW t \in Slots, NEW step \in {"register", "gates"}, Goto(t, step), now' = now,
             task[t].step \in {"publish", "register"}
      PROVE  task' \in [Slots -> Task] /\ \A u \in Slots : Moves(u)
  <2> DEFINE new == [task[t] EXCEPT !.step = step]
  <2>1. new \in Task /\ new.step = step /\ new.sig = task[t].sig /\ new.since = task[t].since
    BY <1>1 DEF Task, Steps
  <2>2. task' = [task EXCEPT ![t] = new] /\ task'[t] = new
    BY <1>1, <1>5 DEF Goto
  <2> HIDE DEF new
  <2>3. Moves(t)
    BY <1>5, <2>1, <2>2 DEF Moves
  <2> QED
    BY <1>3, <2>1, <2>2, <2>3
<1>6. ASSUME NEW t \in Slots, NEW p \in Pattern, Score(t, p)
      PROVE  task' \in [Slots -> Task] /\ \A u \in Slots : Moves(u)
  <2>1. Created(p) \in Task
    BY <1>1, Validity DEF Created, Task, Steps
  <2>2. task' = [task EXCEPT ![t] = Created(p)] /\ task'[t] = Created(p)
    BY <1>1, <1>6 DEF Score
  <2>3. Moves(t)
    BY <1>6, <2>2 DEF Moves, Score, At
  <2> QED
    BY <1>3, <2>1, <2>2, <2>3
<1>7. ASSUME NEW t \in Slots, Persist(t)
      PROVE  task' \in [Slots -> Task] /\ \A u \in Slots : Moves(u)
  <2> DEFINE new == [task[t] EXCEPT !.step = "publish", !.until = 0, !.sig = Len(rows')]
  <2>1. Len(rows') \in Nat
    <3>1. rows' = Append(rows, [state |-> "RISK_APPROVED", pattern |-> task[t].pattern, until |-> task[t].until])
      BY <1>7 DEF Persist, Store
    <3>2. rows \in Seq(Row)
      BY DEF Variables
    <3> QED
      BY <3>1, <3>2
  <2>2. new \in Task /\ new.step = "publish" /\ new.sig = Len(rows') /\ new.since = task[t].since
    BY <1>1, <2>1 DEF Task, Steps
  <2>3. task' = [task EXCEPT ![t] = new] /\ task'[t] = new
    BY <1>1, <1>7 DEF Persist, Stored
  <2> HIDE DEF new
  <2>4. Moves(t)
    BY <1>7, <2>2, <2>3 DEF Moves, Persist, At
  <2> QED
    BY <1>3, <2>2, <2>3, <2>4
<1>8. ASSUME NEW c \in Scans, Start(c)
      PROVE  task' \in [Slots -> Task] /\ \A u \in Slots : Moves(u)
  <2> DEFINE new == [Idle EXCEPT !.step = "start"]
  <2>1. new \in Task /\ new.step = "start"
    BY <1>1 DEF Task, Steps, Idle
  <2>2. task' = [t \in Slots |-> IF t[1] = c THEN new ELSE task[t]]
    BY <1>8 DEF Start
  <2> HIDE DEF new
  <2> QED
    BY <1>1, <2>1, <2>2 DEF Moves
<1>9. CASE Crash
  <2>1. task' = [t \in Slots |-> Idle] /\ Idle \in Task /\ Idle.step = "idle"
    BY <1>9 DEF Crash, Idle, Task, Steps
  <2> QED
    BY <2>1 DEF Moves
<1>10. ASSUME NEW t \in Slots, Step(t) \/ Abandon(t)
       PROVE  task' \in [Slots -> Task] /\ \A u \in Slots : Moves(u)
  <2>1. CASE Drop(t) \/ Reject(t) \/ Accept(t) \/ Gate(t) \/ Abandon(t)
    BY <1>4, <2>1 DEF Drop, Reject, Accept, Gate, Abandon
  <2>2. CASE \E p \in Pattern : Process(t, p) \/ ProcessUndeduplicated(t, p)
    BY <1>6, <2>2 DEF Process, ProcessUndeduplicated
  <2>3. CASE Publish(t) \/ PublishFails(t)
    BY <1>5, <2>3 DEF Publish, PublishFails, At
  <2>4. CASE Register(t) \/ RegisterFails(t)
    BY <1>5, <2>4 DEF Register, RegisterFails, At
  <2> QED
    BY <1>7, <1>10, <2>1, <2>2, <2>3, <2>4 DEF Step
<1>11. CASE Tick \/ NothingOpen \/ UNCHANGED vars
            \/ (\E i \in Ids : \E result \in {"OPEN", "over"} : Track(i, result))
            \/ (\E w \in Sweepers : Sweep(w) \/ AnnounceFails(w))
  <2>1. UNCHANGED task
    BY <1>11 DEF Tick, NothingOpen, vars, Track, Sweep, Select, Update, Announce, AnnounceFails
  <2> QED
    BY <1>2, <2>1
<1> QED
  BY <1>8, <1>9, <1>10, <1>11 DEF Next, ScanCycle, FailOpenCycle

--------------------------------------------------------------------------------
\* The row of a new signal.
LEMMA Storing ==
  ASSUME Variables, DayInv, NEW t \in Slots, NEW state \in {"RISK_APPROVED", "RISK_REJECTED"},
         At(t, "risk"), Store(t, state)
  PROVE  /\ rows' \in Seq(Row)
         /\ Len(rows') \in Nat
         /\ DOMAIN rows' = DOMAIN rows \cup {Len(rows')} /\ Len(rows') \notin DOMAIN rows
         /\ \A i \in DOMAIN rows : rows'[i] = rows[i]
         /\ rows'[Len(rows')].state = state /\ rows'[Len(rows')].until <= Close
<1> DEFINE r == [state |-> state, pattern |-> task[t].pattern, until |-> task[t].until]
<1>1. task[t] \in Task /\ task[t].pattern \in Pattern /\ task[t].until <= Close
  BY DEF Variables, DayInv, At
<1>2. r \in Row
  BY <1>1 DEF Row, States, Task
<1>3. rows' = Append(rows, r) /\ rows \in Seq(Row)
  BY DEF Store, Variables
<1>4. r.state = state /\ r.until = task[t].until
  OBVIOUS
<1> HIDE DEF r
<1> QED
  BY <1>1, <1>2, <1>3, <1>4, NewRow

\* Rows are added and expired, and nothing else happens to them.
LEMMA RowsMove ==
  ASSUME Variables, DayInv, [Next]_vars
  PROVE  /\ rows' \in Seq(Row)
         /\ DOMAIN rows \subseteq DOMAIN rows'
         /\ \A i \in DOMAIN rows :
              /\ rows'[i].until = rows[i].until
              /\ rows'[i].state \in {rows[i].state, "EXPIRED"}
<1>1. rows \in Seq(Row)
  BY DEF Variables
<1>2. CASE \E t \in Slots : \E state \in {"RISK_APPROVED", "RISK_REJECTED"} : Stores(t, state)
  BY <1>2, Storing DEF Stores
<1>3. CASE \E w \in Sweepers : Update(w)
  BY <1>3, Expired
<1>4. CASE UNCHANGED rows
  BY <1>1, <1>4
<1> QED
  BY Kinds, <1>2, <1>3, <1>4 DEF Quiet, Tick, NothingOpen, Crash, signals, Select, AnnounceFails,
    Announce

\* Every variable keeps its type.
LEMMA VariablesStep ==
  ASSUME Variables, DayInv, [Next]_vars
  PROVE  Variables'
<1> DEFINE Sweeping == [step : {"idle", "update", "announce"}, ids : SUBSET DOMAIN rows']
<1>1. /\ rows' \in Seq(Row) /\ task' \in [Slots -> Task]
      /\ sweep \in [Sweepers -> Sweeping]
  BY RowsMove, TasksMove DEF Variables
<1>2. SUFFICES /\ now' \in Nat /\ sweep' \in [Sweepers -> Sweeping]
               /\ fired' \in BOOLEAN /\ told' \in [Ids -> Nat]
  BY <1>1 DEF Variables
<1>3. now \in Nat /\ fired \in BOOLEAN /\ told \in [Ids -> Nat] /\ DOMAIN rows \subseteq DOMAIN rows'
  BY RowsMove DEF Variables
<1>4. CASE Quiet \/ (\E t \in Slots : \E state \in {"RISK_APPROVED", "RISK_REJECTED"} : Stores(t, state))
  BY <1>1, <1>3, <1>4 DEF Quiet, Stores
<1>5. CASE Tick \/ NothingOpen \/ Crash
  <2>1. CASE Tick
    BY <1>1, <1>3, <2>1 DEF Tick, sweeping
  <2>2. CASE NothingOpen
    BY <1>1, <1>3, <2>2 DEF NothingOpen
  <2>3. CASE Crash
    <3>1. Asleep \in Sweeping
      BY DEF Asleep
    <3> QED
      BY <1>3, <2>3, <3>1 DEF Crash
  <2> QED
    BY <1>5, <2>1, <2>2, <2>3
<1>6. ASSUME NEW w \in Sweepers, Select(w) \/ Update(w) \/ AnnounceFails(w)
      PROVE  UNCHANGED <<now, fired, told>> /\ sweep' \in [Sweepers -> Sweeping]
  <2>1. CASE Select(w)
    <3>1. [step |-> "update", ids |-> Due(w)] \in Sweeping
      BY <1>3 DEF Due, Approved
    <3> QED
      BY <1>1, <2>1, <3>1 DEF Select
  <2>2. CASE Update(w)
    <3>1. [sweep[w] EXCEPT !.step = "announce"] \in Sweeping
      BY <1>1
    <3>2. sweep' = [sweep EXCEPT ![w] = [sweep[w] EXCEPT !.step = "announce"]]
      BY <2>2 DEF Update
    <3> QED
      BY <1>1, <2>2, <3>1, <3>2 DEF Update
  <2>3. CASE AnnounceFails(w)
    BY <1>1, <2>3 DEF AnnounceFails, Asleep
  <2> QED
    BY <1>6, <2>1, <2>2, <2>3
<1>7. ASSUME NEW w \in Sweepers, NEW i \in Ids, Announce(w, i)
      PROVE  /\ now' = now /\ sweep' \in [Sweepers -> Sweeping]
             /\ fired' \in BOOLEAN /\ told' \in [Ids -> Nat]
  <2>1. told' \in [Ids -> Nat] /\ now' = now
    BY <1>3, <1>7 DEF Announce
  <2>2. CASE sweep' = [sweep EXCEPT ![w] = Asleep] /\ fired' = (fired \/ w = "close")
    BY <1>1, <2>1, <2>2 DEF Asleep
  <2>3. CASE sweep' = [sweep EXCEPT ![w].ids = @ \ {i}] /\ fired' = fired
    <3>1. [sweep[w] EXCEPT !.ids = @ \ {i}] \in Sweeping
      BY <1>1
    <3>2. sweep' = [sweep EXCEPT ![w] = [sweep[w] EXCEPT !.ids = @ \ {i}]]
      BY <2>3
    <3> QED
      BY <1>1, <1>3, <2>1, <2>3, <3>1, <3>2
  <2> QED
    BY <1>7, <2>2, <2>3 DEF Announce
<1> QED
  BY Kinds, <1>3, <1>4, <1>5, <1>6, <1>7

\* Rows are stored before the symbol moves on to publish.
LEMMA TaskStep ==
  ASSUME Variables, TaskInv, DayInv, [Next]_vars
  PROVE  TaskInv'
<1>1. /\ DOMAIN rows \subseteq DOMAIN rows'
      /\ \A i \in DOMAIN rows : rows'[i].state \in {rows[i].state, "EXPIRED"}
  BY RowsMove
<1>2. \A i \in DOMAIN rows : rows[i].state # "RISK_REJECTED" => rows'[i].state # "RISK_REJECTED"
  BY <1>1
<1>3. ASSUME NEW t \in Slots, task'[t].step \in {"publish", "register", "gates"}
      PROVE  task'[t].sig \in DOMAIN rows' /\ rows'[task'[t].sig].state # "RISK_REJECTED"
  <2>1. Moves(t)
    BY TasksMove
  <2>2. CASE task[t].step = "risk" /\ Store(t, "RISK_APPROVED") /\ task'[t].sig = Len(rows')
    BY <2>2, Storing DEF At
  <2>3. CASE task[t].step \in {"publish", "register", "gates"} /\ task'[t].sig = task[t].sig
    BY <1>1, <1>2, <2>3 DEF TaskInv
  <2>4. CASE \E p \in Pattern : task'[t] = Created(p)
    BY <1>3, <2>4 DEF Created
  <2> QED
    BY <1>3, <2>1, <2>2, <2>3, <2>4 DEF Moves
<1>4. ASSUME NEW i \in published'
      PROVE  i \in DOMAIN rows' /\ rows'[i].state # "RISK_REJECTED"
  <2>1. CASE i \in published
    BY <1>1, <1>2, <2>1 DEF TaskInv, PublishedIsPersisted
  <2>2. CASE \E t \in Slots : At(t, "publish") /\ i = task[t].sig
    BY <1>1, <1>2, <2>2 DEF TaskInv, At
  <2>3. i \in published \/ \E t \in Slots : At(t, "publish") /\ i = task[t].sig
    <3>1. ASSUME NEW t \in Slots, Step(t) \/ Abandon(t)
          PROVE  published' = published \/ (At(t, "publish") /\ published' = published \cup {task[t].sig})
      BY <3>1 DEF Step, Drop, Process, ProcessUndeduplicated, Score, Reject, Persist, Publish,
        PublishFails, Register, RegisterFails, Accept, Gate, Abandon, signals
    <3>2. CASE \E t \in Slots : Step(t) \/ Abandon(t)
      BY <1>4, <3>1, <3>2
    <3>3. CASE ~\E t \in Slots : Step(t) \/ Abandon(t)
      <4>1. published' = published
        BY <3>3 DEF Next, Tick, ScanCycle, FailOpenCycle, Start, Track, NothingOpen, Sweep,
          Select, Update, Announce, AnnounceFails, Crash, vars, signals
      <4> QED
        BY <1>4, <4>1
    <3> QED
      BY <3>2, <3>3
  <2> QED
    BY <2>1, <2>2, <2>3
<1> QED
  BY <1>3, <1>4 DEF TaskInv, PublishedIsPersisted

--------------------------------------------------------------------------------
\* The clock does not pass a signal on its way into the table.
LEMMA DayStep ==
  ASSUME Variables, DayInv, [Next]_vars
  PROVE  DayInv'
<1>1. now \in Nat /\ now' \in Nat
  BY VariablesStep DEF Variables
<1>2. ASSUME NEW t \in Slots, task'[t].step \notin {"idle", "start"}
      PROVE  task'[t].since \in {now' - 1, now'}
  <2>1. Moves(t) /\ task[t] \in Task
    BY TasksMove DEF Variables
  <2>2. CASE task'[t] = task[t]
    <3>1. task[t].since \in {now - 1, now} /\ task[t].step \notin {"idle", "start"}
      BY <1>2, <2>2 DEF DayInv
    <3>2. now' = now \/ (now' = now + 1 /\ task[t].since = now)
      BY <3>1, Kinds DEF Quiet, Stores, Tick, NothingOpen, Crash, Select, Update, AnnounceFails,
        Announce
    <3> QED
      BY <1>1, <2>2, <3>1, <3>2
  <2>3. CASE now' = now /\ \E p \in Pattern : task'[t] = Created(p)
    BY <1>1, <2>3 DEF Created
  <2> QED
    BY <1>2, <2>1, <2>2, <2>3 DEF Moves, DayInv
<1>3. ASSUME NEW t \in Slots, task'[t].step = "risk"
      PROVE  /\ task'[t].pattern \in Pattern
             /\ task'[t].since < LastEntry
             /\ task'[t].until <= Close
  <2>1. Moves(t) /\ task[t] \in Task
    BY TasksMove DEF Variables
  <2>2. CASE task'[t] = task[t]
    BY <1>3, <2>2 DEF DayInv
  <2>3. CASE now < LastEntry /\ now' = now /\ \E p \in Pattern : task'[t] = Created(p)
    <3>1. /\ task'[t].pattern \in Pattern /\ task'[t].until = ValidUntil
          /\ task'[t].since = now
      BY <2>3 DEF Created
    <3> QED
      BY <1>1, <2>3, <3>1, Validity
  <2> QED
    BY <1>3, <2>1, <2>2, <2>3 DEF Moves
<1>4. ASSUME NEW i \in DOMAIN rows' PROVE rows'[i].until <= Close
  <2>1. CASE i \in DOMAIN rows
    BY <2>1, RowsMove DEF DayInv
  <2>2. CASE i \notin DOMAIN rows
    <3>1. ~UNCHANGED rows /\ ~\E w \in Sweepers : Update(w)
      BY <1>4, <2>2, Expired
    <3>2. \E t \in Slots : \E state \in {"RISK_APPROVED", "RISK_REJECTED"} : Stores(t, state)
      BY <3>1, Kinds DEF Quiet, Tick, NothingOpen, Crash, signals, Select, AnnounceFails, Announce
    <3> QED
      BY <1>4, <2>2, <3>2, Storing DEF Stores
  <2> QED
    BY <2>1, <2>2
<1> QED
  BY <1>2, <1>3, <1>4 DEF DayInv

\* No signal is on its way into the table at the cutoff.
LEMMA StoredInTime ==
  ASSUME Variables, DayInv, NEW t \in Slots, At(t, "risk")
  PROVE  now < Cutoff
<1>1. task[t].since \in {now - 1, now} /\ task[t].since < LastEntry
  BY DEF DayInv, At
<1> QED
  BY <1>1, DayAssumption DEF Variables

\* The rows that are open change only by a signal or a sweep.
LEMMA ApprovedMove ==
  ASSUME Variables, DayInv, [Next]_vars
  PROVE  /\ Approved' \cap DOMAIN rows \subseteq Approved
         /\ now >= Cutoff => Approved' \subseteq Approved
<1>1. Approved' \cap DOMAIN rows \subseteq Approved
  BY RowsMove DEF Approved
<1>2. ASSUME now >= Cutoff, NEW i \in Approved' PROVE i \in Approved
  <2>1. CASE \E t \in Slots : \E state \in {"RISK_APPROVED", "RISK_REJECTED"} : Stores(t, state)
    BY <1>2, <2>1, StoredInTime, DayAssumption DEF Stores, Variables
  <2>2. CASE \E w \in Sweepers : Update(w)
    BY <1>1, <1>2, <2>2, Expired DEF Approved
  <2>3. CASE UNCHANGED rows
    BY <1>2, <2>3 DEF Approved
  <2> QED
    BY Kinds, <2>1, <2>2, <2>3 DEF Quiet, Tick, NothingOpen, Crash, signals, Select,
      AnnounceFails, Announce
<1> QED
  BY <1>1, <1>2

\* Sweeps expire what is due, and announce what has expired.
LEMMA SweepStep ==
  ASSUME Variables, DayInv, SweepInv, [Next]_vars
  PROVE  SweepInv'
<1>1. /\ now \in Nat /\ now' \in Nat /\ now <= now'
      /\ \A i \in DOMAIN rows : rows[i].until \in Nat
  <2>1. now \in Nat /\ now' \in Nat
    BY VariablesStep DEF Variables
  <2>2. now' = now \/ now' = now + 1
    BY Kinds DEF Quiet, Stores, Tick, NothingOpen, Crash, Select, Update, AnnounceFails, Announce
  <2>3. \A i \in DOMAIN rows : rows[i] \in Row
    BY DEF Variables
  <2> QED
    BY <2>1, <2>2, <2>3 DEF Row
<1>2. /\ DOMAIN rows \subseteq DOMAIN rows'
      /\ \A i \in DOMAIN rows : rows'[i].until = rows[i].until
  BY RowsMove
<1>3. \A w \in Sweepers : sweep[w].ids \subseteq DOMAIN rows
  BY DEF Variables
<1>4. CASE UNCHANGED sweep /\ ~\E w \in Sweepers : Update(w)
  <2>1. \A i \in DOMAIN rows' : rows'[i].state = "EXPIRED" =>
          i \in DOMAIN rows /\ rows[i].state = "EXPIRED"
    <3>1. CASE UNCHANGED rows
      BY <3>1
    <3>2. CASE \E t \in Slots : \E state \in {"RISK_APPROVED", "RISK_REJECTED"} : Stores(t, state)
      BY <3>2, Storing DEF Stores
    <3> QED
      BY <1>4, <3>1, <3>2, Kinds DEF Quiet, Tick, NothingOpen, Crash, signals, Select,
        AnnounceFails, Announce
  <2>2. \A i \in DOMAIN rows' : rows'[i].state = "EXPIRED" => rows'[i].until <= now'
    BY <1>1, <1>2, <2>1 DEF SweepInv
  <2>3. \A i \in sweep["expiry"].ids : rows'[i].until <= now'
    BY <1>1, <1>2, <1>3 DEF SweepInv, Sweepers
  <2>4. sweep["close"].step # "idle" => now' >= Cutoff /\ Approved' \subseteq sweep["close"].ids
    BY <1>1, ApprovedMove, DayAssumption DEF SweepInv
  <2>5. \A w \in Sweepers : sweep[w].step = "announce" => sweep[w].ids \cap Approved' = {}
    BY <1>3, ApprovedMove DEF SweepInv
  <2> QED
    BY <1>4, <2>2, <2>3, <2>4, <2>5 DEF SweepInv
<1>5. ASSUME NEW w \in Sweepers, Select(w) PROVE SweepInv'
  <2>1. UNCHANGED <<now, rows>> /\ Due(w) \subseteq DOMAIN rows
    BY <1>5 DEF Select, signals, Due, Approved
  <2>2. sweep'[w] = [step |-> "update", ids |-> Due(w)] /\ \A v \in Sweepers : v # w => sweep'[v] = sweep[v]
    BY <1>5 DEF Select, Variables
  <2>3. w = "expiry" => \A i \in Due(w) : rows[i].until <= now
    BY <1>1, <2>1 DEF Due
  <2>4. w = "close" => now >= Cutoff /\ Approved \subseteq Due(w)
    BY <1>5 DEF Due, Select
  <2> QED
    BY <2>1, <2>2, <2>3, <2>4 DEF SweepInv, Sweepers, Approved
<1>6. ASSUME NEW w \in Sweepers, Update(w) PROVE SweepInv'
  <2>1. /\ now' = now /\ DOMAIN rows' = DOMAIN rows /\ Approved' = Approved \ sweep[w].ids
        /\ \A i \in DOMAIN rows :
             rows'[i].state = "EXPIRED" => rows[i].state = "EXPIRED" \/ i \in sweep[w].ids
    BY <1>6, Expired DEF Update, Approved
  <2>2. sweep'[w].step = "announce" /\ sweep'[w].ids = sweep[w].ids
    BY <1>6 DEF Update, Variables
  <2>3. \A v \in Sweepers : v # w => sweep'[v] = sweep[v]
    BY <1>6 DEF Update, Variables
  <2>4. sweep[w].step = "update"
    BY <1>6 DEF Update
  <2>5. \A i \in sweep[w].ids : rows[i].until <= now
    <3>1. CASE w = "expiry"
      BY <3>1 DEF SweepInv
    <3>2. CASE w = "close"
      <4>1. now >= Cutoff
        BY <2>4, <3>2 DEF SweepInv
      <4>2. \A i \in DOMAIN rows : rows[i].until <= Close
        BY DEF DayInv
      <4> QED
        BY <1>1, <1>3, <4>1, <4>2, DayAssumption
    <3> QED
      BY <3>1, <3>2 DEF Sweepers
  <2>6. \A i \in DOMAIN rows' : rows'[i].state = "EXPIRED" => rows'[i].until <= now'
    BY <1>2, <2>1, <2>5 DEF SweepInv
  <2>7. \A i \in sweep'["expiry"].ids : rows'[i].until <= now'
    BY <1>2, <1>3, <2>1, <2>2, <2>3 DEF SweepInv, Sweepers
  <2>8. sweep'["close"].step # "idle" => now' >= Cutoff /\ Approved' \subseteq sweep'["close"].ids
    BY <2>1, <2>2, <2>3, <2>4 DEF SweepInv, Sweepers
  <2>9. \A v \in Sweepers : sweep'[v].step = "announce" => sweep'[v].ids \cap Approved' = {}
    BY <2>1, <2>2, <2>3 DEF SweepInv
  <2> QED
    BY <2>6, <2>7, <2>8, <2>9 DEF SweepInv
<1>7. ASSUME NEW w \in Sweepers, AnnounceFails(w) \/ \E i \in Ids : Announce(w, i)
      PROVE  SweepInv'
  <2>1. UNCHANGED <<now, rows>> /\ sweep[w].step = "announce"
    BY <1>7 DEF AnnounceFails, Announce, signals
  <2>2. \A v \in Sweepers : v # w => sweep'[v] = sweep[v]
    BY <1>7 DEF AnnounceFails, Announce, Variables
  <2>3. sweep'[w] = Asleep \/ \E i \in Ids : sweep'[w] = [sweep[w] EXCEPT !.ids = @ \ {i}]
    BY <1>7 DEF AnnounceFails, Announce, Variables
  <2>4. /\ sweep'[w].ids \subseteq sweep[w].ids
        /\ sweep'[w].step \in {"idle", sweep[w].step}
    <3>1. sweep[w] \in [step : {"idle", "update", "announce"}, ids : SUBSET DOMAIN rows]
      BY DEF Variables
    <3>2. CASE sweep'[w] = Asleep
      BY <3>2 DEF Asleep
    <3>3. ASSUME NEW i \in Ids, sweep'[w] = [sweep[w] EXCEPT !.ids = @ \ {i}]
          PROVE  sweep'[w].ids = sweep[w].ids \ {i} /\ sweep'[w].step = sweep[w].step
      BY <3>1, <3>3
    <3> QED
      BY <2>3, <3>2, <3>3
  <2>5. w = "close" => Approved = {}
    BY <2>1 DEF SweepInv
  <2>6. Approved' = Approved
    BY <2>1 DEF Approved
  <2> QED
    BY <2>1, <2>2, <2>4, <2>5, <2>6 DEF SweepInv, Sweepers
<1>8. CASE Crash
  <2>1. UNCHANGED <<now, rows>> /\ \A w \in Sweepers : sweep'[w] = Asleep
    BY <1>8 DEF Crash, signals
  <2> QED
    BY <2>1 DEF SweepInv, Sweepers, Asleep
<1> QED
  BY Kinds, <1>4, <1>5, <1>6, <1>7, <1>8 DEF Quiet, Stores, Tick, NothingOpen, sweeping

\* The market close exit is done when no row is open, and none opens again.
LEMMA CloseStep ==
  ASSUME Variables, DayInv, SweepInv, CloseInv, [Next]_vars
  PROVE  CloseInv'
<1>1. now \in Nat /\ (now' = now \/ now' = now + 1)
  BY Kinds DEF Variables, Quiet, Stores, Tick, NothingOpen, Crash, Select, Update, AnnounceFails,
    Announce
<1>2. now >= Cutoff => now' >= Cutoff /\ Approved' \subseteq Approved
  BY <1>1, ApprovedMove, DayAssumption
<1>3. CASE fired' => fired
  BY <1>2, <1>3 DEF CloseInv
<1>4. CASE NothingOpen
  BY <1>2, <1>4 DEF NothingOpen, CloseInv
<1>5. ASSUME NEW w \in Sweepers, NEW i \in Ids, Announce(w, i), ~(fired' => fired)
      PROVE  CloseInv'
  <2>1. w = "close" /\ sweep["close"].step = "announce" /\ sweep["close"] = sweep[w]
    BY <1>5 DEF Announce
  <2>2. now >= Cutoff /\ Approved \subseteq sweep["close"].ids /\ sweep["close"].ids \cap Approved = {}
    BY <2>1 DEF SweepInv
  <2>3. Approved = {}
    BY <2>2
  <2> QED
    BY <1>2, <2>2, <2>3 DEF CloseInv
<1>6. CASE fired' = fired \/ fired' = FALSE
  BY <1>3, <1>6
<1>7. \/ NothingOpen \/ (\E w \in Sweepers : \E i \in Ids : Announce(w, i))
      \/ fired' = fired \/ fired' = FALSE
  BY Kinds DEF Quiet, Stores, Tick, Crash, Select, Update, AnnounceFails, sweeping
<1> QED
  BY <1>3, <1>4, <1>5, <1>6, <1>7

\* A row is expired once, and whoever found it open tells of it once.
LEMMA ToldStep ==
  ASSUME Variables, DayInv, SweepInv, ToldInv, [Next]_vars
  PROVE  ToldInv'
<1>1. /\ told \in [Ids -> Nat] /\ told' \in [Ids -> Nat]
      /\ \A w \in Sweepers : sweep[w].ids \subseteq DOMAIN rows
      /\ DOMAIN rows \subseteq DOMAIN rows'
  BY VariablesStep, RowsMove DEF Variables
<1>2. Approved \subseteq DOMAIN rows /\ Approved' \cap DOMAIN rows \subseteq Approved
  BY ApprovedMove DEF Approved
<1>3. \A i \in Ids : /\ Announcers(i) \in SUBSET Sweepers /\ Announcers(i)' \in SUBSET Sweepers
                     /\ Cardinality(Announcers(i)) \in 0..2 /\ Cardinality(Announcers(i)') \in 0..2
  <2>1. \A i \in Ids : Announcers(i) \in SUBSET Sweepers /\ Announcers(i)' \in SUBSET Sweepers
    BY DEF Announcers
  <2> QED
    BY <2>1, TwoSweepers
<1>4. ASSUME NEW i \in Ids, told'[i] = told[i], Announcers(i)' \subseteq Announcers(i)
      PROVE  told'[i] + Cardinality(Announcers(i)') <= Cardinality(Sweepers)
  <2>1. Cardinality(Announcers(i)') <= Cardinality(Announcers(i))
    BY <1>3, <1>4, TwoSweepers, FS_Subset
  <2>2. told[i] + Cardinality(Announcers(i)) <= Cardinality(Sweepers)
    BY DEF ToldInv
  <2> QED
    BY <1>1, <1>3, <1>4, <2>1, <2>2, TwoSweepers
<1>5. ASSUME NEW i \in Ids, told'[i] = told[i]
      PROVE  i \notin DOMAIN rows' \/ i \in Approved' => told'[i] = 0
  BY <1>1, <1>2, <1>5 DEF ToldInv
<1>6. CASE UNCHANGED <<told, sweep>>
  <2>1. \A i \in Ids : Announcers(i)' = Announcers(i)
    BY <1>6 DEF Announcers
  <2> QED
    BY <1>4, <1>5, <1>6, <2>1 DEF ToldInv
<1>7. ASSUME NEW w \in Sweepers, Select(w) PROVE ToldInv'
  <2>1. UNCHANGED told /\ Due(w) \subseteq Approved
    BY <1>7 DEF Select, Due
  <2>2. \A v \in Sweepers : sweep'[v].ids = IF v = w THEN Due(w) ELSE sweep[v].ids
    BY <1>7 DEF Select, Variables
  <2>3. ASSUME NEW i \in Ids
        PROVE  told'[i] + Cardinality(Announcers(i)') <= Cardinality(Sweepers)
    <3>1. CASE i \in Due(w)
      <4>1. told'[i] = 0
        BY <2>1, <3>1 DEF ToldInv
      <4> QED
        BY <1>3, <4>1, TwoSweepers
    <3>2. CASE i \notin Due(w)
      <4>1. Announcers(i)' \subseteq Announcers(i)
        BY <2>2, <3>2 DEF Announcers
      <4> QED
        BY <1>4, <2>1, <4>1
    <3> QED
      BY <3>1, <3>2
  <2> QED
    BY <1>5, <2>1, <2>3 DEF ToldInv
<1>8. ASSUME NEW w \in Sweepers, Update(w) PROVE ToldInv'
  <2>1. \A v \in Sweepers : sweep'[v].ids = sweep[v].ids
    BY <1>8 DEF Update, Variables
  <2>2. \A i \in Ids : Announcers(i)' = Announcers(i)
    BY <2>1 DEF Announcers
  <2>3. UNCHANGED told
    BY <1>8 DEF Update
  <2> QED
    BY <1>4, <1>5, <2>2, <2>3 DEF ToldInv
<1>9. ASSUME NEW w \in Sweepers, AnnounceFails(w) PROVE ToldInv'
  <2>1. UNCHANGED told /\ \A v \in Sweepers : sweep'[v].ids \subseteq sweep[v].ids
    BY <1>9 DEF AnnounceFails, Variables, Asleep
  <2>2. \A i \in Ids : Announcers(i)' \subseteq Announcers(i)
    BY <2>1 DEF Announcers
  <2> QED
    BY <1>4, <1>5, <2>1, <2>2 DEF ToldInv
<1>10. CASE Crash
  <2>1. UNCHANGED told /\ \A v \in Sweepers : sweep'[v].ids = {}
    BY <1>10 DEF Crash, Asleep
  <2>2. \A i \in Ids : Announcers(i)' \subseteq Announcers(i)
    BY <2>1 DEF Announcers
  <2> QED
    BY <1>4, <1>5, <2>1, <2>2 DEF ToldInv
<1>11. ASSUME NEW w \in Sweepers, NEW j \in Ids, Announce(w, j) PROVE ToldInv'
  <2>1. /\ told' = [told EXCEPT ![j] = @ + 1] /\ rows' = rows
        /\ sweep[w].step = "announce" /\ j \in sweep[w].ids
    BY <1>11 DEF Announce, signals
  <2>2. \A v \in Sweepers : v # w => sweep'[v] = sweep[v]
    BY <1>11 DEF Announce, Variables
  <2>3. sweep'[w].ids = sweep[w].ids \ {j}
    <3>1. sweep[w] \in [step : {"idle", "update", "announce"}, ids : SUBSET DOMAIN rows]
      BY DEF Variables
    <3>2. CASE sweep[w].ids = {j}
      BY <1>11, <3>2 DEF Announce, Variables, Asleep
    <3>3. CASE sweep[w].ids # {j}
      <4>1. sweep' = [sweep EXCEPT ![w].ids = @ \ {j}]
        BY <1>11, <3>3 DEF Announce
      <4> QED
        BY <3>1, <4>1 DEF Variables
    <3> QED
      BY <3>2, <3>3
  <2>4. ASSUME NEW i \in Ids, i # j
        PROVE  told'[i] = told[i] /\ Announcers(i)' \subseteq Announcers(i)
    BY <1>1, <2>1, <2>2, <2>3, <2>4 DEF Announcers
  <2>5. told'[j] + Cardinality(Announcers(j)') <= Cardinality(Sweepers)
    <3>1. Announcers(j)' = Announcers(j) \ {w} /\ w \in Announcers(j)
      BY <2>1, <2>2, <2>3 DEF Announcers
    <3>2. IsFiniteSet(Announcers(j))
      BY <1>3, TwoSweepers
    <3>3. Cardinality(Announcers(j)') = Cardinality(Announcers(j)) - 1
      BY <3>1, <3>2, FS_RemoveElement
    <3>4. told[j] + Cardinality(Announcers(j)) <= Cardinality(Sweepers)
      BY DEF ToldInv
    <3>5. told'[j] = told[j] + 1
      BY <1>1, <2>1
    <3> QED
      BY <1>1, <1>3, <3>3, <3>4, <3>5, TwoSweepers
  <2>6. j \in DOMAIN rows' /\ j \notin Approved'
    BY <1>1, <2>1 DEF SweepInv, Approved
  <2> QED
    BY <1>4, <1>5, <2>4, <2>5, <2>6 DEF ToldInv
<1> QED
  BY Kinds, <1>6, <1>7, <1>8, <1>9, <1>10, <1>11 DEF Quiet, Stores, Tick, NothingOpen, sweeping

--------------------------------------------------------------------------------
\* The invariant holds however scans, sweeps, failures and crashes interleave.
THEOREM Invariance == Spec => []IInv
<1>1. IInv /\ [Next]_vars => IInv'
  BY VariablesStep, TaskStep, DayStep, SweepStep, CloseStep, ToldStep DEF IInv
<1> QED
  BY InitInv, <1>1, PTL DEF Spec

\* The database comes first: an approval is on the stream only when its row is in
\* the table as approved, or expired since, for any number of scans and symbols.
THEOREM Persisted == Spec => []PublishedIsPersisted
<1>1. IInv => PublishedIsPersisted
  BY DEF IInv, TaskInv
<1> QED
  BY Invariance, <1>1, PTL

\* After the cutoff has been dealt with no row is left open, though scans may
\* still be under way when it comes.
THEOREM NothingCarriedOver == Spec => []NoCarryOver
<1>1. IInv => NoCarryOver
  BY DEF IInv, CloseInv, NoCarryOver
<1> QED
  BY Invariance, <1>1, PTL

\* A row expired by either sweep has outlived its signal.
THEOREM RefusedWhenExpired == Spec => []ExpiredIsRefused
<1>1. IInv => ExpiredIsRefused
  BY DEF IInv, TaskInv, SweepInv, PublishedIsPersisted, ExpiredIsRefused
<1> QED
  BY Invariance, <1>1, PTL

\* Whatever updates, failures and crashes do, an expiry is announced no more often
\* than there are services that expire rows (the expiry worker and the close exit).
THEOREM AnnouncedOnceEach == Spec => []AnnouncedByEach
<1>1. IInv => AnnouncedByEach
  <2> SUFFICES ASSUME IInv, NEW i \in Ids PROVE told[i] <= Cardinality(Sweepers)
    BY DEF AnnouncedByEach
  <2>1. told[i] \in Nat /\ told[i] + Cardinality(Announcers(i)) <= Cardinality(Sweepers)
    BY DEF IInv, Variables, ToldInv
  <2>2. Announcers(i) \in SUBSET Sweepers
    BY DEF Announcers
  <2> QED
    BY <2>1, <2>2, TwoSweepers
<1> QED
  BY Invariance, <1>1, PTL
================================================================================
