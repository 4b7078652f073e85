--------------------------- MODULE SignalBoundsProofs ---------------------------
(***************************************************************************)
(* Proofs of how far scans that nothing keeps apart can overrun the risk   *)
(* manager and the deduplication, for every set of scans and symbols and   *)
(* any number of failures.  They rest on the invariant of                  *)
(* SignalPipelineProofs.                                                   *)
(***************************************************************************)
EXTENDS SignalPipelineProofs

(***************************************************************************)
(* Counting.                                                               *)
(***************************************************************************)

\* A part of a finite set.
LEMMA Part ==
  ASSUME NEW S, IsFiniteSet(S), NEW T \in SUBSET S
  PROVE  /\ IsFiniteSet(T) /\ Cardinality(T) \in Nat /\ Cardinality(S) \in Nat
         /\ Cardinality(T) <= Cardinality(S)
BY FS_Subset, FS_CardinalityType

\* An element more, at most.
LEMMA OneMore ==
  ASSUME NEW S, IsFiniteSet(S), NEW x, NEW T \in SUBSET (S \cup {x})
  PROVE  /\ IsFiniteSet(T) /\ Cardinality(T) \in Nat /\ Cardinality(S) \in Nat
         /\ Cardinality(T) <= Cardinality(S) + 1
<1>0. /\ IsFiniteSet(S \cup {x}) /\ Cardinality(S) \in Nat
      /\ Cardinality(S \cup {x}) = IF x \in S THEN Cardinality(S) ELSE Cardinality(S) + 1
  BY FS_AddElement, FS_CardinalityType
<1>1. /\ IsFiniteSet(S \cup {x}) /\ Cardinality(S) \in Nat
      /\ Cardinality(S \cup {x}) <= Cardinality(S) + 1
  BY <1>0
<1>2. IsFiniteSet(T) /\ Cardinality(T) \in Nat /\ Cardinality(S \cup {x}) \in Nat
  BY <1>1, Part
<1>3. Cardinality(T) <= Cardinality(S \cup {x})
  BY <1>1, Part
<1> QED
  BY <1>1, <1>2, <1>3

\* An element less.
LEMMA OneLess ==
  ASSUME NEW S, IsFiniteSet(S), NEW x \in S, NEW T \in SUBSET (S \ {x})
  PROVE  Cardinality(T) \in Nat /\ Cardinality(S) \in Nat /\ Cardinality(T) + 1 <= Cardinality(S)
<1>1. /\ IsFiniteSet(S \ {x}) /\ Cardinality(S) \in Nat
      /\ Cardinality(S \ {x}) = Cardinality(S) - 1
  BY FS_RemoveElement, FS_CardinalityType
<1>2. Cardinality(T) \in Nat /\ Cardinality(T) <= Cardinality(S \ {x})
  BY <1>1, Part
<1> QED
  BY <1>1, <1>2

\* Two parts, counted one after the other.
LEMMA TwoParts ==
  ASSUME NEW S, IsFiniteSet(S), NEW T, IsFiniteSet(T), NEW U \in SUBSET (S \cup T)
  PROVE  /\ IsFiniteSet(U) /\ Cardinality(U) \in Nat
         /\ Cardinality(S) \in Nat /\ Cardinality(T) \in Nat
         /\ Cardinality(U) <= Cardinality(S) + Cardinality(T)
<1>1. /\ IsFiniteSet(S \cup T)
      /\ Cardinality(S \cup T) = Cardinality(S) + Cardinality(T) - Cardinality(S \cap T)
  BY FS_Union
<1>2. Cardinality(S) \in Nat /\ Cardinality(T) \in Nat /\ Cardinality(S \cap T) \in Nat
  BY Part, FS_CardinalityType
<1>3. IsFiniteSet(U) /\ Cardinality(U) \in Nat /\ Cardinality(U) <= Cardinality(S \cup T)
  BY <1>1, Part
<1>4. Cardinality(S \cup T) <= Cardinality(S) + Cardinality(T) /\ Cardinality(S \cup T) \in Nat
  BY <1>1, <1>2, FS_CardinalityType
<1> QED
  BY <1>2, <1>3, <1>4

\* Two parts that have nothing in common.
LEMMA Apart ==
  ASSUME NEW U, IsFiniteSet(U), NEW S \in SUBSET U, NEW T \in SUBSET U, S \cap T = {}
  PROVE  Cardinality(S) + Cardinality(T) <= Cardinality(U)
<1>1. IsFiniteSet(S) /\ IsFiniteSet(T) /\ S \cup T \in SUBSET U
  BY Part
<1>2. Cardinality(S \cup T) = Cardinality(S) + Cardinality(T) - Cardinality(S \cap T)
  BY <1>1, FS_Union
<1>3. Cardinality(S \cap T) = 0
  BY FS_EmptySet
<1>4. Cardinality(S) \in Nat /\ Cardinality(T) \in Nat
  BY <1>1, FS_CardinalityType
<1>5. Cardinality(S \cup T) <= Cardinality(U)
  BY <1>1, Part
<1> QED
  BY <1>2, <1>3, <1>4, <1>5

\* Symbols, scans, slots and ids are finitely many; a symbol has a slot for each
\* scan, and a scan one for each symbol.
LEMMA Finitely ==
  /\ IsFiniteSet(Slots) /\ IsFiniteSet(Ids)
  /\ Cardinality(Scans) \in Nat /\ Cardinality(Symbols) \in Nat
  /\ \A y \in Symbols : /\ IsFiniteSet(Scans \X {y}) /\ Scans \X {y} \subseteq Slots
                        /\ Cardinality(Scans \X {y}) = Cardinality(Scans)
  /\ \A c \in Scans : /\ IsFiniteSet({c} \X Symbols) /\ {c} \X Symbols \subseteq Slots
                      /\ Cardinality({c} \X Symbols) = Cardinality(Symbols)
<1>1. Cardinality(Scans) \in Nat /\ Cardinality(Symbols) \in Nat
  BY ScansAssumption, FS_CardinalityType
<1>2. IsFiniteSet(Slots)
  BY ScansAssumption, FS_Product DEF Slots
<1>3. IsFiniteSet(Ids)
  BY FS_Interval, ConfigAssumption DEF Ids
<1>4. ASSUME NEW y \in Symbols
      PROVE  /\ IsFiniteSet(Scans \X {y}) /\ Scans \X {y} \subseteq Slots
             /\ Cardinality(Scans \X {y}) = Cardinality(Scans)
  <2>1. IsFiniteSet({y}) /\ Cardinality({y}) = 1
    BY FS_Singleton
  <2>2. /\ IsFiniteSet(Scans \X {y})
        /\ Cardinality(Scans \X {y}) = Cardinality(Scans) * Cardinality({y})
    BY <2>1, ScansAssumption, FS_Product
  <2> QED
    BY <1>1, <2>1, <2>2 DEF Slots
<1>5. ASSUME NEW c \in Scans
      PROVE  /\ IsFiniteSet({c} \X Symbols) /\ {c} \X Symbols \subseteq Slots
             /\ Cardinality({c} \X Symbols) = Cardinality(Symbols)
  <2>1. IsFiniteSet({c}) /\ Cardinality({c}) = 1
    BY FS_Singleton
  <2>2. /\ IsFiniteSet({c} \X Symbols)
        /\ Cardinality({c} \X Symbols) = Cardinality({c}) * Cardinality(Symbols)
    BY <2>1, ScansAssumption, FS_Product
  <2> QED
    BY <1>1, <2>1, <2>2 DEF Slots
<1> QED
  BY <1>1, <1>2, <1>3, <1>4, <1>5

--------------------------------------------------------------------------------
(***************************************************************************)
(* One symbol moves at a time, unless a cycle starts or the process dies.  *)
(***************************************************************************)

\* What becomes of the symbol that moves: where it was, and where it is.
Moved(t) == \A u \in Slots : u # t => task'[u] = task[u]

Stopped(t) == Moved(t) /\ t \in Busy /\ task'[t] = Idle

Started(c) ==
  /\ faults' \in {faults, faults + 1} /\ (Cardinality(Counted) < MaxOpen \/ faults' = faults + 1)
  /\ \A t \in Slots : IF t[1] = c THEN task[t] = Idle /\ task'[t].step = "start"
                                  ELSE task'[t] = task[t]

Scored(t, p) ==
  /\ Moved(t) /\ At(t, "start") /\ p[1] = t[2]
  /\ Len(rows) + Cardinality(AtRisk) < MaxSignals
  /\ task'[t].step = "risk" /\ task'[t].pattern = p /\ task'[t].until = ValidUntil
  /\ (dedup[p] <= now /\ faults' = faults) \/ faults' = faults + 1

Advanced(t, from, to) ==
  /\ Moved(t) /\ At(t, from) /\ task'[t].step = to
  /\ task'[t].pattern = task[t].pattern /\ task'[t].sig = task[t].sig

\* A symbol that is somewhere is not idle.
LEMMA NotIdle == \A t \in Slots : task[t].step # "idle" => t \in Busy
BY DEF Busy, Idle

\* Stop, for a symbol that was under way.
LEMMA Stops ==
  ASSUME Variables, NEW t \in Slots, Stop(t), task[t] # Idle
  PROVE  Stopped(t)
BY DEF Variables, Stop, Stopped, Moved, Busy

\* Goto, from one step to the next.
LEMMA Goes ==
  ASSUME Variables, NEW t \in Slots, NEW from \in Steps, NEW to \in Steps, At(t, from), Goto(t, to)
  PROVE  Advanced(t, from, to)
<1>1. task[t] \in Task /\ task' = [task EXCEPT ![t] = [task[t] EXCEPT !.step = to]]
  BY DEF Variables, Goto
<1>2. task'[t] = [task[t] EXCEPT !.step = to] /\ Moved(t)
  BY <1>1 DEF Variables, Moved
<1>3. /\ task'[t].step = to /\ task'[t].pattern = task[t].pattern
      /\ task'[t].sig = task[t].sig
  BY <1>1, <1>2 DEF Task
<1> QED
  BY <1>2, <1>3 DEF Advanced

\* Start, and what the risk manager said.
LEMMA Starts ==
  ASSUME Variables, NEW c \in Scans, ScanCycle(c) \/ FailOpenCycle(c)
  PROVE  Started(c)
<1> DEFINE new == [Idle EXCEPT !.step = "start"]
<1>1. Start(c)
  BY DEF ScanCycle, FailOpenCycle
<1>2. \A t \in Slots : t[1] = c => task[t] = Idle
  BY <1>1 DEF Start, Slots
<1>3. task' = [t \in Slots |-> IF t[1] = c THEN new ELSE task[t]] /\ new.step = "start"
  BY <1>1 DEF Start, Idle
<1> HIDE DEF new
<1>4. \A t \in Slots : IF t[1] = c THEN task[t] = Idle /\ task'[t].step = "start"
                                   ELSE task'[t] = task[t]
  BY <1>2, <1>3
<1>5. (faults' = faults /\ Cardinality(Counted) < MaxOpen) \/ faults' = faults + 1
  BY DEF ScanCycle, FailOpenCycle, Fails
<1> QED
  BY <1>4, <1>5 DEF Started

\* Score, of a new pattern or of one that Redis could not tell from a new one.
LEMMA Scores ==
  ASSUME Variables, NEW t \in Slots, NEW p \in Pattern,
         Process(t, p) \/ ProcessUndeduplicated(t, p)
  PROVE  Scored(t, p)
<1>1. Score(t, p)
  BY DEF Process, ProcessUndeduplicated
<1>2. Created(p).step = "risk" /\ Created(p).pattern = p /\ Created(p).until = ValidUntil
  BY DEF Created
<1>3. task' = [task EXCEPT ![t] = Created(p)]
  BY <1>1 DEF Score
<1>4. task'[t] = Created(p) /\ Moved(t)
  BY <1>3 DEF Variables, Moved
<1>5. (dedup[p] <= now /\ faults' = faults) \/ faults' = faults + 1
  BY DEF Process, ProcessUndeduplicated, Fails
<1>6. At(t, "start") /\ p[1] = t[2] /\ Len(rows) + Cardinality(AtRisk) < MaxSignals
  BY <1>1 DEF Score, AtRisk
<1> QED
  BY <1>2, <1>4, <1>5, <1>6 DEF Scored

\* Persist: the symbol knows its signal by the id of the row.
LEMMA Persists ==
  ASSUME Variables, NEW t \in Slots, Persist(t)
  PROVE  /\ Moved(t) /\ At(t, "risk") /\ task'[t].step = "publish"
         /\ task'[t].pattern = task[t].pattern /\ task'[t].sig = Len(rows')
<1> DEFINE new == [task[t] EXCEPT !.step = "publish", !.until = 0, !.sig = Len(rows')]
<1>1. task[t] \in Task /\ task' = [task EXCEPT ![t] = new] /\ At(t, "risk")
  BY DEF Variables, Persist, Stored
<1>2. new.step = "publish" /\ new.pattern = task[t].pattern /\ new.sig = Len(rows')
  BY <1>1 DEF Task
<1> HIDE DEF new
<1>3. task'[t] = new /\ Moved(t)
  BY <1>1 DEF Variables, Moved
<1> QED
  BY <1>1, <1>2, <1>3

--------------------------------------------------------------------------------
(***************************************************************************)
(* The risk manager's limit.                                               *)
(***************************************************************************)

\* What is counted, and what is under way, can be counted.
LEMMA Countable ==
  /\ IsFiniteSet(Counted) /\ IsFiniteSet(Busy) /\ IsFiniteSet(AtRisk)
  /\ Cardinality(Counted) \in Nat /\ Cardinality(Busy) \in Nat /\ Cardinality(AtRisk) \in Nat
  /\ Cardinality(Busy) <= Cardinality(Slots) /\ Cardinality(Slots) \in Nat
  /\ Busy \in SUBSET Slots
<1>1. Counted \in SUBSET Ids /\ Busy \in SUBSET Slots /\ AtRisk \in SUBSET Slots
  BY DEF Counted, Busy, AtRisk
<1>2. IsFiniteSet(Slots) /\ IsFiniteSet(Ids)
  BY Finitely
<1> HIDE DEF Counted, Busy, AtRisk
<1>3. IsFiniteSet(Counted) /\ Cardinality(Counted) \in Nat
  BY <1>1, <1>2, Part
<1>4. /\ IsFiniteSet(Busy) /\ Cardinality(Busy) \in Nat /\ Cardinality(Slots) \in Nat
      /\ Cardinality(Busy) <= Cardinality(Slots)
  BY <1>1, <1>2, Part
<1>5. IsFiniteSet(AtRisk) /\ Cardinality(AtRisk) \in Nat
  BY <1>1, <1>2, Part
<1> QED
  BY <1>1, <1>3, <1>4, <1>5

\* A cycle makes all its symbols busy, a failure may let it pass the limit; an
\* accepted symbol is counted instead of busy; all else makes them fewer.
LEMMA CountedMoves ==
  ASSUME Variables, outcome \in [Ids -> Outcomes], [Next]_vars
  PROVE  \/ \E c \in Scans : Started(c) /\ UNCHANGED outcome
         \/ \E t \in Slots : Accept(t) /\ Stopped(t) /\ faults' = faults
         \/ Counted' \subseteq Counted /\ Busy' \subseteq Busy /\ faults' \in {faults, faults + 1}
<1> DEFINE Fewer == Counted' \subseteq Counted /\ Busy' \subseteq Busy /\ faults' \in {faults, faults + 1}
<1>1. ASSUME NEW t \in Slots, Moved(t), t \in Busy, UNCHANGED outcome, faults' \in {faults, faults + 1}
      PROVE  Fewer
  BY <1>1 DEF Moved, Busy, Counted
<1>2. ASSUME UNCHANGED task, Counted' \subseteq Counted, faults' \in {faults, faults + 1}
      PROVE  Fewer
  BY <1>2 DEF Busy
<1> HIDE DEF Fewer
<1>3. ASSUME NEW c \in Scans, ScanCycle(c) \/ FailOpenCycle(c)
      PROVE  Started(c) /\ UNCHANGED outcome
  BY <1>3, Starts DEF ScanCycle, FailOpenCycle, Start, signals
<1>4. ASSUME NEW t \in Slots, Step(t)
      PROVE  (Accept(t) /\ Stopped(t) /\ faults' = faults) \/ Fewer
  <2>1. CASE Accept(t)
    BY <2>1, NotIdle, Stops DEF Accept, At, Idle
  <2>2. CASE Drop(t) \/ Reject(t) \/ Gate(t)
    <3>1. /\ UNCHANGED <<outcome, faults>> /\ Stop(t) /\ task[t].step # "idle"
      BY <2>2 DEF Drop, Reject, Gate, At, signals
    <3>2. Moved(t) /\ t \in Busy
      BY <3>1, NotIdle, Stops DEF Idle, Stopped
    <3> QED
      BY <1>1, <3>1, <3>2
  <2>3. CASE \E p \in Pattern : Process(t, p) \/ ProcessUndeduplicated(t, p)
    <3>1. UNCHANGED outcome
      BY <2>3 DEF Process, ProcessUndeduplicated, Score, signals
    <3> QED
      BY <1>1, <2>3, <3>1, Scores, NotIdle DEF Scored, At
  <2>4. CASE Persist(t)
    <3>1. UNCHANGED <<outcome, faults>>
      BY <2>4 DEF Persist
    <3> QED
      BY <1>1, <2>4, <3>1, Persists, NotIdle DEF At
  <2>5. CASE Publish(t) \/ PublishFails(t) \/ Register(t) \/ RegisterFails(t)
    <3>1. UNCHANGED outcome /\ faults' \in {faults, faults + 1}
      BY <2>5 DEF Publish, PublishFails, Register, RegisterFails, Fails, signals
    <3>2. Advanced(t, "publish", "register") \/ Advanced(t, "register", "gates")
      BY <2>5, Goes DEF Publish, PublishFails, Register, RegisterFails, Steps
    <3> QED
      BY <1>1, <3>1, <3>2, NotIdle DEF Advanced, At
  <2> QED
    BY <1>4, <2>1, <2>2, <2>3, <2>4, <2>5 DEF Step
<1>5. ASSUME NEW t \in Slots, Abandon(t) PROVE Fewer
  BY <1>1, <1>5, Stops DEF Abandon, Fails, Stopped
<1>6. ASSUME Crash PROVE Fewer
  <2>1. \A t \in Slots : task'[t] = Idle
    BY <1>6 DEF Crash
  <2> QED
    BY <1>6, <2>1 DEF Crash, Fails, Fewer, Busy, Counted, signals
<1>7. ASSUME \E i \in Ids : \E result \in {"OPEN", "over"} : Track(i, result)
      PROVE  Fewer
  <2>1. PICK i \in Ids, result \in {"OPEN", "over"} : Track(i, result)
    BY <1>7
  <2>2. \A j \in Ids : outcome'[j] = "NULL" => outcome[j] = "NULL"
    BY <2>1 DEF Track
  <2>3. UNCHANGED <<task, faults>>
    BY <2>1 DEF Track
  <2> QED
    BY <1>2, <2>2, <2>3 DEF Counted
<1>8. ASSUME \/ Tick \/ NothingOpen \/ UNCHANGED vars
             \/ \E w \in Sweepers : Sweep(w) \/ AnnounceFails(w)
      PROVE  Fewer
  <2>1. UNCHANGED <<task, outcome>> /\ faults' \in {faults, faults + 1}
    BY <1>8 DEF Tick, NothingOpen, vars, signals, Sweep, Select, Update, Announce, AnnounceFails, Fails
  <2> QED
    BY <1>2, <2>1 DEF Counted
<1> QED
  BY <1>3, <1>4, <1>5, <1>6, <1>7, <1>8 DEF Next, Fewer

\* A failure more is worth k more.
LEMMA OnceMore ==
  ASSUME NEW k \in Nat, NEW f \in Nat
  PROVE  k * f \in Nat /\ k * (f + 1) = k * f + k /\ k * (1 + f) = k * f + k
OBVIOUS

\* The limit of the risk manager, kept by every step.
LEMMA CountedStep ==
  ASSUME Variables, outcome \in [Ids -> Outcomes], faults \in Nat, CountedBounded, [Next]_vars
  PROVE  CountedBounded'
<1> DEFINE n == Cardinality(Counted)  b == Cardinality(Busy)  s == Cardinality(Slots)
           k == Cardinality(Symbols)
<1>1. n \in Nat /\ b \in Nat /\ s \in Nat /\ k \in Nat /\ b <= s /\ MaxOpen \in Nat
  BY Countable, Finitely, ConfigAssumption
<1>2. n + b <= MaxOpen - 1 + s + k * faults
  BY DEF CountedBounded
<1>3. /\ Cardinality(Counted') \in Nat /\ Cardinality(Busy') \in Nat /\ Cardinality(Busy') <= s
      /\ IsFiniteSet(Busy) /\ IsFiniteSet(Counted)
  <2>1. Counted' \in SUBSET Ids /\ Busy' \in SUBSET Slots /\ IsFiniteSet(Ids) /\ IsFiniteSet(Slots)
    BY Finitely DEF Counted, Busy
  <2>2. Cardinality(Counted') \in Nat
    BY <2>1, Part
  <2>3. Cardinality(Busy') \in Nat /\ Cardinality(Busy') <= s
    BY <2>1, Part
  <2> QED
    BY <2>2, <2>3, Countable
<1>4. SUFFICES Cardinality(Counted') + Cardinality(Busy') <= MaxOpen - 1 + s + k * faults'
  BY DEF CountedBounded
<1>5. /\ k * faults \in Nat /\ k * (faults + 1) \in Nat /\ k * (faults + 1) = k * faults + k
  BY <1>1, OnceMore
<1> HIDE DEF n, b, s, k
<1>6. ASSUME NEW c \in Scans, Started(c), UNCHANGED outcome
      PROVE  Cardinality(Counted') + Cardinality(Busy') <= MaxOpen - 1 + s + k * faults'
  <2>1. Cardinality(Counted') = n
    BY <1>6 DEF Counted, n
  <2>2. CASE n < MaxOpen
    <3>1. k * faults' \in Nat
      BY <1>5, <1>6 DEF Started
    <3> QED
      BY <1>1, <1>3, <2>1, <2>2, <3>1
  <2>3. CASE ~(n < MaxOpen)
    <3>1. faults' = faults + 1
      BY <1>6, <2>3 DEF Started, n
    <3>2. Busy' \in SUBSET (Busy \cup ({c} \X Symbols))
      BY <1>6 DEF Started, Busy, Slots
    <3>3. IsFiniteSet({c} \X Symbols) /\ Cardinality({c} \X Symbols) = k
      BY Finitely DEF k
    <3>4. Cardinality(Busy') <= Cardinality(Busy) + Cardinality({c} \X Symbols)
      BY <1>3, <3>2, <3>3, TwoParts
    <3>5. Cardinality(Busy') <= b + k
      BY <3>3, <3>4 DEF b
    <3>6. k * faults' = k * faults + k
      BY <1>5, <3>1
    <3> QED
      BY <1>1, <1>2, <1>3, <1>5, <2>1, <3>5, <3>6
  <2> QED
    BY <2>2, <2>3
<1>7. ASSUME NEW t \in Slots, Accept(t), Stopped(t), faults' = faults
      PROVE  Cardinality(Counted') + Cardinality(Busy') <= MaxOpen - 1 + s + k * faults'
  <2>1. Counted' \in SUBSET (Counted \cup {task[t].sig})
    BY <1>7 DEF Accept, Counted
  <2>2. Cardinality(Counted') <= n + 1
    BY <1>3, <2>1, OneMore DEF n
  <2>3. t \in Busy /\ Busy' \in SUBSET (Busy \ {t})
    BY <1>7 DEF Stopped, Moved, Busy
  <2>4. Cardinality(Busy') + 1 <= b
    BY <1>3, <2>3, OneLess DEF b
  <2> QED
    BY <1>1, <1>2, <1>3, <1>5, <1>7, <2>2, <2>4
<1>8. ASSUME Counted' \subseteq Counted, Busy' \subseteq Busy, faults' \in {faults, faults + 1}
      PROVE  Cardinality(Counted') + Cardinality(Busy') <= MaxOpen - 1 + s + k * faults'
  <2>1. Cardinality(Counted') <= n /\ Cardinality(Busy') <= b
    BY <1>3, <1>8, Part DEF n, b
  <2>2. k * faults' \in Nat /\ k * faults <= k * faults'
    <3>1. CASE faults' = faults
      BY <1>5, <3>1
    <3>2. CASE faults' = faults + 1
      <4>1. k * faults' = k * faults + k
        BY <1>5, <3>2
      <4> QED
        BY <1>1, <1>5, <4>1
    <3> QED
      BY <1>8, <3>1, <3>2
  <2> QED
    BY <1>1, <1>2, <1>3, <1>5, <2>1, <2>2
<1> QED
  BY CountedMoves, <1>6, <1>7, <1>8

--------------------------------------------------------------------------------
(***************************************************************************)
(* What a step does to the rows, the messages and the registrations.       *)
(***************************************************************************)
Calm == UNCHANGED <<task, published, dedup>> /\ (rows' = rows \/ \E w \in Sweepers : Update(w))

Leaves(t) ==
  /\ Moved(t) /\ t \in Busy /\ task'[t].step \in {"idle", "gates"}
  /\ UNCHANGED <<now, rows, published, dedup>>
  /\ At(t, "register") => faults' = faults + 1

StoresRow(t) ==
  /\ Moved(t) /\ At(t, "risk")
  /\ \E state \in {"RISK_APPROVED", "RISK_REJECTED"} : Store(t, state)
  /\ UNCHANGED <<now, published, dedup>>
  /\ \/ task'[t].step = "idle"
     \/ /\ task'[t].step = "publish"
        /\ task'[t].pattern = task[t].pattern /\ task'[t].sig = Len(rows')

Publishes(t) ==
  /\ At(t, "publish")
  /\ published' \in {published, published \cup {task[t].sig}}
  /\ UNCHANGED <<now, rows, dedup>>
  /\ \/ Advanced(t, "publish", "register")
     \/ Stopped(t) /\ faults' = faults + 1

Registers(t) ==
  /\ Advanced(t, "register", "gates")
  /\ dedup' = [dedup EXCEPT ![task[t].pattern] = now + DedupTtl]
  /\ UNCHANGED <<now, rows, published, faults>>

Dies == (\A t \in Slots : task'[t] = Idle) /\ faults' = faults + 1

\* Every step is one of these.
LEMMA Changes ==
  ASSUME Variables, [Next]_vars
  PROVE  \/ Calm
         \/ \E c \in Scans : Started(c) /\ UNCHANGED <<now, rows, published, dedup>>
         \/ \E t \in Slots : \E p \in Pattern :
              Scored(t, p) /\ UNCHANGED <<now, rows, published, dedup>>
         \/ \E t \in Slots : Leaves(t) \/ StoresRow(t) \/ Publishes(t) \/ Registers(t)
         \/ Dies /\ UNCHANGED <<now, rows, published, dedup>>
<1>1. ASSUME NEW c \in Scans, ScanCycle(c) \/ FailOpenCycle(c)
      PROVE  Started(c) /\ UNCHANGED <<now, rows, published, dedup>>
  BY <1>1, Starts DEF ScanCycle, FailOpenCycle, Start, signals
<1>2. ASSUME NEW t \in Slots, NEW p \in Pattern, Process(t, p) \/ ProcessUndeduplicated(t, p)
      PROVE  Scored(t, p) /\ UNCHANGED <<now, rows, published, dedup>>
  BY <1>2, Scores DEF Process, ProcessUndeduplicated, Score, signals
<1>3. ASSUME NEW t \in Slots, Drop(t) \/ Accept(t) \/ Gate(t)
      PROVE  Leaves(t)
  <2>1. /\ Stop(t) /\ UNCHANGED <<now, rows, published, dedup>>
        /\ task[t].step \in {"start", "gates"}
    BY <1>3 DEF Drop, Accept, Gate, At, signals
  <2>2. Stopped(t)
    BY <2>1, NotIdle, Stops DEF Idle
  <2> QED
    BY <2>1, <2>2 DEF Leaves, Stopped, Idle, At
<1>4. ASSUME NEW t \in Slots, Reject(t) \/ Persist(t)
      PROVE  StoresRow(t)
  <2>1. UNCHANGED <<now, published, dedup>> /\ At(t, "risk")
    BY <1>4 DEF Reject, Persist
  <2>2. CASE Reject(t)
    <3>1. Stopped(t) /\ Store(t, "RISK_REJECTED")
      BY <2>1, <2>2, Stops DEF Reject, At, Idle
    <3> QED
      BY <2>1, <3>1 DEF StoresRow, Stopped, Idle
  <2>3. CASE Persist(t)
    BY <2>1, <2>3, Persists DEF StoresRow, Persist
  <2> QED
    BY <1>4, <2>2, <2>3
<1>5. ASSUME NEW t \in Slots, Publish(t) \/ PublishFails(t)
      PROVE  Publishes(t)
  <2>1. Advanced(t, "publish", "register")
    BY <1>5, Goes DEF Publish, PublishFails, Steps
  <2> QED
    BY <1>5, <2>1 DEF Publish, PublishFails, Publishes, signals
<1>6. ASSUME NEW t \in Slots, Register(t) \/ RegisterFails(t)
      PROVE  Registers(t) \/ Leaves(t)
  <2>1. Advanced(t, "register", "gates")
    BY <1>6, Goes DEF Register, RegisterFails, Steps
  <2>2. CASE Register(t)
    BY <2>1, <2>2 DEF Register, Registers
  <2>3. CASE RegisterFails(t)
    BY <2>1, <2>3, NotIdle DEF RegisterFails, Fails, signals, Leaves, Advanced, At
  <2> QED
    BY <1>6, <2>2, <2>3
<1>7. ASSUME NEW t \in Slots, Abandon(t)
      PROVE  Leaves(t) \/ StoresRow(t) \/ Publishes(t)
  <2>1. Stopped(t) /\ task'[t].step = "idle" /\ faults' = faults + 1 /\ now' = now
    BY <1>7, Stops DEF Abandon, Fails, Stopped, Idle
  <2>2. CASE UNCHANGED <<rows, published, dedup>>
    BY <2>1, <2>2 DEF Leaves, Stopped
  <2>3. CASE At(t, "risk") /\ Store(t, "RISK_APPROVED") /\ UNCHANGED <<published, dedup>>
    BY <2>1, <2>3 DEF StoresRow, Stopped
  <2>4. CASE /\ At(t, "publish")
             /\ published' = published \cup {task[t].sig}
             /\ UNCHANGED <<rows, dedup>>
    BY <2>1, <2>4 DEF Publishes
  <2> QED
    BY <1>7, <2>2, <2>3, <2>4 DEF Abandon
<1>8. ASSUME Crash
      PROVE  Dies /\ UNCHANGED <<now, rows, published, dedup>>
  BY <1>8 DEF Crash, Fails, Dies, signals
<1>9. ASSUME \/ Tick \/ NothingOpen \/ UNCHANGED vars
             \/ \E i \in Ids : \E result \in {"OPEN", "over"} : Track(i, result)
             \/ \E w \in Sweepers : Sweep(w) \/ AnnounceFails(w)
      PROVE  Calm
  <2>1. UNCHANGED <<task, published, dedup>>
    BY <1>9 DEF Tick, NothingOpen, vars, signals, Track, Sweep, Select, Update, Announce,
      AnnounceFails
  <2>2. rows' = rows \/ \E w \in Sweepers : Update(w)
    BY <1>9 DEF Tick, NothingOpen, vars, signals, Track, Sweep, Select, Announce, AnnounceFails
  <2> QED
    BY <2>1, <2>2 DEF Calm
<1> QED
  BY <1>1, <1>2, <1>3, <1>4, <1>5, <1>6, <1>7, <1>8, <1>9 DEF Next, Step

\* The clock stops at the end of the day, failures at their bound.
LEMMA ClockStep ==
  ASSUME now \in Nat, now <= EndOfDay, faults \in 0..MaxFaults, [Next]_vars
  PROVE  /\ now' \in {now, now + 1} /\ now' <= EndOfDay
         /\ faults' \in {faults, faults + 1} /\ faults' \in 0..MaxFaults
<1>1. now' = now \/ (now < EndOfDay /\ now' = now + 1)
  BY DEF Next, Tick, ScanCycle, FailOpenCycle, Start, Step, Drop, Process, ProcessUndeduplicated,
    Score, Reject, Persist, Publish, PublishFails, Register, RegisterFails, Accept, Gate, Abandon,
    Track, NothingOpen, Sweep, Select, Update, Announce, AnnounceFails, Crash, vars
<1>2. faults' = faults \/ (faults < MaxFaults /\ faults' = faults + 1)
  BY DEF Next, Tick, ScanCycle, FailOpenCycle, Start, Step, Drop, Process, ProcessUndeduplicated,
    Score, Reject, Persist, Publish, PublishFails, Register, RegisterFails, Accept, Gate, Abandon,
    Track, NothingOpen, Sweep, Select, Update, Announce, AnnounceFails, Crash, Fails, vars
<1> QED
  BY <1>1, <1>2, DayAssumption, ConfigAssumption

--------------------------------------------------------------------------------
(***************************************************************************)
(* The types: there is an id for every row that is or will be stored.      *)
(***************************************************************************)

\* The outcomes keep their type.
LEMMA OutcomeStep ==
  ASSUME outcome \in [Ids -> Outcomes], [Next]_vars
  PROVE  outcome' \in [Ids -> Outcomes]
<1>1. CASE UNCHANGED outcome
  BY <1>1
<1>2. CASE \E t \in Slots : Accept(t)
  BY <1>2 DEF Accept, Outcomes
<1>3. CASE \E i \in Ids : \E result \in {"OPEN", "over"} : Track(i, result)
  BY <1>3 DEF Track, Outcomes
<1> QED
  BY <1>1, <1>2, <1>3 DEF Next, Tick, ScanCycle, FailOpenCycle, Start, Step, Drop, Process,
    ProcessUndeduplicated, Score, Reject, Persist, Publish, PublishFails, Register, RegisterFails,
    Gate, Abandon, NothingOpen, Sweep, Select, Update, Announce, AnnounceFails, Crash, vars, signals

\* A signal is scored only while there is an id for it.
LEMMA IdsLast ==
  ASSUME Variables, DayInv, Len(rows) + Cardinality(AtRisk) <= MaxSignals, [Next]_vars
  PROVE  (Len(rows) + Cardinality(AtRisk) <= MaxSignals)'
<1> DEFINE n == Cardinality(AtRisk)
<1>1. /\ Len(rows) \in Nat /\ rows \in Seq(Row) /\ MaxSignals \in Nat
      /\ n \in Nat /\ IsFiniteSet(AtRisk) /\ IsFiniteSet(Slots)
  BY Countable, Finitely, ConfigAssumption DEF Variables
<1>2. AtRisk' \in SUBSET Slots /\ Cardinality(AtRisk') \in Nat
  <2>1. AtRisk' \in SUBSET Slots
    BY DEF AtRisk
  <2> QED
    BY <1>1, <2>1, Part
<1> HIDE DEF n
<1>3. ASSUME Len(rows') = Len(rows), AtRisk' \subseteq AtRisk
      PROVE  Len(rows') + Cardinality(AtRisk') <= MaxSignals
  <2>1. Cardinality(AtRisk') <= n
    BY <1>1, <1>3, Part DEF n
  <2> QED
    BY <1>1, <1>2, <1>3, <2>1 DEF n
<1>4. CASE Calm
  <2>1. AtRisk' = AtRisk
    BY <1>4 DEF Calm, AtRisk, At
  <2>2. Len(rows') = Len(rows)
    <3>1. CASE \E w \in Sweepers : Update(w)
      <4>1. rows' \in Seq(Row) /\ DOMAIN rows' = DOMAIN rows
        BY <3>1, Expired
      <4> QED
        BY <1>1, <4>1
    <3> QED
      BY <1>4, <3>1 DEF Calm
  <2> QED
    BY <1>3, <2>1, <2>2
<1>5. ASSUME NEW c \in Scans, Started(c), UNCHANGED rows
      PROVE  Len(rows') + Cardinality(AtRisk') <= MaxSignals
  <2>1. AtRisk' \subseteq AtRisk
    BY <1>5 DEF Started, AtRisk, At
  <2> QED
    BY <1>3, <1>5, <2>1
<1>6. ASSUME NEW t \in Slots, NEW p \in Pattern, Scored(t, p), UNCHANGED rows
      PROVE  Len(rows') + Cardinality(AtRisk') <= MaxSignals
  <2>1. AtRisk' \in SUBSET (AtRisk \cup {t})
    BY <1>6 DEF Scored, Moved, AtRisk, At
  <2>2. Cardinality(AtRisk') <= n + 1
    BY <1>1, <2>1, OneMore DEF n
  <2>3. Len(rows) + n < MaxSignals
    BY <1>6 DEF Scored, n
  <2> QED
    BY <1>1, <1>2, <1>6, <2>2, <2>3
<1>7. ASSUME NEW t \in Slots, StoresRow(t)
      PROVE  Len(rows') + Cardinality(AtRisk') <= MaxSignals
  <2>1. t \in AtRisk /\ AtRisk' \in SUBSET (AtRisk \ {t})
    BY <1>7 DEF StoresRow, Moved, AtRisk, At
  <2>2. Cardinality(AtRisk') + 1 <= n
    BY <1>1, <2>1, OneLess DEF n
  <2>3. Len(rows') = Len(rows) + 1
    BY <1>1, <1>7 DEF StoresRow, Store
  <2> QED
    BY <1>1, <1>2, <2>2, <2>3 DEF n
<1>8. ASSUME NEW t \in Slots, Leaves(t) \/ Publishes(t) \/ Registers(t)
      PROVE  Len(rows') + Cardinality(AtRisk') <= MaxSignals
  <2>1. rows' = rows
    BY <1>8 DEF Leaves, Publishes, Registers
  <2>2. Moved(t) /\ task'[t].step # "risk"
    BY <1>8 DEF Leaves, Publishes, Registers, Advanced, Stopped, Idle
  <2>3. AtRisk' \subseteq AtRisk
    BY <2>2 DEF Moved, AtRisk, At
  <2> QED
    BY <1>3, <2>1, <2>3
<1>9. ASSUME Dies, UNCHANGED rows
      PROVE  Len(rows') + Cardinality(AtRisk') <= MaxSignals
  <2>1. AtRisk' \subseteq AtRisk
    BY <1>9 DEF Dies, Idle, AtRisk, At
  <2> QED
    BY <1>3, <1>9, <2>1
<1> QED
  BY Changes, <1>4, <1>5, <1>6, <1>7, <1>8, <1>9

\* The bounds hold at first, and after every step.
LEMMA BoundsInit == Init => BoundsInv
<1> SUFFICES ASSUME Init PROVE BoundsInv
  OBVIOUS
<1>1. now <= EndOfDay /\ faults \in 0..MaxFaults
  BY DayAssumption, ConfigAssumption DEF Init
<1>2. dedup \in [Pattern -> Nat] /\ outcome \in [Ids -> Outcomes]
  BY DEF Init, Outcomes
<1>3. Len(rows) = 0 /\ AtRisk = {}
  BY DEF Init, AtRisk, At, Idle
<1>4. Cardinality(AtRisk) = 0
  BY <1>3, FS_EmptySet
<1> QED
  BY <1>1, <1>2, <1>3, <1>4, ConfigAssumption DEF BoundsInv

\* No step takes an id that is not there, or a failure too many.
LEMMA BoundsStep ==
  ASSUME Variables, DayInv, BoundsInv, [Next]_vars
  PROVE  BoundsInv'
<1>1. now' <= EndOfDay /\ faults' \in 0..MaxFaults
  BY ClockStep DEF Variables, BoundsInv
<1>2. outcome' \in [Ids -> Outcomes]
  BY OutcomeStep DEF BoundsInv
<1>3. dedup' \in [Pattern -> Nat]
  <2>1. dedup \in [Pattern -> Nat] /\ now + DedupTtl \in Nat
    BY ConfigAssumption DEF BoundsInv, Variables
  <2>2. dedup' = dedup \/ \E t \in Slots : dedup' = [dedup EXCEPT ![task[t].pattern] = now + DedupTtl]
    BY Changes DEF Calm, Leaves, StoresRow, Publishes, Registers
  <2> QED
    BY <2>1, <2>2
<1>4. (Len(rows) + Cardinality(AtRisk) <= MaxSignals)'
  BY IdsLast DEF BoundsInv
<1> QED
  BY <1>1, <1>2, <1>3, <1>4 DEF BoundsInv

\* Type correctness, for every day and every set of scans and symbols.
THEOREM TypeCorrect == Spec => []TypeOK
<1>1. (IInv /\ BoundsInv) /\ [Next]_vars => (IInv /\ BoundsInv)'
  BY BoundsStep, VariablesStep, TaskStep, DayStep, SweepStep, CloseStep, ToldStep DEF IInv
<1>2. IInv /\ BoundsInv => TypeOK
  <2> SUFFICES ASSUME IInv, BoundsInv PROVE TypeOK
    OBVIOUS
  <2>1. /\ rows \in Seq(Row) /\ Len(rows) \in Nat /\ Cardinality(AtRisk) \in Nat
        /\ task \in [Slots -> Task] /\ now \in Nat
    BY Countable DEF IInv, Variables
  <2>2. Len(rows) <= MaxSignals
    BY <2>1, ConfigAssumption DEF BoundsInv
  <2>3. now \in 0..EndOfDay
    BY <2>1, DayAssumption DEF BoundsInv
  <2>4. \A t \in Slots : task[t].step \in Steps
    BY <2>1 DEF Task
  <2>5. published \subseteq Ids
    <3>1. published \subseteq DOMAIN rows /\ DOMAIN rows = 1..Len(rows)
      BY <2>1 DEF IInv, TaskInv, PublishedIsPersisted
    <3> QED
      BY <2>1, <2>2, <3>1, ConfigAssumption DEF Ids
  <2>6. \A w \in Sweepers : sweep[w].ids \subseteq DOMAIN rows
    BY DEF IInv, Variables
  <2>7. fired \in BOOLEAN /\ told \in [Ids -> Nat]
    BY DEF IInv, Variables
  <2> QED
    BY <2>1, <2>2, <2>3, <2>4, <2>5, <2>6, <2>7 DEF TypeOK, BoundsInv
<1> QED
  BY InitInv, BoundsInit, <1>1, <1>2, PTL DEF Spec

\* However many cycles overlap, and whenever the risk manager cannot be read, the
\* signals it counts and the symbols under way exceed its limit by no more than
\* the symbols of the cycles and one cycle for each failure.
THEOREM Counts ==
  ASSUME MaxOpen + Cardinality(Slots) > 0
  PROVE  Spec => []CountedBounded
<1>1. Init => IInv /\ BoundsInv /\ CountedBounded
  <2> SUFFICES ASSUME Init PROVE CountedBounded
    BY InitInv, BoundsInit
  <2>1. Counted = {} /\ Busy = {} /\ faults = 0
    BY DEF Init, Counted, Busy
  <2>2. Cardinality(Counted) = 0 /\ Cardinality(Busy) = 0
    BY <2>1, FS_EmptySet
  <2>3. Cardinality(Symbols) * faults = 0
    BY <2>1, Finitely
  <2> QED
    BY <2>2, <2>3, Countable, ConfigAssumption DEF CountedBounded
<1>2. (IInv /\ BoundsInv /\ CountedBounded) /\ [Next]_vars => (IInv /\ BoundsInv /\ CountedBounded)'
  <2> SUFFICES ASSUME IInv, BoundsInv, CountedBounded, [Next]_vars
               PROVE  (IInv /\ BoundsInv /\ CountedBounded)'
    OBVIOUS
  <2>1. IInv' /\ BoundsInv'
    BY BoundsStep, VariablesStep, TaskStep, DayStep, SweepStep, CloseStep, ToldStep DEF IInv
  <2>2. faults \in Nat
    BY ConfigAssumption DEF BoundsInv
  <2>3. CountedBounded'
    BY <2>2, CountedStep DEF IInv, BoundsInv
  <2> QED
    BY <2>1, <2>3
<1> QED
  BY <1>1, <1>2, PTL DEF Spec

--------------------------------------------------------------------------------
(***************************************************************************)
(* The deduplication: a registration outlasts the signal it is made for.   *)
(***************************************************************************)

\* What PatternInv says of the symbol of a cycle.
Fits(t) ==
  /\ task[t].step \in {"risk", "publish", "register"} =>
       task[t].pattern \in Pattern /\ task[t].pattern[1] = t[2]
  /\ task[t].step = "risk" => task[t].until <= now + ValidFor
  /\ task[t].step \in {"publish", "register"} =>
       /\ rows[task[t].sig].pattern = task[t].pattern
       /\ rows[task[t].sig].until <= now + ValidFor

\* The invariant of the patterns, symbol by symbol.
LEMMA PatternParts ==
  /\ PatternInv => (\A p \in Pattern : dedup[p] <= now + DedupTtl) /\ \A t \in Slots : Fits(t)
  /\ (\A p \in Pattern : dedup[p] <= now + DedupTtl)' /\ (\A t \in Slots : Fits(t)') => PatternInv'
BY DEF PatternInv, Fits

\* The row of a signal past the risk engine says what the signal does.
LEMMA NewSignal ==
  ASSUME Variables, DayInv, NEW t \in Slots, NEW state \in {"RISK_APPROVED", "RISK_REJECTED"},
         At(t, "risk"), Store(t, state)
  PROVE  /\ rows' \in Seq(Row) /\ \A i \in DOMAIN rows : rows'[i] = rows[i]
         /\ rows'[Len(rows')].pattern = task[t].pattern
         /\ rows'[Len(rows')].until = task[t].until
<1> DEFINE r == [state |-> state, pattern |-> task[t].pattern, until |-> task[t].until]
<1>1. task[t] \in Task /\ task[t].pattern \in Pattern
  BY DEF Variables, DayInv, At
<1>2. r \in Row
  BY <1>1 DEF Row, States, Task
<1>3. rows' = Append(rows, r) /\ rows \in Seq(Row)
  BY DEF Store, Variables
<1>4. r.pattern = task[t].pattern /\ r.until = task[t].until
  OBVIOUS
<1> HIDE DEF r
<1> QED
  BY <1>2, <1>3, <1>4, NewRow

\* No step changes the pattern or the validity of a stored signal.
LEMMA RowsKept ==
  ASSUME Variables, DayInv, [Next]_vars
  PROVE  \A i \in DOMAIN rows :
           rows'[i].pattern = rows[i].pattern /\ rows'[i].until = rows[i].until
<1>1. CASE Calm
  BY <1>1, Expired DEF Calm
<1>2. CASE \E t \in Slots : StoresRow(t)
  BY <1>2, NewSignal DEF StoresRow
<1>3. CASE rows' = rows
  BY <1>3
<1> QED
  BY Changes, <1>1, <1>2, <1>3 DEF Leaves, Publishes, Registers

\* What the steps of PatternInv and DuplicatesInv start from.
Known == Variables /\ TaskInv /\ DayInv /\ BoundsInv /\ PatternInv

\* Numbers are numbers, and time does not run backwards.
LEMMA Numbers ==
  ASSUME Known, [Next]_vars
  PROVE  /\ now \in Nat /\ now' \in Nat /\ now' \in {now, now + 1}
         /\ faults \in Nat /\ faults' \in Nat /\ faults' \in {faults, faults + 1}
         /\ rows \in Seq(Row) /\ Len(rows) \in Nat /\ DOMAIN rows = 1..Len(rows)
         /\ \A i \in DOMAIN rows : rows[i] \in Row /\ rows[i].until \in Nat /\ rows[i].pattern \in Pattern
         /\ \A t \in Slots : task[t] \in Task /\ task[t].until \in Nat
         /\ \A p \in Pattern : dedup[p] \in Nat
         /\ published \subseteq DOMAIN rows
<1>1. now \in Nat /\ rows \in Seq(Row) /\ task \in [Slots -> Task] /\ dedup \in [Pattern -> Nat]
  BY DEF Known, Variables, BoundsInv
<1>2. Len(rows) \in Nat /\ DOMAIN rows = 1..Len(rows) /\ \A i \in DOMAIN rows : rows[i] \in Row
  BY <1>1
<1>3. now' \in {now, now + 1} /\ faults' \in {faults, faults + 1} /\ faults \in Nat
  BY <1>1, ClockStep, ConfigAssumption DEF Known, BoundsInv
<1>4. now' \in Nat /\ faults' \in Nat
  BY <1>1, <1>3
<1>5. \A i \in DOMAIN rows : rows[i].until \in Nat /\ rows[i].pattern \in Pattern
  BY <1>2 DEF Row
<1>6. \A t \in Slots : task[t] \in Task /\ task[t].until \in Nat
  BY <1>1 DEF Task
<1>7. published \subseteq DOMAIN rows
  BY DEF Known, TaskInv, PublishedIsPersisted
<1> QED
  BY <1>1, <1>2, <1>3, <1>4, <1>5, <1>6, <1>7

\* A symbol that stays where it is fits as before.
LEMMA FitsStill ==
  ASSUME Known, [Next]_vars, NEW t \in Slots, task'[t] = task[t]
  PROVE  Fits(t)'
<1>1. Fits(t)
  BY PatternParts DEF Known
<1>2. task[t].step \in {"publish", "register"} => task[t].sig \in DOMAIN rows
  BY DEF Known, TaskInv
<1>3. now + ValidFor <= now' + ValidFor /\ now + ValidFor \in Nat /\ now' + ValidFor \in Nat
  BY Numbers, ConfigAssumption
<1>4. task[t].step = "risk" => task[t].until <= now' + ValidFor
  BY <1>1, <1>3, Numbers DEF Fits
<1>5. task[t].step \in {"publish", "register"} =>
        /\ rows'[task[t].sig].pattern = task[t].pattern
        /\ rows'[task[t].sig].until <= now' + ValidFor
  <2> SUFFICES ASSUME task[t].step \in {"publish", "register"}
               PROVE  /\ rows'[task[t].sig].pattern = task[t].pattern
                      /\ rows'[task[t].sig].until <= now' + ValidFor
    OBVIOUS
  <2>1. /\ rows'[task[t].sig].pattern = rows[task[t].sig].pattern
        /\ rows'[task[t].sig].until = rows[task[t].sig].until
        /\ rows[task[t].sig].until \in Nat
    BY <1>2, RowsKept, Numbers DEF Known
  <2> QED
    BY <1>1, <1>3, <2>1 DEF Fits
<1> QED
  BY <1>1, <1>4, <1>5 DEF Fits

\* The steps of the symbols.
LEMMA FitsStep ==
  ASSUME Known, [Next]_vars, NEW t \in Slots
  PROVE  Fits(t)'
<1>1. CASE task'[t] = task[t]
  BY <1>1, FitsStill
<1>2. CASE task'[t].step \in {"idle", "start", "gates"}
  BY <1>2 DEF Fits
<1>3. ASSUME NEW p \in Pattern, Scored(t, p), now' = now PROVE Fits(t)'
  <2>1. ValidUntil <= now + ValidFor
    BY Numbers, ConfigAssumption, DayAssumption DEF ValidUntil, Least
  <2>2. task'[t].step = "risk" /\ task'[t].pattern = p /\ task'[t].until = ValidUntil /\ p[1] = t[2]
    BY <1>3 DEF Scored
  <2> QED
    BY <1>3, <2>1, <2>2 DEF Fits
<1>4. ASSUME StoresRow(t), task'[t].step = "publish" PROVE Fits(t)'
  <2>1. /\ task'[t].pattern = task[t].pattern /\ task'[t].sig = Len(rows') /\ now' = now
        /\ task[t].step = "risk"
    BY <1>4 DEF StoresRow, At
  <2>2. rows'[Len(rows')].pattern = task[t].pattern /\ rows'[Len(rows')].until = task[t].until
    BY <1>4, NewSignal DEF StoresRow, Known
  <2>3. Fits(t)
    BY PatternParts DEF Known
  <2> QED
    BY <1>4, <2>1, <2>2, <2>3 DEF Fits
<1>5. ASSUME Advanced(t, "publish", "register"), UNCHANGED <<now, rows>> PROVE Fits(t)'
  <2>1. Fits(t)
    BY PatternParts DEF Known
  <2> QED
    BY <1>5, <2>1 DEF Fits, Advanced, At
<1>6. ASSUME NEW u \in Slots, u # t, Moved(u) PROVE task'[t] = task[t]
  BY <1>6 DEF Moved
<1>7. CASE Calm
  BY <1>1, <1>7 DEF Calm
<1>8. CASE \E c \in Scans : Started(c)
  BY <1>1, <1>2, <1>8 DEF Started
<1>9. ASSUME NEW u \in Slots, NEW p \in Pattern, Scored(u, p), now' = now PROVE Fits(t)'
  BY <1>1, <1>3, <1>6, <1>9 DEF Scored
<1>10. ASSUME NEW u \in Slots, Leaves(u) \/ StoresRow(u) \/ Publishes(u) \/ Registers(u)
       PROVE  Fits(t)'
  <2>1. Moved(u)
    BY <1>10 DEF Leaves, StoresRow, Publishes, Registers, Advanced, Stopped
  <2>2. CASE u = t
    <3>1. CASE Leaves(t) \/ Registers(t)
      BY <1>2, <3>1 DEF Leaves, Registers, Advanced
    <3>2. CASE StoresRow(t)
      BY <1>2, <1>4, <3>2 DEF StoresRow
    <3>3. CASE Publishes(t)
      BY <1>2, <1>5, <3>3 DEF Publishes, Stopped, Idle
    <3> QED
      BY <1>10, <2>2, <3>1, <3>2, <3>3
  <2>3. CASE u # t
    BY <1>1, <1>6, <2>1, <2>3
  <2> QED
    BY <2>2, <2>3
<1>11. CASE Dies
  BY <1>2, <1>11 DEF Dies, Idle
<1> QED
  BY Changes, <1>7, <1>8, <1>9, <1>10, <1>11 DEF Known

\* Every step keeps keys and patterns fitting.
LEMMA PatternStep ==
  ASSUME Known, [Next]_vars
  PROVE  PatternInv'
<1>1. \A t \in Slots : Fits(t)'
  BY FitsStep
<1>2. ASSUME NEW p \in Pattern PROVE dedup'[p] <= now' + DedupTtl
  <2>1. dedup'[p] = dedup[p] \/ (dedup'[p] = now + DedupTtl /\ now' = now)
    <3>1. CASE \E t \in Slots : Registers(t)
      BY <3>1 DEF Registers, Known, BoundsInv
    <3>2. CASE dedup' = dedup
      BY <3>2
    <3> QED
      BY Changes, <3>1, <3>2 DEF Known, Calm, Leaves, StoresRow, Publishes
  <2>2. dedup[p] <= now + DedupTtl /\ dedup[p] \in Nat
    BY Numbers, PatternParts DEF Known
  <2> QED
    BY <2>1, <2>2, Numbers, ConfigAssumption
<1> QED
  BY <1>1, <1>2, PatternParts

--------------------------------------------------------------------------------
(***************************************************************************)
(* Duplicates.  What is live of a pattern and not registered is about to   *)
(* be, or was lost to a failure.                                           *)
(***************************************************************************)
Within(p) ==
  /\ Cardinality(Lost(p)) <= Cardinality(Scans) * faults
  /\ Cardinality(Live(p)) + Cardinality(Deciding(p)) <= Cardinality(Scans) * (1 + faults)

\* What is live, and what is under way, can be counted; the symbols that decide
\* about a pattern, or register it, are different ones of its own symbol.
LEMMA LiveCountable ==
  ASSUME Variables, TaskInv, NEW p \in Pattern
  PROVE  /\ IsFiniteSet(Live(p)) /\ Cardinality(Live(p)) \in Nat
         /\ IsFiniteSet(Lost(p)) /\ Cardinality(Lost(p)) \in Nat
         /\ IsFiniteSet(Deciding(p)) /\ Cardinality(Deciding(p)) \in Nat
         /\ IsFiniteSet(Registering(p)) /\ Cardinality(Registering(p)) \in Nat
         /\ Live(p) \subseteq DOMAIN rows /\ Lost(p) \subseteq Live(p)
<1>1. IsFiniteSet(DOMAIN rows)
  BY FS_Interval DEF Variables
<1>2. Live(p) \in SUBSET DOMAIN rows /\ Lost(p) \in SUBSET Live(p)
  BY DEF Live, Lost, TaskInv, PublishedIsPersisted
<1>3. Deciding(p) \in SUBSET Slots /\ Registering(p) \in SUBSET Slots /\ IsFiniteSet(Slots)
  BY Finitely DEF Deciding, Registering
<1>4. IsFiniteSet(Live(p)) /\ Cardinality(Live(p)) \in Nat
  BY <1>1, <1>2, Part
<1>5. IsFiniteSet(Lost(p)) /\ Cardinality(Lost(p)) \in Nat
  BY <1>2, <1>4, Part
<1>6. IsFiniteSet(Deciding(p)) /\ Cardinality(Deciding(p)) \in Nat
  BY <1>3, Part
<1>7. IsFiniteSet(Registering(p)) /\ Cardinality(Registering(p)) \in Nat
  BY <1>3, Part
<1> QED
  BY <1>2, <1>4, <1>5, <1>6, <1>7

\* A pattern is decided and registered by symbols of its own, one for each scan.
LEMMA OfOneSymbol ==
  ASSUME PatternInv, NEW p \in Pattern
  PROVE  /\ p[1] \in Symbols
         /\ Deciding(p) \subseteq Scans \X {p[1]} /\ Registering(p) \subseteq Scans \X {p[1]}
         /\ Deciding(p) \cap Registering(p) = {}
<1>1. p[1] \in Symbols
  BY DEF Pattern
<1>2. ASSUME NEW t \in Slots, task[t].step \in {"risk", "publish", "register"}, task[t].pattern = p
      PROVE  t \in Scans \X {p[1]}
  BY <1>2 DEF PatternInv, Slots
<1> QED
  BY <1>1, <1>2 DEF Deciding, Registering, At

\* The live signals that symbols are about to register are no more than these.
Held(p) == {i \in Live(p) : \E t \in Registering(p) : task[t].sig = i}

\* A symbol holds one signal.
LEMMA HeldBounded ==
  ASSUME Variables, TaskInv, NEW p \in Pattern
  PROVE  /\ IsFiniteSet(Held(p)) /\ Cardinality(Held(p)) \in Nat
         /\ Cardinality(Held(p)) <= Cardinality(Registering(p))
<1> DEFINE f == [i \in Held(p) |-> CHOOSE t \in Registering(p) : task[t].sig = i]
<1>1. \A i \in Held(p) : f[i] \in Registering(p) /\ task[f[i]].sig = i
  BY DEF Held
<1>2. f \in [Held(p) -> Registering(p)]
  BY <1>1
<1> HIDE DEF f
<1>3. f \in Injection(Held(p), Registering(p))
  BY <1>1, <1>2 DEF Injection, IsInjective
<1> QED
  BY <1>3, LiveCountable, FS_Injection, FS_CardinalityType

\* A step that makes nothing live, decides no more, and loses nothing.
LEMMA FewerLive ==
  ASSUME Known, Known', [Next]_vars, NEW p \in Pattern, Within(p),
         Live(p)' \subseteq Live(p), Deciding(p)' \subseteq Deciding(p),
         \/ Lost(p)' \subseteq Lost(p)
         \/ faults' = faults + 1 /\ Cardinality(Lost(p)') <= Cardinality(Lost(p)) + Cardinality(Scans)
  PROVE  Within(p)'
<1> DEFINE m == Cardinality(Scans)
<1>1. /\ m \in Nat /\ faults \in Nat /\ faults' \in {faults, faults + 1}
      /\ IsFiniteSet(Live(p)) /\ IsFiniteSet(Deciding(p)) /\ IsFiniteSet(Lost(p))
      /\ Cardinality(Lost(p)) \in Nat /\ Cardinality(Live(p)) \in Nat
      /\ Cardinality(Deciding(p)) \in Nat
  BY Numbers, Finitely, LiveCountable DEF Known
<1>2. Cardinality(Live(p)') \in Nat /\ Cardinality(Live(p)') <= Cardinality(Live(p))
  BY <1>1, Part
<1>3. Cardinality(Deciding(p)') \in Nat /\ Cardinality(Deciding(p)') <= Cardinality(Deciding(p))
  BY <1>1, Part
<1>4. /\ m * faults \in Nat /\ m * (faults + 1) = m * faults + m /\ m * (1 + faults) = m * faults + m
      /\ m * (1 + (faults + 1)) = m * faults + m + m
  <2>1. m * (1 + (faults + 1)) = m * (faults + 1) + m
    BY <1>1, OnceMore
  <2> QED
    BY <1>1, <2>1, OnceMore
<1>5. /\ Cardinality(Lost(p)) <= m * faults
      /\ Cardinality(Live(p)) + Cardinality(Deciding(p)) <= m * faults + m
  BY <1>4 DEF Within
<1>6. Cardinality(Lost(p)') \in Nat
  <2>1. Lost(p)' \in SUBSET Live(p)' /\ IsFiniteSet(Live(p)')
    BY <1>1, Part DEF Lost
  <2> QED
    BY <2>1, Part
<1>7. Cardinality(Lost(p)') <= m * faults'
  <2>1. CASE Lost(p)' \subseteq Lost(p)
    <3>1. Cardinality(Lost(p)') <= Cardinality(Lost(p))
      BY <1>1, <2>1, Part
    <3>2. m * faults <= m * faults' /\ m * faults' \in Nat
      BY <1>1, <1>4
    <3> QED
      BY <1>1, <1>4, <1>5, <1>6, <3>1, <3>2
  <2>2. CASE faults' = faults + 1 /\ Cardinality(Lost(p)') <= Cardinality(Lost(p)) + m
    BY <1>1, <1>4, <1>5, <1>6, <2>2
  <2> QED
    BY <2>1, <2>2
<1>8. Cardinality(Live(p)') + Cardinality(Deciding(p)') <= m * (1 + faults')
  <2>1. m * faults + m <= m * (1 + faults') /\ m * (1 + faults') \in Nat
    BY <1>1, <1>4
  <2> QED
    BY <1>1, <1>2, <1>3, <1>4, <1>5, <2>1
<1> QED
  BY <1>7, <1>8 DEF Within

\* Signals that are not newly published become no more alive.
LEMMA LiveStill ==
  ASSUME Known, [Next]_vars, NEW p \in Pattern, published' = published
  PROVE  /\ Live(p)' \subseteq Live(p)
         /\ \A i \in Live(p)' : rows'[i].until = rows[i].until /\ rows[i].until \in Nat
<1>1. ASSUME NEW i \in published
      PROVE  /\ rows'[i].pattern = rows[i].pattern /\ rows'[i].until = rows[i].until
             /\ rows[i].until \in Nat
  BY Numbers, RowsKept DEF Known
<1>2. now \in Nat /\ now' \in {now, now + 1}
  BY Numbers
<1> QED
  BY <1>1, <1>2 DEF Live

\* Steps that publish nothing and let no symbol decide, and lose at most the
\* signal of the symbol that gives up its registration.
LEMMA DuplicatesQuiet ==
  ASSUME Known, Known', [Next]_vars, NEW p \in Pattern, Within(p),
         \/ Calm
         \/ \E c \in Scans : Started(c) /\ UNCHANGED <<now, rows, published, dedup>>
         \/ \E t \in Slots : Leaves(t) \/ StoresRow(t)
  PROVE  Within(p)'
<1>1. UNCHANGED <<published, dedup>>
  BY DEF Calm, Leaves, StoresRow
<1>2. /\ Live(p)' \subseteq Live(p)
      /\ \A i \in Live(p)' : rows'[i].until = rows[i].until /\ rows[i].until \in Nat
  BY <1>1, LiveStill
<1>3. ASSUME Registering(p) \subseteq Registering(p)',
             \A t \in Registering(p) : task'[t].sig = task[t].sig
      PROVE  Lost(p)' \subseteq Lost(p)
  BY <1>1, <1>2, <1>3 DEF Lost
<1>4. CASE Calm
  <2>1. task' = task
    BY <1>4 DEF Calm
  <2>2. Deciding(p)' = Deciding(p) /\ Registering(p)' = Registering(p)
    BY <2>1 DEF Deciding, Registering, At
  <2>3. Lost(p)' \subseteq Lost(p)
    BY <1>3, <2>1, <2>2
  <2> QED
    BY <1>2, <2>2, <2>3, FewerLive
<1>5. CASE \E c \in Scans : Started(c)
  <2>1. \A t \in Slots : task'[t] = task[t] \/ (task[t].step = "idle" /\ task'[t].step = "start")
    BY <1>5 DEF Started, Idle
  <2>2. Deciding(p)' \subseteq Deciding(p) /\ Registering(p) \subseteq Registering(p)'
    BY <2>1 DEF Deciding, Registering, At
  <2>3. \A t \in Registering(p) : task'[t].sig = task[t].sig
    BY <2>1 DEF Registering, At
  <2>4. Lost(p)' \subseteq Lost(p)
    BY <1>3, <2>2, <2>3
  <2> QED
    BY <1>2, <2>2, <2>4, FewerLive
<1>6. ASSUME NEW t \in Slots, Leaves(t) \/ StoresRow(t) PROVE Within(p)'
  <2>1. /\ Moved(t)
        /\ \/ task'[t].step \in {"idle", "gates"}
           \/ /\ task[t].step = "risk" /\ task'[t].step = "publish"
              /\ task'[t].pattern = task[t].pattern
    BY <1>6 DEF Leaves, StoresRow, At
  <2>2. Deciding(p)' \subseteq Deciding(p)
    BY <2>1 DEF Moved, Deciding
  <2>3. CASE ~At(t, "register")
    <3>1. \A u \in Registering(p) : task'[u] = task[u]
      BY <2>1, <2>3 DEF Moved, Registering, At
    <3>2. Registering(p) \subseteq Registering(p)'
      BY <3>1 DEF Registering, At
    <3>3. Lost(p)' \subseteq Lost(p)
      BY <1>3, <3>1, <3>2
    <3> QED
      BY <1>2, <2>2, <3>3, FewerLive
  <2>4. CASE At(t, "register")
    <3>1. faults' = faults + 1
      BY <1>6, <2>4 DEF Leaves, StoresRow, At
    <3>2. \A u \in Registering(p) : u # t => task'[u] = task[u] /\ u \in Registering(p)'
      BY <2>1 DEF Moved, Registering, At
    <3>3. Lost(p)' \in SUBSET (Lost(p) \cup {task[t].sig})
      BY <1>1, <1>2, <3>2 DEF Lost
    <3>4. Cardinality(Lost(p)') <= Cardinality(Lost(p)) + 1 /\ Cardinality(Lost(p)') \in Nat
      BY <3>3, LiveCountable, OneMore DEF Known
    <3>5. Cardinality(Scans) >= 1 /\ Cardinality(Scans) \in Nat
      <4>1. Scans # {}
        BY DEF Slots
      <4> QED
        BY <4>1, Finitely, ScansAssumption, FS_EmptySet
    <3>6. Cardinality(Lost(p)') <= Cardinality(Lost(p)) + Cardinality(Scans)
      BY <3>4, <3>5, LiveCountable DEF Known
    <3> QED
      BY <1>2, <2>2, <3>1, <3>6, FewerLive
  <2> QED
    BY <2>3, <2>4
<1> QED
  BY <1>4, <1>5, <1>6

\* A crash loses what was about to be registered, one signal of each scan at most.
LEMMA DuplicatesDie ==
  ASSUME Known, Known', [Next]_vars, NEW p \in Pattern, Within(p),
         Dies, UNCHANGED <<now, rows, published, dedup>>
  PROVE  Within(p)'
<1>1. Live(p)' = Live(p)
  BY DEF Live
<1>2. Deciding(p)' = {}
  BY DEF Dies, Deciding, Idle
<1>3. Lost(p)' \in SUBSET (Lost(p) \cup Held(p))
  BY <1>1 DEF Lost, Held
<1>4. /\ IsFiniteSet(Lost(p)) /\ IsFiniteSet(Held(p)) /\ Cardinality(Held(p)) \in Nat
      /\ Cardinality(Lost(p)) \in Nat
      /\ Cardinality(Held(p)) <= Cardinality(Registering(p))
  BY LiveCountable, HeldBounded DEF Known
<1>5. /\ Cardinality(Registering(p)) <= Cardinality(Scans)
      /\ Cardinality(Registering(p)) \in Nat /\ Cardinality(Scans) \in Nat
  <2>1. p[1] \in Symbols /\ Registering(p) \in SUBSET (Scans \X {p[1]})
    BY OfOneSymbol DEF Known
  <2>2. /\ IsFiniteSet(Scans \X {p[1]})
        /\ Cardinality(Scans \X {p[1]}) = Cardinality(Scans) /\ Cardinality(Scans) \in Nat
    BY <2>1, Finitely
  <2>3. /\ Cardinality(Registering(p)) <= Cardinality(Scans \X {p[1]})
        /\ Cardinality(Registering(p)) \in Nat
    BY <2>1, <2>2, Part
  <2> QED
    BY <2>2, <2>3
<1>6. /\ Cardinality(Lost(p)') <= Cardinality(Lost(p)) + Cardinality(Held(p))
      /\ Cardinality(Lost(p)') \in Nat
  BY <1>3, <1>4, TwoParts
<1>7. Cardinality(Lost(p)') <= Cardinality(Lost(p)) + Cardinality(Scans)
  BY <1>4, <1>5, <1>6
<1>8. faults' = faults + 1
  BY DEF Dies
<1> QED
  BY <1>1, <1>2, <1>7, <1>8, FewerLive

\* A registration outlasts its signal, so that it loses none.
LEMMA DuplicatesRegister ==
  ASSUME Known, Known', [Next]_vars, NEW p \in Pattern, Within(p),
         NEW t \in Slots, Registers(t)
  PROVE  Within(p)'
<1>1. /\ UNCHANGED <<now, rows, published>> /\ Moved(t)
      /\ task[t].step = "register" /\ task'[t].step = "gates"
      /\ dedup' = [dedup EXCEPT ![task[t].pattern] = now + DedupTtl]
  BY DEF Registers, Advanced, At
<1>2. Live(p)' = Live(p)
  BY <1>1 DEF Live
<1>3. Deciding(p)' \subseteq Deciding(p)
  BY <1>1 DEF Moved, Deciding
<1>4. \A u \in Registering(p) : u # t => task'[u] = task[u] /\ u \in Registering(p)'
  BY <1>1 DEF Moved, Registering, At
<1>5. \A i \in Live(p) : rows[i].until \in Nat
  BY Numbers DEF Live
<1>6. CASE task[t].pattern = p
  <2>1. dedup'[p] = now + DedupTtl
    BY <1>1, <1>6 DEF Known, BoundsInv
  <2>2. dedup[p] <= now + DedupTtl /\ dedup[p] \in Nat /\ now \in Nat
    BY Numbers DEF Known, PatternInv
  <2>3. rows[task[t].sig].until <= now + ValidFor
    BY <1>1 DEF Known, PatternInv
  <2>4. ASSUME NEW i \in Lost(p)'
        PROVE  i \in Lost(p)
    <3>1. i \in Live(p) /\ now + DedupTtl < rows[i].until /\ rows[i].until \in Nat
      BY <1>1, <1>2, <1>5, <2>1 DEF Lost
    <3>2. dedup[p] < rows[i].until
      BY <2>2, <3>1, ConfigAssumption
    <3>3. i # task[t].sig
      BY <2>2, <2>3, <3>1, ConfigAssumption
    <3> QED
      BY <1>4, <3>1, <3>2, <3>3 DEF Lost
  <2> QED
    BY <1>2, <1>3, <2>4, FewerLive
<1>7. CASE task[t].pattern # p
  <2>1. dedup'[p] = dedup[p]
    BY <1>1, <1>7 DEF Known, BoundsInv
  <2>2. t \notin Registering(p)
    BY <1>7 DEF Registering
  <2>3. Lost(p)' \subseteq Lost(p)
    BY <1>1, <1>2, <1>4, <2>1, <2>2 DEF Lost
  <2> QED
    BY <1>2, <1>3, <2>3, FewerLive
<1> QED
  BY <1>6, <1>7

\* A published signal was decided before, and is about to be registered.
LEMMA DuplicatesPublish ==
  ASSUME Known, Known', [Next]_vars, NEW p \in Pattern, Within(p),
         NEW t \in Slots, Publishes(t)
  PROVE  Within(p)'
<1> DEFINE i == task[t].sig
<1>1. /\ UNCHANGED <<now, rows, dedup>> /\ Moved(t) /\ task[t].step = "publish"
      /\ \/ task'[t].step = "register" /\ task'[t].pattern = task[t].pattern /\ task'[t].sig = i
         \/ task'[t].step = "idle" /\ faults' = faults + 1
      /\ published' \in {published, published \cup {i}}
  BY DEF Publishes, Advanced, Stopped, At, Idle
<1>2. rows[i].pattern = task[t].pattern
  BY <1>1 DEF Known, PatternInv
<1>3. \A u \in Registering(p) : task'[u] = task[u] /\ u \in Registering(p)'
  BY <1>1 DEF Moved, Registering, At
<1>4. Live(p)' \in SUBSET (Live(p) \cup {i})
  BY <1>1 DEF Live
<1>5. Deciding(p)' \subseteq Deciding(p)
  BY <1>1 DEF Moved, Deciding
<1> HIDE DEF i
<1>6. CASE Live(p)' \subseteq Live(p)
  <2>1. Lost(p)' \subseteq Lost(p)
    BY <1>1, <1>3, <1>6 DEF Lost
  <2> QED
    BY <1>5, <1>6, <2>1, FewerLive
<1>7. CASE ~(Live(p)' \subseteq Live(p))
  <2> DEFINE m == Cardinality(Scans)
  <2>1. task[t].pattern = p /\ i \in Live(p)'
    BY <1>1, <1>2, <1>4, <1>7 DEF Live
  <2>2. t \in Deciding(p) /\ Deciding(p)' \in SUBSET (Deciding(p) \ {t})
    BY <1>1, <2>1 DEF Moved, Deciding
  <2>3. /\ IsFiniteSet(Live(p)) /\ IsFiniteSet(Deciding(p)) /\ IsFiniteSet(Lost(p))
        /\ Cardinality(Live(p)) \in Nat /\ Cardinality(Deciding(p)) \in Nat
        /\ Cardinality(Lost(p)) \in Nat
    BY LiveCountable DEF Known
  <2>4. /\ Cardinality(Live(p)') <= Cardinality(Live(p)) + 1
        /\ Cardinality(Live(p)') \in Nat
    BY <1>4, <2>3, OneMore
  <2>5. Cardinality(Deciding(p)') + 1 <= Cardinality(Deciding(p)) /\ Cardinality(Deciding(p)') \in Nat
    BY <2>2, <2>3, OneLess
  <2>6. /\ m \in Nat /\ faults \in Nat /\ faults' \in {faults, faults + 1} /\ 1 <= m
        /\ m * faults \in Nat /\ m * (1 + faults) = m * faults + m /\ m * (faults + 1) = m * faults + m
    <3>1. Scans # {} /\ m \in Nat /\ faults \in Nat /\ faults' \in {faults, faults + 1}
      BY Numbers, Finitely DEF Slots
    <3>2. 1 <= m
      BY <3>1, ScansAssumption, FS_EmptySet
    <3> QED
      BY <3>1, <3>2, OnceMore
  <2> HIDE DEF m
  <2>7. Cardinality(Live(p)') + Cardinality(Deciding(p)') <= m * faults + m
    BY <2>3, <2>4, <2>5, <2>6 DEF Within, m
  <2>8. m * faults <= m * faults' /\ m * faults' \in Nat /\ m * (1 + faults') = m * faults' + m
    <3>1. CASE faults' = faults
      BY <2>6, <3>1
    <3>2. CASE faults' = faults + 1
      BY <2>6, <3>2, OnceMore
    <3> QED
      BY <2>6, <3>1, <3>2
  <2> DEFINE before == m * faults  after == m * faults'
  <2>a. /\ before \in Nat /\ after \in Nat /\ before <= after
        /\ faults' = faults + 1 => after = before + m
    BY <2>6, <2>8
  <2>b. Cardinality(Lost(p)) <= before
    BY DEF Within, m
  <2> HIDE DEF before, after
  <2>9. Cardinality(Lost(p)') <= after
    <3>1. CASE task'[t].step = "register"
      <4>1. t \in Registering(p)' /\ task'[t].sig = i
        BY <1>1, <2>1, <3>1 DEF Registering, At
      <4>2. Lost(p)' \in SUBSET Lost(p)
        BY <1>1, <1>3, <1>4, <4>1 DEF Lost
      <4>3. Cardinality(Lost(p)') <= Cardinality(Lost(p)) /\ Cardinality(Lost(p)') \in Nat
        BY <2>3, <4>2, Part
      <4> QED
        BY <2>3, <2>a, <2>b, <4>3
    <3>2. CASE faults' = faults + 1
      <4>1. Lost(p)' \in SUBSET (Lost(p) \cup {i})
        BY <1>1, <1>3, <1>4 DEF Lost
      <4>2. Cardinality(Lost(p)') <= Cardinality(Lost(p)) + 1 /\ Cardinality(Lost(p)') \in Nat
        BY <2>3, <4>1, OneMore
      <4> QED
        BY <2>3, <2>6, <2>a, <2>b, <3>2, <4>2
    <3> QED
      BY <1>1, <3>1, <3>2
  <2>10. Cardinality(Live(p)') + Cardinality(Deciding(p)') <= m * (1 + faults')
    BY <2>4, <2>5, <2>6, <2>7, <2>8
  <2> QED
    BY <2>9, <2>10 DEF Within, m, after
<1> QED
  BY <1>6, <1>7

\* A pattern is scored again once what is live of it is not registered: it is
\* about to be, by other scans, or was lost; or when Redis does not answer.
LEMMA DuplicatesScore ==
  ASSUME Known, Known', [Next]_vars, NEW p \in Pattern, Within(p),
         NEW t \in Slots, NEW q \in Pattern, Scored(t, q),
         UNCHANGED <<now, rows, published, dedup>>
  PROVE  Within(p)'
<1> DEFINE m == Cardinality(Scans)
<1>1. Live(p)' = Live(p)
  BY DEF Live
<1>2. /\ Moved(t) /\ task[t].step = "start" /\ q[1] = t[2]
      /\ task'[t].step = "risk" /\ task'[t].pattern = q
      /\ (dedup[q] <= now /\ faults' = faults) \/ faults' = faults + 1
  BY DEF Scored, At
<1>3. Registering(p)' = Registering(p) /\ \A u \in Registering(p) : task'[u] = task[u]
  BY <1>2 DEF Moved, Registering, At
<1>4. Lost(p)' = Lost(p)
  BY <1>1, <1>3 DEF Lost
<1>5. Deciding(p)' \in SUBSET (Deciding(p) \cup {t}) /\ (q # p => Deciding(p)' \subseteq Deciding(p))
  BY <1>2 DEF Moved, Deciding
<1>6. /\ IsFiniteSet(Live(p)) /\ IsFiniteSet(Deciding(p)) /\ IsFiniteSet(Lost(p))
      /\ IsFiniteSet(Registering(p)) /\ Cardinality(Registering(p)) \in Nat
      /\ Cardinality(Live(p)) \in Nat /\ Cardinality(Deciding(p)) \in Nat
      /\ Cardinality(Lost(p)) \in Nat
  BY LiveCountable DEF Known
<1>7. /\ m \in Nat /\ faults \in Nat /\ faults' \in {faults, faults + 1}
      /\ m * faults \in Nat /\ m * (1 + faults) = m * faults + m /\ m * (faults + 1) = m * faults + m
      /\ m * (1 + (faults + 1)) = m * faults + m + m
  <2>1. m \in Nat /\ faults \in Nat /\ faults' \in {faults, faults + 1}
    BY Numbers, Finitely
  <2>2. m * (1 + (faults + 1)) = m * (faults + 1) + m
    BY <2>1, OnceMore
  <2> QED
    BY <2>1, <2>2, OnceMore
<1>8. CASE q # p
  BY <1>1, <1>4, <1>5, <1>8, FewerLive
<1>9. CASE q = p
  <2>1. /\ Cardinality(Deciding(p)') <= Cardinality(Deciding(p)) + 1
        /\ Cardinality(Deciding(p)') \in Nat
    BY <1>5, <1>6, OneMore
  <2>2. Cardinality(Lost(p)) <= m * faults
    BY DEF Within
  <2>3. Cardinality(Live(p)) + Cardinality(Deciding(p)) <= m * faults + m
    BY <1>7 DEF Within
  <2>4. m >= 1
    <3>1. Scans # {}
      BY DEF Slots
    <3> QED
      BY <1>7, <3>1, ScansAssumption, FS_EmptySet
  <2>5. CASE faults' = faults + 1
    <3>1. Cardinality(Lost(p)') <= m * faults'
      <4>1. m * faults' = m * faults + m
        BY <1>7, <2>5
      <4> QED
        BY <1>4, <1>6, <1>7, <2>2, <4>1
    <3>2. Cardinality(Live(p)') + Cardinality(Deciding(p)') <= m * (1 + faults')
      <4>1. m * (1 + faults') = m * faults + m + m
        BY <1>7, <2>5
      <4> QED
        BY <1>1, <1>6, <1>7, <2>1, <2>3, <2>4, <4>1
    <3> QED
      BY <3>1, <3>2 DEF Within
  <2>6. CASE dedup[p] <= now /\ faults' = faults
    <3>1. Live(p) \in SUBSET (Lost(p) \cup Held(p))
      BY <2>6, Numbers DEF Live, Lost, Held
    <3>2. /\ IsFiniteSet(Held(p)) /\ Cardinality(Held(p)) \in Nat
          /\ Cardinality(Held(p)) <= Cardinality(Registering(p))
      BY HeldBounded DEF Known
    <3>3. Cardinality(Live(p)) <= Cardinality(Lost(p)) + Cardinality(Held(p))
      BY <1>6, <3>1, <3>2, TwoParts
    <3>4. Cardinality(Deciding(p)) + Cardinality(Registering(p)) + 1 <= m
      <4> DEFINE All == Scans \X {p[1]}
      <4>1. /\ p[1] \in Symbols /\ Deciding(p) \subseteq All /\ Registering(p) \subseteq All
            /\ Deciding(p) \cap Registering(p) = {}
        BY OfOneSymbol DEF Known
      <4>2. IsFiniteSet(All) /\ Cardinality(All) = m
        BY <4>1, Finitely
      <4>3. t \in All
        BY <1>2, <1>9 DEF Slots
      <4>4. t \notin Deciding(p) /\ t \notin Registering(p)
        BY <1>2 DEF Deciding, Registering, At
      <4> HIDE DEF All
      <4>5. Cardinality(All \ {t}) = Cardinality(All) - 1 /\ IsFiniteSet(All \ {t})
        BY <4>2, <4>3, FS_RemoveElement
      <4>6. Deciding(p) \in SUBSET (All \ {t}) /\ Registering(p) \in SUBSET (All \ {t})
        BY <4>1, <4>4
      <4>7. Cardinality(Deciding(p)) + Cardinality(Registering(p)) <= Cardinality(All \ {t})
        BY <4>1, <4>5, <4>6, Apart
      <4> QED
        BY <1>6, <1>7, <4>2, <4>5, <4>7
    <3>5. Cardinality(Live(p)) + Cardinality(Deciding(p)) + 1 <= m * faults + m
      BY <1>6, <1>7, <2>2, <3>2, <3>3, <3>4
    <3>6. Cardinality(Live(p)') + Cardinality(Deciding(p)') <= m * (1 + faults')
      <4>1. m * (1 + faults') = m * faults + m
        BY <1>7, <2>6
      <4> QED
        BY <1>1, <1>6, <1>7, <2>1, <3>5, <4>1
    <3>7. Cardinality(Lost(p)') <= m * faults'
      BY <1>4, <2>2, <2>6
    <3> QED
      BY <3>6, <3>7 DEF Within
  <2> QED
    BY <1>2, <1>9, <2>5, <2>6
<1> QED
  BY <1>8, <1>9

\* Every step keeps the bound on the live approvals of every pattern.
LEMMA DuplicatesStep ==
  ASSUME Known, Known', [Next]_vars, DuplicatesInv
  PROVE  DuplicatesInv'
<1> SUFFICES ASSUME NEW p \in Pattern PROVE Within(p)'
  BY DEF DuplicatesInv, Within
<1>1. Within(p)
  BY DEF DuplicatesInv, Within
<1> QED
  BY <1>1, Changes, DuplicatesQuiet, DuplicatesDie, DuplicatesRegister, DuplicatesPublish,
    DuplicatesScore DEF Known

\* Overlapping scans, lost registrations and crashes leave no more live approvals
\* of a pattern than there are scans, once more for each failure.
THEOREM Duplicates == Spec => []DuplicatesBounded
<1> DEFINE Inv == IInv /\ BoundsInv /\ PatternInv /\ DuplicatesInv
<1>1. Init => Inv
  <2> SUFFICES ASSUME Init PROVE PatternInv /\ DuplicatesInv
    BY InitInv, BoundsInit
  <2>1. PatternInv
    BY ConfigAssumption DEF Init, PatternInv, Idle
  <2>2. ASSUME NEW p \in Pattern
        PROVE  Live(p) = {} /\ Deciding(p) = {} /\ Lost(p) = {}
    BY DEF Init, Live, Deciding, Lost, Idle
  <2>3. faults = 0 /\ Cardinality(Scans) * faults = 0 /\ Cardinality(Scans) * (1 + faults) \in Nat
    BY Finitely DEF Init
  <2>4. ASSUME NEW p \in Pattern
        PROVE  Cardinality(Live(p)) = 0 /\ Cardinality(Deciding(p)) = 0 /\ Cardinality(Lost(p)) = 0
    BY <2>2, FS_EmptySet
  <2>5. DuplicatesInv
    BY <2>3, <2>4 DEF DuplicatesInv
  <2> QED
    BY <2>1, <2>5
<1>2. Inv /\ [Next]_vars => Inv'
  <2> SUFFICES ASSUME Inv, [Next]_vars PROVE Inv'
    OBVIOUS
  <2>1. IInv' /\ BoundsInv'
    BY BoundsStep, VariablesStep, TaskStep, DayStep, SweepStep, CloseStep, ToldStep DEF IInv
  <2>2. Known
    BY DEF Known, IInv
  <2>3. PatternInv'
    BY <2>2, PatternStep
  <2>4. Known'
    BY <2>1, <2>3 DEF Known, IInv
  <2>5. DuplicatesInv'
    BY <2>2, <2>4, DuplicatesStep
  <2> QED
    BY <2>1, <2>3, <2>5
<1>3. Inv => DuplicatesBounded
  <2> SUFFICES ASSUME Inv, NEW p \in Pattern
               PROVE  Cardinality(Live(p)) <= Cardinality(Scans) * (1 + faults)
    BY DEF DuplicatesBounded
  <2>1. Cardinality(Live(p)) \in Nat /\ Cardinality(Deciding(p)) \in Nat
    BY LiveCountable DEF IInv
  <2>2. Cardinality(Live(p)) + Cardinality(Deciding(p)) <= Cardinality(Scans) * (1 + faults)
    BY DEF DuplicatesInv
  <2>3. Cardinality(Scans) * (1 + faults) \in Nat
    BY Finitely, OnceMore, ConfigAssumption DEF BoundsInv
  <2> QED
    BY <2>1, <2>2, <2>3
<1> QED
  BY <1>1, <1>2, <1>3, PTL DEF Spec
================================================================================
