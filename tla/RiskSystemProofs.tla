--------------------------- MODULE RiskSystemProofs ---------------------------
(***************************************************************************)
(* Proofs about the risk engine beside the portfolio monitor, for every    *)
(* set of callers, every configuration, every request, account and quote,  *)
(* and every set of faults.                                                *)
(***************************************************************************)
EXTENDS RiskSystem, FiniteSetTheorems, TLAPS

\* The order of the tiers.
LEMMA Ranks ==
  /\ Monitor!Rank("NORMAL") = 1 /\ Monitor!Rank("REDUCED") = 2
  /\ Monitor!Rank("PAPER") = 3 /\ Monitor!Rank("KILLED") = 4
  /\ Monitor!TierSet = {"NORMAL", "REDUCED", "PAPER", "KILLED"}
<1>1. DOMAIN Monitor!Order = 1..4
  BY DEF Monitor!Order
<1>2. DOMAIN Monitor!Order = {1, 2, 3, 4}
  BY <1>1
<1>3. /\ Monitor!Order[1] = "NORMAL" /\ Monitor!Order[2] = "REDUCED"
      /\ Monitor!Order[3] = "PAPER" /\ Monitor!Order[4] = "KILLED"
  BY DEF Monitor!Order
<1>4. Monitor!TierSet = {"NORMAL", "REDUCED", "PAPER", "KILLED"}
  BY <1>2, <1>3 DEF Monitor!TierSet
<1> QED
  BY <1>2, <1>3, <1>4 DEF Monitor!Rank

\* The tier of a loss is a tier.
LEMMA TargetIsTier == ASSUME NEW loss PROVE Monitor!Target(loss) \in Monitor!TierSet
BY Ranks DEF Monitor!Target

\* Ranks are natural numbers.
LEMMA RankIsNat == ASSUME NEW t \in Monitor!TierSet PROVE Monitor!Rank(t) \in Nat
BY Ranks

\* What the seeder writes are an account and a portfolio.
LEMMA SeedIsTyped == SeededAccount \in Account /\ EmptyPortfolio \in Portfolio
BY ConfigAssumption DEF SeededAccount, EmptyPortfolio, Account, Portfolio, ConfigFields

LEMMA ReseedIsTyped ==
  ASSUME Reseed
  PROVE  /\ account \in Account => account' \in Account
         /\ portfolio \in Portfolio => portfolio' \in Portfolio
<1>1. Config.capital \in Nat
  BY ConfigAssumption DEF ConfigFields
<1>2. account \in Account =>
        [account EXCEPT !.capital = Config.capital, !.session = Config.capital] \in Account
  BY <1>1 DEF Account
<1> QED
  BY <1>2, SeedIsTyped DEF Reseed

--------------------------------------------------------------------------------
\* The first states satisfy the invariant.
LEMMA InitInv == Init => IInv
<1> SUFFICES ASSUME Init PROVE IInv
  OBVIOUS
<1> USE DEF Init, EngineInit, Monitor!MonitorInit
<1>1. LineInv
  <2>1. ks \in BOOLEAN
    OBVIOUS
  <2>2. line \in Seq(Callers) /\ DOMAIN line = {}
    OBVIOUS
  <2>3. pc \in [Callers -> EnginePc] /\ switch \in [Callers -> SUBSET BOOLEAN]
    BY DEF EnginePc
  <2> QED
    BY <2>1, <2>2, <2>3 DEF LineInv
<1>2. StaleInv
  BY DEF StaleInv
<1>3. AuditInv
  BY DEF AuditInv, ApprovalsAudited
<1>4. TierInv
  <2>1. account \in Account
    BY SeedIsTyped
  <2> QED
    BY <2>1, Ranks DEF TierInv, TiersToldInOrder, Monitor!TiersToldInOrder,
      Monitor!MonitorTypeOK, Monitor!Resting
<1> QED
  BY <1>1, <1>2, <1>3, <1>4 DEF IInv

--------------------------------------------------------------------------------
\* A call that leaves the head of the line, decided, leaves a line behind.
LEMMA Leaving ==
  ASSUME LineInv, NEW c \in Callers, pc[c] \in {"gather", "insert"}, Release, UNCHANGED ks,
         NEW next \in {"idle", "publish"}, Goto(c, next),
         switch' = [switch EXCEPT ![c] = {}] \/ (switch' = switch /\ pc[c] = "insert")
  PROVE  LineInv'
<1> USE DEF LineInv, EnginePc
<1>1. line # <<>> /\ c = line[1]
  OBVIOUS
<1>2. /\ line' \in Seq(Callers)
      /\ \A i \in DOMAIN line' : i + 1 \in DOMAIN line /\ line'[i] = line[i + 1]
  BY <1>1 DEF Release
<1>3. \A i \in DOMAIN line' : line'[i] # c /\ line'[i] \in Callers
  BY <1>1, <1>2
<1>4. \A i, j \in DOMAIN line' : line'[i] = line'[j] => i = j
  BY <1>2
<1>5. pc' \in [Callers -> EnginePc]
  BY DEF Goto
<1>6. ASSUME NEW d \in Callers
      PROVE  (\E i \in DOMAIN line' : line'[i] = d) <=> pc'[d] \in {"line", "gather", "insert"}
  <2>1. CASE d = c
    BY <1>3, <2>1 DEF Goto
  <2>2. CASE d # c
    <3>1. ASSUME NEW i \in DOMAIN line, line[i] = d
          PROVE  \E k \in DOMAIN line' : line'[k] = d
      <4>1. i - 1 \in DOMAIN line'
        BY <1>1, <2>2, <3>1 DEF Release
      <4> QED
        BY <1>2, <3>1, <4>1
    <3>2. pc'[d] = pc[d]
      BY <2>2 DEF Goto
    <3> QED
      BY <1>2, <3>1, <3>2
  <2> QED
    BY <2>1, <2>2
<1>7. \A d \in Callers : pc'[d] \notin {"gather", "insert"}
  BY <1>1 DEF Goto
<1>8. switch' \in [Callers -> SUBSET BOOLEAN] /\ \A d \in Callers : switch'[d] = {}
  BY <1>7 DEF Goto
<1> QED
  BY <1>2, <1>4, <1>5, <1>6, <1>7, <1>8

\* A call that joins the line joins its end.
LEMMA Joining ==
  ASSUME LineInv, NEW c \in Callers, pc[c] = "idle", line' = Append(line, c), Goto(c, "line"),
         UNCHANGED <<ks, switch>>
  PROVE  LineInv'
<1> USE DEF LineInv, EnginePc
<1>1. /\ line' \in Seq(Callers)
      /\ DOMAIN line' = 1..(Len(line) + 1) /\ DOMAIN line = 1..Len(line)
      /\ \A i \in DOMAIN line : line'[i] = line[i] /\ line[i] # c
      /\ line'[Len(line) + 1] = c
      /\ Len(line) \in Nat
  OBVIOUS
<1>2. \A i, j \in DOMAIN line' : line'[i] = line'[j] => i = j
  BY <1>1
<1>3. pc' \in [Callers -> EnginePc] /\ pc'[c] = "line" /\ \A d \in Callers : d # c => pc'[d] = pc[d]
  BY DEF Goto
<1>4. ASSUME NEW d \in Callers
      PROVE  (\E i \in DOMAIN line' : line'[i] = d) <=> pc'[d] \in {"line", "gather", "insert"}
  BY <1>1, <1>3
<1>5. ASSUME NEW d \in Callers, pc'[d] \in {"gather", "insert"}
      PROVE  d = Head(line')
  BY <1>1, <1>3, <1>5
<1> QED
  BY <1>1, <1>2, <1>3, <1>4, <1>5

\* A call that goes on without the line, or at its head, leaves it as it is.
LEMMA Proceeding ==
  ASSUME LineInv, NEW c \in Callers, UNCHANGED <<ks, line, switch>>, NEW next \in EnginePc, Goto(c, next),
         \/ pc[c] \notin {"line", "gather", "insert"} /\ next \notin {"line", "gather", "insert"}
         \/ pc[c] = "line" /\ Head(line) = c /\ next = "gather"
  PROVE  LineInv'
<1> USE DEF LineInv, EnginePc
<1>1. pc' \in [Callers -> EnginePc] /\ pc'[c] = next /\ \A d \in Callers : d # c => pc'[d] = pc[d]
  BY DEF Goto
<1>2. \A d \in Callers :
        (\E i \in DOMAIN line : line[i] = d) <=> pc'[d] \in {"line", "gather", "insert"}
  BY <1>1
<1>3. ASSUME NEW d \in Callers, pc'[d] \in {"gather", "insert"}
      PROVE  d = Head(line)
  BY <1>1, <1>3
<1> QED
  BY <1>1, <1>2, <1>3

--------------------------------------------------------------------------------
\* The engine only reads what others write to Redis.
LEMMA EngineReads == ASSUME NEW c \in Callers, Step(c) PROVE UNCHANGED redis
BY DEF Step, Acquire, FetchSwitch, FetchHash, GatherFails, Judge, Refuse, Insert, Publish,
  Park

\* Every step keeps the line.
LEMMA LineStep == LineInv /\ [Next]_vars => LineInv'
<1> SUFFICES ASSUME LineInv, [Next]_vars PROVE LineInv'
  OBVIOUS
<1>1. CASE UNCHANGED <<ks, line, pc, switch>>
  BY <1>1 DEF LineInv
<1>2. ASSUME NEW c \in Callers, Step(c) PROVE LineInv'
  <2> UNCHANGED ks
    BY <1>2, EngineReads DEF redis
  <2>1. CASE Acquire(c)
    BY <2>1, Proceeding DEF Acquire, EnginePc, seen
  <2>2. CASE FetchSwitch(c)
    <3>1. PICK value \in BOOLEAN : switch' = [switch EXCEPT ![c] = {value}]
      BY <2>2 DEF FetchSwitch, LineInv
    <3> QED
      BY <2>2, <3>1 DEF FetchSwitch, LineInv
  <2>7. CASE FetchHash(c)
    BY <1>1, <2>7 DEF FetchHash
  <2>3. CASE GatherFails(c) \/ (\E q \in Quotes : Judge(c, q))
    <3>1. pc[c] = "gather"
      BY <2>3 DEF GatherFails, Judge
    <3>2. CASE Refuse(c)
      BY <3>1, <3>2, Leaving DEF Refuse, Decided
    <3>3. CASE Goto(c, "insert") /\ Decided(c) /\ UNCHANGED line
      BY <3>1, <3>3 DEF LineInv, Goto, Decided, EnginePc
    <3> QED
      BY <2>3, <3>2, <3>3 DEF GatherFails, Judge
  <2>4. CASE Insert(c)
    BY <2>4, Leaving DEF Insert, Decided, seen
  <2>5. CASE Publish(c)
    <3>1. \E next \in {"idle", "retry", "again", "park"} : Goto(c, next)
      BY <2>5 DEF Publish, Return, NextTry
    <3> QED
      BY <2>5, <3>1, Proceeding DEF Publish, EnginePc, seen
  <2>6. CASE Park(c)
    BY <2>6, Proceeding DEF Park, Return, EnginePc, seen
  <2> QED
    BY <1>2, <2>1, <2>2, <2>3, <2>4, <2>5, <2>6, <2>7 DEF Step
<1>3. ASSUME NEW c \in Callers, NEW r \in Requests, Call(c, r) PROVE LineInv'
  BY <1>3, Joining DEF Call, seen, redis
<1>4. CASE Crash
  BY <1>4 DEF Crash, Restart, Reseed, LineInv, EnginePc
<1>5. CASE Switch
  BY <1>5 DEF Switch, LineInv, engine, seen
<1>6. CASE PollAccount \/ PollPortfolio \/ MonitorStep \/ UNCHANGED vars
  BY <1>1, <1>6 DEF PollAccount, PollPortfolio, MonitorStep, vars, engineVars, engine, seen, redis
<1> QED
  BY <1>2, <1>3, <1>4, <1>5, <1>6 DEF Next, EngineStep, EngineNext

\* Reading the switch arms a call only while the switch is off, and only the
\* call that reads it.
LEMMA StaleStep == LineInv /\ StaleInv /\ [Next]_vars => StaleInv'
<1> SUFFICES ASSUME LineInv, StaleInv, [Next]_vars PROVE StaleInv'
  OBVIOUS
<1> USE DEF StaleInv, Armed
<1>1. LineInv'
  BY LineStep
<1>2. CASE UNCHANGED <<ks, late, pc, switch>>
  BY <1>2
<1>3. ASSUME NEW c \in Callers, Step(c) PROVE StaleInv'
  <2>1. UNCHANGED ks
    BY <1>3, EngineReads DEF redis
  <2>2. CASE FetchSwitch(c)
    <3>1. UNCHANGED <<pc, late>> /\ pc[c] = "gather"
      BY <2>2 DEF FetchSwitch, outcome
    <3>2. ks => switch'[c] = {TRUE}
      BY <2>2 DEF FetchSwitch, LineInv
    <3>3. \A d \in Callers : d # c => switch'[d] = switch[d]
      BY <2>2 DEF FetchSwitch, LineInv
    <3>4. CASE ks
      <4>1. ~Armed(c)'
        BY <3>1, <3>2, <3>4
      <4> QED
        BY <2>1, <3>1, <3>3, <3>4, <4>1
    <3>5. CASE ~ks
      BY <2>1, <3>1, <3>5
    <3> QED
      BY <3>4, <3>5
  <2>3. CASE FetchHash(c)
    BY <1>2, <2>1, <2>3 DEF FetchHash, outcome
  <2>4. CASE Acquire(c) \/ Publish(c) \/ Park(c)
    <3>1. UNCHANGED <<late, switch>> /\ pc'[c] # "insert"
      BY <2>4 DEF Acquire, Publish, Park, Goto, Return, NextTry, outcome, seen, LineInv
    <3>2. \A d \in Callers : d # c => pc'[d] = pc[d]
      BY <2>4 DEF Acquire, Publish, Park, Goto, Return, LineInv
    <3> QED
      BY <2>1, <3>1, <3>2
  <2>5. CASE GatherFails(c) \/ (\E q \in Quotes : Judge(c, q))
    <3>1. UNCHANGED late /\ switch' = [switch EXCEPT ![c] = {}]
      BY <2>5 DEF GatherFails, Judge, Refuse, Decided, outcome
    <3>5. Goto(c, "idle") \/ Goto(c, "insert")
      BY <2>5 DEF GatherFails, Judge, Refuse
    <3>2. \A d \in Callers : d # c => pc'[d] = pc[d]
      BY <3>5 DEF Goto, LineInv
    <3>3. CASE FALSE \in switch[c]
      BY <2>1, <3>1, <3>3
    <3>4. CASE FALSE \notin switch[c]
      <4>1. Refuse(c)
        <5>1. CASE GatherFails(c)
          BY <5>1 DEF GatherFails
        <5>2. ASSUME NEW q \in Quotes, Judge(c, q) PROVE Refuse(c)
          <6>1. \A on \in switch[c] : on = TRUE
            <7>1. switch[c] \subseteq BOOLEAN
              BY DEF LineInv
            <7>2. ASSUME NEW on \in switch[c] PROVE on = TRUE
              <8>1. on \in BOOLEAN /\ on # FALSE
                BY <3>4, <7>1, <7>2
              <8> QED
                BY ONLY <8>1
            <7> QED
              BY ONLY <7>2
          <6> QED
            BY <5>2, <6>1 DEF Judge
        <5> QED
          BY <2>5, <5>1, <5>2
      <4>2. pc'[c] = "idle"
        BY <4>1 DEF Refuse, Goto, LineInv
      <4> QED
        BY <2>1, <3>1, <3>2, <4>2 DEF LineInv
    <3> QED
      BY <3>3, <3>4
  <2>6. CASE Insert(c)
    <3>1. late = 0
      <4>1. Armed(c)
        BY <2>6 DEF Insert
      <4>2. late # 1
        BY <4>1
      <4> QED
        BY <4>2
    <3>2. ASSUME NEW d \in Callers PROVE ~Armed(d)'
      <4>1. pc'[d] \notin {"gather", "insert"}
        <5>1. CASE d = c
          BY <2>6, <5>1 DEF Insert, Goto, LineInv
        <5>2. CASE d # c
          BY <2>6, <5>2 DEF Insert, Goto, LineInv
        <5> QED
          BY <5>1, <5>2
      <4>2. switch'[d] = {}
        BY <1>1, <4>1 DEF LineInv
      <4> QED
        BY <4>1, <4>2
    <3>3. late' = late \/ late' = (IF ks THEN late + 1 ELSE 0)
      BY <2>6 DEF Insert
    <3>4. late' \in 0..1
      BY <3>1, <3>3
    <3>5. ~ks => late' = 0
      BY <3>1, <3>3
    <3> QED
      BY <2>1, <3>2, <3>4, <3>5
  <2> QED
    BY <1>3, <2>2, <2>3, <2>4, <2>5, <2>6 DEF Step
<1>4. ASSUME NEW c \in Callers, NEW r \in Requests, Call(c, r) PROVE StaleInv'
  BY <1>4 DEF Call, Goto, redis, outcome, seen, LineInv
<1>5. CASE Crash
  BY <1>5 DEF Crash, Restart, Reseed, outcome
<1>6. CASE Switch
  BY <1>6 DEF Switch, engine, seen
<1>7. CASE PollAccount \/ PollPortfolio \/ MonitorStep \/ UNCHANGED vars
  BY <1>2, <1>7 DEF PollAccount, PollPortfolio, MonitorStep, vars, engineVars, engine, seen, redis,
    outcome
<1> QED
  BY <1>3, <1>4, <1>5, <1>6, <1>7 DEF Next, EngineStep, EngineNext

--------------------------------------------------------------------------------
\* A step of one call leaves the others where they are.
LEMMA OthersStay ==
  ASSUME LineInv, DOMAIN call = Callers, NEW c \in Callers, Step(c), NEW d \in Callers, d # c
  PROVE  pc'[d] = pc[d] /\ call'[d] = call[d]
<1> USE DEF LineInv, Goto
<1>1. CASE Acquire(c) \/ FetchSwitch(c) \/ FetchHash(c)
  BY <1>1 DEF Acquire, FetchSwitch, FetchHash
<1>2. CASE GatherFails(c) \/ Refuse(c)
  BY <1>2 DEF GatherFails, Refuse
<1>3. CASE (\E q \in Quotes : Judge(c, q)) /\ ~Refuse(c)
  <2>1. Goto(c, "insert") /\ \E lots : call' = [call EXCEPT ![c].lots = lots]
    BY <1>3 DEF Judge
  <2> QED
    BY <2>1
<1>4. CASE Insert(c)
  BY <1>4 DEF Insert
<1>5. CASE Publish(c) \/ Park(c)
  BY <1>5 DEF Publish, Park, Return
<1> QED
  BY <1>1, <1>2, <1>3, <1>4, <1>5 DEF Step

\* The row is inserted before the call gets to the event, and rows stay.
LEMMA AuditStep == LineInv /\ AuditInv /\ [Next]_vars => AuditInv'
<1> SUFFICES ASSUME LineInv, AuditInv, [Next]_vars PROVE AuditInv'
  OBVIOUS
<1> DEFINE Telling == {"publish", "retry", "again", "park"}
<1> USE DEF AuditInv, ApprovalsAudited
<1>1. CASE UNCHANGED <<pc, call, outcome>>
  BY <1>1 DEF outcome
<1>2. ASSUME NEW c \in Callers, Step(c) PROVE AuditInv'
  <2>1. rows \subseteq rows'
    BY <1>2 DEF Step, Acquire, FetchSwitch, FetchHash, GatherFails, Judge, Refuse, Insert,
      Publish, Park, outcome
  <2>2. \A d \in Callers : d # c => pc'[d] = pc[d] /\ call'[d] = call[d]
    BY <1>2, OthersStay
  <2>3. approvals' \cup parked' \cup granted' \subseteq approvals \cup parked \cup granted
          \cup (IF pc[c] \in Telling THEN {call[c].id} ELSE {})
    BY <1>2 DEF Step, Acquire, FetchSwitch, FetchHash, GatherFails, Judge, Refuse, Insert,
      Publish, Park, Return, outcome
  <2>4. ApprovalsAudited'
    BY <2>1, <2>3
  <2>5. pc'[c] \in Telling => call'[c] \in rows'
    <3>1. CASE Insert(c)
      BY <3>1 DEF Insert, Goto, LineInv
    <3>2. CASE Publish(c)
      <4>1. CASE Goto(c, "idle")
        BY <4>1 DEF Goto, LineInv
      <4>2. CASE ~Goto(c, "idle")
        BY <2>1, <3>2, <4>2 DEF Publish, Return
      <4> QED
        BY <4>1, <4>2
    <3>3. CASE Acquire(c) \/ FetchSwitch(c) \/ FetchHash(c) \/ Park(c)
      BY <3>3 DEF Acquire, FetchSwitch, FetchHash, Park, Return, Goto, LineInv
    <3>4. CASE GatherFails(c) \/ (\E q \in Quotes : Judge(c, q))
      <4>1. Goto(c, "idle") \/ Goto(c, "insert")
        BY <3>4 DEF GatherFails, Judge, Refuse
      <4> QED
        BY <4>1 DEF Goto, LineInv
    <3> QED
      BY <1>2, <3>1, <3>2, <3>3, <3>4 DEF Step
  <2>6. DOMAIN call' = Callers
    BY <1>2 DEF Step, Acquire, FetchSwitch, FetchHash, GatherFails, Judge, Refuse, Insert,
      Publish, Park, Return
  <2> QED
    BY <2>1, <2>2, <2>4, <2>5, <2>6
<1>3. ASSUME NEW c \in Callers, NEW r \in Requests, Call(c, r) PROVE AuditInv'
  <2>1. \A d \in Callers : pc'[d] \in Telling => d # c
    BY <1>3 DEF Call, Goto, LineInv
  <2>2. \A d \in Callers : d # c => pc'[d] = pc[d] /\ call'[d] = call[d]
    BY <1>3 DEF Call, Goto, LineInv
  <2> QED
    BY <1>3, <2>1, <2>2 DEF Call, outcome
<1>4. CASE Crash
  BY <1>4 DEF Crash, Restart, outcome
<1>5. CASE Switch
  BY <1>5 DEF Switch, engine
<1>6. CASE PollAccount \/ PollPortfolio \/ MonitorStep \/ UNCHANGED vars
  BY <1>1, <1>6 DEF PollAccount, PollPortfolio, MonitorStep, vars, engineVars, engine
<1> QED
  BY <1>2, <1>3, <1>4, <1>5, <1>6 DEF Next, EngineStep, EngineNext

\* The tier is stored before it is told, and only ever rises.
LEMMA TierStep == TierInv /\ [Next]_vars => TierInv'
<1> SUFFICES ASSUME TierInv, [Next]_vars PROVE TierInv'
  OBVIOUS
<1> USE DEF TierInv, TiersToldInOrder, Monitor!TiersToldInOrder, Monitor!MonitorTypeOK
<1>1. CASE UNCHANGED <<tier, account, mon, told>>
  BY <1>1
<1>2. CASE Monitor!ReadAccount
  <2>1. mon' = [at |-> "store", loss |-> account.dailyUsed] /\ UNCHANGED <<tier, told>>
    BY <1>2 DEF Monitor!ReadAccount
  <2>2. account.dailyUsed \in Nat
    BY DEF Account
  <2> QED
    BY <1>2, <2>1, <2>2 DEF Monitor!ReadAccount
<1>3. CASE Monitor!Keep
  BY <1>3 DEF Monitor!Keep, Monitor!Rest, Monitor!Resting
<1>4. CASE Monitor!Store
  <2>1. Monitor!Target(mon.loss) \in Monitor!TierSet
    BY TargetIsTier
  <2>2. Monitor!Rank(Monitor!Target(mon.loss)) > Monitor!Rank(tier)
    BY <1>4 DEF Monitor!Store, Monitor!Escalates
  <2>3. told' = told /\ (tier' = tier \/ tier' = Monitor!Target(mon.loss))
    BY <1>4 DEF Monitor!Store
  <2>9. account' = account
    BY <1>4 DEF Monitor!Store
  <2>4. \A i \in DOMAIN told : told[i] \in Monitor!TierSet
    OBVIOUS
  <2>5. \A i \in DOMAIN told : Monitor!Rank(told[i]) < Monitor!Rank(Monitor!Target(mon.loss))
    BY <2>1, <2>2, <2>4, RankIsNat
  <2>6. TiersToldInOrder'
    BY <2>3, <2>5, <2>1, <2>4, RankIsNat
  <2>7. mon' = Monitor!Resting \/ (mon'.at = "tell" /\ mon'.loss = mon.loss /\ tier' = Monitor!Target(mon.loss))
    BY <1>4 DEF Monitor!Store, Monitor!At, Monitor!Rest
  <2>8. mon' \in [at : {"rest", "store", "tell"}, loss : Nat]
    BY <1>4 DEF Monitor!Store, Monitor!At, Monitor!Rest, Monitor!Resting
  <2> QED
    BY <2>1, <2>3, <2>5, <2>6, <2>7, <2>8, <2>9 DEF Monitor!Resting
<1>5. CASE Monitor!Tell
  <2>1. mon.at = "tell" /\ tier' = tier /\ account' = account /\ mon' = Monitor!Resting
    BY <1>5 DEF Monitor!Tell, Monitor!Rest
  <2>2. CASE told' = told
    BY <2>1, <2>2 DEF Monitor!Resting
  <2>3. CASE told' = Append(told, tier)
    <3>1. /\ told' \in Seq(Monitor!TierSet)
          /\ DOMAIN told' = 1..(Len(told) + 1) /\ DOMAIN told = 1..Len(told)
          /\ \A i \in DOMAIN told : told'[i] = told[i]
          /\ told'[Len(told) + 1] = tier
          /\ Len(told) \in Nat
      BY <2>3
    <3>2. \A i \in DOMAIN told' : Monitor!Rank(told'[i]) <= Monitor!Rank(tier)
      BY <2>1, <3>1, RankIsNat
    <3>3. \A i, j \in DOMAIN told' : i < j => Monitor!Rank(told'[i]) < Monitor!Rank(told'[j])
      BY <2>1, <3>1
    <3> QED
      BY <2>1, <3>1, <3>2, <3>3 DEF Monitor!Resting
  <2> QED
    BY <1>5, <2>1, <2>2, <2>3 DEF Monitor!Tell
<1>6. CASE Crash
  <2>1. account' \in Account
    BY <1>6, ReseedIsTyped DEF Crash, Restart
  <2> QED
    BY <1>6, <2>1 DEF Crash, Restart, Reseed, Monitor!Resting
<1>7. CASE EngineStep
  <2>1. UNCHANGED tier /\ (UNCHANGED account \/ account' \in Accounts)
    BY <1>7, EngineReads DEF EngineStep, EngineNext, Call, Switch, PollAccount, PollPortfolio, redis
  <2> QED
    BY <1>1, <1>7, <2>1, InputsAssumption DEF EngineStep
<1>8. CASE UNCHANGED vars
  BY <1>1, <1>8 DEF vars, engineVars, redis
<1> QED
  BY <1>2, <1>3, <1>4, <1>5, <1>6, <1>7, <1>8 DEF Next, MonitorStep, Monitor!Cycle

--------------------------------------------------------------------------------
\* The invariant holds whatever the constants and however the calls, the cycle,
\* the writers of Redis, the failures and restarts interleave.
THEOREM Invariance == Spec => []IInv
<1>1. IInv /\ [Next]_vars => IInv'
  BY LineStep, StaleStep, AuditStep, TierStep DEF IInv
<1> QED
  BY InitInv, <1>1, PTL DEF Spec

\* Persistence first: an approval that was published, parked for delivery or
\* returned to a caller has its row in risk_decisions, for any number of calls
\* and whatever fails.
THEOREM Audited == Spec => []ApprovalsAudited
<1>1. IInv => ApprovalsAudited
  BY DEF IInv, AuditInv
<1> QED
  BY Invariance, <1>1, PTL

\* However many calls queue for the evaluation lock, at most one approval is
\* still decided after the kill switch went on.
THEOREM StaleBounded == Spec => []OneStaleApproval
<1>1. IInv => OneStaleApproval
  BY DEF IInv, StaleInv, OneStaleApproval
<1> QED
  BY Invariance, <1>1, PTL

\* The monitor announces rising tiers, each stored before, through failures of
\* Redis and the bus and through restarts.
THEOREM ToldInOrder == Spec => []TiersToldInOrder
<1>1. IInv => TiersToldInOrder
  BY DEF IInv, TierInv
<1> QED
  BY Invariance, <1>1, PTL

\* The evaluation lock is with a call that is under way, and only that one decides,
\* for any number of callers, whichever of the early returns each takes and however
\* often the process dies.
THEOREM LockNeverLost == Spec => []LockHeld
<1>1. ASSUME LineInv PROVE LockHeld
  <2>1. ASSUME line # <<>> PROVE pc[Head(line)] \in {"line", "gather", "insert"}
    <3>1. 1 \in DOMAIN line /\ line[1] = Head(line) /\ Head(line) \in Callers
      BY <1>1, <2>1 DEF LineInv
    <3> QED
      BY <1>1, <3>1 DEF LineInv
  <2>2. ASSUME NEW c \in Callers, pc[c] \in {"gather", "insert"}
        PROVE  line # <<>> /\ c = Head(line)
    <3>1. \E i \in DOMAIN line : line[i] = c
      BY <1>1, <2>2 DEF LineInv
    <3> QED
      BY <1>1, <2>2, <3>1 DEF LineInv
  <2> QED
    BY <2>1, <2>2 DEF LockHeld
<1>2. IInv => LockHeld
  BY <1>1 DEF IInv
<1> QED
  BY Invariance, <1>2, PTL

--------------------------------------------------------------------------------
\* Multiplication keeps the order of natural numbers.
LEMMA TimesMonotone ==
  ASSUME NEW a \in Nat, NEW b \in Nat, NEW c \in Nat, a <= b
  PROVE  a * c <= b * c
<1>1. (b - a) * c >= 0
  OBVIOUS
<1>2. (b - a) * c = b * c - a * c
  OBVIOUS
<1> QED
  BY <1>1, <1>2

\* The lots bought for an amount of money cost no more than it.
LEMMA LotsAreAffordable ==
  ASSUME NEW money \in Nat, NEW cost \in Nat
  PROVE  LotsFor(money, cost) \in Nat /\ LotsFor(money, cost) * cost <= money
<1>1. CASE cost > 0
  <2>1. money \div cost \in Nat /\ cost * (money \div cost) <= money
    BY <1>1
  <2> QED
    BY <1>1, <2>1 DEF LotsFor
<1>2. CASE cost = 0
  BY <1>2 DEF LotsFor
<1> QED
  BY <1>1, <1>2

\* What one lot loses at its stop is a natural number.
LEMMA CostIsNat == ASSUME NEW r \in Request PROVE CostPerLot(r) \in Nat
<1>1. /\ r.lotSize \in Nat /\ r.atr \in Nat /\ r.entry \in Nat /\ r.stop \in Nat
      /\ Config.atrStop \in Nat
  BY ConfigAssumption DEF Request, ConfigFields
<1>2. r.atr * Config.atrStop \in Nat
  BY <1>1
<1>3. (IF ~r.option THEN r.atr * Config.atrStop
       ELSE IF r.entry > r.stop THEN r.entry - r.stop ELSE 0) \in Nat
  BY <1>1, <1>2
<1> QED
  BY <1>1, <1>3 DEF CostPerLot, StopDistance

\* Kelly's lots are a natural number, whatever the history of the strategy.
LEMMA KellyIsNat ==
  ASSUME NEW a \in Account, NEW r \in Request, NEW h \in History
  PROVE  KellyLots(a, r, h) \in Nat
<1>1. /\ a.session \in Nat /\ Config.kellyPct \in Nat /\ Config.kellyFallbackPct \in Nat
      /\ h.winPct \in Nat /\ h.ratio \in Nat /\ CostPerLot(r) \in Nat
  BY ConfigAssumption, CostIsNat DEF Account, ConfigFields, History
<1>2. Edge(h) \in Nat
  <2>1. h.winPct * h.ratio - 100 * (100 - h.winPct) \in Int
    BY <1>1
  <2> QED
    BY <2>1 DEF Edge
<1>3. a.session * Config.kellyPct * Config.kellyFallbackPct \in Nat /\ 10000 * CostPerLot(r) \in Nat
  BY <1>1
<1>4. a.session * Edge(h) * Config.kellyPct \in Nat /\ 10000 * h.ratio * CostPerLot(r) \in Nat
  BY <1>1, <1>2
<1>5. LotsFor(a.session * Config.kellyPct * Config.kellyFallbackPct, 10000 * CostPerLot(r)) \in Nat
  BY <1>3, LotsAreAffordable
<1>6. LotsFor(a.session * Edge(h) * Config.kellyPct, 10000 * h.ratio * CostPerLot(r)) \in Nat
  <2> DEFINE money == a.session * Edge(h) * Config.kellyPct
             cost == 10000 * h.ratio * CostPerLot(r)
  <2>1. money \in Nat /\ cost \in Nat
    BY <1>4
  <2> HIDE DEF money, cost
  <2>2. LotsFor(money, cost) \in Nat
    BY <2>1, LotsAreAffordable
  <2> QED
    BY <2>2 DEF money, cost
<1> QED
  BY <1>5, <1>6 DEF KellyLots

\* The position sizer keeps what a trade loses at its stop within riskPct of the
\* session's capital, and its lots within maxLots, for every account, request
\* and win/loss history.
THEOREM SizedWithinRisk ==
  ASSUME NEW a \in Account, NEW r \in Request, NEW h \in History
  PROVE  /\ Lots(a, r, h) \in 0..Config.maxLots
         /\ 100 * (Lots(a, r, h) * CostPerLot(r)) <= a.session * Config.riskPct
<1> DEFINE atr == AtrLots(a, r)
           few == Least(Least(atr, KellyLots(a, r, h)), Config.maxLots)
           cost == CostPerLot(r)
<1>1. /\ a.session * Config.riskPct \in Nat /\ cost \in Nat /\ Config.maxLots \in Nat
      /\ a.multiplier \in 0..2
  <2>1. a.session \in Nat /\ Config.riskPct \in Nat
    BY ConfigAssumption DEF Account, ConfigFields
  <2> QED
    BY <2>1, ConfigAssumption, CostIsNat DEF Account, ConfigFields
<1>2. atr \in Nat /\ atr * (100 * cost) <= a.session * Config.riskPct
  <2> DEFINE money == a.session * Config.riskPct
             price == 100 * cost
  <2>1. money \in Nat /\ price \in Nat
    BY <1>1
  <2>2. atr = LotsFor(money, price)
    BY DEF AtrLots
  <2> HIDE DEF money, price, atr
  <2>3. LotsFor(money, price) \in Nat /\ LotsFor(money, price) * price <= money
    BY <2>1, LotsAreAffordable
  <2> QED
    BY <2>2, <2>3 DEF money, price
<1>3. few \in Nat /\ few <= atr /\ few <= Config.maxLots
  BY <1>1, <1>2, KellyIsNat DEF Least
<1>4. Lots(a, r, h) \in Nat /\ Lots(a, r, h) <= few
  <2> HIDE DEF few
  <2>1. a.multiplier \in {0, 1, 2}
    BY <1>1
  <2>2. (few * a.multiplier) \div 2 \in Nat /\ (few * a.multiplier) \div 2 <= few
    BY <1>3, <2>1
  <2>3. Lots(a, r, h) = (few * a.multiplier) \div 2
    BY DEF Lots, few
  <2> QED
    BY <2>2, <2>3
<1>5. 100 * (Lots(a, r, h) * cost) <= a.session * Config.riskPct
  <2> DEFINE n == Lots(a, r, h)
             c == 100 * cost
  <2>1. n \in Nat /\ n <= atr /\ c \in Nat
    BY <1>1, <1>2, <1>3, <1>4
  <2>2. 100 * (n * cost) = n * c
    BY <1>1, <2>1
  <2> HIDE DEF n, c, atr
  <2>3. n * c <= atr * c
    BY <1>2, <2>1, TimesMonotone
  <2>4. n * c \in Nat /\ atr * c \in Nat
    BY <1>2, <2>1
  <2>5. atr * c <= a.session * Config.riskPct
    BY <1>2 DEF c
  <2> QED
    BY <1>1, <2>2, <2>3, <2>4, <2>5 DEF n
<1> QED
  BY <1>1, <1>3, <1>4, <1>5

--------------------------------------------------------------------------------
\* A nonempty set of natural numbers has a least element.
LEMMA MinIsIn == ASSUME NEW S \in SUBSET Nat, S # {} PROVE Min(S) \in S
<1>1. PICK x \in S : \A y \in S : ~ (<<y, x>> \in OpToRel(<, Nat))
  BY NatLessThanWellFounded, WFMin
<1>2. ASSUME NEW y \in S PROVE x <= y
  <2>1. <<y, x>> \in Nat \X Nat
    OBVIOUS
  <2>2. y < x => <<y, x>> \in OpToRel(<, Nat)
    BY <2>1 DEF OpToRel
  <2>3. ~ (y < x)
    BY <1>1, <2>2
  <2> QED
    BY <2>3
<1> QED
  BY <1>2 DEF Min

\* The verdict of a list of checks is the code of one that failed, or none failed.
LEMMA FailureIsCode ==
  ASSUME NEW n \in Nat, NEW checks, DOMAIN checks = 1..n,
         \A i \in 1..n : checks[i].code \notin {"none", "APPROVED"}
  PROVE  /\ FirstFailure(checks) # "APPROVED"
         /\ FirstFailure(checks) = "none" => \A i \in 1..n : checks[i].ok
<1> DEFINE failed == {i \in DOMAIN checks : ~checks[i].ok}
<1>1. FirstFailure(checks) = IF failed = {} THEN "none" ELSE checks[Min(failed)].code
  BY DEF FirstFailure
<1>2. CASE failed = {}
  BY <1>1, <1>2
<1>3. CASE failed # {}
  <2>1. failed \in SUBSET Nat
    OBVIOUS
  <2>2. Min(failed) \in failed
    <3> HIDE DEF failed
    <3> QED
      BY <1>3, <2>1, MinIsIn
  <2> QED
    BY <1>1, <1>3, <2>2
<1> QED
  BY <1>2, <1>3

\* An approval means that no check was skipped: the account has lost less than its
\* limits and is drawn down less than allowed, there is room for one more position
\* and one more order, and the trade keeps the net delta of one lot below the limit
\* and is of at least one lot.
THEOREM ApprovedWithinLimits ==
  ASSUME NEW a \in Account, NEW p \in Portfolio, NEW r \in Request, NEW q \in Quotes,
         Verdict(a, p, r, q) = "APPROVED"
  PROVE  /\ DailyLossOk(a) /\ WeeklyLossOk(a) /\ DrawdownOk(a)
         /\ p.open + 1 <= Config.maxOpen /\ p.counts[r.underlying] + 1 <= Config.maxPerUnderlying
         /\ p.lastMinute + 1 <= Config.perMinute /\ p.today + 1 <= Config.perDay
         /\ CapitalOk(a, p, r) /\ NetDeltaOk(p, r) /\ CorrelationOk(p, r, q.matrix)
         /\ MarginOk(a, q.margin) /\ RiskRewardOk(r) /\ VegaOk(a, p, r)
         /\ a.session # 0 /\ Lots(a, r, q.history) \in 1..Config.maxLots
<1> DEFINE first == EarlyChecks(a, p, r, q)
           last == LateChecks(a, p, r, q)
<1>1. /\ FirstFailure(first) # "APPROVED"
      /\ FirstFailure(first) = "none" => \A i \in 1..12 : first[i].ok
  <2>1. DOMAIN first = 1..12 /\ \A i \in 1..12 : first[i].code \notin {"none", "APPROVED"}
    BY DEF EarlyChecks
  <2> HIDE DEF first
  <2> QED
    BY <2>1, FailureIsCode
<1>2. /\ FirstFailure(last) # "APPROVED"
      /\ FirstFailure(last) = "none" => \A i \in 1..3 : last[i].ok
  <2>1. DOMAIN last = 1..3 /\ \A i \in 1..3 : last[i].code \notin {"none", "APPROVED"}
    BY DEF LateChecks
  <2> HIDE DEF last
  <2> QED
    BY <2>1, FailureIsCode
<1>3. FirstFailure(first) = "none" /\ a.session # 0 /\ FirstFailure(last) = "none"
  <2> DEFINE f == FirstFailure(first)
             l == FirstFailure(last)
  <2>1. Verdict(a, p, r, q) = CASE f # "none" -> f
                                [] f = "none" /\ a.session = 0 -> "raises"
                                [] f = "none" /\ a.session # 0 /\ l # "none" -> l
                                [] OTHER -> "APPROVED"
    BY Zenon DEF Verdict
  <2>2. f # "APPROVED" /\ l # "APPROVED"
    BY <1>1, <1>2
  <2> HIDE DEF f, l
  <2> QED
    BY <2>1, <2>2, Zenon DEF f, l
<1>4. /\ DailyLossOk(a) /\ WeeklyLossOk(a) /\ DrawdownOk(a) /\ OpenPositionsOk(p) /\ SymbolOk(p, r)
      /\ CapitalOk(a, p, r) /\ NetDeltaOk(p, r) /\ CorrelationOk(p, r, q.matrix)
      /\ MarginOk(a, q.margin) /\ RiskRewardOk(r)
  <2>1. \A i \in {1, 2, 3, 4, 5, 6, 7, 8, 9, 10} : first[i].ok
    <3> HIDE DEF first
    <3> QED
      BY <1>1, <1>3
  <2> QED
    BY <2>1 DEF EarlyChecks
<1>5. OrderRateOk(p) /\ VegaOk(a, p, r) /\ Lots(a, r, q.history) >= 1
  <2>1. \A i \in {1, 2, 3} : last[i].ok
    <3> HIDE DEF last
    <3> QED
      BY <1>2, <1>3
  <2> QED
    BY <2>1 DEF LateChecks
<1>6. /\ p.open + 1 <= Config.maxOpen /\ p.counts[r.underlying] + 1 <= Config.maxPerUnderlying
      /\ p.lastMinute + 1 <= Config.perMinute /\ p.today + 1 <= Config.perDay
  <2>1. /\ p.open \in Nat /\ p.counts[r.underlying] \in Nat /\ p.lastMinute \in Nat
        /\ p.today \in Nat /\ Config.maxOpen \in Nat /\ Config.maxPerUnderlying \in Nat
        /\ Config.perMinute \in Nat /\ Config.perDay \in Nat
    BY ConfigAssumption DEF Portfolio, Request, ConfigFields
  <2> QED
    BY <1>4, <1>5, <2>1 DEF OpenPositionsOk, SymbolOk, OrderRateOk
<1>7. Lots(a, r, q.history) \in 1..Config.maxLots
  <2>1. Lots(a, r, q.history) \in 0..Config.maxLots /\ Config.maxLots \in Nat
    BY InputsAssumption, ConfigAssumption, SizedWithinRisk DEF ConfigFields
  <2> QED
    BY <1>5, <2>1
<1> QED
  BY <1>3, <1>4, <1>5, <1>6, <1>7

--------------------------------------------------------------------------------
(***************************************************************************)
(* The sum of a snapshot.  The library folds over a set by a recursive     *)
(* function on its subsets; that the function exists, is unique and has    *)
(* integer values is shown by a smallest set where it would not.           *)
(***************************************************************************)

\* The element the fold takes next.
First(s) == CHOOSE x \in s : TRUE

\* One step of the fold.
Plus(sum, s) == IF s = {} THEN 0 ELSE RowDelta(First(s)) + sum[s \ {First(s)}]

\* sum gives every subset of T the sum of its rows.
Sums(T, sum) == sum \in [SUBSET T -> Int] /\ \A s \in SUBSET T : sum[s] = Plus(sum, s)

\* The library's sum of a set is the value of its recursive function.
LEMMA Unfold == ASSUME NEW S
  PROVE MapThenSumSet(RowDelta, S) = (CHOOSE sum : sum = [s \in SUBSET S |-> Plus(sum, s)])[S]
BY DEF MapThenSumSet, MapThenFoldSet, First, Plus

\* Among sets of elements of a finite set there is one without a smaller one.
LEMMA Smallest == ASSUME NEW S, IsFiniteSet(S), NEW Q \in SUBSET (SUBSET S), Q # {}
  PROVE \E T \in Q : \A U \in Q : U \subseteq T => U = T
<1>1. IsWellFoundedOn(StrictSubsetOrdering(S), FiniteSubsetsOf(S))
  BY FS_StrictSubsetOrderingWellFounded
<1>2. FiniteSubsetsOf(S) = SUBSET S
  BY FS_FiniteSubsetsOfFinite
<1>3. \E T \in Q : \A U \in Q : ~ (<<U, T>> \in StrictSubsetOrdering(S))
  BY <1>1, <1>2, WFMin
<1> QED
  BY <1>3 DEF StrictSubsetOrdering

\* The element the fold takes is one of the set.
LEMMA FirstIsIn == ASSUME NEW s, s # {} PROVE First(s) \in s
BY DEF First

\* Two such functions agree wherever both are defined.
LEMMA Unique ==
  ASSUME NEW S, IsFiniteSet(S), NEW T \in SUBSET S, NEW U \in SUBSET S, NEW g, NEW h,
         Sums(T, g), Sums(U, h), NEW s \in SUBSET (T \cap U)
  PROVE  g[s] = h[s]
<1> DEFINE Bad == {t \in SUBSET (T \cap U) : g[t] # h[t]}
<1> SUFFICES ASSUME Bad # {} PROVE FALSE
  OBVIOUS
<1>1. PICK t \in Bad : \A u \in Bad : u \subseteq t => u = t
  <2>1. Bad \in SUBSET (SUBSET S)
    OBVIOUS
  <2> HIDE DEF Bad
  <2> QED
    BY <2>1, Smallest
<1>2. t # {}
  <2>1. Plus(g, {}) = Plus(h, {})
    BY DEF Plus
  <2>2. g[{}] = Plus(g, {}) /\ h[{}] = Plus(h, {})
    BY DEF Sums
  <2> QED
    BY <2>1, <2>2
<1>3. t \ {First(t)} \notin Bad
  BY <1>1, <1>2, FirstIsIn
<1>4. g[t \ {First(t)}] = h[t \ {First(t)}]
  BY <1>3
<1>5. g[t] = Plus(g, t) /\ h[t] = Plus(h, t)
  BY DEF Sums
<1> QED
  BY <1>2, <1>4, <1>5 DEF Plus

\* Such a function exists: for a smallest set without one it is put together from
\* those of its subsets.
LEMMA Exists ==
  ASSUME NEW S, IsFiniteSet(S), \A x \in S : RowDelta(x) \in Int
  PROVE  \E g : Sums(S, g)
<1> DEFINE Bad == {T \in SUBSET S : ~ \E g : Sums(T, g)}
<1> SUFFICES ASSUME Bad # {} PROVE FALSE
  OBVIOUS
<1>1. PICK T \in Bad : \A U \in Bad : U \subseteq T => U = T
  <2>1. Bad \in SUBSET (SUBSET S)
    OBVIOUS
  <2> HIDE DEF Bad
  <2> QED
    BY <2>1, Smallest
<1> DEFINE Less == {s \in SUBSET T : s # T}
           Own(s) == CHOOSE g : Sums(s, g)
           rest == T \ {First(T)}
           g == [s \in SUBSET T |-> IF s # T THEN Own(s)[s]
                                    ELSE IF T = {} THEN 0 ELSE RowDelta(First(T)) + Own(rest)[rest]]
<1>2. \A s \in Less : Sums(s, Own(s))
  BY <1>1
<1>3. \A s \in Less : Own(s)[s] \in Int /\ Own(s)[s] = Plus(Own(s), s)
  BY <1>2 DEF Sums
<1>4. T # {} => First(T) \in T /\ rest \in Less
  BY FirstIsIn
<1>5. g \in [SUBSET T -> Int]
  <2>1. ASSUME T # {} PROVE RowDelta(First(T)) + Own(rest)[rest] \in Int
    <3>1. RowDelta(First(T)) \in Int /\ Own(rest)[rest] \in Int
      BY <1>3, <1>4, <2>1
    <3> QED
      BY <3>1
  <2>2. \A s \in SUBSET T : s # T => Own(s)[s] \in Int
    BY <1>3
  <2> HIDE DEF Own, rest
  <2> QED
    BY <2>1, <2>2
<1>6. ASSUME NEW s \in Less PROVE g[s] = Plus(g, s)
  <2>1. CASE s = {}
    BY <1>3, <2>1 DEF Plus
  <2>2. CASE s # {}
    <3> DEFINE r == s \ {First(s)}
    <3>1. r \in Less /\ r \in SUBSET s /\ r \in SUBSET (r \cap s)
      BY <2>2, FirstIsIn
    <3>2. Sums(r, Own(r)) /\ Sums(s, Own(s))
      BY <1>2, <3>1
    <3>3. Own(r)[r] = Own(s)[r]
      <4>1. r \in SUBSET S /\ s \in SUBSET S
        OBVIOUS
      <4> HIDE DEF Own, r
      <4> QED
        BY <3>1, <3>2, <4>1, Unique
    <3>4. g[r] = Own(r)[r] /\ g[s] = Own(s)[s]
      BY <3>1
    <3> HIDE DEF Own, g
    <3> QED
      BY <1>3, <2>2, <3>3, <3>4 DEF Plus
  <2> QED
    BY <2>1, <2>2
<1>7. g[T] = Plus(g, T)
  BY <1>4 DEF Plus
<1>8. Sums(T, g)
  <2> HIDE DEF g
  <2> QED
    BY <1>5, <1>6, <1>7 DEF Sums
<1> QED
  BY <1>1, <1>8

\* The fold computes such a function, so the sum of a finite set is an integer.
LEMMA SumIsInt ==
  ASSUME NEW S, IsFiniteSet(S), \A x \in S : RowDelta(x) \in Int
  PROVE  MapThenSumSet(RowDelta, S) \in Int
<1> DEFINE Solves(sum) == sum = [s \in SUBSET S |-> Plus(sum, s)]
           total == CHOOSE sum : Solves(sum)
<1>1. PICK g : Sums(S, g)
  BY Exists
<1>2. Solves(g)
  BY <1>1 DEF Sums
<1>3. Solves(total)
  BY <1>2
<1>4. \A s \in SUBSET S : total[s] = Plus(total, s)
  <2> HIDE DEF total
  <2> QED
    BY <1>3
<1> HIDE DEF total
<1> DEFINE Bad == {s \in SUBSET S : total[s] \notin Int}
<1>5. Bad = {}
  <2> SUFFICES ASSUME Bad # {} PROVE FALSE
    OBVIOUS
  <2>1. PICK t \in Bad : \A u \in Bad : u \subseteq t => u = t
    <3>1. Bad \in SUBSET (SUBSET S)
      OBVIOUS
    <3> HIDE DEF Bad
    <3> QED
      BY <3>1, Smallest
  <2>2. t # {}
    <3>1. total[{}] = Plus(total, {}) /\ Plus(total, {}) = 0
      BY <1>4 DEF Plus
    <3>2. total[t] \notin Int
      BY <2>1
    <3> QED
      BY <3>1, <3>2
  <2>3. t \ {First(t)} \notin Bad /\ First(t) \in S
    BY <2>1, <2>2, FirstIsIn
  <2> QED
    BY <1>4, <2>2, <2>3 DEF Plus
<1>6. MapThenSumSet(RowDelta, S) = total[S]
  BY Unfold DEF total
<1> QED
  BY <1>5, <1>6

--------------------------------------------------------------------------------
\* What the poller writes is a portfolio.
LEMMA SnapshotIsPortfolio ==
  ASSUME DataInv
  PROVE  Snapshot \in Portfolio
<1> USE DEF DataInv
<1>1. IsFiniteSet(Opened) /\ Opened \subseteq rows
  <2>1. Opened \in SUBSET rows
    BY DEF Opened
  <2> QED
    BY <2>1, FS_Subset
<1>2. Cardinality(Opened) \in Nat
  BY <1>1, FS_CardinalityType
<1>3. ASSUME NEW u \in Underlyings
      PROVE  Cardinality({row \in Opened : row.request.underlying = u}) \in Nat
  <2>1. {row \in Opened : row.request.underlying = u} \in SUBSET Opened
    OBVIOUS
  <2> QED
    BY <1>1, <2>1, FS_Subset, FS_CardinalityType
<1>4. ASSUME NEW row \in rows PROVE RowDelta(row) \in Int
  <2>1. row.lots \in Int /\ row.request \in Request
    <3>1. Config.maxLots \in Nat /\ row.lots \in 1..Config.maxLots
      BY ConfigAssumption DEF ConfigFields, ApprovalsSized
    <3> QED
      BY <3>1, InputsAssumption
  <2>2. /\ row.request.sign \in {1, -1} /\ row.request.lotSize \in Int
        /\ row.request.delta \in Int
    BY <2>1 DEF Request
  <2>3. LotDelta(row.request, 50) \in Int
    <3>1. (IF ~row.request.option THEN 100 ELSE IF row.request.quoted THEN row.request.delta ELSE 50) \in Int
      BY <2>2
    <3>2. row.request.sign * row.request.lotSize \in Int
      BY <2>2
    <3> QED
      BY <3>1, <3>2 DEF LotDelta
  <2> QED
    BY <2>1, <2>3 DEF RowDelta
<1>5. MapThenSumSet(RowDelta, Opened) \in Int
  BY <1>1, <1>4, SumIsInt
<1> DEFINE number == Cardinality(Opened)
           counts == [u \in Underlyings |-> Cardinality({row \in Opened : row.request.underlying = u})]
           delta == MapThenSumSet(RowDelta, Opened)
<1>6. Snapshot = [EmptyPortfolio EXCEPT !.open = number, !.counts = counts, !.delta = delta,
                                        !.lastMinute = number, !.today = number]
  BY DEF Snapshot
<1>7. number \in Nat /\ counts \in [Underlyings -> Nat] /\ delta \in Int
  BY <1>2, <1>3, <1>5
<1>8. EmptyPortfolio \in Portfolio
  BY SeedIsTyped
<1> HIDE DEF number, counts, delta
<1> QED
  BY <1>6, <1>7, <1>8 DEF Portfolio

\* At the start there is no data but zeros.
LEMMA DataInit == Init => DataInv
<1> SUFFICES ASSUME Init PROVE DataInv
  OBVIOUS
<1> USE DEF Init, EngineInit
<1>1. calls \in 0..MaxCalls
  BY CallersAssumption
<1>2. portfolio \in Portfolio
  BY SeedIsTyped
<1>3. NoCall \in [id : Nat, request : Requests \cup {NoRequest}, lots : 0..Config.maxLots]
  BY ConfigAssumption DEF NoCall, ConfigFields
<1>5. NoData \in [account : SUBSET Account, portfolio : SUBSET Portfolio]
  BY DEF NoData
<1>4. IsFiniteSet(rows) /\ ApprovalsSized
  BY FS_EmptySet DEF ApprovalsSized
<1> QED
  BY <1>1, <1>2, <1>3, <1>4, <1>5 DEF DataInv

\* What a call makes of the hashes is a number of lots within the limit.
LEMMA JudgedIsSized ==
  ASSUME NEW a \in Account, NEW p, NEW r \in Requests, NEW q \in Quotes
  PROVE  Judged(a, p, r, q) \in 0..Config.maxLots
<1>1. r \in Request /\ q.history \in History
  BY InputsAssumption
<1>2. Lots(a, r, q.history) \in 0..Config.maxLots
  BY <1>1, SizedWithinRisk
<1>3. Config.maxLots \in Nat
  BY ConfigAssumption DEF ConfigFields
<1> QED
  BY <1>2, <1>3 DEF Judged

\* No step makes data of another kind.
LEMMA DataStep == IInv /\ DataInv /\ [Next]_vars => DataInv'
<1> SUFFICES ASSUME IInv, DataInv, [Next]_vars PROVE DataInv'
  OBVIOUS
<1> DEFINE Sizes == 0..Config.maxLots
           Calls == [id : Nat, request : Requests \cup {NoRequest}, lots : Sizes]
           Reads == [account : SUBSET Account, portfolio : SUBSET Portfolio]
<1>0. /\ pc \in [Callers -> EnginePc] /\ account \in Account /\ portfolio \in Portfolio
      /\ MaxCalls \in Nat /\ Config.maxLots \in Nat
  BY CallersAssumption, ConfigAssumption DEF IInv, LineInv, TierInv, DataInv, ConfigFields
<1>1. CASE UNCHANGED <<calls, portfolio, pc, call, data, rows>>
  BY <1>1 DEF DataInv, ApprovalsSized
<1>2. NoCall \in Calls /\ NoData \in Reads
  BY <1>0 DEF NoCall, NoData
<1>3. ASSUME NEW c \in Callers, Step(c) PROVE DataInv'
  <2>1. UNCHANGED portfolio
    BY <1>3, EngineReads DEF redis
  <2>2. UNCHANGED calls
    BY <1>3 DEF Step, Acquire, FetchSwitch, FetchHash, GatherFails, Judge, Refuse, Insert,
      Publish, Park
  <2>3. CASE Acquire(c) \/ FetchSwitch(c)
    <3>1. UNCHANGED <<call, data, rows>> /\ pc[c] # "idle" /\ (UNCHANGED pc \/ Goto(c, "gather"))
      BY <2>3 DEF Acquire, FetchSwitch, seen, outcome
    <3>2. \A d \in Callers : pc'[d] # "idle" => pc[d] # "idle"
      BY <1>0, <3>1 DEF Goto
    <3>3. \A d \in Callers : pc'[d] = "insert" => pc[d] = "insert"
      BY <1>0, <3>1 DEF Goto
    <3>4. call' = call /\ data' = data /\ rows' = rows /\ ApprovalsSized'
      BY <3>1 DEF DataInv, ApprovalsSized
    <3> QED
      BY <2>1, <2>2, <3>2, <3>3, <3>4 DEF DataInv
  <2>4. CASE FetchHash(c)
    <3>1. data[c] \in Reads
      BY DEF DataInv
    <3>2. data' \in [Callers -> Reads]
      <4>1. CASE data' = [data EXCEPT ![c].account = {account}]
        <5>1. [data[c] EXCEPT !.account = {account}] \in Reads
          BY <1>0, <3>1
        <5> QED
          BY <4>1, <5>1 DEF DataInv
      <4>2. CASE data' = [data EXCEPT ![c].portfolio = {portfolio}]
        <5>1. [data[c] EXCEPT !.portfolio = {portfolio}] \in Reads
          BY <1>0, <3>1
        <5> QED
          BY <4>2, <5>1 DEF DataInv
      <4> QED
        BY <2>4, <4>1, <4>2 DEF FetchHash
    <3> QED
      BY <2>1, <2>2, <2>4, <3>2 DEF FetchHash, DataInv, outcome, ApprovalsSized
  <2>5. CASE GatherFails(c) \/ (\E q \in Quotes : Judge(c, q))
    <3>1. pc[c] = "gather" /\ UNCHANGED rows /\ data' = [data EXCEPT ![c] = NoData]
      BY <2>5 DEF GatherFails, Judge, Refuse, Decided, outcome
    <3>2. data' \in [Callers -> Reads]
      BY <1>2, <3>1 DEF DataInv
    <3>3. CASE Refuse(c)
      <4>1. call' = [call EXCEPT ![c] = NoCall] /\ Goto(c, "idle")
        BY <3>3 DEF Refuse
      <4>2. call' \in [Callers -> Calls]
        BY <1>2, <4>1 DEF DataInv
      <4>3. \A d \in Callers : pc'[d] # "idle" => pc'[d] = pc[d] /\ call'[d] = call[d]
        BY <1>0, <4>1 DEF Goto, DataInv
      <4> QED
        BY <2>1, <2>2, <3>1, <3>2, <4>2, <4>3 DEF DataInv, ApprovalsSized
    <3>4. CASE ~Refuse(c)
      <4>1. PICK q \in Quotes : Judge(c, q)
        BY <2>5, <3>4 DEF GatherFails
      <4>2. Goto(c, "insert")
        BY <3>4, <4>1 DEF Judge
      <4>3. PICK a \in data[c].account, p \in data[c].portfolio :
              LET lots == Judged(a, p, call[c].request, q) IN
              call' = [call EXCEPT ![c].lots = lots] /\ lots # 0
        BY <3>4, <4>1 DEF Judge
      <4> DEFINE lots == Judged(a, p, call[c].request, q)
      <4>8. a \in Account /\ call[c].request \in Requests
        BY <3>1, <4>3 DEF DataInv
      <4>6. lots \in Sizes /\ lots >= 1
        BY <1>0, <4>3, <4>8, JudgedIsSized
      <4>9. call' = [call EXCEPT ![c].lots = lots]
        BY <4>3
      <4> HIDE DEF lots
      <4>4. call' \in [Callers -> Calls] /\ \A d \in Callers : call'[d].request = call[d].request
        BY <4>6, <4>9 DEF DataInv
      <4>5. \A d \in Callers : pc'[d] # "idle" => pc[d] # "idle"
        BY <1>0, <3>1, <4>2 DEF Goto
      <4>7. \A d \in Callers : pc'[d] = "insert" => call'[d].lots >= 1
        BY <1>0, <4>2, <4>6, <4>9 DEF Goto, DataInv
      <4> QED
        BY <2>1, <2>2, <3>1, <3>2, <4>4, <4>5, <4>7 DEF DataInv, ApprovalsSized
    <3> QED
      BY <3>3, <3>4
  <2>6. CASE Insert(c)
    <3>1. pc[c] = "insert" /\ rows' \in {rows, rows \cup {call[c]}}
      BY <2>6 DEF Insert
    <3>2. /\ IsFiniteSet(rows')
          /\ \A row \in rows' : row.lots \in 1..Config.maxLots /\ row.request \in Requests
      <4>1. IsFiniteSet(rows \cup {call[c]})
        BY FS_AddElement DEF DataInv
      <4>2. call[c].lots \in 1..Config.maxLots /\ call[c].request \in Requests
        BY <1>0, <3>1 DEF DataInv
      <4> QED
        BY <3>1, <4>1, <4>2 DEF DataInv, ApprovalsSized
    <3>3. data' \in [Callers -> Reads]
      BY <1>2, <2>6 DEF Insert, Decided, seen, DataInv
    <3>4. call' = call \/ (call' = [call EXCEPT ![c] = NoCall] /\ Goto(c, "idle"))
      BY <2>6 DEF Insert
    <3>5. call' \in [Callers -> Calls]
      BY <1>2, <3>4 DEF DataInv
    <3>6. \A d \in Callers : pc'[d] # "idle" => pc[d] # "idle" /\ call'[d] = call[d]
      BY <1>0, <2>6, <3>1 DEF Insert, Goto, DataInv
    <3>7. \A d \in Callers : pc'[d] = "insert" => pc[d] = "insert"
      BY <1>0, <2>6, <3>1 DEF Insert, Goto, DataInv
    <3>8. ApprovalsSized'
      BY <3>2 DEF ApprovalsSized
    <3> QED
      BY <2>1, <2>2, <3>2, <3>3, <3>5, <3>6, <3>7, <3>8 DEF DataInv
  <2>7. CASE Publish(c) \/ Park(c)
    <3>1. pc[c] # "idle" /\ UNCHANGED <<rows, data>>
      BY <2>7 DEF Publish, Park, seen
    <3>2. call' = call \/ (call' = [call EXCEPT ![c] = NoCall] /\ Goto(c, "idle"))
      BY <2>7 DEF Publish, Park, Return
    <3>3. call' \in [Callers -> Calls]
      BY <1>2, <3>2 DEF DataInv
    <3>4. \A d \in Callers : d # c => pc'[d] = pc[d]
      BY <1>0, <2>7 DEF Publish, Park, Return, Goto
    <3>5. \A d \in Callers : pc'[d] # "idle" => pc[d] # "idle" /\ call'[d] = call[d]
      BY <1>0, <3>1, <3>2, <3>4 DEF Goto, DataInv
    <3>6. pc'[c] # "insert"
      BY <1>0, <2>7 DEF Publish, Park, Return, Goto, NextTry
    <3> QED
      BY <2>1, <2>2, <3>1, <3>3, <3>4, <3>5, <3>6 DEF DataInv, ApprovalsSized
  <2> QED
    BY <1>3, <2>3, <2>4, <2>5, <2>6, <2>7 DEF Step
<1>4. ASSUME NEW c \in Callers, NEW r \in Requests, Call(c, r) PROVE DataInv'
  <2>1. calls' \in 0..MaxCalls /\ calls' \in Nat
    BY <1>0, <1>4 DEF Call, DataInv
  <2>2. call' = [call EXCEPT ![c] = [NoCall EXCEPT !.id = calls', !.request = r]]
    BY <1>4 DEF Call
  <2>3. ASSUME NEW n \in Nat
        PROVE  /\ [NoCall EXCEPT !.id = n, !.request = r] \in Calls
               /\ [NoCall EXCEPT !.id = n, !.request = r].request = r
    BY <1>2
  <2>4. call' \in [Callers -> Calls] /\ call'[c].request = r
    BY <2>1, <2>2, <2>3 DEF DataInv
  <2>5. /\ \A d \in Callers : d # c => pc'[d] = pc[d] /\ call'[d] = call[d]
        /\ pc'[c] = "line"
    BY <1>0, <1>4, <2>2 DEF Call, Goto, DataInv
  <2>6. UNCHANGED <<portfolio, data, rows>>
    BY <1>4 DEF Call, seen, redis, outcome
  <2> QED
    BY <2>1, <2>4, <2>5, <2>6 DEF DataInv, ApprovalsSized
<1>5. CASE Crash
  <2>1. /\ pc' = [c \in Callers |-> "idle"] /\ call' = [c \in Callers |-> NoCall]
        /\ data' = [c \in Callers |-> NoData] /\ UNCHANGED <<calls, rows>>
    BY <1>5 DEF Crash, Restart, outcome
  <2>2. call' \in [Callers -> Calls] /\ data' \in [Callers -> Reads]
    BY <1>2, <2>1
  <2>3. portfolio' \in Portfolio
    BY <1>0, <1>5, ReseedIsTyped DEF Crash, Restart
  <2> QED
    BY <2>1, <2>2, <2>3 DEF DataInv, ApprovalsSized
<1>6. CASE PollPortfolio
  <2>1. portfolio' \in Portfolio
    BY <1>6, SnapshotIsPortfolio DEF PollPortfolio
  <2> QED
    BY <1>6, <2>1 DEF PollPortfolio, engine, seen, outcome, DataInv, ApprovalsSized
<1>7. CASE Switch \/ PollAccount \/ MonitorStep \/ UNCHANGED vars
  BY <1>1, <1>7 DEF Switch, PollAccount, MonitorStep, vars, engineVars, engine, seen, redis, outcome
<1> QED
  BY <1>3, <1>4, <1>5, <1>6, <1>7 DEF Next, EngineStep, EngineNext

--------------------------------------------------------------------------------
\* The data is kept together with the invariant.
LEMMA DataInvariance == Spec => [](IInv /\ DataInv)
<1>1. IInv /\ [Next]_vars => IInv'
  BY LineStep, StaleStep, AuditStep, TierStep DEF IInv
<1> QED
  BY InitInv, DataInit, DataStep, <1>1, PTL DEF Spec

\* Every variable of the engine, of Redis and of the monitor keeps its type; above
\* all, a snapshot of the rows granted so far is a portfolio with numbers, and
\* calls stand in line exactly while they wait or decide.
THEOREM TypeCorrect == Spec => []TypeOK
<1>1. IInv /\ DataInv => TypeOK
  BY DEF IInv, LineInv, StaleInv, TierInv, DataInv, TypeOK
<1> QED
  BY DataInvariance, <1>1, PTL

\* An approval that was stored is of at least one lot and within maxLots, for every
\* account, portfolio, request and history, and whatever failed while it was judged.
THEOREM Sized == Spec => []ApprovalsSized
<1>1. DataInv => ApprovalsSized
  BY DEF DataInv
<1> QED
  BY DataInvariance, <1>1, PTL
================================================================================
