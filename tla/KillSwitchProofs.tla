---------------------------- MODULE KillSwitchProofs ----------------------------
(***************************************************************************)
(* Proofs about the kill switch, for every finite set of operators, any    *)
(* number of changes, every set of faults and either first position.       *)
(***************************************************************************)
EXTENDS KillSwitch, FiniteSetTheorems, TLAPS

\* One more entry of a log counts for its own kind.
LEMMA TimesAppend ==
  ASSUME NEW s \in Seq(Op), NEW x \in Op, NEW o \in Op
  PROVE  /\ Times(o, s) \in Nat
         /\ Times(o, Append(s, x)) = Times(o, s) + IF x = o THEN 1 ELSE 0
<1> DEFINE I == {i \in DOMAIN s : s[i] = o}
           J == {i \in DOMAIN Append(s, x) : Append(s, x)[i] = o}
           n == Len(s) + 1
<1>1. /\ Len(s) \in Nat /\ DOMAIN s = 1..Len(s) /\ DOMAIN Append(s, x) = 1..n
      /\ \A i \in 1..Len(s) : Append(s, x)[i] = s[i]
      /\ Append(s, x)[n] = x
  OBVIOUS
<1>2. IsFiniteSet(I) /\ Cardinality(I) \in Nat
  <2>1. I \subseteq 1..Len(s)
    BY <1>1
  <2>2. IsFiniteSet(1..Len(s))
    BY <1>1, FS_Interval
  <2> QED
    BY <2>1, <2>2, FS_Subset, FS_CardinalityType
<1>5. Times(o, s) = Cardinality(I) /\ Times(o, Append(s, x)) = Cardinality(J)
  BY DEF Times
<1>3. CASE x = o
  <2>1. J = I \cup {n} /\ n \notin I
    BY <1>1, <1>3
  <2> HIDE DEF I, J
  <2>2. Cardinality(J) = Cardinality(I) + 1
    BY <1>2, <2>1, FS_AddElement
  <2> QED
    BY <1>2, <1>3, <1>5, <2>2
<1>4. CASE x # o
  <2>1. J = I
    BY <1>1, <1>4
  <2> HIDE DEF I, J
  <2> QED
    BY <1>2, <1>4, <1>5, <2>1
<1> QED
  BY <1>3, <1>4

\* The tasks that stand somewhere are finitely many.
LEMMA StandingIsFinite ==
  ASSUME NEW step, NEW o
  PROVE  IsFiniteSet(Standing(step, o)) /\ Cardinality(Standing(step, o)) \in Nat
<1>1. IsFiniteSet(Tasks)
  BY StartupAssumption, FS_AddElement DEF Tasks
<1>2. Standing(step, o) \subseteq Tasks
  BY DEF Standing
<1> QED
  BY <1>1, <1>2, FS_Subset, FS_CardinalityType

LEMMA StandingFiniteNext == \A step, o : IsFiniteSet(Standing(step, o)')
<1>1. IsFiniteSet(Tasks)
  BY StartupAssumption, FS_AddElement DEF Tasks
<1>2. \A step, o : Standing(step, o)' \subseteq Tasks
  BY DEF Standing
<1> QED
  BY <1>1, <1>2, FS_Subset

\* Task t leaves its step for another.
Moves(t, next) == pc[t] # next /\ pc' = [pc EXCEPT ![t] = next] /\ op' = op

\* A task that goes on stands at one step less, and at one more.
LEMMA Moved ==
  ASSUME TypeOK, NEW t \in Tasks, NEW next \in SwitchPc, Moves(t, next),
         NEW step \in SwitchPc, NEW o \in Op
  PROVE  /\ Cardinality(Standing(step, o)) \in Nat /\ Cardinality(Standing(step, o)') \in Nat
         /\ Cardinality(Standing(step, o)') =
              Cardinality(Standing(step, o))
                + (IF next = step /\ op[t] = o THEN 1 ELSE 0)
                - (IF pc[t] = step /\ op[t] = o THEN 1 ELSE 0)
<1> DEFINE S == Standing(step, o)
<1>1. IsFiniteSet(S) /\ Cardinality(S) \in Nat
  BY StandingIsFinite
<1>2. /\ op' = op /\ pc[t] # next /\ pc'[t] = next
      /\ \A u \in Tasks : u # t => pc'[u] = pc[u]
  BY DEF TypeOK, Moves
<1>3. CASE op[t] = o /\ next = step
  <2>1. S' = S \cup {t} /\ t \notin S
    BY <1>2, <1>3 DEF Standing
  <2>2. Cardinality(S') = Cardinality(S) + 1
    BY <1>1, <2>1, FS_AddElement
  <2> QED
    BY <1>1, <1>2, <1>3, <2>2
<1>4. CASE op[t] = o /\ pc[t] = step
  <2>1. S' = S \ {t} /\ t \in S
    BY <1>2, <1>4 DEF Standing
  <2>2. Cardinality(S') = Cardinality(S) - 1
    BY <1>1, <2>1, FS_RemoveElement
  <2>3. Cardinality(S') \in Nat
    BY <1>1, <2>1, FS_RemoveElement, FS_CardinalityType
  <2> QED
    BY <1>1, <1>2, <1>4, <2>2, <2>3
<1>5. CASE op[t] # o \/ (next # step /\ pc[t] # step)
  <2>1. S' = S
    BY <1>2, <1>5 DEF Standing
  <2> QED
    BY <1>1, <1>5, <2>1
<1> QED
  BY <1>3, <1>4, <1>5

\* A call that is still to be made stands nowhere.
LEMMA Nobody ==
  ASSUME TypeOK, NEW step \in {"write", "audit", "publish"}, NEW o,
         \/ \A t \in Tasks : pc'[t] \in {"idle", "check"}
         \/ \E t \in Operators : pc[t] = "idle" /\ pc' = [pc EXCEPT ![t] = "read"]
                                 /\ \A u \in Tasks : u # t => op'[u] = op[u]
         \/ pc' = pc /\ op' = op
         \/ pc[Startup] = "check" /\ pc' = [pc EXCEPT ![Startup] = "read"] /\ op' = op
  PROVE  /\ Standing(step, o)' \subseteq Standing(step, o)
         /\ Cardinality(Standing(step, o)') <= Cardinality(Standing(step, o))
<1>1. Standing(step, o)' \subseteq Standing(step, o)
  BY StartupAssumption DEF Standing, TypeOK, Tasks
<1> QED
  BY <1>1, StandingIsFinite, FS_Subset

--------------------------------------------------------------------------------
\* What a step may do: nothing to the switch, the logs and who stands where; or
\* one task goes from one step to the next.
LEMMA Kinds ==
  ASSUME TypeOK, [Next]_vars
  PROVE  \/ /\ UNCHANGED <<active, changes, audit, bus>>
            /\ \A step \in {"write", "audit", "publish"} : \A o \in Op :
                 /\ Standing(step, o)' \subseteq Standing(step, o)
                 /\ Cardinality(Standing(step, o)') <= Cardinality(Standing(step, o))
         \/ \E t \in Tasks : Call(t)
<1>1. CASE StartupCheck
  BY <1>1, Nobody DEF StartupCheck, Goto
<1>2. ASSUME NEW t \in Operators, NEW o \in Op, Request(t, o)
      PROVE  /\ UNCHANGED <<active, changes, audit, bus>>
             /\ pc[t] = "idle" /\ pc' = [pc EXCEPT ![t] = "read"]
             /\ \A u \in Tasks : u # t => op'[u] = op[u]
  BY <1>2 DEF Request, Goto, TypeOK
<1>3. CASE \E t \in Operators, o \in Op : Request(t, o)
  BY <1>2, <1>3, Nobody
<1>4. CASE Crash
  <2>1. \A t \in Tasks : pc'[t] \in {"idle", "check"}
    BY <1>4 DEF Crash
  <2> QED
    BY <1>4, <2>1, Nobody DEF Crash
<1>5. CASE UNCHANGED vars
  BY <1>5, Nobody DEF vars
<1> QED
  BY <1>1, <1>3, <1>4, <1>5 DEF Next

\* A call goes from step to step, and startup is through when it returns.
LEMMA Moving ==
  ASSUME TypeOK, NEW t \in Tasks, Call(t)
  PROVE  /\ pc[t] \in {"read", "write", "audit", "publish"}
         /\ \E next \in {"idle", "write", "audit", "publish"} :
              /\ Moves(t, next)
              /\ IF next = "idle" /\ t = Startup THEN up' = TRUE ELSE up' = up
<1>2. op' = op /\ pc[t] \in {"read", "write", "audit", "publish"}
  BY DEF Call, Read, Write, Audit, Publish
<1>3. Return(t) \/ \E next \in {"write", "audit", "publish"} : pc[t] # next /\ Goto(t, next)
  BY DEF Call, Read, Write, Audit, Publish
<1>4. CASE Return(t)
  <2>1. Moves(t, "idle")
    BY <1>2, <1>4 DEF Return, Moves
  <2>2. IF t = Startup THEN up' = TRUE ELSE up' = up
    <3>1. up \in BOOLEAN
      BY DEF TypeOK
    <3>2. CASE t = Startup
      BY <1>4, <3>2, Zenon DEF Return
    <3>3. CASE t # Startup
      BY <1>4, <3>1, <3>3 DEF Return
    <3> QED
      BY <3>2, <3>3
  <2> QED
    BY <1>2, <2>1, <2>2
<1>5. CASE \E next \in {"write", "audit", "publish"} : pc[t] # next /\ Goto(t, next)
  <2>1. PICK next \in {"write", "audit", "publish"} : pc[t] # next /\ Goto(t, next)
    BY <1>5
  <2>2. Moves(t, next) /\ up' = up
    BY <1>2, <2>1 DEF Goto, Moves
  <2> QED
    BY <1>2, <2>1, <2>2
<1> QED
  BY <1>3, <1>4, <1>5

\* The logs are logs of changes.
LEMMA LogStep ==
  ASSUME TypeOK, NEW t \in Tasks, Call(t)
  PROVE  /\ active' \in BOOLEAN
         /\ changes' \in Seq(Op) /\ audit' \in Seq(Op) /\ bus' \in Seq(Op)
<1>1. /\ op[t] \in Op /\ active \in BOOLEAN
      /\ changes \in Seq(Op) /\ audit \in Seq(Op) /\ bus \in Seq(Op)
  BY DEF TypeOK
<1>2. CASE Read(t)
  <2>1. UNCHANGED <<active, changes, audit, bus>>
    BY <1>2 DEF Read
  <2> QED
    BY <1>1, <2>1
<1>3. CASE Write(t)
  <2>1. audit' = audit /\ bus' = bus
    BY <1>3 DEF Write
  <2>2. CASE Set(op[t])
    <3>1. active' = Wanted(op[t]) /\ changes' = Append(changes, op[t])
      BY <2>2 DEF Set
    <3>2. active' \in BOOLEAN
      BY <3>1 DEF Wanted
    <3>3. changes' \in Seq(Op)
      BY <1>1, <3>1
    <3> QED
      BY <1>1, <2>1, <3>2, <3>3
  <2>3. CASE UNCHANGED <<active, changes>>
    BY <1>1, <2>1, <2>3
  <2> QED
    BY <1>3, <2>2, <2>3 DEF Write
<1>4. CASE Audit(t)
  <2>1. active' = active /\ changes' = changes /\ bus' = bus
    BY <1>4 DEF Audit
  <2>2. audit' = audit \/ audit' = Append(audit, op[t])
    BY <1>4 DEF Audit
  <2>3. audit' \in Seq(Op)
    BY <1>1, <2>2
  <2> QED
    BY <1>1, <2>1, <2>3
<1>5. CASE Publish(t)
  <2>1. active' = active /\ changes' = changes /\ audit' = audit
    BY <1>5 DEF Publish
  <2>2. bus' = bus \/ bus' = Append(bus, op[t])
    BY <1>5 DEF Publish
  <2>3. bus' \in Seq(Op)
    BY <1>1, <2>2
  <2> QED
    BY <1>1, <2>1, <2>3
<1> QED
  BY <1>2, <1>3, <1>4, <1>5 DEF Call

\* Types are kept, and requests wait for startup.
LEMMA TypeStep == TypeOK /\ [Next]_vars => TypeOK'
<1> SUFFICES ASSUME TypeOK, [Next]_vars PROVE TypeOK'
  OBVIOUS
<1> USE StartupAssumption DEF TypeOK, SwitchPc, Op, Tasks
<1>1. CASE StartupCheck
  BY <1>1 DEF StartupCheck, Goto
<1>2. ASSUME NEW t \in Operators, NEW o \in Op, Request(t, o) PROVE TypeOK'
  BY <1>2 DEF Request, Goto
<1>3. ASSUME NEW t \in Tasks, Call(t) PROVE TypeOK'
  <2>1. PICK next \in {"idle", "write", "audit", "publish"} :
          /\ pc[t] # next /\ pc' = [pc EXCEPT ![t] = next] /\ op' = op
          /\ IF next = "idle" /\ t = Startup THEN up' = TRUE ELSE up' = up
    BY <1>3, Moving DEF Moves
  <2>2. pc[t] # "idle"
    BY <1>3, Moving
  <2>3. pc' \in [Tasks -> SwitchPc] /\ up' \in BOOLEAN
    BY <2>1
  <2>4. IF up' THEN pc'[Startup] = "idle" ELSE \A u \in Operators : pc'[u] = "idle"
    <3>1. CASE t = Startup
      <4>1. ~up /\ \A u \in Operators : pc[u] = "idle"
        BY <2>2, <3>1
      <4> QED
        BY <2>1, <3>1, <4>1
    <3>2. CASE t # Startup
      <4>1. up /\ pc[Startup] = "idle" /\ t \in Operators
        BY <2>2, <3>2
      <4> QED
        BY <2>1, <3>2, <4>1
    <3> QED
      BY <3>1, <3>2
  <2>5. /\ active' \in BOOLEAN
        /\ changes' \in Seq(Op) /\ audit' \in Seq(Op) /\ bus' \in Seq(Op)
    BY <1>3, LogStep
  <2> QED
    BY <2>1, <2>3, <2>4, <2>5
<1>4. CASE Crash
  BY <1>4 DEF Crash
<1>5. CASE UNCHANGED vars
  BY <1>5 DEF vars
<1> QED
  BY <1>1, <1>2, <1>3, <1>4, <1>5 DEF Next

\* Each step of a call adds to one log, and takes one task from that step.
LEMMA CountStep == TypeOK /\ CountInv /\ [Next]_vars => CountInv'
<1> SUFFICES ASSUME TypeOK, CountInv, [Next]_vars PROVE CountInv'
  OBVIOUS
<1>1. /\ changes \in Seq(Op) /\ audit \in Seq(Op) /\ bus \in Seq(Op)
      /\ \A t \in Tasks : op[t] \in Op
  BY DEF TypeOK
<1>2. \A o \in Op : /\ Times(o, changes) \in Nat /\ Times(o, audit) \in Nat /\ Times(o, bus) \in Nat
                    /\ Cardinality(Standing("audit", o)) \in Nat
                    /\ Cardinality(Standing("publish", o)) \in Nat
                    /\ Cardinality(Standing("audit", o)') \in Nat
                    /\ Cardinality(Standing("publish", o)') \in Nat
  <2>1. TypeOK'
    BY TypeStep
  <2>2. \A o \in Op : /\ IsFiniteSet(Standing("audit", o)') /\ IsFiniteSet(Standing("publish", o)')
    BY StandingFiniteNext
  <2> QED
    BY <1>1, <2>2, TimesAppend, StandingIsFinite, FS_CardinalityType
<1>3. CASE /\ UNCHANGED <<active, changes, audit, bus>>
           /\ \A step \in {"write", "audit", "publish"} : \A o \in Op :
                Cardinality(Standing(step, o)') <= Cardinality(Standing(step, o))
  <2> SUFFICES ASSUME NEW o \in Op
               PROVE  /\ Times(o, bus) + Cardinality(Standing("publish", o)') <= Times(o, audit)
                      /\ Times(o, audit) + Cardinality(Standing("audit", o)') <= Times(o, changes)
    BY <1>3 DEF CountInv
  <2>1. /\ Cardinality(Standing("publish", o)') <= Cardinality(Standing("publish", o))
        /\ Cardinality(Standing("audit", o)') <= Cardinality(Standing("audit", o))
    BY <1>3
  <2>2. /\ Times(o, bus) + Cardinality(Standing("publish", o)) <= Times(o, audit)
        /\ Times(o, audit) + Cardinality(Standing("audit", o)) <= Times(o, changes)
    BY DEF CountInv
  <2> QED
    BY <1>2, <2>1, <2>2
<1>4. ASSUME NEW t \in Tasks, Call(t), NEW o \in Op
      PROVE  /\ Times(o, bus') + Cardinality(Standing("publish", o)') <= Times(o, audit')
             /\ Times(o, audit') + Cardinality(Standing("audit", o)') <= Times(o, changes')
  <2>1. PICK next \in {"idle", "write", "audit", "publish"} : Moves(t, next)
    BY <1>4, Moving
  <2>2. next \in SwitchPc /\ "audit" \in SwitchPc /\ "publish" \in SwitchPc
    BY DEF SwitchPc
  <2> DEFINE After(step) == Cardinality(Standing(step, o))
                              + (IF next = step /\ op[t] = o THEN 1 ELSE 0)
                              - (IF pc[t] = step /\ op[t] = o THEN 1 ELSE 0)
  <2>10. Cardinality(Standing("audit", o)') = After("audit")
    BY <2>1, <2>2, Moved
  <2>11. Cardinality(Standing("publish", o)') = After("publish")
    BY <2>1, <2>2, Moved
  <2>4. /\ Times(o, bus) + Cardinality(Standing("publish", o)) <= Times(o, audit)
        /\ Times(o, audit) + Cardinality(Standing("audit", o)) <= Times(o, changes)
    BY DEF CountInv
  <2>5. pc'[t] = next /\ pc[t] # next
    BY <2>1 DEF TypeOK, Moves
  <2>6. CASE Read(t)
    <3>1. /\ UNCHANGED <<changes, audit, bus>> /\ pc[t] = "read"
          /\ next \in {"write", "idle"}
      BY <2>5, <2>6 DEF Read, Goto, Return, TypeOK
    <3> QED
      BY <1>2, <2>10, <2>11, <2>4, <3>1
  <2>7. CASE Write(t)
    <3>1. /\ UNCHANGED <<audit, bus>> /\ pc[t] = "write" /\ next \in {"audit", "idle"}
          /\ \/ changes' = Append(changes, op[t])
             \/ UNCHANGED changes /\ next = "idle"
      BY <2>5, <2>7 DEF Write, Goto, Return, Set, TypeOK
    <3>2. /\ Times(o, audit') = Times(o, audit) /\ Times(o, bus') = Times(o, bus)
      BY <3>1
    <3>3. /\ Times(o, changes') \in Nat
          /\ Times(o, changes) + (IF next = "audit" /\ op[t] = o THEN 1 ELSE 0) <= Times(o, changes')
          /\ Times(o, changes') <= Times(o, changes) + (IF op[t] = o THEN 1 ELSE 0)
      <4>1. Times(o, Append(changes, op[t])) = Times(o, changes) + IF op[t] = o THEN 1 ELSE 0
        BY <1>1, TimesAppend
      <4>2. \/ Times(o, changes') = Times(o, Append(changes, op[t]))
            \/ Times(o, changes') = Times(o, changes) /\ next = "idle"
        BY <3>1
      <4> QED
        BY <1>2, <4>1, <4>2
    <3>4. /\ Cardinality(Standing("audit", o)') = Cardinality(Standing("audit", o)) + (IF next = "audit" /\ op[t] = o THEN 1 ELSE 0)
          /\ Cardinality(Standing("publish", o)') = Cardinality(Standing("publish", o))
      BY <1>2, <2>10, <2>11, <3>1
    <3> QED
      BY <1>2, <2>4, <3>1, <3>2, <3>3, <3>4
  <2>8. CASE Audit(t)
    <3>1. /\ UNCHANGED <<changes, bus>> /\ pc[t] = "audit" /\ next \in {"publish", "idle"}
          /\ \/ audit' = Append(audit, op[t])
             \/ UNCHANGED audit /\ next = "idle"
      BY <2>5, <2>8 DEF Audit, Goto, Return, TypeOK
    <3>2. /\ Times(o, changes') = Times(o, changes) /\ Times(o, bus') = Times(o, bus)
      BY <3>1
    <3>3. /\ Times(o, audit') \in Nat
          /\ Times(o, audit) + (IF next = "publish" /\ op[t] = o THEN 1 ELSE 0) <= Times(o, audit')
          /\ Times(o, audit') <= Times(o, audit) + (IF op[t] = o THEN 1 ELSE 0)
      <4>1. Times(o, Append(audit, op[t])) = Times(o, audit) + IF op[t] = o THEN 1 ELSE 0
        BY <1>1, TimesAppend
      <4>2. \/ Times(o, audit') = Times(o, Append(audit, op[t]))
            \/ Times(o, audit') = Times(o, audit) /\ next = "idle"
        BY <3>1
      <4> QED
        BY <1>2, <4>1, <4>2
    <3>4. /\ Cardinality(Standing("audit", o)') = Cardinality(Standing("audit", o)) - (IF op[t] = o THEN 1 ELSE 0)
          /\ Cardinality(Standing("publish", o)') = Cardinality(Standing("publish", o)) + (IF next = "publish" /\ op[t] = o THEN 1 ELSE 0)
      BY <1>2, <2>10, <2>11, <3>1
    <3> QED
      BY <1>2, <2>4, <3>1, <3>2, <3>3, <3>4
  <2>9. CASE Publish(t)
    <3>1. /\ UNCHANGED <<changes, audit>> /\ pc[t] = "publish" /\ next = "idle"
          /\ (bus' = Append(bus, op[t]) \/ UNCHANGED bus)
      BY <2>5, <2>9 DEF Publish, Return, TypeOK
    <3>2. /\ Times(o, changes') = Times(o, changes) /\ Times(o, audit') = Times(o, audit)
      BY <3>1
    <3>3. /\ Times(o, bus') \in Nat
          /\ Times(o, bus') <= Times(o, bus) + (IF op[t] = o THEN 1 ELSE 0)
      <4>1. Times(o, Append(bus, op[t])) = Times(o, bus) + IF op[t] = o THEN 1 ELSE 0
        BY <1>1, TimesAppend
      <4>2. Times(o, bus') \in {Times(o, Append(bus, op[t])), Times(o, bus)}
        BY <3>1
      <4> QED
        BY <1>2, <4>1, <4>2
    <3>4. /\ Cardinality(Standing("audit", o)') = Cardinality(Standing("audit", o))
          /\ Cardinality(Standing("publish", o)') = Cardinality(Standing("publish", o)) - (IF op[t] = o THEN 1 ELSE 0)
      BY <1>2, <2>10, <2>11, <3>1
    <3> QED
      BY <1>2, <2>4, <3>1, <3>2, <3>3, <3>4
  <2> QED
    BY <1>4, <2>6, <2>7, <2>8, <2>9 DEF Call
<1> QED
  BY Kinds, <1>3, <1>4 DEF CountInv

--------------------------------------------------------------------------------
\* The calls that stand at one step for one change are no more than requests
\* can be under way: startup's call has no other beside it.
LEMMA StandingBounded ==
  ASSUME TypeOK, NEW o
  PROVE  Cardinality(Standing("write", o)) <= Cardinality(Operators)
<1>1. IsFiniteSet(Operators) /\ Cardinality(Operators) \in Nat /\ Cardinality(Operators) # 0
  BY StartupAssumption, FS_CardinalityType, FS_EmptySet
<1>2. CASE Startup \notin Standing("write", o)
  <2>1. Standing("write", o) \subseteq Operators
    BY <1>2 DEF Standing, Tasks
  <2> QED
    BY <1>1, <2>1, FS_Subset
<1>3. CASE Startup \in Standing("write", o)
  <2>1. \A t \in Operators : pc[t] = "idle"
    BY <1>3 DEF Standing, TypeOK
  <2>2. Standing("write", o) = {Startup}
    BY <1>3, <2>1 DEF Standing, Tasks
  <2>3. Cardinality(Standing("write", o)) = 1
    BY <2>2, FS_Singleton
  <2> QED
    BY <1>1, <2>3
<1> QED
  BY <1>2, <1>3

\* What a longer log keeps.
LEMMA AppendFacts ==
  ASSUME NEW s \in Seq(Op), NEW x \in Op
  PROVE  /\ Len(s) \in Nat /\ DOMAIN s = 1..Len(s)
         /\ Len(Append(s, x)) = Len(s) + 1
         /\ DOMAIN Append(s, x) = 1..(Len(s) + 1)
         /\ \A i \in 1..Len(s) : Append(s, x)[i] = s[i]
         /\ Append(s, x)[Len(s) + 1] = x
  OBVIOUS

\* A step that leaves the switch alone and lets nobody in who would repeat the
\* last change.
LEMMA RepeatKept ==
  ASSUME TypeOK, RepeatInv, UNCHANGED <<active, changes>>,
         pc'[Startup] = "write" => active # Wanted(op'[Startup]),
         \A o \in Op : (changes # <<>> /\ o = changes[Len(changes)]) =>
           /\ Cardinality(Standing("write", o)') \in Nat
           /\ Cardinality(Standing("write", o)') <= Cardinality(Standing("write", o))
  PROVE  RepeatInv'
<1>1. changes \in Seq(Op) /\ IsFiniteSet(Operators) /\ Cardinality(Operators) \in Nat
  BY StartupAssumption, FS_CardinalityType DEF TypeOK
<1>2. RepeatsBounded'
  BY DEF RepeatInv, RepeatsBounded
<1>3. changes' # <<>> => active' = Wanted(changes'[Len(changes')])
  BY DEF RepeatInv
<1>4. ASSUME NEW i \in DOMAIN changes, \A k \in i..Len(changes) : changes[k] = changes[i]
      PROVE  Len(changes) - i + 1 + Cardinality(Standing("write", changes[i])')
               <= Cardinality(Operators)
  <2>1. Len(changes) \in Nat /\ i \in 1..Len(changes)
    BY <1>1
  <2>2. changes # <<>> /\ changes[i] = changes[Len(changes)] /\ changes[i] \in Op
    BY <1>1, <1>4, <2>1
  <2>3. Len(changes) - i + 1 + Cardinality(Standing("write", changes[i])) <= Cardinality(Operators)
    BY <1>4 DEF RepeatInv, SameFrom
  <2>4. /\ Cardinality(Standing("write", changes[i])') \in Nat
        /\ Cardinality(Standing("write", changes[i])') <= Cardinality(Standing("write", changes[i]))
    BY <2>2
  <2>5. Cardinality(Standing("write", changes[i])) \in Nat
    BY StandingIsFinite
  <2> QED
    BY <1>1, <2>1, <2>3, <2>4, <2>5
<1>5. pc'[Startup] = "write" => active' # Wanted(op'[Startup])
  OBVIOUS
<1> QED
  BY <1>2, <1>3, <1>4, <1>5 DEF RepeatInv, SameFrom

\* A write leaves one call less to repeat it.
LEMMA RepeatWritten ==
  ASSUME TypeOK, RepeatInv, NEW t \in Tasks, NEW next \in {"audit", "idle"},
         pc[t] = "write", Moves(t, next), Set(op[t])
  PROVE  RepeatInv'
<1>o. PICK o \in Op : o = op[t]
  BY DEF TypeOK
<1> DEFINE n == Len(changes)
           before == Cardinality(Standing("write", o))
           after == Cardinality(Standing("write", o)')
           most == Cardinality(Operators)
<1>1. /\ changes \in Seq(Op)
      /\ most \in Nat
  BY StartupAssumption, FS_CardinalityType DEF TypeOK
<1>2. changes' = Append(changes, o) /\ active' = Wanted(o)
  BY <1>o DEF Set
<1>3. /\ n \in Nat /\ DOMAIN changes = 1..n
      /\ Len(changes') = n + 1 /\ DOMAIN changes' = 1..(n + 1)
      /\ \A i \in 1..n : changes'[i] = changes[i]
      /\ changes'[n + 1] = o
  BY <1>1, <1>2, AppendFacts
<1>4. before \in Nat /\ after \in Nat /\ after = before - 1 /\ before <= most
  <2>1. next \in SwitchPc /\ "write" \in SwitchPc
    BY DEF SwitchPc
  <2>2. /\ before \in Nat /\ after \in Nat
        /\ after = before + (IF next = "write" /\ op[t] = o THEN 1 ELSE 0)
                     - (IF pc[t] = "write" /\ op[t] = o THEN 1 ELSE 0)
    BY <2>1, Moved
  <2> QED
    BY <1>o, <2>2, StandingBounded
<1>5. ASSUME NEW i \in 1..(n + 1), \A k \in i..(n + 1) : changes'[k] = changes'[i]
      PROVE  changes'[i] = o /\ n + 1 - i + 1 + after <= most
  <2>1. changes'[i] = o
    BY <1>3, <1>5
  <2>2. CASE i = n + 1
    BY <1>1, <1>3, <1>4, <2>1, <2>2
  <2>3. CASE i # n + 1
    <3>1. i \in 1..n
      BY <1>3, <2>3
    <3>2. changes[i] = o /\ \A k \in i..n : changes[k] = changes[i]
      BY <1>3, <1>5, <2>1, <3>1
    <3>3. n - i + 1 + before <= most
      BY <1>3, <3>1, <3>2 DEF RepeatInv, SameFrom
    <3> QED
      BY <1>1, <1>3, <1>4, <2>1, <3>1, <3>3
  <2> QED
    BY <2>2, <2>3
<1>6. ASSUME NEW i \in 1..(n + 1), NEW j \in 1..(n + 1), i <= j,
             \A k \in i..j : changes'[k] = changes'[i]
      PROVE  j - i + 1 <= most
  <2>1. CASE j = n + 1
    <3> HIDE DEF n, after, before, most
    <3>1. n + 1 - i + 1 + after <= most
      BY <1>5, <1>6, <2>1
    <3> QED
      BY <1>1, <1>3, <1>4, <2>1, <3>1
  <2>2. CASE j # n + 1
    <3>1. i \in 1..n /\ j \in 1..n
      BY <1>3, <1>6, <2>2
    <3>2. \A k \in i..j : changes[k] = changes[i]
      BY <1>3, <1>6, <3>1
    <3> QED
      BY <1>3, <1>6, <3>1, <3>2 DEF RepeatInv, RepeatsBounded
  <2> QED
    BY <2>1, <2>2
<1>7. pc'[Startup] # "write"
  <2>1. pc'[t] # "write" /\ \A u \in Tasks : u # t => pc'[u] = pc[u]
    BY DEF TypeOK, Moves
  <2>2. t # Startup => pc[Startup] = "idle"
    BY DEF TypeOK, Tasks
  <2> QED
    BY <2>1, <2>2 DEF Tasks
<1>8. RepeatsBounded'
  BY <1>3, <1>6 DEF RepeatsBounded
<1>9. \A i \in DOMAIN changes' :
        SameFrom(i)' => Len(changes') - i + 1 + Cardinality(Standing("write", changes[i])') <= most
  <2> SUFFICES ASSUME NEW i \in 1..(n + 1), SameFrom(i)'
               PROVE  n + 1 - i + 1 + Cardinality(Standing("write", changes[i])') <= most
    BY <1>3
  <2>1. changes'[i] = o /\ n + 1 - i + 1 + after <= most
    BY <1>3, <1>5 DEF SameFrom
  <2>2. Standing("write", changes[i])' = Standing("write", o)'
    BY <2>1 DEF Standing
  <2> QED
    BY <2>1, <2>2
<1>10. active' = Wanted(changes'[Len(changes')])
  BY <1>2, <1>3
<1> QED
  BY <1>7, <1>8, <1>9, <1>10 DEF RepeatInv

\* A call that goes to write has read the other position than the last change
\* left; every other step writes or lets nobody in.
LEMMA RepeatStep == TypeOK /\ RepeatInv /\ [Next]_vars => RepeatInv'
<1> SUFFICES ASSUME TypeOK, RepeatInv, [Next]_vars PROVE RepeatInv'
  OBVIOUS
<1>1. CASE /\ UNCHANGED <<active, changes, audit, bus>>
           /\ \A step \in {"write", "audit", "publish"} : \A o \in Op :
                /\ Standing(step, o)' \subseteq Standing(step, o)
                /\ Cardinality(Standing(step, o)') <= Cardinality(Standing(step, o))
  <2>1. \A o \in Op : /\ Standing("write", o)' \subseteq Standing("write", o)
                      /\ Cardinality(Standing("write", o)') <= Cardinality(Standing("write", o))
    BY <1>1
  <2>2. \A o \in Op : Cardinality(Standing("write", o)') \in Nat
    BY StandingFiniteNext, FS_CardinalityType
  <2>3. ASSUME pc'[Startup] = "write" PROVE active # Wanted(op'[Startup])
    <3>1. Startup \in Tasks /\ op'[Startup] \in Op
      BY TypeStep DEF TypeOK, Tasks
    <3>2. PICK o \in Op : o = op'[Startup]
      BY <3>1
    <3>3. Startup \in Standing("write", o)'
      BY <2>3, <3>1, <3>2 DEF Standing
    <3>4. Startup \in Standing("write", o)
      BY <2>1, <3>3
    <3>5. pc[Startup] = "write" /\ op[Startup] = o
      BY <3>4 DEF Standing
    <3> QED
      BY <3>2, <3>5 DEF RepeatInv
  <2> QED
    BY <1>1, <2>1, <2>2, <2>3, RepeatKept
<1>2. ASSUME NEW t \in Tasks, Call(t) PROVE RepeatInv'
  <2>1. PICK next \in {"idle", "write", "audit", "publish"} : Moves(t, next)
    BY <1>2, Moving
  <2>2. /\ op' = op /\ pc[t] # next /\ pc'[t] = next
        /\ \A u \in Tasks : u # t => pc'[u] = pc[u]
        /\ Startup \in Tasks
    BY <2>1 DEF Moves, TypeOK, Tasks
  <2>3. \A o \in Op :
          /\ Cardinality(Standing("write", o)) \in Nat
          /\ Cardinality(Standing("write", o)') \in Nat
          /\ Cardinality(Standing("write", o)') =
               Cardinality(Standing("write", o))
                 + (IF next = "write" /\ op[t] = o THEN 1 ELSE 0)
                 - (IF pc[t] = "write" /\ op[t] = o THEN 1 ELSE 0)
    <3>1. next \in SwitchPc /\ "write" \in SwitchPc
      BY DEF SwitchPc
    <3> QED
      BY <2>1, <3>1, Moved
  <2>4. CASE next # "write" /\ UNCHANGED <<active, changes>>
    <3>1. pc'[Startup] = "write" => active # Wanted(op'[Startup])
      BY <2>2, <2>4 DEF RepeatInv
    <3>2. \A o \in Op : Cardinality(Standing("write", o)') <= Cardinality(Standing("write", o))
      BY <2>3, <2>4
    <3> QED
      BY <2>3, <2>4, <3>1, <3>2, RepeatKept
  <2>5. CASE next = "write"
    <3>1. active # Wanted(op[t]) /\ UNCHANGED <<active, changes>>
      BY <1>2, <2>2, <2>5 DEF Call, Read, Write, Audit, Publish, Goto, Return, TypeOK
    <3>2. pc'[Startup] = "write" => active # Wanted(op'[Startup])
      BY <2>2, <3>1 DEF RepeatInv
    <3>3. ASSUME NEW o \in Op, changes # <<>>, o = changes[Len(changes)]
          PROVE  Cardinality(Standing("write", o)') <= Cardinality(Standing("write", o))
      <4>1. active = Wanted(o)
        BY <3>3 DEF RepeatInv
      <4>2. op[t] # o
        BY <3>1, <4>1
      <4> QED
        BY <2>3, <4>2
    <3> QED
      BY <2>3, <3>1, <3>2, <3>3, RepeatKept
  <2>6. CASE Write(t) /\ Set(op[t])
    <3>1. pc[t] = "write" /\ next \in {"audit", "idle"}
      BY <2>2, <2>6 DEF Write, Goto, Return, TypeOK
    <3> QED
      BY <2>1, <2>6, <3>1, RepeatWritten
  <2>7. Write(t) => Set(op[t]) \/ UNCHANGED <<active, changes>>
    BY DEF Write
  <2>8. Read(t) \/ Audit(t) \/ Publish(t) => UNCHANGED <<active, changes>>
    BY DEF Read, Audit, Publish
  <2> QED
    BY <1>2, <2>4, <2>5, <2>6, <2>7, <2>8 DEF Call
<1> QED
  BY Kinds, <1>1, <1>2

--------------------------------------------------------------------------------
LEMMA Initially == Init => IInv
<1> SUFFICES ASSUME Init PROVE IInv
  OBVIOUS
<1>1. TypeOK
  <2>1. /\ pc \in [Tasks -> SwitchPc] /\ op \in [Tasks -> Op]
        /\ changes \in Seq(Op) /\ audit \in Seq(Op) /\ bus \in Seq(Op)
    BY DEF Init, Tasks, SwitchPc, Op
  <2>2. ~up /\ \A t \in Operators : pc[t] = "idle"
    BY StartupAssumption DEF Init, Tasks
  <2>3. active \in BOOLEAN /\ up \in BOOLEAN
    BY DEF Init
  <2> QED
    BY <2>1, <2>2, <2>3 DEF TypeOK
<1>2. \A step, o : step \in {"write", "audit", "publish"} => Cardinality(Standing(step, o)) = 0
  <2>1. \A step, o : step \in {"write", "audit", "publish"} => Standing(step, o) = {}
    BY DEF Init, Standing
  <2> QED
    BY <2>1, FS_EmptySet
<1>3. CountInv
  <2>1. \A o \in Op : Times(o, bus) = 0 /\ Times(o, audit) = 0 /\ Times(o, changes) = 0
    <3>1. \A o \in Op : {i \in DOMAIN <<>> : <<>>[i] = o} = {}
      OBVIOUS
    <3> QED
      BY <3>1, FS_EmptySet DEF Times, Init
  <2> QED
    BY <1>2, <2>1 DEF CountInv
<1>4. RepeatInv
  <2>1. changes = <<>> /\ pc[Startup] = "check" /\ DOMAIN changes = {}
    BY StartupAssumption DEF Init, Tasks
  <2> QED
    BY <2>1 DEF RepeatInv, RepeatsBounded
<1> QED
  BY <1>1, <1>3, <1>4 DEF IInv

\* Every run keeps the counts of the calls under way (the whole service).
THEOREM Invariance == Spec => []IInv
<1>1. IInv /\ [Next]_vars => IInv'
  BY TypeStep, CountStep, RepeatStep DEF IInv
<1> QED
  BY Initially, <1>1, PTL DEF Spec

\* Every variable has its type, and no request is under way before startup is
\* through (the service and the lifespan).
THEOREM TypeCorrect == Spec => []TypeOK
<1>1. IInv => TypeOK
  BY DEF IInv
<1> QED
  BY Invariance, <1>1, PTL

\* Every event has its audit row and every row its write, whatever fails
\* between the steps of activate and deactivate.
THEOREM Audited == Spec => []AnnouncedIsAudited
<1>1. IInv => AnnouncedIsAudited
  <2> SUFFICES ASSUME IInv, NEW o \in Op
               PROVE  Times(o, bus) <= Times(o, audit) /\ Times(o, audit) <= Times(o, changes)
    BY DEF AnnouncedIsAudited
  <2>1. /\ Times(o, bus) + Cardinality(Standing("publish", o)) <= Times(o, audit)
        /\ Times(o, audit) + Cardinality(Standing("audit", o)) <= Times(o, changes)
    BY DEF IInv, CountInv
  <2>2. /\ Cardinality(Standing("publish", o)) \in Nat
        /\ Cardinality(Standing("audit", o)) \in Nat
    BY StandingIsFinite
  <2>3. Times(o, bus) \in Nat /\ Times(o, audit) \in Nat /\ Times(o, changes) \in Nat
    BY TimesAppend DEF IInv, TypeOK
  <2> QED
    BY <2>1, <2>2, <2>3
<1> QED
  BY Invariance, <1>1, PTL

\* Racing calls repeat a change no more often than requests can be under way,
\* however many calls are made (the read-then-write of activate/deactivate).
THEOREM Repeats == Spec => []RepeatsBounded
<1>1. IInv => RepeatsBounded
  BY DEF IInv, RepeatInv
<1> QED
  BY Invariance, <1>1, PTL
================================================================================
