---------------------------- MODULE OmsIntakeProofs ----------------------------
(***************************************************************************)
(* Proofs about OmsIntake for every set of signals, every lifetime and     *)
(* limit and every bound.                                                  *)
(***************************************************************************)
EXTENDS OmsIntake, FiniteSetTheorems, TLAPS

\* A message moves from step to step and keeps its signal.
LEMMA GotoType ==
  ASSUME TypeOK, job # Idle, NEW st \in Step \ {"idle"}, Goto(st)
  PROVE  job' \in Working /\ job'.step = st /\ job'.sig = job.sig
BY DEF TypeOK, Goto, Working

\* A job at a step other than idle is a message in hand.
LEMMA InHand ==
  ASSUME TypeOK
  PROVE  /\ job.step # "idle" => job \in Working /\ job # Idle
         /\ job = Idle <=> job.step = "idle"
         /\ job # Idle => job.sig \in Signals
BY DEF TypeOK, Working, Idle

\* SET NX leaves every key a key.
LEMMA SetNXType ==
  ASSUME TypeOK, NEW s \in Signals, NEW n \in Nat, SetNX(s, n)
  PROVE  key' \in [Signals -> [until : Nat, order : Nat]]
BY TimesAssumption DEF TypeOK, SetNX

\* The initial values have their types.
LEMMA TypeInit == Init => TypeOK
BY TimesAssumption, LimitsAssumption
   DEF Init, TypeOK, NotYet, Idle, Sentinel, Order

\* Every step keeps the types.
LEMMA TypeStep == TypeOK /\ [Next]_vars => TypeOK'
<1> SUFFICES ASSUME TypeOK, [Next]_vars PROVE TypeOK'
  OBVIOUS
<1> USE TimesAssumption, LimitsAssumption DEF history
<1>u. unseen' \subseteq DOMAIN orders'
  <2>1. CASE UNCHANGED <<orders, unseen>>
    BY <2>1 DEF TypeOK
  <2>2. CASE Persist /\ Insert
    <3>1. orders \in Seq(Order) /\ [sig |-> job.sig, at |-> now] \in Order
      BY <2>2, InHand DEF Persist, At, TypeOK, Order
    <3>2. /\ DOMAIN orders = 1..Len(orders) /\ DOMAIN orders' = 1..(Len(orders) + 1)
          /\ Len(orders) \in Nat /\ Len(orders') = Len(orders) + 1
      BY <2>2, <3>1 DEF Insert
    <3> QED
      BY <2>2, <3>2 DEF Persist, TypeOK
  <2>3. CASE Crash
    BY <2>3 DEF Crash
  <2> QED
    BY <2>1, <2>2, <2>3 DEF Next, Consumer, Publish, Tick, PullSwitch, ReleaseSwitch, Take,
      Expire, Claim, ClaimUnanswered, CheckSwitch, SwitchUnreadable, CheckRate, Persist,
      Record, Place, vars
<1>1. CASE \E s \in Signals : Publish(s)
  <2>1. PICK s \in Signals : Publish(s)
    BY <1>1
  <2>2. sent[s] \in 0..MaxCopies /\ sent[s] + 1 \in 0..MaxCopies
    BY <2>1 DEF Publish, TypeOK
  <2>3. sent' \in [Signals -> 0..MaxCopies]
    BY <2>1, <2>2 DEF Publish, TypeOK
  <2>4. copies' \in [Signals -> Nat]
    BY <2>1 DEF Publish, TypeOK
  <2>5. born' \in [Signals -> Nat \cup {NotYet}]
    BY <2>1 DEF Publish, TypeOK
  <2>6. UNCHANGED <<now, job, key, killed, recent, orders, slipped>>
    BY <2>1 DEF Publish
  <2> QED
    BY <1>u, <2>3, <2>4, <2>5, <2>6 DEF TypeOK
<1>2. CASE Tick
  BY <1>u, <1>2 DEF Tick, stream, TypeOK
<1>3. CASE PullSwitch \/ ReleaseSwitch
  <2>1. killed' \in BOOLEAN
    BY <1>3 DEF PullSwitch, ReleaseSwitch
  <2>2. slipped' \in Nat
    BY <1>3 DEF PullSwitch, ReleaseSwitch, TypeOK
  <2> QED
    BY <1>u, <1>3, <2>1, <2>2 DEF PullSwitch, ReleaseSwitch, stream, TypeOK
<1>4. CASE \E s \in Signals : Take(s)
  <2>1. PICK s \in Signals : Take(s)
    BY <1>4
  <2>2. job' \in Working \cup {Idle}
    BY <2>1 DEF Take, TypeOK, Working, Step
  <2>3. copies' \in [Signals -> Nat]
    BY <2>1 DEF Take, TypeOK
  <2> QED
    BY <1>u, <2>1, <2>2, <2>3 DEF Take, TypeOK
<1>5. CASE Expire \/ SwitchUnreadable
  BY <1>u, <1>5 DEF Expire, SwitchUnreadable, Finish, stream, TypeOK
<1>6. CASE Claim \/ ClaimUnanswered
  <2>1. job \in Working /\ job # Idle
    BY <1>6, InHand DEF Claim, ClaimUnanswered, At
  <2>2. job' \in Working \cup {Idle}
    BY <1>6, <2>1, GotoType DEF Claim, ClaimUnanswered, Finish, Step
  <2>3. key' \in [Signals -> [until : Nat, order : Nat]]
    BY <1>6, <2>1, InHand, SetNXType DEF Claim, ClaimUnanswered, Sentinel, TypeOK
  <2> QED
    BY <1>u, <1>6, <2>2, <2>3 DEF Claim, ClaimUnanswered, stream, TypeOK
<1>7. CASE CheckSwitch \/ CheckRate
  <2>1. job # Idle
    BY <1>7, InHand DEF CheckSwitch, CheckRate, At
  <2>2. job' \in Working \cup {Idle}
    BY <1>7, <2>1, GotoType DEF CheckSwitch, CheckRate, Finish, Step
  <2>3. recent' \subseteq [nth : Nat, at : Nat]
    BY <1>7 DEF CheckSwitch, CheckRate, TypeOK
  <2> QED
    BY <1>u, <1>7, <2>2, <2>3 DEF CheckSwitch, CheckRate, stream, TypeOK
<1>8. CASE Persist
  <2>1. job \in Working /\ job # Idle
    BY <1>8, InHand DEF Persist, At
  <2>2. job' \in Working \cup {Idle}
    BY <1>8, <2>1, GotoType DEF Persist, Finish, Step
  <2>3. orders' \in Seq(Order)
    <3>1. [sig |-> job.sig, at |-> now] \in Order
      BY <2>1 DEF TypeOK, Order, Working
    <3>2. orders \in Seq(Order)
      BY DEF TypeOK
    <3> HIDE DEF Order
    <3>3. Append(orders, [sig |-> job.sig, at |-> now]) \in Seq(Order)
      BY <3>1, <3>2
    <3> QED
      BY <1>8, <3>2, <3>3 DEF Persist, Insert
  <2> QED
    BY <1>u, <1>8, <2>2, <2>3 DEF Persist, stream, TypeOK
<1>9. CASE Record
  <2>1. job \in Working /\ job # Idle
    BY <1>9, InHand DEF Record, At
  <2>2. job' \in Working
    BY <1>9, <2>1, GotoType DEF Record, Step
  <2>3. Len(orders) \in Nat
    BY DEF TypeOK
  <2>4. key' \in [Signals -> [until : Nat, order : Nat]]
    BY <1>9, <2>1, <2>3, InHand, SetNXType DEF Record, TypeOK
  <2>5. recent' \subseteq [nth : Nat, at : Nat]
    BY <1>9, <2>3 DEF Record, TypeOK
  <2> QED
    BY <1>u, <1>9, <2>2, <2>4, <2>5 DEF Record, stream, TypeOK
<1>10. CASE Place
  BY <1>u, <1>10 DEF Place, Finish, stream, TypeOK
<1>11. CASE Crash
  <2>1. copies' \in [Signals -> Nat]
    BY <1>11 DEF Crash
  <2>2. recent' \subseteq [nth : Nat, at : Nat] /\ killed' \in BOOLEAN
    BY <1>11 DEF Crash, TypeOK
  <2> QED
    BY <1>u, <1>11, <2>1, <2>2 DEF Crash, TypeOK
<1>12. CASE UNCHANGED vars
  BY <1>u, <1>12 DEF vars, TypeOK
<1> QED
  BY <1>1, <1>2, <1>3, <1>4, <1>5, <1>6, <1>7, <1>8, <1>9, <1>10, <1>11, <1>12
     DEF Next, Consumer

\* Type correctness, for every instance.
THEOREM TypeCorrect == Spec => []TypeOK
BY TypeInit, TypeStep, PTL DEF Spec

--------------------------------------------------------------------------------
(***************************************************************************)
(* The kill switch lets one order slip past it, whatever fails.            *)
(***************************************************************************)

\* A switch just pulled has let nothing slip; the message in hand may.
LEMMA SlipStep == TypeOK /\ SlipInv /\ [Next]_vars => SlipInv'
<1> SUFFICES ASSUME TypeOK, SlipInv, [Next]_vars PROVE SlipInv'
  OBVIOUS
<1> USE DEF SlipInv, PastSwitch, history
<1>1. CASE (\E s \in Signals : Publish(s)) \/ Tick
  BY <1>1 DEF Publish, Tick, stream
<1>2. CASE PullSwitch \/ ReleaseSwitch
  BY <1>2 DEF PullSwitch, ReleaseSwitch
<1>3. CASE \E s \in Signals : Take(s)
  BY <1>3 DEF Take
<1>4. CASE Expire \/ SwitchUnreadable
  BY <1>4 DEF Expire, SwitchUnreadable, Finish, Idle
<1>5. CASE Claim \/ ClaimUnanswered
  <2>1. job # Idle
    BY <1>5, InHand DEF Claim, ClaimUnanswered, At
  <2>2. job'.step \in {"idle", "switch"}
    BY <1>5, <2>1, GotoType DEF Claim, ClaimUnanswered, Finish, Idle, Step
  <2> QED
    BY <1>5, <2>2 DEF Claim, ClaimUnanswered
<1>6. CASE CheckSwitch
  <2>1. killed => job' = Idle
    BY <1>6 DEF CheckSwitch, Finish
  <2> QED
    BY <1>6, <2>1 DEF CheckSwitch, Idle
<1>7. CASE CheckRate
  BY <1>7 DEF CheckRate, At
<1>8. CASE Persist
  BY <1>8 DEF Persist, At
<1>9. CASE Record
  BY <1>9 DEF Record, At
<1>10. CASE Place
  BY <1>10 DEF Place, At, Finish, Idle, TypeOK
<1>11. CASE Crash
  BY <1>11 DEF Crash, Idle
<1>12. CASE UNCHANGED vars
  BY <1>12 DEF vars
<1> QED
  BY <1>1, <1>2, <1>3, <1>4, <1>5, <1>6, <1>7, <1>8, <1>9, <1>10, <1>11, <1>12
     DEF Next, Consumer

\* After the switch is pulled at most one order reaches the router until it is
\* released: the checks are not atomic, but messages are handled one at a time.
THEOREM SlipBounded == Spec => []OneSlipAtMost
<1>1. Init => TypeOK /\ SlipInv
  BY TypeInit DEF Init, SlipInv, PastSwitch
<1>2. (TypeOK /\ SlipInv) /\ [Next]_vars => (TypeOK /\ SlipInv)'
  BY TypeStep, SlipStep
<1>3. TypeOK /\ SlipInv => OneSlipAtMost
  BY DEF SlipInv, OneSlipAtMost
<1> QED
  BY <1>1, <1>2, <1>3, PTL DEF Spec

--------------------------------------------------------------------------------
(***************************************************************************)
(* The orders of a signal, while Redis answers: as many as keys can expire *)
(* in its lifetime, and one more; one, if keys live as long as signals.    *)
(***************************************************************************)

\* A key set again lives no shorter.
LEMMA SetNXLater ==
  ASSUME TypeOK, NEW s \in Signals, NEW n \in Nat, SetNX(s, n)
  PROVE  /\ \A t \in Signals : key'[t].until \in Nat /\ key'[t].until >= key[t].until
         /\ now >= key[s].until => key'[s].until = now + KeyTtl
BY TimesAssumption DEF TypeOK, SetNX

\* One more of a length of time.
LEMMA OnceMore ==
  ASSUME NEW n \in Nat, NEW k \in Nat
  PROVE  n * k \in Nat /\ (n + 1) * k = n * k + k
OBVIOUS

\* No more times a length is no longer.
LEMMA NoLonger ==
  ASSUME NEW m \in Nat, NEW n \in Nat, NEW k \in Nat, m <= n
  PROVE  m * k \in Nat /\ n * k \in Nat /\ m * k <= n * k
<1>1. PICK d \in Nat : n = m + d
  <2>1. n - m \in Nat /\ n = m + (n - m)
    OBVIOUS
  <2> QED
    BY <2>1
<1>2. m * k \in Nat /\ n * k \in Nat /\ d * k \in Nat
  OBVIOUS
<1>3. (m + d) * k = m * k + d * k
  OBVIOUS
<1> DEFINE a == m * k
           b == n * k
           c == d * k
<1>4. a \in Nat /\ b \in Nat /\ c \in Nat /\ b = a + c
  BY <1>1, <1>2, <1>3
<1> HIDE DEF a, b, c
<1>5. a <= b
  BY <1>4
<1> QED
  BY <1>2, <1>5 DEF a, b

\* The orders of a signal are finitely many.
LEMMA OrdersCount ==
  ASSUME TypeOK, NEW t \in Signals
  PROVE  /\ Len(orders) \in Nat /\ DOMAIN orders = 1..Len(orders)
         /\ IsFiniteSet(OrdersOf(t)) /\ Cardinality(OrdersOf(t)) \in Nat
         /\ Claimed(t) \in Nat /\ Cardinality(OrdersOf(t)) <= Claimed(t)
<1>1. Len(orders) \in Nat /\ DOMAIN orders = 1..Len(orders)
  BY DEF TypeOK
<1>2. IsFiniteSet(1..Len(orders)) /\ OrdersOf(t) \in SUBSET (1..Len(orders))
  BY <1>1, FS_Interval DEF OrdersOf
<1>3. IsFiniteSet(OrdersOf(t)) /\ Cardinality(OrdersOf(t)) \in Nat
  BY <1>2, FS_Subset, FS_CardinalityType
<1> QED
  BY <1>1, <1>3 DEF Claimed

\* They are counted after a step too.
LEMMA OrdersCountNext ==
  ASSUME TypeOK', NEW t \in Signals
  PROVE  Cardinality(OrdersOf(t)') \in Nat /\ Claimed(t)' \in Nat
<1>1. Len(orders') \in Nat /\ DOMAIN orders' = 1..Len(orders')
  BY DEF TypeOK
<1>2. IsFiniteSet(1..Len(orders')) /\ OrdersOf(t)' \in SUBSET (1..Len(orders'))
  BY <1>1, FS_Interval DEF OrdersOf
<1>3. Cardinality(OrdersOf(t)') \in Nat
  BY <1>2, FS_Subset, FS_CardinalityType
<1> QED
  BY <1>3 DEF Claimed

\* A signal claims no more by a step that stores no order and starts no claim.
LEMMA NotMoreClaimed ==
  ASSUME TypeOK, UNCHANGED orders, NEW t \in Signals, Adding(t)' => Adding(t)
  PROVE  Claimed(t)' <= Claimed(t)
<1>1. OrdersOf(t)' = OrdersOf(t)
  BY DEF OrdersOf
<1>2. Cardinality(OrdersOf(t)) \in Nat
  BY OrdersCount
<1> QED
  BY <1>1, <1>2 DEF Claimed

\* A step that claims nothing more and shortens no key keeps claims apart.
LEMMA ClaimFrame ==
  ASSUME TypeOK, TypeOK', ClaimsApart,
         \A t \in Signals : Claimed(t)' <= Claimed(t),
         \A t \in Signals : born[t] # NotYet => born'[t] = born[t],
         \A t \in Signals : key'[t].until >= key[t].until
  PROVE  ClaimsApart'
<1> SUFFICES ASSUME NEW t \in Signals, Claimed(t)' > 0
             PROVE  /\ born'[t] # NotYet
                    /\ key'[t].until >= born'[t] + Claimed(t)' * KeyTtl
                    /\ Claimed(t)' * KeyTtl < ValidFor + KeyTtl
  BY DEF ClaimsApart
<1> DEFINE m == Claimed(t)'
           n == Claimed(t)
           a == m * KeyTtl
           b == n * KeyTtl
<1>1. m \in Nat /\ n \in Nat /\ m <= n /\ n > 0
  <2>1. n \in Nat
    BY OrdersCount
  <2>2. m \in Nat
    BY OrdersCountNext
  <2> QED
    BY <2>1, <2>2
<1>2. born[t] # NotYet /\ key[t].until >= born[t] + b /\ b < ValidFor + KeyTtl
  BY <1>1 DEF ClaimsApart
<1>3. KeyTtl \in Nat /\ ValidFor \in Nat
  BY TimesAssumption
<1> HIDE DEF m, n
<1>4. a \in Nat /\ b \in Nat /\ a <= b
  BY <1>1, <1>3, NoLonger
<1>5. /\ key[t].until \in Nat /\ key'[t].until \in Nat /\ born[t] \in Nat
      /\ key'[t].until >= key[t].until /\ born'[t] = born[t]
  BY <1>2 DEF TypeOK
<1> HIDE DEF a, b
<1>6. born'[t] # NotYet /\ key'[t].until >= born'[t] + a /\ a < ValidFor + KeyTtl
  BY <1>2, <1>3, <1>4, <1>5
<1> QED
  BY <1>6 DEF a, m

\* Messages are about published signals, whatever happens.
LEMMA PublishedStep == TypeOK /\ Published /\ [Next]_vars => Published'
<1> SUFFICES ASSUME TypeOK, Published, [Next]_vars PROVE Published'
  OBVIOUS
<1>0. TypeOK'
  BY TypeStep
<1>1. CASE \E s \in Signals : Publish(s)
  <2>1. PICK s \in Signals : Publish(s)
    BY <1>1
  <2>2. ASSUME NEW t \in Signals, t # s
        PROVE  /\ born'[t] = born[t] /\ sent'[t] = sent[t] /\ copies'[t] = copies[t]
    BY <2>1, <2>2 DEF Publish, TypeOK
  <2>3. /\ born'[s] = (IF sent[s] = 0 THEN now ELSE born[s])
        /\ sent'[s] = sent[s] + 1 /\ sent[s] \in Nat
    BY <2>1, LimitsAssumption DEF Publish, TypeOK
  <2>4. born'[s] # NotYet /\ born'[s] <= now
    BY <2>3 DEF Published, NotYet, TypeOK
  <2>5. now' = now /\ job' = job
    BY <2>1 DEF Publish
  <2>6. job # Idle => job.sig \in Signals
    BY InHand
  <2> QED
    BY <2>2, <2>3, <2>4, <2>5, <2>6 DEF Published
<1>2. CASE Tick
  BY <1>2 DEF Tick, stream, Published, TypeOK, NotYet
<1>3. CASE \E s \in Signals : Take(s)
  <2>1. PICK s \in Signals : Take(s)
    BY <1>3
  <2>2. \A t \in Signals : copies'[t] > 0 => copies[t] > 0
    BY <2>1 DEF Take, TypeOK
  <2>3. job' # Idle => (job' = job \/ job'.sig = s)
    BY <2>1 DEF Take
  <2> QED
    BY <2>1, <2>2, <2>3 DEF Take, Published
<1>4. CASE Crash
  <2>1. \A t \in Signals : copies'[t] > 0 => copies[t] > 0
    BY <1>4 DEF Crash, TypeOK
  <2> QED
    BY <1>4, <2>1 DEF Crash, Published
<1>5. CASE PullSwitch \/ ReleaseSwitch \/ UNCHANGED vars
  BY <1>5 DEF PullSwitch, ReleaseSwitch, stream, vars, Published
<1>6. CASE Consumer /\ ~(\E s \in Signals : Take(s))
  <2>1. now' = now /\ born' = born /\ sent' = sent /\ copies' = copies
    BY <1>6 DEF Consumer, Expire, Claim, ClaimUnanswered, CheckSwitch, SwitchUnreadable,
      CheckRate, Persist, Record, Place, stream
  <2>2. job # Idle
    BY <1>6, InHand DEF Consumer, Expire, Claim, ClaimUnanswered, CheckSwitch,
      SwitchUnreadable, CheckRate, Persist, Record, Place, At
  <2>3. job' = Idle \/ \E st \in Step \ {"idle"} : Goto(st)
    BY <1>6 DEF Consumer, Expire, Claim, ClaimUnanswered, CheckSwitch, SwitchUnreadable,
      CheckRate, Persist, Record, Place, Finish, Step
  <2>4. job' = Idle \/ job'.sig = job.sig
    BY <2>2, <2>3, GotoType
  <2> QED
    BY <2>1, <2>2, <2>4 DEF Published
<1> QED
  BY <1>1, <1>2, <1>3, <1>4, <1>5, <1>6 DEF Next

\* A job that finds no key alive, of a signal still good, claims one order more.
LEMMA ClaimApart ==
  ASSUME TypeOK, TypeOK', Published, ClaimsApart, Claim, ~(now < key[job.sig].until)
  PROVE  ClaimsApart'
<1>0. PICK s \in Signals : s = job.sig
  BY InHand DEF Claim, At
<1> DEFINE n == Claimed(s)
           b == n * KeyTtl
<1>1. s \in Signals /\ job # Idle /\ job.step = "claim" /\ born[s] # NotYet
  BY <1>0, InHand DEF Claim, At, Published
<1>2. SetNX(s, 0) /\ born' = born /\ orders' = orders
  BY <1>0 DEF Claim, Sentinel, stream
<1>3. job'.step = "switch" /\ job'.sig = s
  BY <1>0, <1>1, GotoType DEF Claim, Step
<1>4. /\ now \in Nat /\ born[s] \in Nat /\ born[s] <= now /\ key[s].until \in Nat
      /\ KeyTtl \in Nat \ {0} /\ ValidFor \in Nat \ {0}
      /\ now < born[s] + ValidFor /\ now >= key[s].until
  <2>1. born[s] \in Nat /\ key[s].until \in Nat /\ now \in Nat
    BY <1>1 DEF TypeOK
  <2>2. born[s] <= now /\ ~(now >= born[s] + ValidFor)
    BY <1>0, <1>1 DEF Claim, Expired, Published
  <2> QED
    BY <1>0, <2>1, <2>2, TimesAssumption
<1>5. /\ \A t \in Signals : key'[t].until >= key[t].until
      /\ key'[s].until = now + KeyTtl
  BY <1>1, <1>2, <1>4, SetNXLater
<1>6. \A t \in Signals : OrdersOf(t)' = OrdersOf(t)
  BY <1>2 DEF OrdersOf
<1>7. n \in Nat /\ Cardinality(OrdersOf(s)) \in Nat /\ n = Cardinality(OrdersOf(s))
  BY <1>1, OrdersCount DEF Claimed, Adding
<1>8. Claimed(s)' = n + 1
  <2>1. Claimed(s)' = Cardinality(OrdersOf(s)) + 1
    BY <1>3, <1>6, <1>1 DEF Claimed, Adding
  <2> QED
    BY <2>1, <1>7
<1>9. b \in Nat /\ (n + 1) * KeyTtl = b + KeyTtl
  BY <1>4, <1>7, OnceMore
<1>10. n > 0 => key[s].until >= born[s] + b
  BY <1>1 DEF ClaimsApart
<1>11. n = 0 => b = 0
  BY <1>4
<1>12. /\ now + KeyTtl >= born[s] + (b + KeyTtl)
       /\ b + KeyTtl < ValidFor + KeyTtl
  <2> HIDE DEF n, b
  <2>1. b <= now - born[s]
    BY <1>4, <1>7, <1>9, <1>10, <1>11
  <2> QED
    BY <1>4, <1>9, <2>1
<1>13. /\ born'[s] # NotYet /\ key'[s].until >= born'[s] + Claimed(s)' * KeyTtl
       /\ Claimed(s)' * KeyTtl < ValidFor + KeyTtl
  BY <1>1, <1>2, <1>5, <1>8, <1>9, <1>12
<1>14. ASSUME NEW t \in Signals, t # s, Claimed(t)' > 0
       PROVE  /\ born'[t] # NotYet /\ key'[t].until >= born'[t] + Claimed(t)' * KeyTtl
              /\ Claimed(t)' * KeyTtl < ValidFor + KeyTtl
  <2>1. Claimed(t)' = Claimed(t) /\ Claimed(t) \in Nat
    BY <1>1, <1>3, <1>6, <1>14, OrdersCount DEF Claimed, Adding
  <2> DEFINE d == Claimed(t) * KeyTtl
  <2>2. born[t] # NotYet /\ key[t].until >= born[t] + d /\ d < ValidFor + KeyTtl
    BY <1>14, <2>1 DEF ClaimsApart
  <2>3. d \in Nat
    BY <2>1, <1>4, OnceMore
  <2>4. key[t].until \in Nat /\ key'[t].until \in Nat /\ born[t] \in Nat
    BY <2>2 DEF TypeOK
  <2> HIDE DEF d
  <2>5. born'[t] # NotYet /\ key'[t].until >= born'[t] + d /\ d < ValidFor + KeyTtl
    BY <1>2, <1>5, <2>2, <2>3, <2>4
  <2> QED
    BY <2>1, <2>5 DEF d
<1>15. ASSUME NEW t \in Signals, Claimed(t)' > 0
       PROVE  /\ born'[t] # NotYet /\ key'[t].until >= born'[t] + Claimed(t)' * KeyTtl
              /\ Claimed(t)' * KeyTtl < ValidFor + KeyTtl
  <2>1. CASE t = s
    BY <1>13, <2>1
  <2>2. CASE t # s
    BY <1>14, <1>15, <2>2
  <2> QED
    BY <2>1, <2>2
<1> QED
  BY <1>15, Zenon DEF ClaimsApart

\* The order that is stored is the one that was claimed.
LEMMA InsertApart ==
  ASSUME TypeOK, TypeOK', job # Idle, job.step = "persist", Insert,
         job'.step \in {"idle", "record"}, NEW t \in Signals
  PROVE  Claimed(t)' <= Claimed(t)
<1> DEFINE k == Len(orders) + 1
<1>1. /\ k \in Nat /\ DOMAIN orders = 1..Len(orders) /\ DOMAIN orders' = 1..k
      /\ orders'[k].sig = job.sig
      /\ \A i \in 1..Len(orders) : orders'[i] = orders[i]
  <2>1. orders \in Seq(Order) /\ [sig |-> job.sig, at |-> now] \in Order
    BY InHand DEF TypeOK, Order
  <2> QED
    BY <2>1 DEF Insert
<1>2. /\ IsFiniteSet(OrdersOf(t)) /\ Cardinality(OrdersOf(t)) \in Nat
      /\ Len(orders) \in Nat
  BY OrdersCount
<1>3. ~Adding(t)'
  BY DEF Adding
<1>4. Claimed(t)' = Cardinality(OrdersOf(t)')
  BY <1>3, OrdersCountNext DEF Claimed
<1>5. CASE t = job.sig
  <2>1. OrdersOf(t)' = OrdersOf(t) \cup {k} /\ k \notin OrdersOf(t)
    BY <1>1, <1>2, <1>5 DEF OrdersOf
  <2>2. Cardinality(OrdersOf(t)') = Cardinality(OrdersOf(t)) + 1
    BY <1>2, <2>1, FS_AddElement
  <2>3. Claimed(t) = Cardinality(OrdersOf(t)) + 1
    BY <1>5 DEF Claimed, Adding
  <2> QED
    BY <1>2, <1>4, <2>2, <2>3
<1>6. CASE t # job.sig
  <2>1. OrdersOf(t)' = OrdersOf(t)
    BY <1>1, <1>2, <1>6 DEF OrdersOf
  <2>2. Cardinality(OrdersOf(t)) <= Claimed(t)
    BY OrdersCount
  <2> QED
    BY <1>4, <2>1, <2>2
<1> QED
  BY <1>5, <1>6

\* The steps of the claim.
LEMMA ClaimStep ==
  ASSUME "redis" \notin Faults, ClaimInv, [Next]_vars
  PROVE  ClaimInv'
<1>0. TypeOK /\ Published /\ ClaimsApart /\ TypeOK' /\ Published'
  BY TypeStep, PublishedStep DEF ClaimInv
<1>k. \A t \in Signals : key[t].until \in Nat /\ key[t].until >= key[t].until
  BY <1>0 DEF TypeOK
<1> SUFFICES ClaimsApart'
  BY <1>0 DEF ClaimInv
<1>f. ASSUME UNCHANGED <<born, orders>>, \A t \in Signals : Adding(t)' => Adding(t),
             \A t \in Signals : key'[t].until >= key[t].until
      PROVE  ClaimsApart'
  <2>1. \A t \in Signals : Claimed(t)' <= Claimed(t)
    BY <1>0, <1>f, NotMoreClaimed
  <2> QED
    BY <1>0, <1>f, <2>1, ClaimFrame
<1>1. CASE \E s \in Signals : Publish(s)
  <2>1. PICK s \in Signals : Publish(s)
    BY <1>1
  <2>2. ASSUME NEW t \in Signals, born[t] # NotYet PROVE born'[t] = born[t]
    BY <2>1, <2>2, <1>0 DEF Publish, TypeOK, Published
  <2>3. orders' = orders /\ job' = job /\ key' = key
    BY <2>1 DEF Publish
  <2>4. \A t \in Signals : Claimed(t)' <= Claimed(t)
    BY <1>0, <2>3, NotMoreClaimed DEF Adding
  <2> QED
    BY <1>0, <1>k, <2>2, <2>3, <2>4, ClaimFrame
<1>2. CASE Tick \/ PullSwitch \/ ReleaseSwitch \/ UNCHANGED vars
  <2>1. UNCHANGED <<born, orders>> /\ key' = key /\ job' = job
    BY <1>2 DEF Tick, PullSwitch, ReleaseSwitch, vars, stream
  <2> QED
    BY <1>k, <1>f, <2>1 DEF Adding
<1>3. CASE (\E s \in Signals : Take(s)) \/ Expire \/ SwitchUnreadable \/ Place \/ Crash
  <2>1. UNCHANGED <<born, orders>> /\ key' = key
    BY <1>3 DEF Take, Expire, SwitchUnreadable, Place, Crash, stream
  <2>2. job' = job \/ job'.step \in {"idle", "claim"}
    <3>1. CASE \E s \in Signals : Take(s)
      <4>1. PICK s \in Signals : Take(s)
        BY <3>1
      <4>2. job' = [step |-> "claim", sig |-> s] \/ job' = job
        BY <4>1 DEF Take
      <4> QED
        BY <4>2
    <3>2. CASE Expire \/ SwitchUnreadable \/ Place \/ Crash
      <4>1. job' = Idle
        BY <3>2 DEF Expire, SwitchUnreadable, Place, Crash, Finish
      <4> QED
        BY <4>1 DEF Idle
    <3> QED
      BY <1>3, <3>1, <3>2
  <2>3. \A t \in Signals : Adding(t)' => Adding(t)
    BY <2>2 DEF Adding
  <2> QED
    BY <1>k, <1>f, <2>1, <2>3
<1>4. CASE Claim
  <2>1. CASE now < key[job.sig].until
    <3>1. job.sig \in Signals
      BY <1>4, <1>0, InHand DEF Claim, At
    <3>2. SetNX(job.sig, 0) /\ UNCHANGED <<born, orders>>
      BY <1>4 DEF Claim, Sentinel, stream
    <3>3. \A t \in Signals : key'[t].until >= key[t].until
      BY <1>0, <3>1, <3>2, SetNXLater
    <3>4. \A t \in Signals : Adding(t)' => Adding(t)
      BY <1>4, <2>1 DEF Claim, Finish, Idle, Adding
    <3> QED
      BY <1>f, <3>2, <3>3, <3>4
  <2> QED
    BY <1>0, <1>4, <2>1, ClaimApart
<1>5. CASE CheckSwitch \/ CheckRate
  <2>1. UNCHANGED <<born, orders>> /\ key' = key
    BY <1>5 DEF CheckSwitch, CheckRate, stream
  <2>2. job # Idle /\ job.step \in {"switch", "rate"}
    BY <1>5, <1>0, InHand DEF CheckSwitch, CheckRate, At
  <2>3. job' = Idle \/ job'.sig = job.sig
    BY <1>5, <1>0, <2>2, GotoType DEF CheckSwitch, CheckRate, Finish, Step
  <2>4. \A t \in Signals : Adding(t)' => Adding(t)
    BY <2>2, <2>3 DEF Adding, Idle
  <2> QED
    BY <1>k, <1>f, <2>1, <2>4
<1>6. CASE Persist
  <2>1. job # Idle /\ job.step = "persist"
    BY <1>6, <1>0, InHand DEF Persist, At
  <2>2. job'.step \in {"idle", "record"}
    BY <1>6, <1>0, <2>1, GotoType DEF Persist, Finish, Idle, Step
  <2>3. born' = born /\ key' = key
    BY <1>6 DEF Persist, stream
  <2>4. CASE orders' = orders
    BY <1>k, <1>f, <2>2, <2>3, <2>4 DEF Adding
  <2>5. CASE Insert
    <3>1. \A t \in Signals : Claimed(t)' <= Claimed(t)
      BY <1>0, <2>1, <2>2, <2>5, InsertApart
    <3> QED
      BY <1>0, <1>k, <2>3, <3>1, ClaimFrame
  <2> QED
    BY <1>6, <2>4, <2>5 DEF Persist
<1>7. CASE Record
  <2>1. job.sig \in Signals /\ job # Idle /\ Len(orders) \in Nat
    BY <1>7, <1>0, InHand DEF Record, At, TypeOK
  <2>2. SetNX(job.sig, Len(orders)) /\ UNCHANGED <<born, orders>>
    BY <1>7 DEF Record, stream
  <2>3. \A t \in Signals : key'[t].until >= key[t].until
    BY <1>0, <2>1, <2>2, SetNXLater
  <2>4. job'.step = "place"
    BY <1>7, <1>0, <2>1, GotoType DEF Record, Step
  <2>5. \A t \in Signals : Adding(t)' => Adding(t)
    BY <2>4 DEF Adding
  <2> QED
    BY <1>f, <2>2, <2>3, <2>5
<1> QED
  BY <1>1, <1>2, <1>3, <1>4, <1>5, <1>6, <1>7 DEF Next, Consumer, ClaimUnanswered

\* Nothing is published, claimed or stored at first.
LEMMA ClaimInit == Init => ClaimInv
<1> SUFFICES ASSUME Init PROVE ClaimInv
  OBVIOUS
<1>1. TypeOK
  BY TypeInit
<1>2. job = Idle /\ job.step = "idle" /\ DOMAIN orders = {}
  BY DEF Init, Idle
<1>3. Published
  BY <1>2 DEF Init, Published
<1>4. \A t \in Signals : OrdersOf(t) = {} /\ ~Adding(t)
  BY <1>2 DEF OrdersOf, Adding
<1>5. \A t \in Signals : Claimed(t) = 0
  BY <1>4, FS_EmptySet DEF Claimed
<1> QED
  BY <1>1, <1>3, <1>5 DEF ClaimInv, ClaimsApart

\* The claimed orders include the stored ones.
LEMMA ClaimsBound == ClaimInv => OrdersFollowKeys
<1> SUFFICES ASSUME ClaimInv, NEW t \in Signals
             PROVE  Cardinality(OrdersOf(t)) * KeyTtl < ValidFor + KeyTtl
  BY DEF OrdersFollowKeys
<1> DEFINE m == Cardinality(OrdersOf(t))
           n == Claimed(t)
           a == m * KeyTtl
           b == n * KeyTtl
<1>1. m \in Nat /\ n \in Nat /\ m <= n
  BY OrdersCount DEF ClaimInv
<1>2. n > 0 => b < ValidFor + KeyTtl
  BY DEF ClaimInv, ClaimsApart
<1>3. KeyTtl \in Nat \ {0} /\ ValidFor \in Nat \ {0}
  BY TimesAssumption
<1> HIDE DEF m, n
<1>4. a \in Nat /\ b \in Nat /\ a <= b /\ (n = 0 => b = 0)
  BY <1>1, <1>3, NoLonger
<1> HIDE DEF a, b
<1>5. a < ValidFor + KeyTtl
  BY <1>1, <1>2, <1>3, <1>4
<1> QED
  BY <1>5 DEF a, m

\* While Redis answers, a signal makes at most as many orders as there are keys to
\* outlive while it is good, whatever the two lifetimes: through republications,
\* crashes and failed saves.
THEOREM OrdersBounded ==
  ASSUME "redis" \notin Faults
  PROVE  Spec => []OrdersFollowKeys
<1>1. Init => ClaimInv
  BY ClaimInit
<1>2. ClaimInv /\ [Next]_vars => ClaimInv'
  BY ClaimStep
<1>3. ClaimInv => OrdersFollowKeys
  BY ClaimsBound
<1> QED
  BY <1>1, <1>2, <1>3, PTL DEF Spec

\* Fewer than two orders are one.
LEMMA BoundIsOne ==
  ASSUME ValidFor <= KeyTtl, ClaimInv
  PROVE  OneOrderPerSignal
<1> SUFFICES ASSUME NEW i \in DOMAIN orders, NEW j \in DOMAIN orders,
                    orders[i].sig = orders[j].sig, i # j
             PROVE  FALSE
  BY DEF OneOrderPerSignal
<1> DEFINE t == orders[i].sig
           m == Cardinality(OrdersOf(t))
           a == m * KeyTtl
<1>1. t \in Signals /\ {i, j} \in SUBSET OrdersOf(t)
  <2>1. orders[i] \in Order
    BY DEF ClaimInv, TypeOK
  <2> QED
    BY <2>1 DEF Order, OrdersOf
<1>2. IsFiniteSet(OrdersOf(t)) /\ m \in Nat
  BY <1>1, OrdersCount DEF ClaimInv
<1>3. Cardinality({i, j}) <= m
  BY <1>1, <1>2, FS_Subset
<1>4. Cardinality({i, j}) = 2
  <2>1. {i, j} = {i} \cup {j} /\ j \notin {i}
    OBVIOUS
  <2>2. IsFiniteSet({i}) /\ Cardinality({i}) = 1
    BY FS_Singleton
  <2> QED
    BY <2>1, <2>2, FS_AddElement
<1>5. a < ValidFor + KeyTtl
  BY <1>1, ClaimsBound DEF OrdersFollowKeys
<1>6. KeyTtl \in Nat \ {0} /\ ValidFor \in Nat \ {0}
  BY TimesAssumption
<1> HIDE DEF m
<1>7. a \in Nat /\ 2 * KeyTtl <= a
  BY <1>2, <1>3, <1>4, <1>6, NoLonger
<1> HIDE DEF a
<1> QED
  BY <1>5, <1>6, <1>7

\* When keys live at least as long as signals and Redis answers, a signal makes
\* one order, through republications, crashes and failed saves.
THEOREM OneOrder ==
  ASSUME ValidFor <= KeyTtl, "redis" \notin Faults
  PROVE  Spec => []OneOrderPerSignal
<1>1. Init => ClaimInv
  BY ClaimInit
<1>2. ClaimInv /\ [Next]_vars => ClaimInv'
  BY ClaimStep
<1>3. ClaimInv => OneOrderPerSignal
  BY BoundIsOne
<1> QED
  BY <1>1, <1>2, <1>3, PTL DEF Spec

--------------------------------------------------------------------------------
(***************************************************************************)
(* The orders of a signal, when nothing answers: one for each message.     *)
(***************************************************************************)

\* A step that adds no order and no message of a signal.
LEMMA CopyFrame ==
  ASSUME TypeOK, TypeOK', CopyInv, NEW t \in Signals, sent'[t] = sent[t],
         copies'[t] <= copies[t], UNCHANGED orders, Ahead(t)' => Ahead(t)
  PROVE  Due(t)' <= sent'[t]
<1>1. OrdersOf(t)' = OrdersOf(t) /\ Cardinality(OrdersOf(t)) \in Nat
  BY OrdersCount DEF OrdersOf
<1>2. copies[t] \in Nat /\ copies'[t] \in Nat /\ sent[t] \in Nat
  BY LimitsAssumption DEF TypeOK
<1>3. Due(t) <= sent[t]
  BY DEF CopyInv
<1> QED
  BY <1>1, <1>2, <1>3 DEF Due

\* A message read is one message less in the stream and one in hand.
LEMMA CopyTaken ==
  ASSUME TypeOK, TypeOK', CopyInv, NEW s \in Signals, Take(s), NEW t \in Signals
  PROVE  Due(t)' <= sent'[t]
<1>1. UNCHANGED <<sent, orders>> /\ ~Ahead(t)
  BY DEF Take, Ahead, At
<1>2. CASE t = s
  <2>1. copies'[t] = copies[t] - 1 /\ copies[t] \in Nat /\ sent[t] \in Nat
    BY <1>2, LimitsAssumption DEF Take, TypeOK
  <2>2. OrdersOf(t)' = OrdersOf(t) /\ Cardinality(OrdersOf(t)) \in Nat
    BY <1>1, OrdersCount DEF OrdersOf
  <2>3. Due(t) <= sent[t]
    BY DEF CopyInv
  <2> QED
    BY <1>1, <2>1, <2>2, <2>3 DEF Due
<1>3. CASE t # s
  <2>1. copies'[t] <= copies[t]
    BY <1>3 DEF Take, TypeOK
  <2>2. ~Ahead(t)'
    <3>1. job' = [step |-> "claim", sig |-> s] \/ job' = job
      BY DEF Take
    <3> QED
      BY <1>1, <1>3, <3>1 DEF Ahead
  <2> QED
    BY <1>1, <2>1, <2>2, CopyFrame
<1> QED
  BY <1>2, <1>3

\* One more copy may make one more order.
LEMMA CopyPublished ==
  ASSUME TypeOK, CopyInv, NEW s \in Signals, Publish(s), NEW t \in Signals
  PROVE  Due(t)' <= sent'[t]
<1>1. OrdersOf(t)' = OrdersOf(t) /\ Cardinality(OrdersOf(t)) \in Nat /\ Ahead(t)' = Ahead(t)
  BY OrdersCount DEF Publish, OrdersOf, Ahead
<1>2. /\ copies[t] \in Nat /\ sent[t] \in Nat
      /\ \/ copies'[t] = copies[t] + 1 /\ sent'[t] = sent[t] + 1
         \/ copies'[t] = copies[t] /\ sent'[t] = sent[t]
  BY LimitsAssumption DEF Publish, TypeOK
<1>3. Due(t) <= sent[t]
  BY DEF CopyInv
<1> QED
  BY <1>1, <1>2, <1>3 DEF Due

\* The order that is stored is the one the message in hand was to make.
LEMMA CopyStored ==
  ASSUME TypeOK, TypeOK', CopyInv, Persist, Insert, NEW t \in Signals
  PROVE  Due(t)' <= sent'[t]
<1> DEFINE k == Len(orders) + 1
<1>1. /\ k \in Nat /\ DOMAIN orders = 1..Len(orders) /\ DOMAIN orders' = 1..k
      /\ orders'[k].sig = job.sig
      /\ \A i \in 1..Len(orders) : orders'[i] = orders[i]
  <2>1. orders \in Seq(Order) /\ [sig |-> job.sig, at |-> now] \in Order
    BY InHand DEF Persist, At, TypeOK, Order
  <2> QED
    BY <2>1 DEF Insert
<1>2. /\ IsFiniteSet(OrdersOf(t)) /\ Cardinality(OrdersOf(t)) \in Nat
      /\ Len(orders) \in Nat
  BY OrdersCount
<1>3. UNCHANGED <<copies, sent>> /\ copies[t] \in Nat /\ sent[t] \in Nat
  BY LimitsAssumption DEF Persist, stream, TypeOK
<1>4. ~Ahead(t)'
  <2>1. job # Idle /\ job.step = "persist"
    BY InHand DEF Persist, At
  <2>2. job'.step \in {"idle", "record"}
    BY <2>1, GotoType DEF Persist, Finish, Idle, Step
  <2> QED
    BY <2>2 DEF Ahead
<1>5. Due(t) <= sent[t]
  BY DEF CopyInv
<1>6. CASE t = job.sig
  <2>1. OrdersOf(t)' = OrdersOf(t) \cup {k} /\ k \notin OrdersOf(t)
    BY <1>1, <1>2, <1>6 DEF OrdersOf
  <2>2. Cardinality(OrdersOf(t)') = Cardinality(OrdersOf(t)) + 1
    BY <1>2, <2>1, FS_AddElement
  <2>3. Ahead(t)
    BY <1>6 DEF Persist, At, Ahead
  <2> QED
    BY <1>2, <1>3, <1>4, <1>5, <2>2, <2>3 DEF Due
<1>7. CASE t # job.sig
  <2>1. OrdersOf(t)' = OrdersOf(t)
    BY <1>1, <1>2, <1>7 DEF OrdersOf
  <2> QED
    BY <1>2, <1>3, <1>4, <1>5, <2>1 DEF Due
<1> QED
  BY <1>6, <1>7

\* Each step leaves no more to come than was published.
LEMMA CopyStep == TypeOK /\ CopyInv /\ [Next]_vars => CopyInv'
<1> SUFFICES ASSUME TypeOK, CopyInv, [Next]_vars, NEW t \in Signals
             PROVE  Due(t)' <= sent'[t]
  BY DEF CopyInv
<1>0. TypeOK'
  BY TypeStep
<1>1. CASE \E s \in Signals : Publish(s)
  BY <1>1, CopyPublished
<1>2. CASE \E s \in Signals : Take(s)
  BY <1>0, <1>2, CopyTaken
<1>3. CASE Persist /\ Insert
  BY <1>0, <1>3, CopyStored
<1>4. CASE Tick \/ PullSwitch \/ ReleaseSwitch \/ UNCHANGED vars
  <2>1. UNCHANGED <<sent, copies, orders, job>> /\ copies[t] <= copies[t]
    BY <1>4 DEF Tick, PullSwitch, ReleaseSwitch, vars, stream, TypeOK
  <2> QED
    BY <1>0, <2>1, CopyFrame DEF Ahead
<1>5. CASE Crash
  <2>1. UNCHANGED <<sent, orders>> /\ copies'[t] <= copies[t] /\ ~Ahead(t)'
    BY <1>5 DEF Crash, Idle, Ahead
  <2> QED
    BY <1>0, <2>1, CopyFrame
<1>6. CASE \/ Expire \/ Claim \/ ClaimUnanswered \/ CheckSwitch \/ SwitchUnreadable
           \/ CheckRate \/ Record \/ Place \/ (Persist /\ UNCHANGED orders)
  <2>1. UNCHANGED <<sent, copies, orders>> /\ copies[t] <= copies[t]
    BY <1>6 DEF Expire, Claim, ClaimUnanswered, CheckSwitch, SwitchUnreadable, CheckRate,
      Persist, Record, Place, stream, history, TypeOK
  <2>2. /\ job # Idle
        /\ \/ job' = Idle
           \/ job.step \in {"claim", "switch", "rate", "persist"}
                /\ \E st \in Step \ {"idle"} : Goto(st)
           \/ Goto("place")
    BY <1>6, InHand DEF Expire, Claim, ClaimUnanswered, CheckSwitch, SwitchUnreadable,
      CheckRate, Persist, Record, Place, Finish, At, Step
  <2>3. Ahead(t)' => Ahead(t)
    BY <2>2, GotoType DEF Ahead, Idle, Step
  <2> QED
    BY <1>0, <2>1, <2>3, CopyFrame
<1> QED
  BY <1>1, <1>2, <1>3, <1>4, <1>5, <1>6 DEF Next, Consumer, Persist

\* A signal has no more orders than copies of it were published, whatever fails:
\* Redis may answer nothing, saves may raise after they stored the row, and the
\* process may die at any step.
THEOREM OneOrderPerCopy == Spec => []OrdersFromCopies
<1>1. Init => TypeOK /\ CopyInv
  <2> SUFFICES ASSUME Init, NEW t \in Signals PROVE Due(t) <= sent[t]
    BY TypeInit DEF CopyInv
  <2>1. OrdersOf(t) = {} /\ ~Ahead(t) /\ copies[t] = 0 /\ sent[t] = 0
    BY DEF Init, OrdersOf, Ahead, Idle
  <2> QED
    BY <2>1, FS_EmptySet DEF Due
<1>2. (TypeOK /\ CopyInv) /\ [Next]_vars => (TypeOK /\ CopyInv)'
  BY TypeStep, CopyStep
<1>3. TypeOK /\ CopyInv => OrdersFromCopies
  <2> SUFFICES ASSUME TypeOK, CopyInv, NEW t \in Signals
               PROVE  Cardinality(OrdersOf(t)) <= sent[t]
    BY DEF OrdersFromCopies
  <2>1. Cardinality(OrdersOf(t)) \in Nat /\ copies[t] \in Nat /\ sent[t] \in Nat
    BY OrdersCount, LimitsAssumption DEF TypeOK
  <2> QED
    BY <2>1 DEF CopyInv, Due
<1> QED
  BY <1>1, <1>2, <1>3, PTL DEF Spec

--------------------------------------------------------------------------------
(***************************************************************************)
(* The rate limit, whatever fails: it counts rows by what was recorded of  *)
(* them, so all rows but those the limiter never knew of or has forgotten. *)
(***************************************************************************)

\* Rows that each have a record are no more than the records.
LEMMA Recorded ==
  ASSUME NEW S, NEW T, IsFiniteSet(T), \A i \in S : \E r \in T : r.nth = i
  PROVE  IsFiniteSet(S) /\ Cardinality(S) <= Cardinality(T)
<1> DEFINE f == [i \in S |-> CHOOSE r \in T : r.nth = i]
<1>1. \A i \in S : f[i] \in T /\ f[i].nth = i
  OBVIOUS
<1>2. f \in [S -> T]
  BY <1>1
<1> HIDE DEF f
<1>3. f \in Injection(S, T)
  BY <1>1, <1>2 DEF Injection, IsInjective
<1> QED
  BY <1>3, FS_Injection

\* The rows of a window are finitely many.
LEMMA WindowFinite ==
  ASSUME TypeOK
  PROVE  /\ IsFiniteSet(InWindow) /\ Cardinality(InWindow) \in Nat
         /\ Len(orders) \in Nat /\ DOMAIN orders = 1..Len(orders)
         /\ \A i \in DOMAIN orders : orders[i].at \in Nat
<1>1. /\ Len(orders) \in Nat /\ DOMAIN orders = 1..Len(orders)
      /\ \A i \in DOMAIN orders : orders[i] \in Order
  BY DEF TypeOK
<1>2. IsFiniteSet(1..Len(orders)) /\ InWindow \in SUBSET (1..Len(orders))
  BY <1>1, FS_Interval DEF InWindow
<1>3. IsFiniteSet(InWindow)
  BY <1>2, FS_Subset
<1> QED
  BY <1>1, <1>3, FS_CardinalityType DEF Order

\* A step that neither stores, records nor passes the limit keeps it.
LEMMA RateFrame ==
  ASSUME TypeOK, TypeOK', RateInv, UNCHANGED <<orders, recent, unseen>>, now <= now',
         At("record") => At("record")', At("persist")' => At("persist")
  PROVE  RateInv'
<1>1. now \in Nat /\ now' \in Nat
  BY DEF TypeOK
<1>2. InWindow' \in SUBSET InWindow
  BY <1>1, WindowFinite, TimesAssumption DEF InWindow
<1>3. /\ Cardinality(InWindow') <= Cardinality(InWindow)
      /\ Cardinality(InWindow) \in Nat /\ Cardinality(InWindow') \in Nat
  BY <1>2, WindowFinite, FS_Subset, FS_CardinalityType
<1>4. At("persist")' => Cardinality(InWindow') < MaxOrders
  BY <1>3, LimitsAssumption DEF RateInv
<1>5. \A i \in DOMAIN orders' : orders'[i].at <= now'
  BY <1>1, WindowFinite DEF RateInv
<1>6. \A i \in InWindow' : \/ At("record")' /\ i = Len(orders')
                           \/ \E r \in recent' : r.nth = i /\ r.at >= orders'[i].at
  BY <1>2 DEF RateInv
<1>7. RateHolds' /\ IsFiniteSet(recent')
  BY DEF RateInv, RateHolds
<1> QED
  BY <1>4, <1>5, <1>6, <1>7 DEF RateInv

\* The limit is passed with fewer than MaxOrders rows in the window.
LEMMA CheckRateStep == TypeOK /\ TypeOK' /\ RateInv /\ CheckRate => RateInv'
<1> SUFFICES ASSUME TypeOK, TypeOK', RateInv, CheckRate PROVE RateInv'
  OBVIOUS
<1>1. /\ recent' = {r \in recent : r.at > now - Window} /\ UNCHANGED <<now, orders, unseen>>
      /\ At("rate") /\ job # Idle
  BY InHand DEF CheckRate, At, history
<1>2. now \in Nat /\ recent \subseteq [nth : Nat, at : Nat] /\ IsFiniteSet(recent)
  BY DEF TypeOK, RateInv
<1>3. InWindow' = InWindow
  BY <1>1 DEF InWindow
<1>4. ASSUME NEW i \in InWindow
      PROVE  \E r \in recent' : r.nth = i /\ r.at >= orders[i].at
  <2>1. PICK r \in recent : r.nth = i /\ r.at >= orders[i].at
    BY <1>1 DEF RateInv, At
  <2>2. orders[i].at \in Nat /\ orders[i].at > now - Window /\ r.at \in Nat
    BY <1>2, WindowFinite DEF InWindow
  <2>3. r.at > now - Window
    BY <1>2, <2>1, <2>2, TimesAssumption
  <2> QED
    BY <1>1, <2>1, <2>3
<1>5. IsFiniteSet(recent')
  BY <1>1, <1>2, FS_Subset
<1>6. Cardinality(InWindow) <= Cardinality(recent')
  BY <1>4, <1>5, Recorded
<1>7. ~At("record")' /\ (At("persist")' => Cardinality(recent') < MaxOrders)
  <2>1. CASE Cardinality(recent') >= MaxOrders
    BY <2>1 DEF CheckRate, Finish, Idle, At
  <2>2. CASE ~(Cardinality(recent') >= MaxOrders)
    <3>1. job'.step = "persist"
      BY <1>1, <2>2, GotoType DEF CheckRate, Step
    <3>2. Cardinality(recent') \in Nat
      BY <1>5, FS_CardinalityType
    <3> QED
      BY <2>2, <3>1, <3>2, LimitsAssumption DEF At
  <2> QED
    BY <2>1, <2>2
<1>8. At("persist")' => Cardinality(InWindow') < MaxOrders
  <2>1. Cardinality(InWindow) \in Nat /\ Cardinality(recent') \in Nat
    BY <1>5, WindowFinite, FS_CardinalityType
  <2> QED
    BY <1>3, <1>6, <1>7, <2>1, LimitsAssumption
<1>9. RateHolds' /\ \A i \in DOMAIN orders' : orders'[i].at <= now'
  BY <1>1 DEF RateInv, RateHolds
<1> QED
  BY <1>1, <1>3, <1>4, <1>5, <1>8, <1>9 DEF RateInv

\* A row that is stored makes its window full at most, whether or not the limiter
\* is to learn of it.
LEMMA PersistRateStep ==
  ASSUME TypeOK, TypeOK', RateInv, Persist, Insert
  PROVE  RateInv'
<1> DEFINE n == Len(orders)
<1>1. UNCHANGED <<now, recent>> /\ At("persist")
  BY DEF Persist
<1>2. /\ n \in Nat /\ DOMAIN orders = 1..n /\ orders \in Seq(Order) /\ now \in Nat
      /\ \A i \in 1..n : orders[i].at \in Nat
      /\ unseen \subseteq 1..n
  BY WindowFinite DEF TypeOK
<1>3. /\ DOMAIN orders' = 1..(n + 1) /\ Len(orders') = n + 1
      /\ orders'[n + 1].at = now
      /\ \A i \in 1..n : orders'[i] = orders[i]
  BY <1>1, <1>2 DEF Insert
<1>4. \/ job'.step = "record" /\ unseen' = unseen
      \/ job'.step = "idle" /\ unseen' = unseen \cup {n + 1}
  <2>1. Goto("record") => job'.step = "record"
    BY <1>1, InHand, GotoType DEF At, Step
  <2>2. orders' # orders
    BY <1>2, <1>3
  <2> QED
    BY <1>3, <2>1, <2>2 DEF Persist, Finish, Idle
<1>5. n + 1 \notin InWindow /\ InWindow' \subseteq InWindow \cup {n + 1}
  BY <1>1, <1>2, <1>3, <1>4, TimesAssumption DEF InWindow
<1>6. \A i \in InWindow' : \/ At("record")' /\ i = Len(orders')
                           \/ \E r \in recent' : r.nth = i /\ r.at >= orders'[i].at
  <2>1. ASSUME NEW i \in InWindow
        PROVE  \E r \in recent' : r.nth = i /\ r.at >= orders'[i].at
    BY <1>1, <1>2, <1>3 DEF RateInv, At, InWindow
  <2>2. n + 1 \in InWindow' => At("record")'
    BY <1>4 DEF InWindow, At
  <2> QED
    BY <1>3, <1>5, <2>1, <2>2
<1>7. RateHolds'
  <2>1. ASSUME NEW i \in 1..n
        PROVE  Cardinality({j \in ((1..i) \ unseen') \cup {i} :
                              orders'[j].at > orders'[i].at - Window}) <= MaxOrders
    <3>1. {j \in ((1..i) \ unseen') \cup {i} : orders'[j].at > orders'[i].at - Window}
            = {j \in ((1..i) \ unseen) \cup {i} : orders[j].at > orders[i].at - Window}
      BY <1>2, <1>3, <1>4
    <3> QED
      BY <1>2, <3>1 DEF RateInv, RateHolds
  <2>2. Cardinality({j \in ((1..(n + 1)) \ unseen') \cup {n + 1} :
                       orders'[j].at > orders'[n + 1].at - Window}) <= MaxOrders
    <3>1. {j \in ((1..(n + 1)) \ unseen') \cup {n + 1} :
             orders'[j].at > orders'[n + 1].at - Window} = InWindow \cup {n + 1}
      BY <1>1, <1>2, <1>3, <1>4, TimesAssumption DEF InWindow
    <3>2. Cardinality(InWindow \cup {n + 1}) = Cardinality(InWindow) + 1
      BY <1>5, WindowFinite, FS_AddElement
    <3>3. Cardinality(InWindow) < MaxOrders /\ Cardinality(InWindow) \in Nat
      BY <1>1, WindowFinite DEF RateInv
    <3>4. Cardinality(InWindow \cup {n + 1}) <= MaxOrders
      BY <3>2, <3>3, LimitsAssumption
    <3> QED
      BY <3>1, <3>4
  <2>3. ASSUME NEW i \in DOMAIN orders' PROVE i \in 1..n \/ i = n + 1
    BY <1>2, <1>3
  <2> QED
    BY <2>1, <2>2, <2>3 DEF RateHolds
<1>8. \A i \in DOMAIN orders' : orders'[i].at <= now'
  BY <1>1, <1>2, <1>3 DEF RateInv
<1>9. ~At("persist")' /\ IsFiniteSet(recent')
  BY <1>1, <1>4 DEF RateInv, At
<1> QED
  BY <1>6, <1>7, <1>8, <1>9 DEF RateInv

\* The row just stored is recorded, no earlier than it was stored.
LEMMA RecordRateStep == TypeOK /\ TypeOK' /\ RateInv /\ Record => RateInv'
<1> SUFFICES ASSUME TypeOK, TypeOK', RateInv, Record PROVE RateInv'
  OBVIOUS
<1> DEFINE r == [nth |-> Len(orders), at |-> now]
<1>1. recent' = recent \cup {r} /\ UNCHANGED <<now, orders, unseen>> /\ job # Idle
  BY InHand DEF Record, At, history
<1>2. job'.step = "place"
  BY <1>1, GotoType DEF Record, Step
<1>3. InWindow' = InWindow
  BY <1>1 DEF InWindow
<1>4. ASSUME NEW i \in InWindow
      PROVE  \E q \in recent' : q.nth = i /\ q.at >= orders[i].at
  <2>1. CASE i = Len(orders)
    <3>1. orders[i].at <= now
      BY DEF RateInv, InWindow
    <3>2. r.nth = i /\ r.at >= orders[i].at
      BY <2>1, <3>1, WindowFinite DEF TypeOK, InWindow
    <3> QED
      BY <1>1, <3>2
  <2>2. CASE i # Len(orders)
    BY <1>1, <2>2 DEF RateInv
  <2> QED
    BY <2>1, <2>2
<1>5. IsFiniteSet(recent')
  BY <1>1, FS_AddElement DEF RateInv
<1>6. RateHolds' /\ \A i \in DOMAIN orders' : orders'[i].at <= now'
  BY <1>1 DEF RateInv, RateHolds
<1> QED
  BY <1>1, <1>2, <1>3, <1>4, <1>5, <1>6 DEF RateInv, At

\* A process that starts anew has no rows to count.
LEMMA CrashRateStep == TypeOK /\ TypeOK' /\ RateInv /\ Crash => RateInv'
<1> SUFFICES ASSUME TypeOK, TypeOK', RateInv, Crash PROVE RateInv'
  OBVIOUS
<1>1. /\ UNCHANGED <<now, orders>> /\ recent' = {} /\ unseen' = DOMAIN orders
      /\ ~At("persist")'
  BY DEF Crash, Idle, At
<1>2. InWindow' = {} /\ IsFiniteSet(recent')
  BY <1>1, FS_EmptySet DEF InWindow
<1>3. ASSUME NEW i \in DOMAIN orders
      PROVE  Cardinality({j \in ((1..i) \ unseen') \cup {i} :
                            orders[j].at > orders[i].at - Window}) <= MaxOrders
  <2>1. orders[i].at \in Nat /\ 1..i \subseteq DOMAIN orders
    BY WindowFinite
  <2>2. {j \in ((1..i) \ unseen') \cup {i} : orders[j].at > orders[i].at - Window} = {i}
    BY <1>1, <2>1, TimesAssumption
  <2>3. Cardinality({i}) = 1
    BY FS_Singleton
  <2> QED
    BY <2>2, <2>3, LimitsAssumption
<1> QED
  BY <1>1, <1>2, <1>3 DEF RateInv, RateHolds

\* The other steps store nothing and pass no limit.
LEMMA RateStep == TypeOK /\ RateInv /\ [Next]_vars => RateInv'
<1> SUFFICES ASSUME TypeOK, RateInv, [Next]_vars PROVE RateInv'
  OBVIOUS
<1> USE DEF history
<1>0. TypeOK' /\ now \in Nat /\ now' \in Nat
  BY TypeStep DEF TypeOK
<1>1. CASE CheckRate \/ Record \/ Crash
  BY <1>0, <1>1, CheckRateStep, RecordRateStep, CrashRateStep
<1>2. CASE Tick
  BY <1>0, <1>2, RateFrame DEF Tick, stream, At
<1>3. CASE (\E s \in Signals : Publish(s)) \/ PullSwitch \/ ReleaseSwitch \/ UNCHANGED vars
  BY <1>0, <1>3, RateFrame DEF Publish, PullSwitch, ReleaseSwitch, vars, stream, At
<1>4. CASE \E s \in Signals : Take(s)
  <2>1. UNCHANGED <<now, orders, recent, unseen>> /\ At("idle")
    BY <1>4 DEF Take
  <2>2. job' = job \/ job'.step = "claim"
    <3>1. PICK s \in Signals : Take(s)
      BY <1>4
    <3>2. job' = [step |-> "claim", sig |-> s] \/ job' = job
      BY <3>1 DEF Take
    <3> QED
      BY <3>2
  <2>3. ~At("record") /\ ~At("persist")'
    BY <2>1, <2>2 DEF At
  <2> QED
    BY <1>0, <2>1, <2>3, RateFrame
<1>5. CASE Expire \/ Claim \/ ClaimUnanswered \/ CheckSwitch \/ SwitchUnreadable \/ Place
  <2>1. UNCHANGED <<now, orders, recent, unseen>> /\ ~At("record") /\ job # Idle
    BY <1>5, InHand DEF Expire, Claim, ClaimUnanswered, CheckSwitch, SwitchUnreadable, Place, At,
      stream
  <2>2. job' = Idle \/ Goto("switch") \/ Goto("rate")
    BY <1>5 DEF Expire, Claim, ClaimUnanswered, CheckSwitch, SwitchUnreadable, Place, Finish
  <2>3. job'.step \in {"idle", "switch", "rate"}
    BY <2>1, <2>2, GotoType DEF Idle, Step
  <2> QED
    BY <1>0, <2>1, <2>3, RateFrame DEF At
<1>6. CASE Persist
  <2>1. CASE Insert
    BY <1>0, <1>6, <2>1, PersistRateStep
  <2>2. CASE UNCHANGED <<orders, unseen>> /\ Finish
    <3>1. UNCHANGED <<now, recent>> /\ ~At("record") /\ ~At("persist")'
      BY <1>6, <2>2 DEF Persist, Finish, Idle, At
    <3> QED
      BY <1>0, <2>2, <3>1, RateFrame
  <2> QED
    BY <1>6, <2>1, <2>2 DEF Persist
<1> QED
  BY <1>1, <1>2, <1>3, <1>4, <1>5, <1>6 DEF Next, Consumer

\* No window has more than MaxOrders rows of those the limiter is to know of,
\* whatever fails and whatever the time between the check and the record; with a
\* row whose save raised it is full at most.
THEOREM RateLimited == Spec => []RateHolds
<1>1. Init => TypeOK /\ RateInv
  <2> SUFFICES ASSUME Init PROVE RateInv
    BY TypeInit
  <2>1. DOMAIN orders = {} /\ recent = {} /\ ~At("persist")
    BY DEF Init, At, Idle
  <2> QED
    BY <2>1, FS_EmptySet DEF RateInv, RateHolds, InWindow
<1>2. (TypeOK /\ RateInv) /\ [Next]_vars => (TypeOK /\ RateInv)'
  BY TypeStep, RateStep
<1>3. TypeOK /\ RateInv => RateHolds
  BY DEF RateInv
<1> QED
  BY <1>1, <1>2, <1>3, PTL DEF Spec

================================================================================
