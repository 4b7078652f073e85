---------------------------- MODULE EventBusProofs ----------------------------
(***************************************************************************)
(* Proofs about EventBus for every number of messages, every batch size    *)
(* and every set of faults.                                                *)
(***************************************************************************)
EXTENDS EventBus, TLAPS

\* The next read ends past the cursor and within the stream.
LEMMA ReadToBounds ==
  ASSUME TypeOK, cursor < published
  PROVE  ReadTo \in Nat /\ cursor < ReadTo /\ ReadTo <= published
BY SizesAssumption DEF TypeOK, ReadTo

\* The initial values have their types.
LEMMA TypeInit == Init => TypeOK
BY DEF Init, TypeOK, Stage

\* Every step keeps the types.
LEMMA TypeStep == TypeOK /\ [Next]_vars => TypeOK'
<1> SUFFICES ASSUME TypeOK, [Next]_vars PROVE TypeOK'
  OBVIOUS
<1>1. CASE Publish
  BY <1>1 DEF Publish, TypeOK
<1>2. CASE Read \/ ReadUnanswered
  <2>1. ReadTo \in Nat /\ cursor < ReadTo /\ ReadTo <= published
    BY <1>2, ReadToBounds DEF Read, ReadUnanswered
  <2>2. /\ cursor' = ReadTo /\ published' = published
        /\ pending' = pending \cup (cursor + 1)..ReadTo
        /\ head' \in {cursor + 1, ReadTo + 1} /\ stage' = "handle"
        /\ UNCHANGED <<tried, done, dead>>
    BY <1>2 DEF Read, ReadUnanswered
  <2>3. pending' \subseteq 1..cursor'
    BY <2>1, <2>2 DEF TypeOK
  <2> QED
    BY <2>1, <2>2, <2>3 DEF TypeOK, Stage
<1>3. CASE Handle
  <2>1. /\ tried' = Append(tried, head) /\ done' \in {done, done \cup {head}}
        /\ stage' \in Stage /\ UNCHANGED <<published, cursor, pending, head, dead>>
    BY <1>3 DEF Handle, Stage, redis
  <2>2. head \in Nat /\ tried \in Seq(Nat) /\ done \subseteq Nat
    BY DEF TypeOK
  <2>3. tried' \in Seq(Nat) /\ done' \subseteq Nat
    BY <2>1, <2>2
  <2> QED
    BY <2>1, <2>3 DEF TypeOK
<1>4. CASE Ack \/ Bury \/ AckDead \/ Crash
  <2>1. /\ UNCHANGED <<published, cursor, tried, done>>
        /\ pending' \in {pending, pending \ {head}} /\ dead' \in {dead, dead \cup {head}}
        /\ stage' \in Stage
    BY <1>4 DEF Ack, Bury, AckDead, Crash, Advance, DropBatch, Stage, redis
  <2>2. head' = head \/ head' = cursor + 1 \/ (head' = head + 1 /\ head <= cursor)
    BY <1>4 DEF Ack, Bury, AckDead, Crash, Advance, DropBatch, InHand
  <2>3. cursor \in Nat /\ head \in 1..(cursor + 1) /\ dead \subseteq Nat
    BY DEF TypeOK
  <2>4. head' \in 1..(cursor + 1)
    BY <2>2, <2>3
  <2>5. dead' \subseteq Nat
    BY <2>1, <2>3
  <2> QED
    BY <2>1, <2>4, <2>5 DEF TypeOK
<1>5. CASE UNCHANGED vars
  BY <1>5 DEF vars, TypeOK
<1> QED
  BY <1>1, <1>2, <1>3, <1>4, <1>5 DEF Next, Consumer

\* Type correctness, for every instance.
THEOREM TypeCorrect == Spec => []TypeOK
BY TypeInit, TypeStep, PTL DEF Spec

--------------------------------------------------------------------------------
\* Nothing is delivered at first.
LEMMA BusInit == Init => BusInv
BY TypeInit DEF Init, BusInv, Behind, AcknowledgedIsSettled, TypeOK, InHand

\* One step keeps the calls behind the batch and acknowledged entries settled.
LEMMA BusStep == BusInv /\ [Next]_vars => BusInv'
<1> SUFFICES ASSUME BusInv, [Next]_vars PROVE BusInv'
  OBVIOUS
<1>0. TypeOK /\ TypeOK'
  BY TypeStep DEF BusInv
<1>i. /\ published \in Nat /\ cursor \in Nat /\ head \in Nat /\ cursor <= published
      /\ head >= 1 /\ head <= cursor + 1 /\ tried \in Seq(Nat) /\ stage \in Stage
      /\ pending \subseteq 1..cursor
  BY <1>0 DEF TypeOK
<1>t. DOMAIN tried = 1..Len(tried) /\ Len(tried) \in Nat
      /\ \A i \in DOMAIN tried : tried[i] \in Nat
  BY <1>i
<1> DEFINE Goal == Behind /\ AcknowledgedIsSettled
<1> SUFFICES Goal'
  BY <1>0 DEF BusInv
<1>1. CASE Publish \/ UNCHANGED vars
  BY <1>1 DEF Publish, vars, BusInv, Behind, AcknowledgedIsSettled, InHand
<1>2. CASE Read \/ ReadUnanswered
  <2>1. ReadTo \in Nat /\ cursor < ReadTo /\ ReadTo <= published
    BY <1>0, <1>2, ReadToBounds DEF Read, ReadUnanswered
  <2>2. /\ cursor' = ReadTo /\ published' = published
        /\ pending' = pending \cup (cursor + 1)..ReadTo
        /\ head' \in {cursor + 1, ReadTo + 1} /\ stage' = "handle"
        /\ UNCHANGED <<tried, done, dead>>
    BY <1>2 DEF Read, ReadUnanswered
  <2>3. \A i \in DOMAIN tried : tried[i] \in 1..cursor
    BY DEF BusInv, Behind
  <2>4. \A i \in DOMAIN tried : tried[i] \in 1..ReadTo /\ tried[i] < head' /\ tried[i] <= head'
    BY <1>i, <1>t, <2>1, <2>2, <2>3
  <2>5. \A m \in 1..ReadTo : m >= head' => m \in pending'
    BY <1>i, <2>1, <2>2
  <2>6. Behind'
    BY <1>i, <2>1, <2>2, <2>4, <2>5 DEF BusInv, Behind, InHand
  <2>7. AcknowledgedIsSettled'
    BY <1>i, <2>1, <2>2 DEF BusInv, AcknowledgedIsSettled
  <2> QED
    BY <2>6, <2>7
<1>3. CASE Handle
  <2>1. /\ head <= cursor /\ stage = "handle" /\ tried' = Append(tried, head)
        /\ stage' \in {"ack", "bury"} /\ (stage' = "ack" => done' = done \cup {head})
        /\ done \subseteq done'
        /\ UNCHANGED <<published, cursor, pending, head, dead>>
    BY <1>3 DEF Handle, InHand, redis
  <2>2. \A i \in DOMAIN tried : tried[i] \in 1..cursor /\ tried[i] < head
    BY <2>1 DEF BusInv, Behind
  <2>3. /\ DOMAIN tried' = 1..(Len(tried) + 1) /\ tried'[Len(tried) + 1] = head
        /\ \A i \in DOMAIN tried : tried'[i] = tried[i]
    BY <1>i, <1>t, <2>1
  <2>4. \A i \in DOMAIN tried' : tried'[i] \in 1..cursor /\ tried'[i] <= head
    BY <1>i, <1>t, <2>1, <2>2, <2>3
  <2>5. \A i, j \in DOMAIN tried' : i < j => tried'[i] < tried'[j]
    <3>1. \A i, j \in DOMAIN tried : i < j => tried[i] < tried[j]
      BY DEF BusInv, Behind
    <3>2. ASSUME NEW i \in DOMAIN tried', NEW j \in DOMAIN tried', i < j
          PROVE  tried'[i] < tried'[j]
      <4>1. i \in DOMAIN tried /\ tried'[i] = tried[i]
        BY <1>t, <2>3, <3>2
      <4>2. CASE j = Len(tried) + 1
        BY <2>2, <2>3, <4>1, <4>2
      <4>3. CASE j # Len(tried) + 1
        <5>1. j \in DOMAIN tried /\ tried'[j] = tried[j]
          BY <1>t, <2>3, <4>3
        <5> QED
          BY <3>1, <3>2, <4>1, <5>1
      <4> QED
        BY <4>2, <4>3
    <3> QED
      BY <3>2
  <2>6. Behind'
    BY <1>i, <2>1, <2>4, <2>5 DEF BusInv, Behind, InHand
  <2>7. AcknowledgedIsSettled'
    BY <2>1 DEF BusInv, AcknowledgedIsSettled
  <2> QED
    BY <2>6, <2>7
<1>4. CASE Ack \/ Bury \/ AckDead \/ Crash
  <2>1. /\ UNCHANGED <<published, cursor, tried, done>>
        /\ pending' \in {pending, pending \ {head}} /\ dead \subseteq dead'
    BY <1>4 DEF Ack, Bury, AckDead, Crash, redis
  <2>2. \/ head' = head /\ stage' # "handle" /\ InHand
        \/ head' = head + 1 /\ stage' = "handle" /\ InHand
        \/ head' = cursor + 1 /\ stage' = "handle"
    BY <1>4 DEF Ack, Bury, AckDead, Crash, Advance, DropBatch
  <2>3. pending' # pending => head \in done \cup dead
    BY <1>4 DEF Ack, Bury, AckDead, Crash, redis, BusInv, Behind
  <2>4. /\ stage' # "ack"
        /\ stage' = "ackDead" => head' \in dead'
    BY <1>4 DEF Ack, Bury, AckDead, Crash, Advance, DropBatch
  <2>5. /\ \A i \in DOMAIN tried : tried[i] \in 1..cursor /\ tried[i] <= head
        /\ \A i, j \in DOMAIN tried : i < j => tried[i] < tried[j]
        /\ \A m \in 1..cursor : m > head => m \in pending
    BY DEF BusInv, Behind
  <2>6. \A i \in DOMAIN tried : tried[i] <= head' /\ (stage' = "handle" => tried[i] < head')
    BY <1>i, <1>t, <2>2, <2>5
  <2>7. \A m \in 1..cursor : m > head => m \in pending'
    BY <1>i, <2>1, <2>5
  <2>8. \A m \in 1..cursor : m > head' => m \in pending'
    BY <1>i, <2>2, <2>7
  <2>9. InHand' /\ stage' = "handle" => head' \in pending'
    BY <1>i, <2>1, <2>2, <2>7 DEF InHand
  <2>10. stage' # "handle" => InHand'
    BY <2>1, <2>2 DEF InHand
  <2>11. Behind'
    BY <2>1, <2>4, <2>5, <2>6, <2>8, <2>9, <2>10 DEF Behind
  <2>12. AcknowledgedIsSettled'
    BY <2>1, <2>3 DEF BusInv, AcknowledgedIsSettled
  <2> QED
    BY <2>11, <2>12
<1> QED
  BY <1>1, <1>2, <1>3, <1>4 DEF Next, Consumer

\* Calls of the handler stay behind the batch, whatever fails.
THEOREM BusInvariance == Spec => []BusInv
BY BusInit, BusStep, PTL DEF Spec

\* An entry leaves the pending entries only handled or dead-lettered.
THEOREM NothingAcknowledgedUnsettled == Spec => []AcknowledgedIsSettled
<1>1. BusInv => AcknowledgedIsSettled
  BY DEF BusInv
<1> QED
  BY <1>1, BusInvariance, PTL

\* A call of the handler is a delivery of a later message than all before.
LEMMA DeliveryStep == BusInv /\ [Next]_vars => [Delivery!Next]_<<published, tried>>
<1> SUFFICES ASSUME BusInv, [Next]_vars PROVE [Delivery!Next]_<<published, tried>>
  OBVIOUS
<1>1. CASE Publish
  BY <1>1 DEF Publish, Delivery!Next, Delivery!Write
<1>2. CASE Handle
  <2>1. head \in 1..published
    BY <1>2 DEF Handle, InHand, BusInv, TypeOK
  <2>2. \A i \in DOMAIN tried : tried[i] < head
    BY <1>2 DEF Handle, BusInv, Behind
  <2>3. tried' = Append(tried, head) /\ published' = published
    BY <1>2 DEF Handle, redis
  <2> QED
    BY <2>1, <2>2, <2>3 DEF Delivery!Next, Delivery!Give
<1>3. CASE Read \/ ReadUnanswered \/ Ack \/ Bury \/ AckDead \/ Crash \/ UNCHANGED vars
  BY <1>3 DEF Read, ReadUnanswered, Ack, Bury, AckDead, Crash, redis, vars
<1> QED
  BY <1>1, <1>2, <1>3 DEF Next, Consumer

\* The bus gives a handler each message at most once and in order, for every
\* batch size, through crashes and Redis faults.
THEOREM DeliveryImplemented == Spec => DeliveryOrdered
<1>1. Init => Delivery!Init
  BY DEF Init, Delivery!Init
<1> QED
  BY <1>1, DeliveryStep, BusInvariance, PTL DEF Spec, Delivery!Spec, DeliveryOrdered

================================================================================
