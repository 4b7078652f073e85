------------------------------- MODULE EventBus -------------------------------
(***************************************************************************)
(* RedisStreamEventBus: one topic and one consumer group with the one      *)
(* consumer task that subscribe creates for it.  Groups read the stream    *)
(* independently, so one stands for all.                                   *)
(*                                                                         *)
(* The stream, the group's cursor, its pending entries and the dead letter *)
(* stream live in Redis.  The batch in hand lives in the consumer task,    *)
(* which reads new entries (">") and never its own pending ones.           *)
(* Message m is the m-th entry of the stream; a batch is head..cursor.     *)
(***************************************************************************)
EXTENDS Naturals, Sequences

CONSTANTS
  MaxMessages,  \* bound: how many events are published
  Batch,        \* xreadgroup count
  Faults        \* the failures the environment may produce

\* "redis" a command raises, carried out or not    "crash" the process dies
\* "handler" the handler raises
BusFaults == {"redis", "crash", "handler"}

ASSUME SizesAssumption == MaxMessages \in Nat /\ Batch \in Nat \ {0}
ASSUME BusFaultsAssumption == Faults \subseteq BusFaults

VARIABLES
  published,  \* the stream: entries 1..published
  cursor,     \* the last entry delivered to the group
  pending,    \* entries delivered and not acknowledged (the group's PEL)
  head,       \* the next entry of the batch in hand; past cursor when empty
  stage,      \* what the task does with entry head
  tried,      \* the calls of the handler, in their order (history)
  done,       \* entries whose handler returned (history)
  dead        \* entries on the dead letter stream

redis == <<published, cursor, pending>>
vars  == <<published, cursor, pending, head, stage, tried, done, dead>>

Stage == {"handle", "ack", "bury", "ackDead"}

\* Every variable has its type.
TypeOK ==
  /\ published \in Nat /\ cursor \in 0..published
  /\ pending \subseteq 1..cursor
  /\ head \in 1..(cursor + 1)
  /\ stage \in Stage
  /\ tried \in Seq(Nat)
  /\ done \subseteq Nat
  /\ dead \subseteq Nat

Init ==
  /\ published = 0 /\ cursor = 0 /\ pending = {}
  /\ head = 1 /\ stage = "handle"
  /\ tried = <<>> /\ done = {} /\ dead = {}

--------------------------------------------------------------------------------
\* publish: XADD.
Publish ==
  /\ published < MaxMessages
  /\ published' = published + 1
  /\ UNCHANGED <<cursor, pending, head, stage, tried, done, dead>>

InHand == head <= cursor

\* Mutant of ReadTo: a full batch, however many entries there are.
ReadFullBatch == cursor + Batch

\* The entries the next XREADGROUP delivers.
ReadTo == IF cursor + Batch < published THEN cursor + Batch ELSE published

\* XREADGROUP ">" COUNT Batch: the entries become pending and the batch.
Read ==
  /\ ~InHand
  /\ cursor < published
  /\ cursor' = ReadTo
  /\ pending' = pending \cup (cursor + 1)..ReadTo
  /\ head' = cursor + 1
  /\ stage' = "handle"
  /\ UNCHANGED <<published, tried, done, dead>>

\* The same, but its answer is lost and the loop sleeps and reads again.
ReadUnanswered ==
  /\ "redis" \in Faults
  /\ ~InHand
  /\ cursor < published
  /\ cursor' = ReadTo
  /\ pending' = pending \cup (cursor + 1)..ReadTo
  /\ head' = ReadTo + 1
  /\ stage' = "handle"
  /\ UNCHANGED <<published, tried, done, dead>>

\* The next entry of the batch, or none.
Advance == head' = head + 1 /\ stage' = "handle"

\* Mutant of DropBatch: the loop takes up the entry again.
RetryBatch == head' = head /\ stage' = "handle"

\* An exception out of _handle_message ends the for loop over the batch.
DropBatch == head' = cursor + 1 /\ stage' = "handle"

\* await handler(event): it returns, or raises.
Handle ==
  /\ InHand /\ stage = "handle"
  /\ tried' = Append(tried, head)
  /\ \/ done' = done \cup {head} /\ stage' = "ack"
     \/ "handler" \in Faults /\ UNCHANGED done /\ stage' = "bury"
  /\ UNCHANGED <<redis, head, dead>>

\* XACK inside the try: its failure sends a handled entry to the dead letters.
Ack ==
  /\ InHand /\ stage = "ack"
  /\ \/ pending' = pending \ {head} /\ Advance
     \/ /\ "redis" \in Faults
        /\ pending' \in {pending, pending \ {head}}
        /\ stage' = "bury" /\ UNCHANGED head
  /\ UNCHANGED <<published, cursor, tried, done, dead>>

\* Mutant of Bury: the entry is acknowledged whether or not it was moved.
BuryOrNot ==
  /\ InHand /\ stage = "bury"
  /\ dead' = dead \cup {head} \/ ("redis" \in Faults /\ UNCHANGED dead)
  /\ stage' = "ackDead" /\ UNCHANGED head
  /\ UNCHANGED <<redis, tried, done>>

\* _move_to_dlq: XADD to dlq.<topic>.
Bury ==
  /\ InHand /\ stage = "bury"
  /\ \/ dead' = dead \cup {head} /\ stage' = "ackDead" /\ UNCHANGED head
     \/ "redis" \in Faults /\ dead' \in {dead, dead \cup {head}} /\ DropBatch
  /\ UNCHANGED <<redis, tried, done>>

\* Mutant of AckDead: a failed XACK buries the entry again.
AckDeadRetry ==
  /\ InHand /\ stage = "ackDead"
  /\ \/ pending' = pending \ {head} /\ Advance
     \/ /\ "redis" \in Faults
        /\ pending' \in {pending, pending \ {head}}
        /\ stage' = "bury" /\ UNCHANGED head
  /\ UNCHANGED <<published, cursor, tried, done, dead>>

\* The XACK of the except branch.
AckDead ==
  /\ InHand /\ stage = "ackDead"
  /\ \/ pending' = pending \ {head} /\ Advance
     \/ "redis" \in Faults /\ pending' \in {pending, pending \ {head}} /\ DropBatch
  /\ UNCHANGED <<published, cursor, tried, done, dead>>

\* The process dies and starts again: the batch is gone, the group remains.
Crash ==
  /\ "crash" \in Faults
  /\ DropBatch
  /\ UNCHANGED <<redis, tried, done, dead>>

Consumer == Read \/ ReadUnanswered \/ Handle \/ Ack \/ Bury \/ AckDead

Next == Publish \/ Consumer \/ Crash

Spec == Init /\ [][Next]_vars

\* The consumer task never ends.
FairSpec == Spec /\ WF_vars(Consumer)

--------------------------------------------------------------------------------
(***************************************************************************)
(* Properties.                                                             *)
(***************************************************************************)

\* An acknowledged entry was handled or is among the dead letters: no fault of
\* Redis, of a handler or of the process takes an entry out of both the pending
\* entries and the dead letters before its handler has returned.
AcknowledgedIsSettled ==
  \A m \in 1..cursor : m \notin pending => m \in done \cup dead

\* Handlers see each message at most once and in stream order, also after a
\* crash: PipelineEventHandler opens a position for every OrderFilled it is
\* given and keeps no record of event ids.
Delivery == INSTANCE OrderedDelivery WITH written <- published, given <- tried

DeliveryOrdered == Delivery!Spec

\* No entry holds up the topic: whatever a handler raises, and whatever fails
\* while it is acknowledged or dead-lettered, the consumer gets past every event.
TopicMovesOn ==
  \A m \in 1..MaxMessages : published >= m ~> head > m

--------------------------------------------------------------------------------
\* Calls of the handler are behind the batch, or the entry in hand; an entry in
\* its later stages has been tried, and moved where the stage says.
Behind ==
  /\ \A i \in DOMAIN tried :
       tried[i] \in 1..cursor /\ (stage = "handle" => tried[i] < head) /\ tried[i] <= head
  /\ \A i, j \in DOMAIN tried : i < j => tried[i] < tried[j]
  /\ stage # "handle" => InHand
  /\ stage = "ack" => head \in done
  /\ stage = "ackDead" => head \in dead
  /\ \A m \in 1..cursor : m > head => m \in pending
  /\ InHand /\ stage = "handle" => head \in pending

BusInv == TypeOK /\ Behind /\ AcknowledgedIsSettled
================================================================================
