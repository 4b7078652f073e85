---------------------------- MODULE OrderedDelivery ----------------------------
(***************************************************************************)
(* What a consumer group gives a handler that keeps no record of the       *)
(* events it has seen: published messages, each at most once, in the order *)
(* of the stream.  Messages may be left out.                               *)
(***************************************************************************)
EXTENDS Naturals, Sequences

VARIABLES
  written,   \* the messages of the stream are 1..written
  given      \* the messages given to the handler, in the order of the calls

Init == written = 0 /\ given = <<>>

Write == written' = written + 1 /\ UNCHANGED given

Give ==
  /\ \E m \in 1..written :
       /\ \A i \in DOMAIN given : given[i] < m
       /\ given' = Append(given, m)
  /\ UNCHANGED written

Next == Write \/ Give

Spec == Init /\ [][Next]_<<written, given>>
================================================================================
