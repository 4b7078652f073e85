------------------------------ MODULE KillSwitch ------------------------------
(***************************************************************************)
(* KillSwitchService: the switch in Redis, its audit table and its events. *)
(* activate and deactivate each read the switch, write it, insert an audit *)
(* row and publish an event, with an await between any two.  HTTP requests *)
(* of several operators run them side by side; startup runs deactivate     *)
(* once before any request is served.  Redis, the table and the stream     *)
(* outlive the process.                                                    *)
(***************************************************************************)
EXTENDS Naturals, Sequences, FiniteSets

CONSTANTS
  Operators,    \* HTTP requests that may be under way at a time
  Startup,      \* the lifespan task
  MaxChanges,   \* bound: requests start only while fewer writes were made
  Faults        \* the failures the environment may produce

\* "redis" a command on the switch raises      "crash" the process dies
\* "db"    the insert of an audit row raises   "bus"   the publish raises
SwitchFaults == {"redis", "db", "bus", "crash"}

ASSUME StartupAssumption ==
  IsFiniteSet(Operators) /\ Operators # {} /\ Startup \notin Operators
ASSUME BoundsAssumption == MaxChanges \in Nat
ASSUME SwitchFaultsAssumption == Faults \subseteq SwitchFaults

Tasks == Operators \cup {Startup}

VARIABLES
  active,    \* system:kill_switch is_active
  pc,        \* pc[t]: where the call of task t stands
  op,        \* op[t]: the call t makes
  up,        \* whether startup is through and requests are served
  changes,   \* the writes of the switch, in their order (history)
  audit,     \* the rows of kill_switch_events
  bus        \* the events on the stream

vars == <<active, pc, op, up, changes, audit, bus>>

Op == {"activate", "deactivate"}
SwitchPc == {"idle", "check", "read", "write", "audit", "publish"}

\* Every variable has its type, and requests are under way only while startup,
\* which is done once, is through.
TypeOK ==
  /\ active \in BOOLEAN
  /\ pc \in [Tasks -> SwitchPc]
  /\ op \in [Tasks -> Op]
  /\ up \in BOOLEAN
  /\ IF up THEN pc[Startup] = "idle" ELSE \A t \in Operators : pc[t] = "idle"
  /\ changes \in Seq(Op) /\ audit \in Seq(Op) /\ bus \in Seq(Op)

\* A process that starts beside a switch left in either position.
Init ==
  /\ active \in BOOLEAN
  /\ pc = [t \in Tasks |-> IF t = Startup THEN "check" ELSE "idle"]
  /\ op = [t \in Tasks |-> "deactivate"]
  /\ up = FALSE
  /\ changes = <<>> /\ audit = <<>> /\ bus = <<>>

--------------------------------------------------------------------------------
Goto(t, step) == pc' = [pc EXCEPT ![t] = step] /\ UNCHANGED up

\* The call returns or raises; the lifespan goes on in either case.
Return(t) ==
  /\ pc' = [pc EXCEPT ![t] = "idle"]
  /\ up' = (up \/ t = Startup)

\* startup_check: until the switch is readable the process does not start.
StartupCheck ==
  /\ pc[Startup] = "check"
  /\ Goto(Startup, "read")
  /\ UNCHANGED <<active, op, changes, audit, bus>>

\* Mutant of Request: requests are served while startup is under way.
RequestEarly(t, o) ==
  /\ t \in Operators
  /\ pc[t] = "idle"
  /\ Len(changes) < MaxChanges
  /\ op' = [op EXCEPT ![t] = o]
  /\ Goto(t, "read")
  /\ UNCHANGED <<active, changes, audit, bus>>

\* POST /broker/kill-switch/activate and /deactivate.
Request(t, o) ==
  /\ up /\ t \in Operators
  /\ pc[t] = "idle"
  /\ Len(changes) < MaxChanges
  /\ op' = [op EXCEPT ![t] = o]
  /\ Goto(t, "read")
  /\ UNCHANGED <<active, changes, audit, bus>>

\* The position a call leaves the switch in.
Wanted(o) == o = "activate"

\* Mutant of Read: no early return.
ReadOnly(t) ==
  /\ pc[t] = "read"
  /\ Goto(t, "write") \/ ("redis" \in Faults /\ Return(t))
  /\ UNCHANGED <<active, op, changes, audit, bus>>

\* get_state: the call is a no-op when the switch is there already, and raises
\* when it cannot be read.
Read(t) ==
  /\ pc[t] = "read"
  /\ \/ active = Wanted(op[t]) /\ Return(t)
     \/ active # Wanted(op[t]) /\ Goto(t, "write")
     \/ "redis" \in Faults /\ Return(t)
  /\ UNCHANGED <<active, op, changes, audit, bus>>

Set(o) == active' = Wanted(o) /\ changes' = Append(changes, o)

\* HSET; an error may come after Redis has carried it out.
Write(t) ==
  /\ pc[t] = "write"
  /\ \/ Set(op[t]) /\ Goto(t, "audit")
     \/ "redis" \in Faults /\ Return(t) /\ (Set(op[t]) \/ UNCHANGED <<active, changes>>)
  /\ UNCHANGED <<op, audit, bus>>

\* Mutant of Audit: a failed insert is logged and the event published.
AuditLogged(t) ==
  /\ pc[t] = "audit"
  /\ Goto(t, "publish")
  /\ \/ audit' = Append(audit, op[t])
     \/ "db" \in Faults /\ UNCHANGED audit
  /\ UNCHANGED <<active, op, changes, bus>>

\* insert_event; without the row nothing is published.
Audit(t) ==
  /\ pc[t] = "audit"
  /\ \/ audit' = Append(audit, op[t]) /\ Goto(t, "publish")
     \/ "db" \in Faults /\ Return(t) /\ audit' \in {audit, Append(audit, op[t])}
  /\ UNCHANGED <<active, op, changes, bus>>

Publish(t) ==
  /\ pc[t] = "publish"
  /\ Return(t)
  /\ \/ bus' = Append(bus, op[t])
     \/ "bus" \in Faults /\ UNCHANGED bus
  /\ UNCHANGED <<active, op, changes, audit>>

\* The process dies and starts again.
Crash ==
  /\ "crash" \in Faults
  /\ pc' = [t \in Tasks |-> IF t = Startup THEN "check" ELSE "idle"]
  /\ op' = [op EXCEPT ![Startup] = "deactivate"]
  /\ up' = FALSE
  /\ UNCHANGED <<active, changes, audit, bus>>

Call(t) == Read(t) \/ Write(t) \/ Audit(t) \/ Publish(t)

Next ==
  \/ StartupCheck
  \/ \E t \in Operators, o \in Op : Request(t, o)
  \/ \E t \in Tasks : Call(t)
  \/ Crash

Spec == Init /\ [][Next]_vars

--------------------------------------------------------------------------------
(***************************************************************************)
(* Properties.                                                             *)
(***************************************************************************)
Times(o, s) == Cardinality({i \in DOMAIN s : s[i] = o})

\* Whatever fails between the steps, every event has its audit row and every
\* row its write of the switch: consumers never hear of a change the audit
\* table lacks.
AnnouncedIsAudited ==
  \A o \in Op : Times(o, bus) <= Times(o, audit) /\ Times(o, audit) <= Times(o, changes)

\* Calls that race on the unguarded read-then-write repeat a change, but never
\* more often than requests can be under way: a call that starts after a change
\* does not make it again, and startup's own call races with none.
RepeatsBounded ==
  \A i, j \in DOMAIN changes :
    (i <= j /\ \A k \in i..j : changes[k] = changes[i])
      => j - i + 1 <= Cardinality(Operators)

--------------------------------------------------------------------------------
(***************************************************************************)
(* Why: a call counts once at each step, and a call that would repeat the  *)
(* last change has read the switch before it.                              *)
(***************************************************************************)
Standing(step, o) == {t \in Tasks : pc[t] = step /\ op[t] = o}

CountInv ==
  \A o \in Op :
    /\ Times(o, bus) + Cardinality(Standing("publish", o)) <= Times(o, audit)
    /\ Times(o, audit) + Cardinality(Standing("audit", o)) <= Times(o, changes)

\* From i on, the switch was written to one position only.
SameFrom(i) == \A k \in i..Len(changes) : changes[k] = changes[i]

RepeatInv ==
  /\ RepeatsBounded
  /\ changes # <<>> => active = Wanted(changes[Len(changes)])
  /\ pc[Startup] = "write" => active # Wanted(op[Startup])
  /\ \A i \in DOMAIN changes :
       SameFrom(i) =>
         Len(changes) - i + 1 + Cardinality(Standing("write", changes[i])) <= Cardinality(Operators)

IInv == TypeOK /\ CountInv /\ RepeatInv
================================================================================
