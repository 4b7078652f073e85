------------------------------ MODULE RiskSystem ------------------------------
(***************************************************************************)
(* The risk engine beside the portfolio monitor: both read the account     *)
(* hash, and a restart, which seeds it, ends what either has under way.    *)
(***************************************************************************)
EXTENDS RiskEngine

VARIABLES mon, told

Monitor == INSTANCE PortfolioMonitor

vars == <<engineVars, mon, told>>

Init == EngineInit /\ Monitor!MonitorInit

EngineStep == EngineNext /\ UNCHANGED <<mon, told>>

MonitorStep == Monitor!Cycle /\ UNCHANGED <<ks, portfolio, engine, outcome>>

\* The monitor's cycle is lost with the process.
Crash == Restart /\ mon' = Monitor!Resting /\ UNCHANGED told

Next == EngineStep \/ MonitorStep \/ Crash

Spec == Init /\ [][Next]_vars

\* Every await of a call ends: the gather and the insert have timeouts, a publish
\* returns or raises.  Nothing is assumed of crashes, operators and the monitor.
FairSpec ==
  Spec /\ \A c \in Callers : WF_vars(Step(c) /\ UNCHANGED <<mon, told>>)

--------------------------------------------------------------------------------
(***************************************************************************)
(* Properties.                                                             *)
(***************************************************************************)

\* Every variable has its type; a call stands in line, or holds the lock, exactly
\* while it waits or decides.
TypeOK ==
  /\ ks \in BOOLEAN
  /\ account \in Account /\ portfolio \in Portfolio
  /\ tier \in Monitor!TierSet
  /\ calls \in 0..MaxCalls
  /\ line \in Seq(Callers)
  /\ pc \in [Callers -> EnginePc]
  /\ \A c \in Callers :
       (\E i \in DOMAIN line : line[i] = c) <=> pc[c] \in {"line", "gather", "insert"}
  /\ late \in Nat
  /\ Monitor!MonitorTypeOK

\* Persistence first: whatever fails, an approval that was published, parked for
\* delivery or returned to a caller has its row in risk_decisions.
ApprovalsAudited == approvals \cup parked \cup granted \subseteq {row.id : row \in rows}

\* Whatever could not be read, timed out or raised, an approval that was stored is
\* of at least one lot and of no more than position_sizing.max_position_size_lots.
\* The sizer does not apply the multiplier of the tier: in PAPER, where risk.yaml
\* has it 0.0, approvals are of one lot and more all the same.
ApprovalsSized == \A row \in rows : row.lots \in 1..Config.maxLots

\* The switch is read once, before the checks.  Because calls are evaluated one at
\* a time, at most one approval is still decided after the switch went on.
OneStaleApproval == late <= 1

TiersToldInOrder == Monitor!TiersToldInOrder

\* One call decides at a time, and the lock is with it: whoever timed out, was refused,
\* failed to insert or died has handed it on to a call that is still under way.
LockHeld ==
  /\ line # <<>> => pc[Head(line)] \in {"line", "gather", "insert"}
  /\ \A c \in Callers : pc[c] \in {"gather", "insert"} => line # <<>> /\ c = Head(line)

\* Under FairSpec, a call that waits for the lock comes to its end, approved, refused
\* or cut off by a crash, whatever fails for it and for the calls before it.
CallsEnd == \A c \in Callers : pc[c] = "line" ~> pc[c] = "idle"

--------------------------------------------------------------------------------
(***************************************************************************)
(* Why the safety properties hold.                                         *)
(***************************************************************************)

\* The line holds the calls that wait or decide, each once, and only the first
\* decides.  Which data a call has read is forgotten when it is decided.
LineInv ==
  /\ line \in Seq(Callers)
  /\ pc \in [Callers -> EnginePc]
  /\ \A i, j \in DOMAIN line : line[i] = line[j] => i = j
  /\ \A c \in Callers :
       (\E i \in DOMAIN line : line[i] = c) <=> pc[c] \in {"line", "gather", "insert"}
  /\ \A c \in Callers : pc[c] \in {"gather", "insert"} => c = Head(line)
  /\ ks \in BOOLEAN
  /\ switch \in [Callers -> SUBSET BOOLEAN]
  /\ \A c \in Callers : pc[c] # "gather" => switch[c] = {}

\* c may still approve: it has read that the switch is off.
Armed(c) == pc[c] = "insert" \/ FALSE \in switch[c]

\* An approval after the switch went on is the last one: whoever decides next
\* reads the switch anew.
StaleInv ==
  /\ late \in 0..1
  /\ ~ks => late = 0
  /\ late = 1 => \A c \in Callers : ~Armed(c)

\* The row comes before everything that tells of the approval.
AuditInv ==
  /\ ApprovalsAudited
  /\ DOMAIN call = Callers
  /\ \A c \in Callers : pc[c] \in {"publish", "retry", "again", "park"} => call[c] \in rows

\* The cycle that is to tell of a tier has stored it, above all it told of.
TierInv ==
  /\ tier \in Monitor!TierSet /\ account \in Account
  /\ Monitor!MonitorTypeOK
  /\ TiersToldInOrder
  /\ mon.at = "tell" =>
       /\ tier = Monitor!Target(mon.loss)
       /\ \A i \in DOMAIN told : Monitor!Rank(told[i]) < Monitor!Rank(tier)

IInv == LineInv /\ StaleInv /\ AuditInv /\ TierInv

\* What is read are accounts and portfolios, the lots that a call carries and that
\* are stored are within the limit, and rows are finitely many: the sums of a
\* snapshot are numbers.
DataInv ==
  /\ calls \in 0..MaxCalls
  /\ portfolio \in Portfolio
  /\ call \in [Callers -> [id : Nat, request : Requests \cup {NoRequest},
                            lots : 0..Config.maxLots]]
  /\ \A c \in Callers : pc[c] # "idle" => call[c].request \in Requests
  /\ \A c \in Callers : pc[c] = "insert" => call[c].lots >= 1
  /\ data \in [Callers -> [account : SUBSET Account, portfolio : SUBSET Portfolio]]
  /\ IsFiniteSet(rows)
  /\ ApprovalsSized
  /\ \A row \in rows : row.request \in Requests
================================================================================
