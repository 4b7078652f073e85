--------------------------- MODULE PortfolioMonitor ---------------------------
(***************************************************************************)
(* PortfolioMonitorService: every cycle reads the account hash and moves   *)
(* the graduated response up to the tier of the daily loss, which it       *)
(* stores before it publishes the change.  The high-water mark, which      *)
(* nothing reads, and the alerts of the cycle are left out.                *)
(***************************************************************************)
EXTENDS Naturals, Sequences

CONSTANTS
  Config,    \* config/risk.yaml
  Faults     \* the failures the environment may produce

VARIABLES
  account,   \* risk:account_state
  tier,      \* risk:graduated_response
  mon,       \* where the cycle stands and what it has read
  told       \* the tiers published as GraduatedResponseActivated

monitorVars == <<account, tier, mon, told>>

Order == <<"NORMAL", "REDUCED", "PAPER", "KILLED">>
TierSet == {Order[i] : i \in DOMAIN Order}
Rank(t) == CHOOSE i \in DOMAIN Order : Order[i] = t

Resting == [at |-> "rest", loss |-> 0]

MonitorInit == mon = Resting /\ told = <<>>

MonitorTypeOK ==
  /\ mon \in [at : {"rest", "store", "tell"}, loss : Nat]
  /\ told \in Seq(TierSet)

--------------------------------------------------------------------------------
At(step) == mon' = [mon EXCEPT !.at = step]
Rest == mon' = Resting

\* The tier of a daily loss, in percent of its limit.
Target(loss) ==
  CASE loss >= Config.killAt -> "KILLED"
    [] loss < Config.killAt /\ loss >= Config.paperAt -> "PAPER"
    [] loss < Config.paperAt /\ loss >= Config.reduceAt -> "REDUCED"
    [] OTHER -> "NORMAL"

\* The cycle starts; when the account cannot be read it is skipped.
ReadAccount ==
  /\ mon.at = "rest"
  /\ mon' = [at |-> "store", loss |-> account.dailyUsed]
  /\ UNCHANGED <<account, tier, told>>

Escalates == Rank(Target(mon.loss)) > Rank(tier)

\* No transition: the tier is reached or cannot be read.
Keep ==
  /\ mon.at = "store"
  /\ ~Escalates \/ "source" \in Faults
  /\ Rest
  /\ UNCHANGED <<account, tier, told>>

\* Mutant of Store: the error is logged and the change is published.
StoreLogged ==
  /\ mon.at = "store" /\ Escalates
  /\ \/ tier' = Target(mon.loss)
     \/ "redis" \in Faults /\ UNCHANGED tier
  /\ At("tell")
  /\ UNCHANGED <<account, told>>

\* The response only escalates.  Only this cycle writes the tier, so reading it
\* and storing it are one step; an error may come after Redis has stored it.
Store ==
  /\ mon.at = "store" /\ Escalates
  /\ \/ tier' = Target(mon.loss) /\ At("tell")
     \/ "redis" \in Faults /\ tier' \in {tier, Target(mon.loss)} /\ Rest
  /\ UNCHANGED <<account, told>>

\* GraduatedResponseActivated.  KILLED activates no kill switch.
Tell ==
  /\ mon.at = "tell"
  /\ \/ told' = Append(told, Target(mon.loss))
     \/ "bus" \in Faults /\ UNCHANGED told
  /\ Rest
  /\ UNCHANGED <<account, tier>>

Cycle ==
  ReadAccount \/ Keep \/ Store \/ Tell

--------------------------------------------------------------------------------
\* A cycle that failed half way, or a restart, makes the monitor neither announce
\* a tier it has not stored nor repeat or take back one it announced.
TiersToldInOrder ==
  /\ \A i, j \in DOMAIN told : i < j => Rank(told[i]) < Rank(told[j])
  /\ \A i \in DOMAIN told : Rank(told[i]) <= Rank(tier)
================================================================================
