------------------------------ MODULE RiskChecks ------------------------------
(***************************************************************************)
(* The pure part of the risk engine: the pre-trade checks of               *)
(* risk_limit_checker and the position sizer.                              *)
(* Money and Greeks are integers, percentages are integers and every       *)
(* comparison of quotients is cross-multiplied; the rounding of floats is  *)
(* abstracted away.  Deltas are in hundredths, correlations in percent,    *)
(* the size multiplier in halves.                                          *)
(***************************************************************************)
EXTENDS Integers, FiniteSets, FiniteSetsExt, SequencesExt

CONSTANTS
  Config,        \* config/risk.yaml
  Underlyings    \* the underlyings traded

ConfigFields ==
  [dailyLossPct : Nat \ {0}, weeklyLossPct : Nat \ {0}, monthlyLoss : Nat \ {0},
   vixThreshold : Nat \ {0}, maxDrawdown : Nat \ {0}, maxOpen : Nat \ {0},
   maxPerUnderlying : Nat \ {0}, maxCapitalPct : Nat \ {0}, maxNotionalPct : Nat \ {0},
   maxDelta : Nat \ {0}, maxVegaPct : Nat, utilizationPct : Nat, minRatio : Nat,
   maxRatio : Nat, symbolPct : Nat \ {0}, sectorPct : Nat \ {0},
   strategyPct : Nat \ {0}, singlePct : Nat \ {0}, top3Pct : Nat \ {0}, perMinute : Nat,
   perDay : Nat, riskPct : Nat, atrStop : Nat \ {0}, kellyPct : 0..100,
   kellyFallbackPct : 0..100, minSamples : Nat, maxLots : Nat, reduceAt : Nat,
   paperAt : Nat, killAt : Nat, capital : Nat \ {0}]

ASSUME ConfigAssumption == Config \in ConfigFields

Account ==
  [capital : Nat, session : Nat, available : Nat, used : Nat, dailyPnl : Int,
   dailyUsed : Nat, weeklyPnl : Int, weeklyUsed : Nat, drawdown : Nat, multiplier : 0..2]

Portfolio ==
  [open : Nat, counts : [Underlyings -> Nat], capitalPct : [Underlyings -> Nat],
   delta : Int, vega : Int, lastMinute : Nat, today : Nat]

\* "quoted" says whether option_delta is given; sign is 1 for LONG, -1 for SHORT.
Request ==
  [underlying : Underlyings, option : BOOLEAN, sign : {1, -1}, entry : Nat \ {0},
   stop : Nat \ {0}, premium : Nat \ {0}, lotSize : Nat \ {0}, quoted : BOOLEAN,
   delta : Int, vega : Int, atr : Nat \ {0}, ratio : Nat \ {0}]

\* What the win/loss history of a strategy tells the sizer.
History == [samples : Nat, losses : Nat, winPct : 0..100, ratio : Nat]

--------------------------------------------------------------------------------
Least(a, b) == IF a <= b THEN a ELSE b
AbsVal(a) == IF a < 0 THEN -a ELSE a

LossReaches(pnl, capital, pct) ==
  capital > 0 /\ pnl < 0 /\ 100 * (-pnl) >= pct * capital

DailyLossOk(a) ==
  a.dailyUsed < 100 /\ ~LossReaches(a.dailyPnl, a.session, Config.dailyLossPct)

WeeklyLossOk(a) ==
  a.weeklyUsed < 100 /\ ~LossReaches(a.weeklyPnl, a.session, Config.weeklyLossPct)

\* AccountState has no monthly_pnl and no current_vix: getattr answers 0.
MonthlyPnl(a) == 0
CurrentVix(a) == 0
MonthlyLossOk(a) == MonthlyPnl(a) > -Config.monthlyLoss
VolatilityOk(a) == CurrentVix(a) < Config.vixThreshold

DrawdownOk(a) == a.drawdown < Config.maxDrawdown
OpenPositionsOk(p) == p.open < Config.maxOpen
SymbolOk(p, r) == p.counts[r.underlying] < Config.maxPerUnderlying

StopDistance(r) == r.atr * Config.atrStop
TradeCapital(r) == (IF r.option THEN r.premium ELSE StopDistance(r)) * r.lotSize

\* One lot, against the account; without capital the trade counts for nothing.
CapitalOk(a, p, r) ==
  LET held == p.capitalPct[r.underlying]
      new == 100 * TradeCapital(r)
  IN  IF a.capital = 0 THEN held < Config.maxCapitalPct
      ELSE /\ held * a.capital + new < Config.maxCapitalPct * a.capital
           /\ new <= Config.maxNotionalPct * a.capital

\* The delta one lot adds, for check 8 and for check 9.
LotDelta(r, unquoted) ==
  r.sign * r.lotSize * (IF ~r.option THEN 100 ELSE IF r.quoted THEN r.delta ELSE unquoted)

NetDeltaOk(p, r) == AbsVal(p.delta + LotDelta(r, 50)) < 100 * Config.maxDelta

\* A pair that the matrix lacks in both orders counts as fully correlated.
Correlation(matrix, a, b) ==
  CASE a = b -> 100
    [] a # b /\ <<a, b>> \in DOMAIN matrix -> matrix[<<a, b>>]
    [] a # b /\ <<a, b>> \notin DOMAIN matrix /\ <<b, a>> \in DOMAIN matrix -> matrix[<<b, a>>]
    [] OTHER -> 100

Held(p) == {u \in Underlyings : p.counts[u] > 0}

MaxRho(p, r, matrix) == Max({Correlation(matrix, r.underlying, u) : u \in Held(p)})

CorrelatedOk(delta, rho, new) == AbsVal(delta * rho + 100 * new) < 10000 * Config.maxDelta

CorrelationOk(p, r, matrix) ==
  Held(p) = {} \/ CorrelatedOk(p.delta, MaxRho(p, r, matrix), LotDelta(r, 100))

\* The margin is that of one lot.
MarginOk(a, margin) ==
  /\ a.available >= margin
  /\ IF a.capital = 0 THEN Config.utilizationPct >= 100
     ELSE 100 * (a.used + margin) <= Config.utilizationPct * a.capital

RiskRewardOk(r) == Config.minRatio <= r.ratio /\ r.ratio <= Config.maxRatio

\* Checks 18 to 20 differ only in the notional they look at and its limit.
ExposureOk(notional, limit, capital) == capital <= 0 \/ 100 * notional < limit * capital

ConcentrationOk(notionals, capital) ==
  \/ capital <= 0
  \/ /\ \A i \in DOMAIN notionals : 100 * notionals[i] < Config.singlePct * capital
     /\ \A top \in SUBSET DOMAIN notionals :
          Cardinality(top) \in 1..3
            => 100 * MapThenSumSet(LAMBDA i : notionals[i], top) < Config.top3Pct * capital

\* PortfolioState has no positions: getattr answers the empty list.
Notionals(p) == <<>>
Notional(p) == MapThenSumSet(LAMBDA i : Notionals(p)[i], DOMAIN Notionals(p))

OrderRateOk(p) == p.lastMinute < Config.perMinute /\ p.today < Config.perDay

VegaOk(a, p, r) ==
  LET new == IF r.option THEN r.sign * r.lotSize * r.vega ELSE 0
  IN  100 * AbsVal(p.vega + new) <= Config.maxVegaPct * a.session

--------------------------------------------------------------------------------
\* What one lot loses at its stop.
CostPerLot(r) ==
  r.lotSize * (IF ~r.option THEN StopDistance(r)
               ELSE IF r.entry > r.stop THEN r.entry - r.stop ELSE 0)

LotsFor(money, cost) == IF cost > 0 THEN money \div cost ELSE 0

AtrLots(a, r) == LotsFor(a.session * Config.riskPct, 100 * CostPerLot(r))

\* Kelly's fraction w - (1 - w) / ratio as a numerator over 100 * ratio, not below 0.
Edge(h) ==
  LET edge == h.winPct * h.ratio - 100 * (100 - h.winPct)
  IN  IF edge > 0 THEN edge ELSE 0

KellyLots(a, r, h) ==
  IF h.samples < Config.minSamples \/ h.losses = 0
  THEN LotsFor(a.session * Config.kellyPct * Config.kellyFallbackPct, 10000 * CostPerLot(r))
  ELSE IF h.ratio = 0 THEN 0
  ELSE LotsFor(a.session * Edge(h) * Config.kellyPct, 10000 * h.ratio * CostPerLot(r))

Lots(a, r, h) ==
  (Least(Least(AtrLots(a, r), KellyLots(a, r, h)), Config.maxLots) * a.multiplier) \div 2

--------------------------------------------------------------------------------
\* The checks before the sizing and those after it, in their order.
EarlyChecks(a, p, r, q) ==
  << [code |-> "DAILY_LOSS_LIMIT", ok |-> DailyLossOk(a)],
     [code |-> "WEEKLY_LOSS_LIMIT", ok |-> WeeklyLossOk(a) /\ MonthlyLossOk(a)],
     [code |-> "DRAWDOWN_LIMIT", ok |-> VolatilityOk(a) /\ DrawdownOk(a)],
     [code |-> "MAX_OPEN_POSITIONS", ok |-> OpenPositionsOk(p)],
     [code |-> "SYMBOL_CONCENTRATION", ok |-> SymbolOk(p, r)],
     [code |-> "CAPITAL_CONCENTRATION", ok |-> CapitalOk(a, p, r)],
     [code |-> "NET_DELTA_LIMIT", ok |-> NetDeltaOk(p, r)],
     [code |-> "CORRELATION_LIMIT", ok |-> CorrelationOk(p, r, q.matrix)],
     [code |-> "INSUFFICIENT_MARGIN", ok |-> MarginOk(a, q.margin)],
     [code |-> "RISK_REWARD_BELOW_MINIMUM", ok |-> RiskRewardOk(r)],
     [code |-> "SYMBOL_CONCENTRATION",
      ok |-> \A limit \in {Config.symbolPct, Config.sectorPct} :
               ExposureOk(Notional(p), limit, a.session)],
     [code |-> "CAPITAL_CONCENTRATION",
      ok |-> /\ ExposureOk(Notional(p), Config.strategyPct, a.session)
             /\ ConcentrationOk(Notionals(p), a.session)] >>

LateChecks(a, p, r, q) ==
  << [code |-> "POSITION_SIZE_ZERO", ok |-> Lots(a, r, q.history) >= 1],
     [code |-> "ORDER_RATE_LIMIT", ok |-> OrderRateOk(p)],
     [code |-> "VEGA_LIMIT", ok |-> VegaOk(a, p, r)] >>

FirstFailure(checks) ==
  LET failed == {i \in DOMAIN checks : ~checks[i].ok}
  IN  IF failed = {} THEN "none" ELSE checks[Min(failed)].code

\* The code of the decision; the sizer asserts that there is session capital.
Verdict(a, p, r, q) ==
  LET early == FirstFailure(EarlyChecks(a, p, r, q))
      late == FirstFailure(LateChecks(a, p, r, q))
  IN  CASE early # "none" -> early
        [] early = "none" /\ a.session = 0 -> "raises"
        [] early = "none" /\ a.session # 0 /\ late # "none" -> late
        [] OTHER -> "APPROVED"
================================================================================
