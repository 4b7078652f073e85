----------------------------- MODULE MCRiskSystem -----------------------------
(***************************************************************************)
(* Small instances of RiskSystem for TLC.                                  *)
(***************************************************************************)
EXTENDS RiskSystem, TLC

CONSTANTS nifty, bank

MCUnderlyings == {nifty, bank}

\* The limits of config/risk.yaml and, for exposure and concentration, the defaults of
\* risk_config.py, with money divided by 50 and ratios in tenths.  Two limits are
\* lowered so that they are met, maxOpen from 10 and maxLots from 50, and atrStop,
\* which no option looks at, is 2 for 1.5.
MCConfig ==
  [dailyLossPct |-> 2, weeklyLossPct |-> 5, monthlyLoss |-> 300, vixThreshold |-> 25,
   maxDrawdown |-> 10, maxOpen |-> 1, maxPerUnderlying |-> 3, maxCapitalPct |-> 20,
   maxNotionalPct |-> 10, maxDelta |-> 50, maxVegaPct |-> 5, utilizationPct |-> 80,
   minRatio |-> 15, maxRatio |-> 100, symbolPct |-> 20, sectorPct |-> 40,
   strategyPct |-> 50, singlePct |-> 15, top3Pct |-> 50, perMinute |-> 5, perDay |-> 50,
   riskPct |-> 10, atrStop |-> 2, kellyPct |-> 25, kellyFallbackPct |-> 50,
   minSamples |-> 30, maxLots |-> 3, reduceAt |-> 50, paperAt |-> 75, killAt |-> 100,
   capital |-> 3000]

Option(u, sign) ==
  [underlying |-> u, option |-> TRUE, sign |-> sign, entry |-> 20, stop |-> 16,
   premium |-> 20, lotSize |-> 10, quoted |-> TRUE, delta |-> 50, vega |-> 1, atr |-> 1,
   ratio |-> 20]

MCRequests == {Option(nifty, 1)}

\* Losses of 60 and of 100 percent of the daily limit, which is 60.
Losing(pnl, used) == [SeededAccount EXCEPT !.dailyPnl = -pnl, !.dailyUsed = used]
MCLosses == {Losing(36, 60), Losing(60, 100)}

MCQuotes ==
  {[matrix |-> <<nifty, bank>> :> 20, margin |-> 100,
    history |-> [samples |-> 40, losses |-> 10, winPct |-> 60, ratio |-> 200]]}

AllRiskFaults == RiskFaults
================================================================================
