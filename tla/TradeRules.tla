----------------------------- MODULE TradeRules -----------------------------
(***************************************************************************)
(* The trading rules of the backtests: prices with slippage, costs, the    *)
(* stop, the target and the holding limit, and the simulation of one       *)
(* independent signal (backtest/executor.py).                              *)
(*                                                                         *)
(* Rates and percentages are numbers of Dths.  Amounts of money are        *)
(* integers in units of 1/D^4, in which every product of the code is       *)
(* exact: an entry price is a multiple of D^3, a stop or target of D^2, an *)
(* exit price of D, and its commission and tax are whole.  Prices of bars  *)
(* are whole amounts.                                                      *)
(***************************************************************************)
EXTENDS Integers, FiniteSets, FiniteSetsExt

CONSTANTS
  D,               \* denominator of rates and percentages
  SlippageRate, CommissionRate, SellTaxRate,
  StopLossPct, TakeProfitPct,
  MaxHoldingDays,
  Quantum          \* MONEY, the quantum of stored amounts, in units

\* What BacktestParameters.parse() accepts.
ValidTrading ==
  /\ D \in Nat \ {0}
  /\ {SlippageRate, CommissionRate, SellTaxRate} \subseteq 0..(D - 1)
  /\ StopLossPct \in 1..(D - 1)
  /\ TakeProfitPct \in 1..(10 * D - 1)
  /\ MaxHoldingDays \in Nat \ {0}
  /\ Quantum \in Nat \ {0}

ASSUME ParametersAssumption == ValidTrading

Whole == D * D * D * D
Money(amount) == amount * Whole

\* A whole amount, in which the capital and prices are given, is a multiple of
\* the quantum.
ASSUME QuantumAssumption == Whole % Quantum = 0

\* Decimal.quantize(MONEY): to the nearest multiple, ties to the even one.
Quantize(x) ==
  LET q == x \div Quantum
      r == x % Quantum
      up == 2 * r > Quantum \/ (2 * r = Quantum /\ q % 2 = 1)
  IN  Quantum * (IF up THEN q + 1 ELSE q)

EntryPrice(bar)  == bar.open * (D + SlippageRate) * D * D * D
Stop(entry)      == (entry * (D - StopLossPct)) \div D
Target(entry)    == (entry * (D + TakeProfitPct)) \div D
ExitPrice(raw)   == (raw * (D - SlippageRate)) \div D
Commission(notional) == (notional * CommissionRate) \div D
SellTax(notional)    == (notional * SellTaxRate) \div D

NoExit == [reason |-> "none", raw |-> 0]

\* The stop is tried before the target, and an open beyond either is the price.
ExitRule(entry, holding, bar) ==
  LET open      == Money(bar.open)
      stopHit   == open <= Stop(entry) \/ Money(bar.low) <= Stop(entry)
      targetHit == open >= Target(entry) \/ Money(bar.high) >= Target(entry)
  IN  CASE stopHit ->
             [reason |-> "stop_loss",
              raw |-> IF open <= Stop(entry) THEN open ELSE Stop(entry)]
        [] ~stopHit /\ targetHit ->
             [reason |-> "take_profit",
              raw |-> IF open >= Target(entry) THEN open ELSE Target(entry)]
        [] ~stopHit /\ ~targetHit /\ holding >= MaxHoldingDays ->
             [reason |-> "max_holding_days", raw |-> Money(bar.close)]
        [] OTHER -> NoExit

\* The stored row of a trade.
BacktestTrade(signal, entryDay, bar, quantity, exitDay, raw, reason, holding) ==
  LET entry      == EntryPrice(bar)
      exit       == ExitPrice(raw)
      gross      == (exit - entry) * quantity
      commission == Commission(entry * quantity) + Commission(exit * quantity)
      tax        == SellTax(exit * quantity)
      slippage   == (entry - Money(bar.open) + raw - exit) * quantity
  IN  [signal |-> signal, entry_date |-> entryDay, exit_date |-> exitDay,
       entry_price |-> Quantize(entry), exit_price |-> Quantize(exit),
       quantity |-> quantity, reason |-> reason, holding_days |-> holding,
       gross |-> Quantize(gross), commission |-> Quantize(commission),
       tax |-> Quantize(tax), slippage |-> Quantize(slippage),
       net |-> Quantize(gross - commission - tax)]

\* simulate_signal() for a signal that is entered with the given quantity,
\* on the bars of its symbol (a function from days).
SimulateSignal(signal, bars, quantity) ==
  LET eligible   == {d \in DOMAIN bars : d > signal.date}
      entryDay   == Min(eligible)
      entry      == EntryPrice(bars[entryDay])
      later      == eligible \ {entryDay}
      holding(d) == Cardinality({e \in later : e <= d})
      rule(d)    == ExitRule(entry, holding(d), bars[d])
      hits       == {d \in later : rule(d) # NoExit}
      exitDay    == IF hits # {} THEN Min(hits) ELSE Max(eligible)
      terms      == IF hits # {} THEN rule(exitDay)
                    ELSE [reason |-> "end_of_period",
                          raw |-> Money(bars[exitDay].close)]
  IN  BacktestTrade(signal, entryDay, bars[entryDay], quantity, exitDay,
                    terms.raw, terms.reason, holding(exitDay))
=============================================================================
