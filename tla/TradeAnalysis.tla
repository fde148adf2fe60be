--------------------------- MODULE TradeAnalysis ---------------------------
(***************************************************************************)
(* Two folds over the trades of one backtest run: analyze_backtest_trades  *)
(* (analysis.py) for the analysis endpoint, and calculate_metrics          *)
(* (executor.py) for the metrics stored with the run.  They sort and count *)
(* streaks differently.                                                    *)
(*                                                                         *)
(* A trade is [id, symbol, entry, exit, pnl, reason] with integer dates    *)
(* and money.  A quotient (a rate, an average, a drawdown fraction) is     *)
(* kept as its numerator and denominator, NoValue is a missing one.  The   *)
(* averages of holding days and of trade returns are left out.             *)
(***************************************************************************)
EXTENDS Sequences, SequencesExt, FiniteSetsExt, Ordering

CONSTANT MonthLength    \* days of a month

ASSUME MonthAssumption == MonthLength \in Nat \ {0}

NoValue == <<>>

\* BacktestExitReason, in the order of the enumeration.
ExitReasons == <<"stop_loss", "take_profit", "max_holding_days", "end_of_period",
                 "no_entry_bar", "insufficient_position_size">>

\* Lexicographic order of two equally long sequences of numbers.
Before(a, b) ==
  \E i \in 1..Len(a) : a[i] < b[i] /\ \A j \in 1..(i - 1) : a[j] = b[j]

AnalysisOrder(trades) ==
  InOrder(trades, LAMBDA t, u : Before(<<t.exit, t.symbol, t.id>>, <<u.exit, u.symbol, u.id>>))

MetricsOrder(trades) ==
  InOrder(trades, LAMBDA t, u :
    Before(<<t.exit, t.entry, t.symbol, t.id>>, <<u.exit, u.entry, u.symbol, u.id>>))

SumPnl(trades) == MapThenSumSet(LAMBDA t : t.pnl, trades)
Winners(trades) == {t \in trades : t.pnl > 0}
Losers(trades) == {t \in trades : t.pnl < 0}

Quotient(a, b) == IF b = 0 THEN NoValue ELSE <<a, b>>

\* _stats: one group of trades.
Stats(trades) ==
  LET wins == Winners(trades)
      losses == Losers(trades)
      count == Cardinality(trades)
  IN [trade_count      |-> count,
      winning_trades   |-> Cardinality(wins),
      losing_trades    |-> Cardinality(losses),
      breakeven_trades |-> count - Cardinality(wins) - Cardinality(losses),
      win_rate         |-> Quotient(Cardinality(wins), count),
      gross_profit     |-> SumPnl(wins),
      gross_loss       |-> SumPnl(losses),
      net_profit       |-> SumPnl(trades),
      average_trade    |-> Quotient(SumPnl(trades), count),
      largest_win      |-> IF wins = {} THEN NoValue ELSE Max({t.pnl : t \in wins}),
      largest_loss     |-> IF losses = {} THEN NoValue ELSE Min({t.pnl : t \in losses})]

\* The streak counters of both loops; `reset' says that a breakeven trade
\* ends both streaks.
Streak0 == [wins |-> 0, losses |-> 0, maxWins |-> 0, maxLosses |-> 0]

Streak(s, pnl, reset) ==
  CASE pnl > 0 -> [wins |-> s.wins + 1, losses |-> 0,
                   maxWins |-> Max({s.maxWins, s.wins + 1}), maxLosses |-> s.maxLosses]
    [] pnl < 0 -> [wins |-> 0, losses |-> s.losses + 1,
                   maxWins |-> s.maxWins, maxLosses |-> Max({s.maxLosses, s.losses + 1})]
    [] pnl = 0 /\ reset -> [wins |-> 0, losses |-> 0,
                             maxWins |-> s.maxWins, maxLosses |-> s.maxLosses]
    [] OTHER -> s

\* Mutant: a breakeven trade does not end a streak.
AnalysisStepOverBreakeven(acc, t) ==
  LET cumulative == acc.cumulative + t.pnl
      peak == Max({acc.peak, cumulative})
  IN [cumulative |-> cumulative, peak |-> peak,
      max_drawdown |-> Max({acc.max_drawdown, peak - cumulative}),
      points |-> Append(acc.points, [cumulative |-> cumulative]),
      streak |-> Streak(acc.streak, t.pnl, FALSE)]

\* One turn of the loop of analyze_backtest_trades: the next cumulative point
\* and the streaks.
AnalysisStep(acc, t) ==
  LET cumulative == acc.cumulative + t.pnl
      peak == Max({acc.peak, cumulative})
      drawdown == peak - cumulative
  IN [cumulative |-> cumulative, peak |-> peak,
      max_drawdown |-> Max({acc.max_drawdown, drawdown}),
      points |-> Append(acc.points,
        [trade |-> t.id, cumulative |-> cumulative, running_peak |-> peak, drawdown |-> drawdown,
         pct |-> IF peak > 0 THEN <<drawdown, peak>> ELSE NoValue]),
      streak |-> Streak(acc.streak, t.pnl, TRUE)]

AnalysisLoop(trades) ==
  FoldLeft(AnalysisStep,
           [cumulative |-> 0, peak |-> 0, max_drawdown |-> 0, points |-> <<>>, streak |-> Streak0],
           AnalysisOrder(trades))

\* _groups: the trades by the value of a key.
Groups(trades, key) == [k \in {key[t] : t \in trades} |-> {t \in trades : key[t] = k}]

\* Sorted by symbol, then stably by net profit, the largest first.
BySymbol(trades) ==
  LET groups == Groups(trades, [t \in trades |-> t.symbol])
      rows == {[symbol |-> k, stats |-> Stats(groups[k])] : k \in DOMAIN groups}
  IN InOrder(rows, LAMBDA r, s :
       Before(<<-r.stats.net_profit, r.symbol>>, <<-s.stats.net_profit, s.symbol>>))

\* In the order of the enumeration; a reason without trades has no row.
ByReason(trades) ==
  LET groups == Groups(trades, [t \in trades |-> t.reason])
      present == KeepIf(ExitReasons, LAMBDA r : r \in DOMAIN groups)
  IN [i \in DOMAIN present |->
        [reason |-> present[i], stats |-> Stats(groups[present[i]]),
         share |-> <<Cardinality(groups[present[i]]), Cardinality(trades)>>]]

\* By the month of the exit.
ByMonth(trades) ==
  LET groups == Groups(trades, [t \in trades |-> t.exit \div MonthLength])
      months == InOrder(DOMAIN groups, <)
  IN [i \in DOMAIN months |-> [month |-> months[i], stats |-> Stats(groups[months[i]])]]

Analyze(trades) ==
  LET stats == Stats(trades)
      loop == AnalysisLoop(trades)
  IN [stats |-> stats,
      average_win   |-> Quotient(stats.gross_profit, stats.winning_trades),
      average_loss  |-> Quotient(stats.gross_loss, stats.losing_trades),
      profit_factor |-> Quotient(stats.gross_profit, -stats.gross_loss),
      max_consecutive_wins   |-> loop.streak.maxWins,
      max_consecutive_losses |-> loop.streak.maxLosses,
      max_realized_pnl_drawdown |-> loop.max_drawdown,
      points |-> loop.points,
      by_symbol |-> BySymbol(trades), by_exit_reason |-> ByReason(trades),
      by_month |-> ByMonth(trades)]

\* a / b < c / d for positive denominators.
Smaller(p, q) == p[1] * q[2] < q[1] * p[2]

\* Mutant: the peak stays at the initial capital.
MetricsStepFixedPeak(acc, t) ==
  LET fall == <<acc.peak - acc.equity - t.pnl, acc.peak>>
  IN [equity |-> acc.equity + t.pnl, peak |-> acc.peak,
      drawdown |-> IF Smaller(acc.drawdown, fall) THEN fall ELSE acc.drawdown,
      streak |-> Streak(acc.streak, t.pnl, FALSE)]

\* One turn of the loop of calculate_metrics, over the equity.
MetricsStep(acc, t) ==
  LET equity == acc.equity + t.pnl
      peak == Max({acc.peak, equity})
      fall == <<peak - equity, peak>>
  IN [equity |-> equity, peak |-> peak,
      drawdown |-> IF peak # 0 /\ Smaller(acc.drawdown, fall) THEN fall ELSE acc.drawdown,
      streak |-> Streak(acc.streak, t.pnl, FALSE)]

CalculateMetrics(trades, signals, capital) ==
  LET wins == Winners(trades)
      losses == Losers(trades)
      count == Cardinality(trades)
      loop == FoldLeft(MetricsStep, [equity |-> capital, peak |-> capital, drawdown |-> <<0, 1>>,
                                     streak |-> Streak0], MetricsOrder(trades))
  IN [entered_trades  |-> count,
      skipped_signals |-> signals - count,
      winning_trades  |-> Cardinality(wins),
      losing_trades   |-> Cardinality(losses),
      win_rate        |-> IF count = 0 THEN <<0, 1>> ELSE <<Cardinality(wins), count>>,
      gross_profit    |-> SumPnl(wins),
      gross_loss      |-> SumPnl(losses),
      net_profit      |-> SumPnl(trades),
      total_return    |-> <<SumPnl(trades), capital>>,
      profit_factor   |-> Quotient(SumPnl(wins), -SumPnl(losses)),
      max_drawdown    |-> loop.drawdown,
      max_consecutive_wins   |-> loop.streak.maxWins,
      max_consecutive_losses |-> loop.streak.maxLosses]
=============================================================================
