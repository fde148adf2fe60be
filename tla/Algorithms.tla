----------------------------- MODULE Algorithms -----------------------------
(***************************************************************************)
(* The pure algorithms, checked over bounded inputs: a behaviour picks one *)
(* of them and grows its input one trade, bar, result or minute at a time; *)
(* each invariant compares what the algorithm returns for the input so far *)
(* with a reference definition, or with what another part of the program   *)
(* returns for it.                                                         *)
(***************************************************************************)
EXTENDS TradeAnalysis, TechnicalAnalysis

CONSTANTS MaxTrades, MaxBars, MaxResults   \* bounds on the inputs

VARIABLES
  algorithm,   \* the one that is fed
  trades,      \* set of trades of a run
  bars,        \* daily bars
  results,     \* passing screening results
  minutes,     \* minute bars
  lookbacks,   \* of a configuration: box, pull, pullVolume, range, short, long, history
  quote        \* [price, today, warnings, delayed]

algorithmVars == <<algorithm, trades, bars, results, minutes, lookbacks, quote>>

Bar(o, h, l, c, v) == [open |-> o, high |-> h, low |-> l, close |-> c, volume |-> v]

\* Daily bars with their dates, and a bar of a minute.
Dated(s) == [i \in DOMAIN s |-> [date |-> i, open |-> s[i].open, high |-> s[i].high,
                                  low |-> s[i].low, close |-> s[i].close, volume |-> s[i].volume]]
MinuteBar(t, currency, b) == [t |-> t, currency |-> currency, open |-> b.open, high |-> b.high,
                              low |-> b.low, close |-> b.close, volume |-> b.volume]

\* An uptrend has begun; then come quiet, strong, weak and voluminous days.
Beginnings == {<<Bar(98, 100, 97, 99, 10), Bar(99, 101, 98, 99, 10)>>,
               <<Bar(98, 100, 97, 100, 10), Bar(100, 104, 99, 104, 10)>>}
Days == {Bar(101, 104, 100, 104, 8), Bar(106, 110, 105, 110, 12), Bar(110, 111, 104, 105, 6),
         Bar(104, 106, 104, 106, 8), Bar(104, 105, 104, 104, 3), Bar(105, 108, 104, 108, 30)}

\* Two days of minute bars around an hour and around two bucket boundaries.
Times == {928, 1980, 1984, 1985, 1991}
MinuteShapes == {Bar(100, 103, 99, 102, 6), Bar(107, 108, 105, 106, 2)}
Quotes == {[price |-> Whole(p), today |-> d, warnings |-> FALSE, delayed |-> d = 7] :
             p \in {97, 101, 106}, d \in {6, 7}}
Charts == {<<>>, <<Bar(100, 103, 99, 102, 10)>>,
           <<Bar(98, 100, 97, 99, 10), Bar(99, 101, 98, 100, 10), Bar(101, 104, 100, 104, 8),
             Bar(104, 105, 104, 104, 3), Bar(104, 105, 104, 104, 3), Bar(105, 108, 104, 108, 30)>>,
           <<Bar(110, 112, 108, 110, 10), Bar(108, 109, 104, 105, 10), Bar(104, 105, 102, 103, 8),
             Bar(103, 103, 100, 101, 3), Bar(101, 102, 99, 100, 3), Bar(100, 101, 98, 99, 30)>>}

NoLookbacks == <<1, 1, 1, 1, 1, 1, 0>>
SomeQuote == [price |-> Whole(101), today |-> 7, warnings |-> FALSE, delayed |-> FALSE]

AlgorithmsInit ==
  /\ algorithm \in {"trades", "screening", "ranking", "chart", "config"}
  /\ trades = {} /\ results = <<>> /\ minutes = <<>>
  /\ bars \in CASE algorithm = "screening" -> Beginnings
                [] algorithm = "chart" -> {Dated(c) : c \in Charts}
                [] OTHER -> {<<>>}
  /\ quote \in IF algorithm = "chart" THEN Quotes ELSE {SomeQuote}
  /\ lookbacks \in IF algorithm = "config" THEN [1..6 -> {0, 1, 2, 3}] ELSE {NoLookbacks}

\* Ids are handed out in any order, so only the order of exits is fixed here.
AddTrade ==
  /\ algorithm = "trades" /\ Cardinality(trades) < MaxTrades
  /\ \E symbol \in {1, 2}, entry, exit \in {1, 2, 3}, pnl \in {-2, 0, 3} :
       /\ entry <= exit /\ \A t \in trades : t.exit <= exit
       /\ trades' = trades \cup {[id |-> Cardinality(trades) + 1, symbol |-> symbol,
            entry |-> entry, exit |-> exit, pnl |-> pnl,
            reason |-> IF pnl > 0 THEN "take_profit" ELSE IF pnl < 0 THEN "stop_loss"
                       ELSE "end_of_period"]}
  /\ UNCHANGED <<algorithm, bars, results, minutes, lookbacks, quote>>

AddDay ==
  /\ algorithm = "screening" /\ Len(bars) < MaxBars
  /\ \E b \in Days : bars' = Append(bars, b)
  /\ UNCHANGED <<algorithm, trades, results, minutes, lookbacks, quote>>

\* A result of the scanner, whose symbol decides its liquidity.
Delivered(symbol, gain, score, atr) ==
  [symbol |-> symbol, passed |-> TRUE,
   primary |-> SetupOrder[1 + (gain % 2)], matched |-> <<SetupOrder[1 + (gain % 2)]>>,
   scores |-> [n \in {SetupOrder[1 + (gain % 2)]} |-> score],
   sma20 |-> <<100 + gain, 1>>, sma60 |-> <<100, 1>>,
   value |-> <<MinimumValue * (1 + 4 * (symbol \div 2)), 1>>, atr_pct |-> <<atr, 1000>>]

AddResult ==
  /\ algorithm = "ranking" /\ Len(results) < MaxResults
  /\ \E symbol \in 1..MaxResults, gain \in {0, 7, 25}, score \in {7995, 9990}, atr \in {5, 14, 45, 90} :
       /\ \A i \in DOMAIN results : results[i].symbol # symbol
       /\ results' = Append(results, Delivered(symbol, gain, score, atr))
  /\ UNCHANGED <<algorithm, trades, bars, minutes, lookbacks, quote>>

AddMinute ==
  /\ algorithm = "chart"
  /\ \E t \in Times, b \in MinuteShapes, currency \in {"KRW", "USD"} :
       /\ \A i \in DOMAIN minutes : minutes[i].t < t
       /\ currency = "USD" => t = 1984
       /\ minutes' = Append(minutes, MinuteBar(t, currency, b))
  /\ UNCHANGED <<algorithm, trades, bars, results, lookbacks, quote>>

AlgorithmsNext == AddTrade \/ AddDay \/ AddResult \/ AddMinute

AlgorithmsSpec == AlgorithmsInit /\ [][AlgorithmsNext]_algorithmVars

------------------------------------------------------------------------------
\* Backtest analysis.

Capital == 3

\* The realized profit before the first trade and after each one.
Curve(s) == [i \in 0..Len(s) |-> MapThenSumSet(LAMBDA j : s[j].pnl, 1..i)]

\* The longest run of consecutive members of s that satisfy P.
LongestRun(s, P(_)) ==
  Max({0} \cup {n \in 1..Len(s) : \E i \in 0..(Len(s) - n) : \A j \in (i + 1)..(i + n) : P(s[j])})

\* The drawdown and the streaks of analyze_backtest_trades are what they are
\* called: the largest fall of the realized curve from an earlier point, and
\* the longest runs of winning and of losing trades in the canonical order,
\* which a breakeven trade interrupts.
MeansWhatItSays(a, s, c) ==
  LET falls == {c[p[1]] - c[p[2]] : p \in {q \in (0..Len(s)) \X (0..Len(s)) : q[1] <= q[2]}}
  IN /\ a.max_realized_pnl_drawdown = Max(falls)
     /\ a.max_consecutive_wins = LongestRun(s, LAMBDA t : t.pnl > 0)
     /\ a.max_consecutive_losses = LongestRun(s, LAMBDA t : t.pnl < 0)
     /\ a.points # <<>> => Last(a.points).cumulative = a.stats.net_profit


\* Every breakdown accounts for every trade once: the counts and the profits
\* of the symbols, of the exit reasons and of the months add up to the summary.
BreakdownsAddUp(a) ==
  LET Sum(rows, field) == MapThenSumSet(LAMBDA i : rows[i].stats[field], DOMAIN rows)
  IN /\ \A rows \in {a.by_symbol, a.by_exit_reason, a.by_month} :
          \A field \in {"trade_count", "net_profit", "breakeven_trades"} :
            Sum(rows, field) = a.stats[field]
     /\ \A rows \in {a.by_symbol, a.by_month} : Sum(rows, "gross_loss") = a.stats.gross_loss

\* The statistics of a backtest are right as a whole and in every breakdown.
StatisticsHold ==
  \A a \in {Analyze(trades)}, s \in {AnalysisOrder(trades)} :
    MeansWhatItSays(a, s, Curve(s)) /\ BreakdownsAddUp(a)

\* What the metrics m and the analysis a of one run have in common.
MetricsMatch(m, a) ==
  LET sameOrder == \A t, u \in trades : t.exit = u.exit => t = u
      breakeven == \E t \in trades : t.pnl = 0
  IN /\ m.net_profit = a.stats.net_profit /\ m.gross_loss = a.stats.gross_loss
     /\ m.winning_trades = a.stats.winning_trades /\ m.profit_factor = a.profit_factor
     /\ sameOrder =>
          /\ m.max_consecutive_wins >= a.max_consecutive_wins
          /\ m.max_consecutive_losses >= a.max_consecutive_losses
          /\ ~breakeven => m.max_consecutive_wins = a.max_consecutive_wins
                           /\ m.max_consecutive_losses = a.max_consecutive_losses
          /\ (m.max_drawdown[1] = 0) = (a.max_realized_pnl_drawdown = 0)
          /\ ~Smaller(<<a.max_realized_pnl_drawdown, Capital>>, m.max_drawdown)

\* The stored metrics (calculate_metrics) and the analysis of one run tell the
\* same story: the same counts and profits always; when no two trades share an
\* exit date, so that both loops see one order, also the same streaks unless a
\* breakeven trade falls between (the metrics carry a streak over it, so theirs
\* are never shorter), and a drawdown at the same time, never a larger share of
\* the capital than the analysis shows in money.
MetricsMatchAnalysis ==
  MetricsMatch(CalculateMetrics(trades, Cardinality(trades), Capital), Analyze(trades))

------------------------------------------------------------------------------
\* Indicators and screening.

Screened(s) == Evaluate(s, Indicators(s))

\* The pipeline reads the last MinimumHistory bars (_inputs), the analysis page
\* those of 240 days: all that depends on windows is the same on both, so the
\* history gives every window enough bars.  The exception is ema20, which is
\* seeded at the first bar read, and the one pullback rule that uses it.
LongerHistoryAgrees ==
  algorithm = "screening" /\ Len(bars) >= MinimumHistory =>
    \A a \in {Screened(bars)}, b \in {Screened(Suffix(bars, MinimumHistory))} :
       /\ a.common = b.common
       /\ \A n \in {"box_breakout", "volatility_contraction_breakout"} : a.setups[n] = b.setups[n]
       /\ \A i \in DOMAIN a.setups.trend_pullback.rules \ {5} :
            a.setups.trend_pullback.rules[i] = b.setups.trend_pullback.rules[i]

Scaled(s, price, volume) ==
  [i \in DOMAIN s |-> Bar(price * s[i].open, price * s[i].high, price * s[i].low,
                          price * s[i].close, volume * s[i].volume)]

\* The setups only use ratios: a split that multiplies every price, or another
\* unit of volume, changes neither a rule nor a score.
ScoresAreScaleFree ==
  algorithm = "screening" =>
    \A scaled \in {Scaled(bars, 2, 1), Scaled(bars, 1, 3)} :
      Screened(scaled).setups = Screened(bars).setups

\* A bar cannot close above the box and well below the peak of one window, so
\* box_breakout and trend_pullback never match together while the pullback's
\* lookback is not the longer one.  The primary setup has the best score, and
\* an earlier place in SETUP_ORDER wins a tie.
SetupsAreDistinct ==
  algorithm = "screening" =>
    \A e \in {Screened(bars)} :
       LET matched == ToSet(e.matched) IN
       /\ PullbackLookback <= BoxLookback => ~({"box_breakout", "trend_pullback"} \subseteq matched)
       /\ \A n \in matched :
            \/ e.setups[n].score < e.setups[e.primary].score
            \/ e.setups[n].score = e.setups[e.primary].score /\ PlaceOf(e.primary) <= PlaceOf(n)

\* Every average lies between the smallest and the largest close it averages,
\* also the exponential one after any number of steps.
AveragesAreBetween ==
  algorithm = "screening" =>
    LET ind == Indicators(bars)
        closes == ToSet(Closes(bars))
    IN \A m \in {ind.sma20, ind.sma60, ind.ema20} \ {Missing} :
         ~Less(m, Whole(Min(closes))) /\ ~Less(Whole(Max(closes)), m)

\* Every configuration that __post_init__ accepts reads full windows as soon as
\* the history is long enough, so no setup is skipped for lack of bars; only a
\* range lookback longer than the long one is cut short without notice.
AcceptedConfigIsSafe ==
  algorithm = "config" =>
    LET box == lookbacks[1]
        pull == lookbacks[2]
        pullVolume == lookbacks[3]
        range == lookbacks[4]
        short == lookbacks[5]
        long == lookbacks[6]
        Full(s, n) == Len(s) = n
    IN \A m \in 1..3, history \in 1..6 :
         ConfigAccepts(m, box, pull, pullVolume, range, short, long, history) =>
           LET read == [i \in 1..history |-> i]
               prior == PriorBars(read, long)
           IN /\ Full(Suffix(read, m), m)
              /\ Full(PriorBars(read, box), box)
              /\ Full(Suffix(PriorBars(read, pull), pullVolume), pullVolume)
              /\ Full(PriorBars(read, long + 1), long + 1)
              /\ Full(Suffix(prior, short), short)
              /\ Full(Suffix(prior, range), range) \/ range > long

\* A history as long as the configuration asks for fills every window, and a
\* longer one adds nothing.
WindowsAreFull == AcceptedConfigIsSafe /\ LongerHistoryAgrees

\* The setups tell market phases apart by ratios of sound averages.
SetupsAreSound == SetupsAreDistinct /\ ScoresAreScaleFree /\ AveragesAreBetween

------------------------------------------------------------------------------
\* Ranking.

Orders == {q \in [DOMAIN results -> DOMAIN results] : \A i, j \in DOMAIN q : q[i] = q[j] => i = j}
Symbols(candidates) == {c.symbol : c \in candidates}

\* The rank of a candidate does not depend on the order in which the scanner
\* delivers the results, equal scores included: the key ends in the symbol,
\* which _validate_request keeps unique.
RankIgnoresInputOrder ==
  ValidRequest(results) =>
    \A p \in Orders : Rank([i \in DOMAIN results |-> results[p[i]]]) = Rank(results)

\* The watchlist is the best of the qualified: nobody is left out unless it is
\* full of candidates that score at least as much; and no candidate loses its
\* place because another one does not pass.
SelectionIsBest ==
  LET ranked == Rank(results)
      selected == ToSet(Selected(ranked))
  IN /\ \A c \in ToSet(ranked) \ selected : c.total >= MinimumCandidateScore =>
          Cardinality(selected) = MaximumCandidates /\ \A d \in selected : d.total >= c.total
     /\ \A i \in DOMAIN results :
          Symbols(selected) \ {results[i].symbol}
            \subseteq Symbols(ToSet(Selected(Rank(RemoveAt(results, i)))))

\* A total is an average of its components, so it stays within 0 and 100, and
\* a better setup score never lowers it, whatever the rounding does.
TotalIsAnAverage ==
  \A i \in DOMAIN results :
    LET r == results[i]
        c == ScoreSwing(r)
        parts == {c.components[n] : n \in DOMAIN c.components}
        better == [r EXCEPT !.scores = [n \in DOMAIN r.scores |-> r.scores[n] + 7]]
    IN c.total \in Min(parts)..Max(parts) /\ ScoreSwing(better).total >= c.total

\* The two rankers score trend and volatility alike, and the pieces of the
\* volatility score meet: a tenth of a percent moves it by five points at most.
RankersAgree ==
  algorithm = "ranking" /\ results = <<>> =>
    /\ \A a, b \in 98..122 : ScoreTrend(Whole(a), Whole(b)) = SwingTrend(Whole(a), Whole(b))
    /\ \A n \in 0..130 :
         /\ ScoreVolatility(Whole(n), Whole(1000)) = SwingVolatility(<<n, 1000>>)
         /\ Distance(SwingVolatility(<<n, 1000>>), SwingVolatility(<<n + 1, 1000>>)) <= 500

\* The published order is a function of the results alone, its cut keeps the
\* best, and the scores behind it are averages on one scale.
RankingIsSound == RankIgnoresInputOrder /\ SelectionIsBest /\ TotalIsAnAverage /\ RankersAgree

------------------------------------------------------------------------------
\* The analysis of one instrument.

Charted == algorithm = "chart" /\ ~Mixes(minutes, 5) /\ ~Mixes(minutes, 10)
Analyses == IF Charted THEN {AnalyzeRealtime(quote, bars, minutes)} ELSE {}

\* The timeframes are one chart: ten-minute candles are the same from the
\* minutes and from the five-minute candles, no bucket mixes two days, and all
\* three agree on the session's open, high and low, on the last close and on
\* the volume.
FramesAgree ==
  \A a \in Analyses :
    LET Session(i) == <<i.session_open, i.session_high, i.session_low, i.change_from_open>>
    IN /\ Aggregate(a.frames[5], 10) = a.frames[10]
       /\ \A m \in {5, 10} :
            /\ SumOf(Volumes(a.frames[m])) = SumOf(Volumes(a.frames[1]))
            /\ Session(a.intraday[m]) = Session(a.intraday[1])
            /\ minutes # <<>> => Last(a.frames[m]).close = Last(minutes).close

\* The levels enclose the price and none is skipped: every known price between
\* the farthest listed support and the farthest listed resistance is listed.
LevelsAreNearest(a) ==
  LET s == a.levels.supports
      r == a.levels.resistances
      listed == {x.price : x \in ToSet(s) \cup ToSet(r)}
  IN /\ \A x \in ToSet(s) : NotLess(quote.price, x.price)
     /\ \A x \in ToSet(r) : NotLess(x.price, quote.price)
     /\ \A k \in Known(a.daily, a.intraday[5]) :
          \/ \E p \in listed : SameValue(p, k.price)
          \/ Len(s) = 3 /\ Less(k.price, Last(s).price)
          \/ Len(r) = 3 /\ Less(Last(r).price, k.price)

\* A verdict never contradicts the numbers beside it: "both up" stands only at
\* or above the 60-day average and every intraday one, "dip" above the first
\* and not above the intraday SMA20, "down" below both daily averages and
\* always with its risk flag.
VerdictIsBacked(a, i, ind) ==
  LET Over(v) == v = Missing \/ NotLess(quote.price, v)
  IN /\ a.verdict = "both up" => Over(ind.sma60) /\ Over(i.sma5) /\ Over(i.sma20) /\ Over(i.vwap)
     /\ a.verdict = "dip in uptrend" => Over(ind.sma60) /\ NotLess(i.sma20, quote.price)
     /\ a.verdict = "down" => NotLess(ind.sma20, quote.price) /\ NotLess(ind.sma60, quote.price)
     /\ (a.verdict = "down") = ("down" \in a.flags)

\* The daily comparison looks back: previous_close and the 20-day range come
\* from days before the quote's, also while today's bar is still changing;
\* only a stock whose single bar is today's is compared with itself.
BaselinesArePast ==
  algorithm = "chart" /\ Len(bars) >= 2 =>
    LET previous == PreviousBar(bars, quote.today)
    IN /\ bars[previous].date < quote.today
       /\ \A j \in DOMAIN bars : bars[j].date < quote.today => j <= previous
       /\ \A b \in ToSet(RangeBars(bars)) : b.date < quote.today

\* What the page says of an instrument is backed by the numbers it shows.
AnalysisIsBacked ==
  /\ \A a \in Analyses :
       VerdictIsBacked(a, a.intraday[5], Indicators(bars)) /\ LevelsAreNearest(a)
  /\ BaselinesArePast
=============================================================================
