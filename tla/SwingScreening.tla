--------------------------- MODULE SwingScreening ---------------------------
(***************************************************************************)
(* The indicators (indicators/) and the multi-setup swing strategy         *)
(* (screening/swing.py) over one symbol's daily bars, oldest first.        *)
(*                                                                         *)
(* A bar is [open, high, low, close, volume] in integers.  A Decimal       *)
(* quotient is a pair <<n, d>>, compared exactly (the code has 28 digits); *)
(* thresholds are the code's, in hundredths; a score is a number of        *)
(* hundredths of a point, rounded half up where the code quantizes.        *)
(* The lengths of the windows, 20, 60 and 14 in IndicatorService and the   *)
(* lookbacks of SwingScreeningConfig, are constants.                       *)
(***************************************************************************)
EXTENDS Integers, Sequences, FiniteSets, SequencesExt, FiniteSetsExt, Ordering

CONSTANTS
  Sma20, Sma60, Atr14,          \* windows of the indicators
  BoxLookback, PullbackLookback, PullbackVolumeLookback,
  RangeLookback, ShortLookback, LongLookback,   \* contraction_*_lookback
  MinimumHistory,               \* minimum_history_bars
  MinimumClose,                 \* minimum_close
  MinimumValue                  \* minimum_average_trading_value_20

\* Mutant: the bar before the contraction window is forgotten.
ConfigAcceptsShort(m, box, pull, pullVolume, range, short, long, history) ==
  /\ \A n \in {box, pull, pullVolume, range, short, long} : n > 0
  /\ pullVolume <= pull
  /\ short <= long
  /\ history >= Max({m, box + 1, pull + 1, pullVolume + 1, range + 1, long + 1})

\* SwingScreeningConfig.__post_init__, for the lookbacks; m is the constant 20.
ConfigAccepts(m, box, pull, pullVolume, range, short, long, history) ==
  /\ \A n \in {box, pull, pullVolume, range, short, long} : n > 0
  /\ pullVolume <= pull
  /\ short <= long
  /\ history >= Max({m, box + 1, pull + 1, pullVolume + 1, range + 1, long + 2})

\* __post_init__ leaves out what the default history of 61 bars gives: the
\* longest average fits, and the first bar's range stays out of ATR14.
ASSUME ScreeningAssumption ==
  /\ {Sma20, Sma60, Atr14} \subseteq Nat \ {0} /\ {MinimumClose, MinimumValue} \subseteq Int
  /\ {BoxLookback, PullbackLookback, PullbackVolumeLookback, RangeLookback, ShortLookback,
      LongLookback, MinimumHistory} \subseteq Nat
  /\ MinimumHistory >= Sma60 /\ MinimumHistory > Atr14
  /\ ConfigAccepts(Sma20, BoxLookback, PullbackLookback, PullbackVolumeLookback,
                   RangeLookback, ShortLookback, LongLookback, MinimumHistory)

Missing == <<>>                          \* None
Zero == <<0, 1>>

\* s[-n:] and s[-n-1:-1].
Suffix(s, n) == SubSeq(s, Max({1, Len(s) - n + 1}), Len(s))
PriorBars(s, n) == Suffix(Front(s), n)

SumOf(s) == MapThenSumSet(LAMBDA i : s[i], DOMAIN s)
Closes(s) == [i \in DOMAIN s |-> s[i].close]
Volumes(s) == [i \in DOMAIN s |-> s[i].volume]

\* Mutant: only the last bar's high.
HighestOfLast(s) == Last(s).high
Highest(s) == Max({s[i].high : i \in DOMAIN s})
Lowest(s) == Min({s[i].low : i \in DOMAIN s})
Distance(a, b) == IF a >= b THEN a - b ELSE b - a

\* a / b, and 0 where the code guards a zero divisor.
Div(a, b) == IF b[1] = 0 THEN Zero ELSE <<a[1] * b[2], a[2] * b[1]>>
Less(a, b) == a[1] * b[2] < b[1] * a[2]
AtMost(a, hundredths) == 100 * a[1] <= hundredths * a[2]
AtLeast(a, hundredths) == 100 * a[1] >= hundredths * a[2]
Whole(n) == <<n, 1>>

------------------------------------------------------------------------------
\* indicators/calculations.py

SimpleMovingAverage(values, period) ==
  IF Len(values) < period THEN Missing ELSE <<SumOf(Suffix(values, period)), period>>

\* Seeded with the average of the first window.
ExponentialMovingAverage(values, period) ==
  IF Len(values) < period THEN Missing
  ELSE FoldLeft(LAMBDA ema, v : <<2 * v * ema[2] + (period - 1) * ema[1], (period + 1) * ema[2]>>,
                <<SumOf(SubSeq(values, 1, period)), period>>,
                SubSeq(values, period + 1, Len(values)))

TrueRange(bar, previousClose) ==
  Max({bar.high - bar.low, Distance(bar.high, previousClose), Distance(bar.low, previousClose)})

AverageTrueRange(bars, period) ==
  IF Len(bars) < period THEN Missing
  ELSE SimpleMovingAverage(
         [i \in DOMAIN bars |-> IF i = 1 THEN bars[i].high - bars[i].low
                                ELSE TrueRange(bars[i], bars[i - 1].close)], period)

\* IndicatorService.calculate, for the values the strategy uses.
Indicators(bars) ==
  [sma20 |-> SimpleMovingAverage(Closes(bars), Sma20),
   sma60 |-> SimpleMovingAverage(Closes(bars), Sma60),
   ema20 |-> ExponentialMovingAverage(Closes(bars), Sma20),
   atr14 |-> AverageTrueRange(bars, Atr14)]

------------------------------------------------------------------------------
\* The scores of swing.py.

RoundHalfUp(x, y) == x \div y + (IF 2 * (x % y) >= y THEN 1 ELSE 0)

\* quantize_score(x / y * 100): clamped to 0..100 points.  The product with
\* 10000 is taken in two steps to stay within TLC's integers.
Score(x, y) ==
  IF x <= 0 THEN 0 ELSE IF x >= y THEN 10000
  ELSE 100 * ((100 * x) \div y) + RoundHalfUp(100 * ((100 * x) % y), y)

HighIsGood(v, minimum, maximum) ==
  Score(100 * v[1] - minimum * v[2], (maximum - minimum) * v[2])

LowIsGood(v, best, worst) ==
  Score(worst * v[2] - 100 * v[1], (worst - best) * v[2])

TriangularScore(v, minimum, ideal, maximum) ==
  IF AtMost(v, ideal) THEN HighIsGood(v, minimum, ideal) ELSE LowIsGood(v, ideal, maximum)

\* quantize_score of a weighted sum; parts are pairs of a weight and a score.
Weighted(parts) ==
  Min({10000, RoundHalfUp(SumOf([i \in DOMAIN parts |-> parts[i][1] * parts[i][2]]), 100)})

------------------------------------------------------------------------------
\* MultiSetupSwingStrategy

SetupOrder == <<"volatility_contraction_breakout", "box_breakout", "trend_pullback">>
NotEvaluated == [ok |-> FALSE, score |-> 0, rules |-> <<>>]
All(rules) == \A i \in DOMAIN rules : rules[i]

Trend(ind) == ind.sma20 # Missing /\ ind.sma60 # Missing /\ Less(ind.sma60, ind.sma20)

Above(close, average) == average # Missing /\ Less(average, Whole(close))

\* _common: the rules every candidate has to meet, and the metrics.
Common(bars, ind) ==
  IF bars = <<>> THEN [ok |-> FALSE, reasons |-> {"missing_target_bar"}]
  ELSE
  LET latest == Last(bars)
      window == Suffix(bars, Sma20)
      value == IF Len(bars) < Sma20 THEN Zero
               ELSE <<SumOf([i \in DOMAIN window |-> window[i].close * window[i].volume]), Sma20>>
      atrPct == IF ind.atr14 = Missing \/ latest.close <= 0 THEN Zero
                ELSE Div(ind.atr14, Whole(latest.close))
      failed == [insufficient_history |-> Len(bars) < MinimumHistory,
                 invalid_price |-> latest.close < MinimumClose,
                 zero_volume |-> latest.volume <= 0,
                 missing_indicator |-> Missing \in {ind.sma20, ind.sma60, ind.atr14},
                 insufficient_liquidity |-> Less(value, Whole(MinimumValue)),
                 excessive_volatility |-> ~AtMost(atrPct, 12)]
  IN [ok |-> \A r \in DOMAIN failed : ~failed[r],
      reasons |-> {r \in DOMAIN failed : failed[r]},
      value |-> value, atr_pct |-> atrPct, sma20 |-> ind.sma20, sma60 |-> ind.sma60]

Box(bars, ind) ==
  IF Len(bars) < BoxLookback + 1 THEN NotEvaluated
  ELSE
  LET latest == Last(bars)
      prior == PriorBars(bars, BoxLookback)
      hi == Highest(prior)
      average == <<SumOf(Volumes(prior)), Len(prior)>>
      width == Div(Whole(hi - Lowest(prior)), Whole(hi))
      breakout == Div(Whole(latest.close - hi), Whole(hi))
      volumeRatio == Div(Whole(latest.volume), average)
      rules == <<Trend(ind), Above(latest.close, ind.sma20), hi > 0 /\ AtMost(width, 15),
                 latest.close >= hi, AtLeast(volumeRatio, 120), latest.close >= latest.open>>
  IN [ok |-> All(rules), rules |-> rules,
      score |-> Weighted(<< <<35, LowIsGood(width, 5, 15)>>,
                            <<30, HighIsGood(breakout, 0, 5)>>,
                            <<35, HighIsGood(volumeRatio, 120, 300)>> >>)]

Pullback(bars, ind) ==
  IF Len(bars) < PullbackLookback + 1 THEN NotEvaluated
  ELSE
  LET latest == Last(bars)
      prior == PriorBars(bars, PullbackLookback)
      peak == Max({prior[i].close : i \in DOMAIN prior})
      depth == Div(Whole(peak - latest.close), Whole(peak))
      ema == IF ind.ema20 = Missing THEN Zero ELSE ind.ema20
      distance == IF ema[1] <= 0 THEN Zero
                  ELSE <<Distance(latest.close * ema[2], ema[1]), ema[1]>>
      average == <<SumOf(Volumes(prior)), Len(prior)>>
      short == <<SumOf(Volumes(Suffix(prior, PullbackVolumeLookback))), PullbackVolumeLookback>>
      volumeRatio == Div(short, average)
      body == Div(Whole(latest.close - latest.open), Whole(latest.open))
      rules == <<Trend(ind), Above(latest.close, ind.sma60), ema[1] > 0,
                 AtLeast(depth, 3) /\ AtMost(depth, 12), AtMost(distance, 4),
                 ind.sma20 # Missing /\ 100 * latest.close * ind.sma20[2] >= 98 * ind.sma20[1],
                 latest.close > bars[Len(bars) - 1].close, latest.close >= latest.open,
                 AtMost(volumeRatio, 90)>>
  IN [ok |-> All(rules), rules |-> rules,
      score |-> Weighted(<< <<35, TriangularScore(depth, 3, 6, 12)>>,
                            <<30, LowIsGood(distance, 0, 4)>>,
                            <<20, LowIsGood(volumeRatio, 50, 90)>>,
                            <<15, HighIsGood(body, 0, 3)>> >>)]

Contraction(bars, ind) ==
  IF Len(bars) < LongLookback + 2 THEN NotEvaluated
  ELSE
  LET latest == Last(bars)
      prior == PriorBars(bars, LongLookback)
      range == Suffix(prior, RangeLookback)
      hi == Highest(range)
      width == Div(Whole(hi - Lowest(range)), Whole(hi))
      span == PriorBars(bars, LongLookback + 1)
      ranges == [i \in 1..(Len(span) - 1) |-> TrueRange(span[i + 1], span[i].close)]
      longRange == <<SumOf(ranges), Len(ranges)>>
      shortRange == <<SumOf(Suffix(ranges, ShortLookback)), ShortLookback>>
      rangeRatio == Div(shortRange, longRange)
      longVolume == <<SumOf(Volumes(prior)), Len(prior)>>
      shortVolume == <<SumOf(Volumes(Suffix(prior, ShortLookback))), ShortLookback>>
      volumeRatio == Div(shortVolume, longVolume)
      breakoutRatio == Div(Whole(latest.volume), longVolume)
      rules == <<Trend(ind), Above(latest.close, ind.sma20), hi > 0 /\ AtMost(width, 8),
                 longRange[1] > 0 /\ AtMost(rangeRatio, 70),
                 longVolume[1] > 0 /\ AtMost(volumeRatio, 80),
                 latest.close >= hi, AtLeast(breakoutRatio, 120), latest.close >= latest.open>>
  IN [ok |-> All(rules), rules |-> rules,
      score |-> Weighted(<< <<30, LowIsGood(width, 3, 8)>>,
                            <<25, LowIsGood(rangeRatio, 40, 70)>>,
                            <<20, LowIsGood(volumeRatio, 50, 80)>>,
                            <<25, HighIsGood(breakoutRatio, 120, 300)>> >>)]

\* evaluate(): the setups that match, in SETUP_ORDER, and the primary one, the
\* first of those with the best score.
Matched(common, setups) == KeepIf(SetupOrder, LAMBDA n : setups[n].ok /\ common.ok)

Primary(setups, matched) ==
  LET best == Max({setups[n].score : n \in ToSet(matched)})
  IN IF matched = <<>> THEN "none" ELSE Head(KeepIf(matched, LAMBDA n : setups[n].score = best))

Screening(common, setups, matched) ==
  [passed |-> matched # <<>>, common |-> common, setups |-> setups, matched |-> matched,
   primary |-> Primary(setups, matched)]

Conclude(common, setups) == Screening(common, setups, Matched(common, setups))

Evaluate(bars, ind) ==
  Conclude(Common(bars, ind),
           [box_breakout |-> Box(bars, ind), trend_pullback |-> Pullback(bars, ind),
            volatility_contraction_breakout |-> Contraction(bars, ind)])
=============================================================================
