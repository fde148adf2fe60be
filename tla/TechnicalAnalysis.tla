------------------------- MODULE TechnicalAnalysis -------------------------
(***************************************************************************)
(* GET /market/analysis/{symbol} (technical_analysis.py): the candles of   *)
(* three timeframes, the daily and the intraday summary, price levels and  *)
(* the verdict.  A minute bar is [t, open, high, low, close, volume,       *)
(* currency] with t in minutes of Seoul time; a daily bar has a date.      *)
(* Texts are codes; fields that only repeat an input are left out.         *)
(***************************************************************************)
EXTENDS Ranking

CONSTANT Sma5          \* the short intraday window, 5 in the code

ASSUME ChartAssumption == Sma5 \in Nat \ {0}

SameValue(a, b) == a[1] * b[2] = b[1] * a[2]

\* _ratio: (value - base) / base in ten-thousandths, rounded half up.
Ratio(value, base) ==
  LET x == value[1] * base[2] - base[1] * value[2]
      y == value[2] * base[1]
  IN IF base[1] <= 0 THEN Missing
     ELSE <<IF x >= 0 THEN RoundHalfUp(10000 * x, y) ELSE -RoundHalfUp(-10000 * x, y), 10000>>

Mean(values) == IF values = <<>> THEN Missing ELSE <<SumOf(values), Len(values)>>

\* aggregate_minute_bars: the wall-clock bucket of a bar, and one candle of the
\* bars in a bucket, given in time order.
Bucket(t, minutes) == t - ((t % 60) % minutes)

\* Mutant: the high of the last bar.
CandleOfLastHigh(bucket, values) ==
  [t |-> bucket, open |-> Head(values).open, high |-> Last(values).high, low |-> Lowest(values),
   close |-> Last(values).close, volume |-> SumOf(Volumes(values)),
   currency |-> Head(values).currency]

Candle(bucket, values) ==
  [t |-> bucket, open |-> Head(values).open, high |-> Highest(values), low |-> Lowest(values),
   close |-> Last(values).close, volume |-> SumOf(Volumes(values)),
   currency |-> Head(values).currency]

\* The ValueError for candles that would mix currencies.
Mixes(bars, minutes) ==
  \E a, b \in ToSet(bars) : Bucket(a.t, minutes) = Bucket(b.t, minutes) /\ a.currency # b.currency

Aggregate(bars, minutes) ==
  LET sorted == InOrder(ToSet(bars), LAMBDA a, b : a.t < b.t)
      buckets == InOrder({Bucket(b.t, minutes) : b \in ToSet(bars)}, <)
      Group(k) == KeepIf(sorted, LAMBDA b : Bucket(b.t, minutes) = k)
  IN IF minutes = 1 THEN bars
     ELSE [i \in DOMAIN buckets |-> Candle(buckets[i], Group(buckets[i]))]

\* _vwap over the typical prices.
Vwap(bars) ==
  LET volume == SumOf(Volumes(bars))
  IN IF volume <= 0 THEN Missing
     ELSE <<SumOf([i \in DOMAIN bars |->
                     (bars[i].high + bars[i].low + bars[i].close) * bars[i].volume]), 3 * volume>>

NotLess(a, b) == ~Less(a, b)

IntradayTrend(price, sma5, sma20, vwap) ==
  CASE sma20 = Missing -> "insufficient"
    [] sma20 # Missing /\ NotLess(price, sma5) /\ NotLess(sma5, sma20)
         /\ (vwap = Missing \/ NotLess(price, vwap)) -> "bullish"
    [] sma20 # Missing /\ ~(NotLess(price, sma5) /\ NotLess(sma5, sma20)
                              /\ (vwap = Missing \/ NotLess(price, vwap)))
         /\ NotLess(sma5, price) /\ NotLess(sma20, sma5)
         /\ (vwap = Missing \/ NotLess(vwap, price)) -> "bearish"
    [] OTHER -> "neutral"

Day(bar) == bar.t \div 1440

\* _intraday_summary of one timeframe; without bars all but the trend is missing.
IntradaySummary(bars, price) ==
  LET session == KeepIf(bars, LAMBDA b : Day(b) = Day(Last(bars)))
      recent == Suffix(bars, Sma20)
      closes == Closes(bars)
      sma5 == Mean(Suffix(closes, Sma5))
      sma20 == IF Len(closes) >= Sma20 THEN Mean(Suffix(closes, Sma20)) ELSE Missing
      prior == IF bars = <<>> THEN Missing ELSE Mean(Volumes(PriorBars(bars, Sma20)))
      Of(v) == IF bars = <<>> THEN Missing ELSE Whole(v)
  IN [trend |-> IntradayTrend(price, sma5, sma20, Vwap(session)),
      session_open |-> Of(Head(session).open),
      session_high |-> Of(Highest(session)),
      session_low  |-> Of(Lowest(session)),
      change_from_open |-> IF bars = <<>> THEN Missing ELSE Ratio(price, Whole(Head(session).open)),
      sma5 |-> sma5, sma20 |-> sma20, vwap |-> Vwap(session),
      momentum |-> IF Len(bars) > Sma5 THEN Ratio(price, Whole(bars[Len(bars) - Sma5].close))
                   ELSE Missing,
      volume_ratio |-> IF prior = Missing \/ prior[1] = 0 THEN Missing
                       ELSE Div(Whole(Last(bars).volume), prior),
      recent_high |-> Of(Highest(recent)), recent_low |-> Of(Lowest(recent))]

\* _daily_summary: the trend of the current price against the averages.
DailyTrend(price, ind) ==
  CASE Missing \in {ind.sma20, ind.sma60} -> "insufficient"
    [] Trend(ind) /\ NotLess(price, ind.sma20) -> "bullish"
    [] Trend(ind) /\ ~NotLess(price, ind.sma20) /\ NotLess(price, ind.sma60) -> "pullback"
    [] ~(Missing \in {ind.sma20, ind.sma60}) /\ Less(ind.sma20, ind.sma60)
         /\ NotLess(ind.sma20, price) -> "bearish"
    [] OTHER -> "neutral"

\* The bar whose close is previous_close, and the bars of the 20-day range.
PreviousBar(bars, today) ==
  IF Len(bars) >= 2 /\ Last(bars).date = today THEN Len(bars) - 1 ELSE Len(bars)
RangeBars(bars) == IF Len(bars) >= 2 THEN PriorBars(bars, Sma20) ELSE bars

\* What the ranker is given of a screening result.
AsResult(screening) ==
  [symbol |-> 1, passed |-> TRUE, primary |-> screening.primary, matched |-> screening.matched,
   scores |-> [n \in DOMAIN screening.setups |-> screening.setups[n].score],
   sma20 |-> screening.common.sma20, sma60 |-> screening.common.sma60,
   value |-> screening.common.value, atr_pct |-> screening.common.atr_pct]

TotalScore(screening) ==
  IF screening.passed THEN <<Rank(<<AsResult(screening)>>)[1].total>> ELSE Missing

SummaryOfDays(bars, price, today, ind, screening, total) ==
  LET range == RangeBars(bars)
      previous == PreviousBar(bars, today)
      Of(v) == IF bars = <<>> THEN Missing ELSE Whole(v)
  IN [trend |-> DailyTrend(price, ind),
      previous_close |-> Of(bars[previous].close),
      change |-> IF bars = <<>> THEN Missing ELSE Ratio(price, Whole(bars[previous].close)),
      sma20 |-> ind.sma20,
      recent_high |-> Of(Highest(range)), recent_low |-> Of(Lowest(range)),
      screening_passed |-> screening.passed, total_score |-> total,
      meets_threshold |-> total # Missing /\ total[1] >= MinimumCandidateScore,
      common_failures |-> screening.common.reasons,
      setup_progress |-> [n \in {k \in DOMAIN screening.setups : screening.setups[k].rules # <<>>} |->
        LET rules == screening.setups[n].rules
        IN <<Cardinality({i \in DOMAIN rules : rules[i]}), Len(rules)>>]]

ScreenedSummary(bars, price, today, ind, screening) ==
  SummaryOfDays(bars, price, today, ind, screening, TotalScore(screening))

DailySummary(bars, price, today, ind) ==
  ScreenedSummary(bars, price, today, ind, Evaluate(bars, ind))

\* The prices that _levels collects, with their basis.
Known(daily, intraday) ==
  {l \in {[price |-> intraday.vwap, basis |-> "vwap"],
          [price |-> intraday.sma20, basis |-> "intraday sma20"],
          [price |-> intraday.session_low, basis |-> "session low"],
          [price |-> intraday.session_high, basis |-> "session high"],
          [price |-> intraday.recent_low, basis |-> "recent low"],
          [price |-> intraday.recent_high, basis |-> "recent high"],
          [price |-> daily.sma20, basis |-> "daily sma20"],
          [price |-> daily.recent_low, basis |-> "daily low"],
          [price |-> daily.recent_high, basis |-> "daily high"]} :
     l.price # Missing /\ l.price[1] >= 0}

\* _levels: equal prices are one level; the three nearest on either side.
Nearest(levels) == SubSeq(levels, 1, Min({3, Len(levels)}))

Levels(price, daily, intraday) ==
  LET known == Known(daily, intraday)
      Level(l) == {k \in known : SameValue(k.price, l.price)}
      Price(level) == (CHOOSE k \in level : TRUE).price
      Down(a, b) == Less(Price(b), Price(a))
      Up(a, b) == Less(Price(a), Price(b))
      below == InOrder({Level(l) : l \in {k \in known : NotLess(price, k.price)}}, Down)
      above == InOrder({Level(l) : l \in {k \in known : NotLess(k.price, price)}}, Up)
      Listed(s) == [i \in DOMAIN s |-> [price |-> Price(s[i]), basis |-> {l.basis : l \in s[i]}]]
  IN [supports |-> Listed(Nearest(below)), resistances |-> Listed(Nearest(above))]

\* Mutant: the day is not asked.
VerdictOfMinutes(daily, intraday) ==
  CASE intraday.trend = "bullish" -> "both up"
    [] intraday.trend = "bearish" -> "dip in uptrend"
    [] intraday.trend \notin {"bullish", "bearish"} /\ daily.trend = "bearish" -> "down"
    [] OTHER -> "mixed"

\* _narrative
Verdict(daily, intraday) ==
  CASE daily.trend \in {"bullish", "pullback"} /\ intraday.trend = "bullish" -> "both up"
    [] daily.trend \in {"bullish", "pullback"} /\ intraday.trend = "bearish" -> "dip in uptrend"
    [] daily.trend = "bearish" -> "down"
    [] OTHER -> "mixed"

EntryConfirmation(levels, intraday) ==
  CASE levels.resistances # <<>> -> levels.resistances[1].price
    [] levels.resistances = <<>> /\ intraday.vwap # Missing -> intraday.vwap
    [] OTHER -> Missing

Invalidation(levels) == IF levels.supports # <<>> THEN levels.supports[1].price ELSE Missing

RiskFlags(price, daily, intraday, warnings, delayed) ==
  LET high == IF intraday.vwap = Missing THEN Missing ELSE Ratio(price, intraday.vwap)
      flags == {f \in {"warning", "delayed", "down", "above vwap", "thin volume"} :
                  CASE f = "warning" -> warnings
                    [] f = "delayed" -> delayed
                    [] f = "down"    -> daily.trend = "bearish"
                    [] f = "above vwap" -> high # Missing /\ AtLeast(high, 3)
                    [] f = "thin volume" -> intraday.volume_ratio # Missing
                                            /\ ~AtLeast(intraday.volume_ratio, 70)}
  IN IF flags = {} THEN {"none"} ELSE flags

\* The answer; the five-minute summary is the one the narrative uses.
Answer(quote, frames, intraday, daily, levels) ==
  [frames |-> frames, intraday |-> intraday, daily |-> daily, levels |-> levels,
   verdict |-> Verdict(daily, intraday[5]),
   entry |-> EntryConfirmation(levels, intraday[5]),
   invalidation |-> Invalidation(levels),
   flags |-> RiskFlags(quote.price, daily, intraday[5], quote.warnings, quote.delayed)]

WithLevels(quote, frames, intraday, daily) ==
  Answer(quote, frames, intraday, daily, Levels(quote.price, daily, intraday[5]))

WithSummaries(quote, daily_bars, frames) ==
  WithLevels(quote, frames, [m \in DOMAIN frames |-> IntradaySummary(frames[m], quote.price)],
             DailySummary(daily_bars, quote.price, quote.today, Indicators(daily_bars)))

\* The whole analysis, when no candle mixes currencies: the timeframes, their
\* summaries, the levels and the narrative, each from the ones before.  A quote
\* is [price, today, warnings, delayed], the instrument's warnings included.
AnalyzeRealtime(quote, daily_bars, minute_bars) ==
  WithSummaries(quote, daily_bars, [m \in {1, 5, 10} |-> Aggregate(minute_bars, m)])
=============================================================================
