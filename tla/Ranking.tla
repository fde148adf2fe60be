------------------------------ MODULE Ranking ------------------------------
(***************************************************************************)
(* Scoring and ranking of the passing results (ranking/ranker.py): the     *)
(* swing ranker that main.py wires, the older CandidateRanker, and the     *)
(* selection of the pipeline (threshold and maximum number).               *)
(*                                                                         *)
(* A result is [symbol, passed, primary, matched, scores, sma20, sma60,    *)
(* value, atr_pct]; symbols are numbers in their order, none is blank.     *)
(***************************************************************************)
EXTENDS SwingScreening, Ordering

CONSTANTS
  MinimumCandidateScore,   \* in hundredths of a point
  MaximumCandidates

ASSUME RankingAssumption ==
  MinimumCandidateScore \in 0..10000 /\ MaximumCandidates \in Nat \ {0}

\* _linear_score between two ratios in hundredths.
LinearScore(v, minimum, maximum) == HighIsGood(v, minimum, maximum)

\* (a - b) / b where b is positive.
Gain(a, b) == <<a[1] * b[2] - b[1] * a[2], a[2] * b[1]>>

\* _validate_request: results that did not pass and repeated symbols are errors.
ValidRequest(results) ==
  /\ \A i \in DOMAIN results : results[i].passed
  /\ \A i, j \in DOMAIN results : results[i].symbol = results[j].symbol => i = j

------------------------------------------------------------------------------
\* CandidateRanker: a component without its metrics scores zero.

ScoreTrend(sma20, sma60) ==
  IF Missing \in {sma20, sma60} THEN 0
  ELSE IF sma60[1] <= 0 THEN 0 ELSE LinearScore(Gain(sma20, sma60), 0, 20)

ScoreBreakout(close, previousHigh) ==
  IF Missing \in {close, previousHigh} THEN 0
  ELSE IF previousHigh[1] <= 0 THEN 0 ELSE LinearScore(Gain(close, previousHigh), 0, 10)

ScoreVolume(volume, average) ==
  IF Missing \in {volume, average} THEN 0
  ELSE IF volume[1] < 0 \/ average[1] <= 0 THEN 0 ELSE LinearScore(Div(volume, average), 100, 300)

\* Full marks from 3 to 6 percent, none up to 1 and from 12 percent on.
ScoreVolatility(atr14, close) ==
  IF Missing \in {atr14, close} THEN 0
  ELSE IF close[1] <= 0 \/ atr14[1] < 0 THEN 0
  ELSE LET ratio == Div(atr14, close)
       IN CASE AtMost(ratio, 1) \/ AtLeast(ratio, 12) -> 0
            [] ~AtMost(ratio, 1) /\ ~AtLeast(ratio, 3) -> LinearScore(ratio, 1, 3)
            [] AtLeast(ratio, 3) /\ AtMost(ratio, 6)   -> 10000
            [] OTHER -> Score(12 * ratio[2] - 100 * ratio[1], 6 * ratio[2])

\* m holds sma20, sma60, close, previous_high20, volume, avg_volume20, atr14.
ScoreCandidate(m) ==
  LET parts == [trend |-> ScoreTrend(m.sma20, m.sma60),
                breakout |-> ScoreBreakout(m.close, m.previous_high20),
                volume |-> ScoreVolume(m.volume, m.avg_volume20),
                volatility |-> ScoreVolatility(m.atr14, m.close)]
  IN [components |-> parts,
      total |-> Weighted(<< <<30, parts.trend>>, <<30, parts.breakout>>,
                            <<25, parts.volume>>, <<15, parts.volatility>> >>)]

------------------------------------------------------------------------------
\* SwingCandidateRanker

\* The same trapezoid once more, over atr_pct.
SwingVolatility(atr) ==
  CASE AtMost(atr, 1) \/ AtLeast(atr, 12) -> 0
    [] ~AtMost(atr, 1) /\ ~AtLeast(atr, 3) -> LinearScore(atr, 1, 3)
    [] AtLeast(atr, 3) /\ AtMost(atr, 6)   -> 10000
    [] OTHER -> Score(12 * atr[2] - 100 * atr[1], 6 * atr[2])

SwingTrend(sma20, sma60) ==
  LinearScore(IF sma60 # Missing /\ sma60[1] > 0
              THEN Gain(IF sma20 = Missing THEN Zero ELSE sma20, sma60) ELSE Zero, 0, 20)

SwingWeights == [trend |-> 25, setup |-> 45, liquidity |-> 15, volatility |-> 15]

ScoreSwing(r) ==
  LET trend == SwingTrend(r.sma20, r.sma60)
      setup == Max({0} \cup {r.scores[n] : n \in ToSet(r.matched)})
      liquidity == LinearScore(IF MinimumValue > 0 THEN Div(r.value, Whole(MinimumValue)) ELSE Zero,
                               100, 500)
      volatility == SwingVolatility(r.atr_pct)
  IN [symbol |-> r.symbol, primary |-> r.primary,
      components |-> [trend |-> trend, setup |-> setup, liquidity |-> liquidity,
                      volatility |-> volatility],
      total |-> Weighted(<< <<SwingWeights.trend, trend>>, <<SwingWeights.setup, setup>>,
                            <<SwingWeights.liquidity, liquidity>>,
                            <<SwingWeights.volatility, volatility>> >>)]

\* The sort key of the swing ranker, of which a smaller one ranks first.
PlaceOf(setup) ==
  IF setup \notin ToSet(SetupOrder) THEN Len(SetupOrder)
  ELSE CHOOSE i \in DOMAIN SetupOrder : SetupOrder[i] = setup

\* Mutant: the symbol is left out.
RankKeyWithTies(c) == <<-c.total, -c.components.setup, PlaceOf(c.primary)>>
RankKey(c) == <<-c.total, -c.components.setup, PlaceOf(c.primary), c.symbol>>

SmallerKey(a, b) ==
  \E i \in DOMAIN a : a[i] < b[i] /\ \A j \in 1..(i - 1) : a[j] = b[j]

\* A stable sort by the key; the rank is the position.
Sorted(scored, key) ==
  LET InFront(i, j) == SmallerKey(key[i], key[j]) \/ (key[i] = key[j] /\ i < j)
      order == InOrder(DOMAIN scored, InFront)
  IN [i \in DOMAIN order |-> scored[order[i]]]

SortedByKey(scored) == Sorted(scored, [i \in DOMAIN scored |-> RankKey(scored[i])])
Rank(results) == SortedByKey([i \in DOMAIN results |-> ScoreSwing(results[i])])

\* The pipeline keeps the qualified ones, at most MaximumCandidates of them.
Qualified(ranked) == KeepIf(ranked, LAMBDA c : c.total >= MinimumCandidateScore)
Selected(ranked) ==
  LET q == Qualified(ranked) IN SubSeq(q, 1, Min({MaximumCandidates, Len(q)}))
=============================================================================
