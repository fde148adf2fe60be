--------------------------- MODULE AlgorithmsProofs ---------------------------
(***************************************************************************)
(* What the pure algorithms return, for every input: the statistics of a   *)
(* backtest for any finite set of trades, the ranking of any batch, and    *)
(* the screening of any history under any accepted configuration.          *)
(***************************************************************************)
EXTENDS Algorithms, FoldTheorems, SequenceTheorems

-----------------------------------------------------------------------------
(***************************************************************************)
(* The trades of a run, and the orders in which the two loops see them.    *)
(***************************************************************************)

TradeRecord == [id: Int, symbol: Int, entry: Int, exit: Int, pnl: Int,
                reason: {ExitReasons[i] : i \in 1..6}]

\* Finitely many trades with ids of their own.
Recorded(T) ==
  /\ IsFiniteSet(T) /\ T \subseteq TradeRecord
  /\ \A t, u \in T : t.id = u.id => t = u

\* Lexicographic order, written out for two, three and four numbers.
LEMMA BeforeTwo ==
  ASSUME NEW a, NEW b, Len(a) = 2
  PROVE  Before(a, b) <=> \/ a[1] < b[1]
                          \/ a[2] < b[2] /\ a[1] = b[1]
<1>1. 1..2 = {1, 2} /\ 1..0 = {} /\ 1..1 = {1}
  OBVIOUS
<1>2. Before(a, b) <=> \/ a[1] < b[1] /\ \A j \in 1..0 : a[j] = b[j]
                       \/ a[2] < b[2] /\ \A j \in 1..1 : a[j] = b[j]
  BY <1>1 DEF Before
<1> QED
  BY <1>1, <1>2

\* Three.
LEMMA BeforeThree ==
  ASSUME NEW a, NEW b, Len(a) = 3
  PROVE  Before(a, b) <=> \/ a[1] < b[1]
                          \/ a[2] < b[2] /\ a[1] = b[1]
                          \/ a[3] < b[3] /\ a[1] = b[1] /\ a[2] = b[2]
<1>1. 1..3 = {1, 2, 3} /\ 1..0 = {} /\ 1..1 = {1} /\ 1..2 = {1, 2}
  OBVIOUS
<1>2. Before(a, b) <=> \/ a[1] < b[1] /\ \A j \in 1..0 : a[j] = b[j]
                       \/ a[2] < b[2] /\ \A j \in 1..1 : a[j] = b[j]
                       \/ a[3] < b[3] /\ \A j \in 1..2 : a[j] = b[j]
  BY <1>1 DEF Before
<1> QED
  BY <1>1, <1>2

\* Four.
LEMMA BeforeFour ==
  ASSUME NEW a, NEW b, Len(a) = 4
  PROVE  Before(a, b) <=> \/ a[1] < b[1]
                          \/ a[2] < b[2] /\ a[1] = b[1]
                          \/ a[3] < b[3] /\ a[1] = b[1] /\ a[2] = b[2]
                          \/ a[4] < b[4] /\ a[1] = b[1] /\ a[2] = b[2] /\ a[3] = b[3]
<1>1. 1..4 = {1, 2, 3, 4} /\ 1..0 = {} /\ 1..1 = {1} /\ 1..2 = {1, 2} /\ 1..3 = {1, 2, 3}
  OBVIOUS
<1>2. Before(a, b) <=> \/ a[1] < b[1] /\ \A j \in 1..0 : a[j] = b[j]
                       \/ a[2] < b[2] /\ \A j \in 1..1 : a[j] = b[j]
                       \/ a[3] < b[3] /\ \A j \in 1..2 : a[j] = b[j]
                       \/ a[4] < b[4] /\ \A j \in 1..3 : a[j] = b[j]
  BY <1>1 DEF Before
<1> QED
  BY <1>1, <1>2

\* The keys of the two sorts, as sets of pairs.
ByExit(T) == {p \in T \X T : Before(<<p[1].exit, p[1].symbol, p[1].id>>,
                                    <<p[2].exit, p[2].symbol, p[2].id>>)}
ByExitAndEntry(T) ==
  {p \in T \X T : Before(<<p[1].exit, p[1].entry, p[1].symbol, p[1].id>>,
                         <<p[2].exit, p[2].entry, p[2].symbol, p[2].id>>)}

\* What it takes for two trades to be such a pair.
LEMMA PairsByExit ==
  ASSUME NEW T, NEW t \in T, NEW u \in T
  PROVE  <<t, u>> \in ByExit(T)
           <=> \/ t.exit < u.exit \/ (t.exit = u.exit /\ t.symbol < u.symbol)
               \/ (t.exit = u.exit /\ t.symbol = u.symbol /\ t.id < u.id)
<1>1. <<t, u>> \in ByExit(T)
        <=> Before(<<t.exit, t.symbol, t.id>>, <<u.exit, u.symbol, u.id>>)
  BY DEF ByExit
<1>2. PICK a : a = <<t.exit, t.symbol, t.id>>
  OBVIOUS
<1>3. PICK b : b = <<u.exit, u.symbol, u.id>>
  OBVIOUS
<1>4. Len(a) = 3 /\ a[1] = t.exit /\ a[2] = t.symbol /\ a[3] = t.id
  BY <1>2
<1>5. b[1] = u.exit /\ b[2] = u.symbol /\ b[3] = u.id
  BY <1>3
<1>6. Before(a, b) <=> \/ a[1] < b[1]
                       \/ a[2] < b[2] /\ a[1] = b[1]
                       \/ a[3] < b[3] /\ a[1] = b[1] /\ a[2] = b[2]
  BY <1>4, BeforeThree
<1>7. <<t, u>> \in ByExit(T) <=> Before(a, b)
  BY <1>1, <1>2, <1>3
<1> QED
  BY <1>4, <1>5, <1>6, <1>7

\* The same of the longer key.
LEMMA PairsByExitAndEntry ==
  ASSUME NEW T, NEW t \in T, NEW u \in T
  PROVE  <<t, u>> \in ByExitAndEntry(T)
           <=> \/ t.exit < u.exit \/ (t.exit = u.exit /\ t.entry < u.entry)
               \/ (t.exit = u.exit /\ t.entry = u.entry /\ t.symbol < u.symbol)
               \/ (t.exit = u.exit /\ t.entry = u.entry /\ t.symbol = u.symbol /\ t.id < u.id)
<1>1. <<t, u>> \in ByExitAndEntry(T)
        <=> Before(<<t.exit, t.entry, t.symbol, t.id>>, <<u.exit, u.entry, u.symbol, u.id>>)
  BY DEF ByExitAndEntry
<1>2. PICK a : a = <<t.exit, t.entry, t.symbol, t.id>>
  OBVIOUS
<1>3. PICK b : b = <<u.exit, u.entry, u.symbol, u.id>>
  OBVIOUS
<1>4. Len(a) = 4 /\ a[1] = t.exit /\ a[2] = t.entry /\ a[3] = t.symbol /\ a[4] = t.id
  BY <1>2
<1>5. b[1] = u.exit /\ b[2] = u.entry /\ b[3] = u.symbol /\ b[4] = u.id
  BY <1>3
<1>6. Before(a, b) <=> \/ a[1] < b[1]
                       \/ a[2] < b[2] /\ a[1] = b[1]
                       \/ a[3] < b[3] /\ a[1] = b[1] /\ a[2] = b[2]
                       \/ a[4] < b[4] /\ a[1] = b[1] /\ a[2] = b[2] /\ a[3] = b[3]
  BY <1>4, BeforeFour
<1>7. <<t, u>> \in ByExitAndEntry(T) <=> Before(a, b)
  BY <1>1, <1>2, <1>3
<1> QED
  BY <1>4, <1>5, <1>6, <1>7

\* Both keys end in the id, so they order all trades.
LEMMA KeysOrder ==
  ASSUME NEW T, Recorded(T)
  PROVE  OrdersAll(ByExit(T), T) /\ OrdersAll(ByExitAndEntry(T), T)
<1>0. \A t \in T : t.exit \in Int /\ t.entry \in Int /\ t.symbol \in Int /\ t.id \in Int
  BY DEF Recorded, TradeRecord
<1>1. OrdersAll(ByExit(T), T)
  <2>1. \A t, u \in T : <<t, u>> \in ByExit(T)
          <=> \/ t.exit < u.exit \/ (t.exit = u.exit /\ t.symbol < u.symbol)
              \/ (t.exit = u.exit /\ t.symbol = u.symbol /\ t.id < u.id)
    BY PairsByExit
  <2> QED
    BY <1>0, <2>1 DEF OrdersAll, Recorded
<1>2. OrdersAll(ByExitAndEntry(T), T)
  <2>1. \A t, u \in T : <<t, u>> \in ByExitAndEntry(T)
          <=> \/ t.exit < u.exit \/ (t.exit = u.exit /\ t.entry < u.entry)
              \/ (t.exit = u.exit /\ t.entry = u.entry /\ t.symbol < u.symbol)
              \/ (t.exit = u.exit /\ t.entry = u.entry /\ t.symbol = u.symbol /\ t.id < u.id)
    BY PairsByExitAndEntry
  <2> QED
    BY <1>0, <2>1 DEF OrdersAll, Recorded
<1> QED
  BY <1>1, <1>2

\* The two sorts are sorts by these pairs.
LEMMA LoopsSort ==
  ASSUME NEW T
  PROVE  /\ AnalysisOrder(T) = Arranged(ByExit(T), T)
         /\ MetricsOrder(T) = Arranged(ByExitAndEntry(T), T)
<1>1. AnalysisOrder(T) = Arranged(ByExit(T), T)
  <2> DEFINE A(x) == {y \in T : Before(<<y.exit, y.symbol, y.id>>, <<x.exit, x.symbol, x.id>>)}
             P(x) == {y \in T : <<y, x>> \in ByExit(T)}
  <2>1. AnalysisOrder(T) = [i \in 1..Cardinality(T) |-> CHOOSE x \in T : Cardinality(A(x)) = i - 1]
    BY DEF AnalysisOrder, InOrder
  <2>2. Arranged(ByExit(T), T) = [i \in 1..Cardinality(T) |-> CHOOSE x \in T : Cardinality(P(x)) = i - 1]
    BY DEF Arranged, InOrder
  <2>3. \A x \in T : A(x) = P(x)
    BY DEF ByExit
  <2> HIDE DEF A, P
  <2>4. ASSUME NEW i \in 1..Cardinality(T)
        PROVE  (CHOOSE x \in T : Cardinality(A(x)) = i - 1) = CHOOSE x \in T : Cardinality(P(x)) = i - 1
    BY <2>3
  <2> QED
    BY <2>1, <2>2, <2>4
<1>2. MetricsOrder(T) = Arranged(ByExitAndEntry(T), T)
  <2> DEFINE A(x) == {y \in T : Before(<<y.exit, y.entry, y.symbol, y.id>>,
                                       <<x.exit, x.entry, x.symbol, x.id>>)}
             P(x) == {y \in T : <<y, x>> \in ByExitAndEntry(T)}
  <2>1. MetricsOrder(T) = [i \in 1..Cardinality(T) |-> CHOOSE x \in T : Cardinality(A(x)) = i - 1]
    BY DEF MetricsOrder, InOrder
  <2>2. Arranged(ByExitAndEntry(T), T)
          = [i \in 1..Cardinality(T) |-> CHOOSE x \in T : Cardinality(P(x)) = i - 1]
    BY DEF Arranged, InOrder
  <2>3. \A x \in T : A(x) = P(x)
    BY DEF ByExitAndEntry
  <2> HIDE DEF A, P
  <2>4. ASSUME NEW i \in 1..Cardinality(T)
        PROVE  (CHOOSE x \in T : Cardinality(A(x)) = i - 1) = CHOOSE x \in T : Cardinality(P(x)) = i - 1
    BY <2>3
  <2> QED
    BY <2>1, <2>2, <2>4
<1> QED
  BY <1>1, <1>2

\* Both loops see every trade once, in the order of their key.
LEMMA LoopsSeeTrades ==
  ASSUME NEW T, Recorded(T)
  PROVE  /\ Lists(AnalysisOrder(T), ByExit(T), T)
         /\ Lists(MetricsOrder(T), ByExitAndEntry(T), T)
<1>1. IsFiniteSet(T)
  BY DEF Recorded
<1> QED
  BY <1>1, LoopsSort, KeysOrder, SortedLists

\* Trades that no two of exit on one day are seen in the same order by both.
LEMMA LoopsSeeOneOrder ==
  ASSUME NEW T, Recorded(T), \A t, u \in T : t.exit = u.exit => t = u
  PROVE  MetricsOrder(T) = AnalysisOrder(T)
<1>0. \A t \in T : t.exit \in Int /\ t.entry \in Int /\ t.symbol \in Int /\ t.id \in Int
  BY DEF Recorded, TradeRecord
<1>1. ASSUME NEW t \in T, NEW u \in T
      PROVE  <<t, u>> \in ByExit(T) <=> t.exit < u.exit
  BY <1>0, PairsByExit
<1>2. ASSUME NEW t \in T, NEW u \in T
      PROVE  <<t, u>> \in ByExitAndEntry(T) <=> t.exit < u.exit
  BY <1>0, PairsByExitAndEntry
<1>3. ByExit(T) = ByExitAndEntry(T)
  BY <1>1, <1>2 DEF ByExit, ByExitAndEntry
<1> QED
  BY <1>3, LoopsSort

\* A function on 1..n is a sequence of length n.
LEMMA ListsAreSequences ==
  ASSUME NEW n \in Nat, NEW T, NEW s \in [1..n -> T]
  PROVE  s \in Seq(T) /\ Len(s) = n /\ DOMAIN s = 1..n
OBVIOUS

-----------------------------------------------------------------------------
(***************************************************************************)
(* The loop of the analysis.                                               *)
(***************************************************************************)

Point == [trade: Int, cumulative: Int, running_peak: Int, drawdown: Int,
          pct: {NoValue} \cup (Int \X Int)]
StreakRecord == [wins: Int, losses: Int, maxWins: Int, maxLosses: Int]
AnalysisRecord == [cumulative: Int, peak: Int, max_drawdown: Int, points: Seq(Point),
                   streak: StreakRecord]
AnalysisStart == [cumulative |-> 0, peak |-> 0, max_drawdown |-> 0, points |-> <<>>,
                  streak |-> Streak0]

\* The counters stay numbers.
LEMMA StreakIsRecord ==
  ASSUME NEW s \in StreakRecord, NEW pnl \in Int, NEW reset \in BOOLEAN
  PROVE  Streak(s, pnl, reset) \in StreakRecord
<1>1. Max({s.maxWins, s.wins + 1}) \in Int /\ Max({s.maxLosses, s.losses + 1}) \in Int
  <2>1. /\ s.maxWins \in Int /\ s.wins + 1 \in Int
        /\ s.maxLosses \in Int /\ s.losses + 1 \in Int
    BY DEF StreakRecord
  <2> QED
    BY <2>1, MaxOfTwo
<1>2. PICK w \in Int : w = Max({s.maxWins, s.wins + 1})
  BY <1>1
<1>3. PICK l \in Int : l = Max({s.maxLosses, s.losses + 1})
  BY <1>1
<1>4. CASE pnl > 0
  BY <1>2, <1>4 DEF Streak, StreakRecord
<1>5. CASE pnl < 0
  BY <1>3, <1>5 DEF Streak, StreakRecord
<1>6. CASE pnl = 0
  <2>1. ~(pnl > 0) /\ ~(pnl < 0)
    BY <1>6
  <2>2. Streak(s, pnl, reset)
          \in {[wins |-> 0, losses |-> 0, maxWins |-> s.maxWins, maxLosses |-> s.maxLosses], s}
    BY <1>6, <2>1 DEF Streak
  <2> QED
    BY <2>2 DEF StreakRecord
<1> QED
  BY <1>4, <1>5, <1>6

\* A turn makes a state of the loop a state of the loop.
LEMMA AnalysisStepIsRecord ==
  ASSUME NEW a \in AnalysisRecord, NEW t \in TradeRecord
  PROVE  AnalysisStep(a, t) \in AnalysisRecord
<1>1. /\ a.cumulative \in Int /\ a.peak \in Int /\ a.max_drawdown \in Int
      /\ a.points \in Seq(Point) /\ a.streak \in StreakRecord
      /\ t.pnl \in Int /\ t.id \in Int
  BY DEF AnalysisRecord, TradeRecord
<1>2. PICK c \in Int : c = a.cumulative + t.pnl
  BY <1>1
<1>3. PICK p \in Int : p = Max({a.peak, c})
  BY <1>1, MaxOfTwo
<1>4. PICK m \in Int : m = Max({a.max_drawdown, p - c})
  BY <1>1, MaxOfTwo
<1>5. Streak(a.streak, t.pnl, TRUE) \in StreakRecord
  BY <1>1, StreakIsRecord
<1> DEFINE point == [trade |-> t.id, cumulative |-> c, running_peak |-> p, drawdown |-> p - c,
                     pct |-> IF p > 0 THEN <<p - c, p>> ELSE NoValue]
<1>6. point \in Point
  BY <1>1 DEF Point
<1>7. AnalysisStep(a, t) = [cumulative |-> c, peak |-> p, max_drawdown |-> m,
                            points |-> Append(a.points, point),
                            streak |-> Streak(a.streak, t.pnl, TRUE)]
  BY <1>2, <1>3, <1>4 DEF AnalysisStep
<1> HIDE DEF point
<1>8. Append(a.points, point) \in Seq(Point)
  BY <1>1, <1>6
<1>9. [cumulative |-> c, peak |-> p, max_drawdown |-> m, points |-> Append(a.points, point),
       streak |-> Streak(a.streak, t.pnl, TRUE)] \in AnalysisRecord
  BY <1>5, <1>8 DEF AnalysisRecord
<1> QED
  BY <1>7, <1>9

\* acc holds the states of the loop over s, from before the first turn to
\* after the last.
AnalysisTurns(acc, s, n) ==
  /\ acc \in [0..n -> AnalysisRecord]
  /\ acc[0] = AnalysisStart
  /\ \A k \in 1..n : acc[k] = AnalysisStep(acc[k - 1], s[k])

\* The fold is the loop.
LEMMA AnalysisLoops ==
  ASSUME NEW n \in Nat, NEW s \in [1..n -> TradeRecord]
  PROVE  \E acc : /\ AnalysisTurns(acc, s, n)
                  /\ FoldLeft(AnalysisStep, AnalysisStart, s) = acc[n]
<1> DEFINE V == AnalysisRecord
           step == [p \in V \X (1..n) |-> AnalysisStep(p[1], s[p[2]])]
           IsFold(i) == i = [x \in SUBSET DOMAIN s |->
                               IF x = {} THEN AnalysisStart
                               ELSE AnalysisStep(i[x \ {Max(x)}], s[Max(x)])]
           it == CHOOSE i : IsFold(i)
<1>0. DOMAIN s = 1..n
  OBVIOUS
<1>1. AnalysisStart \in V
  BY DEF AnalysisStart, AnalysisRecord, StreakRecord, Streak0
<1>2. step \in [V \X (1..n) -> V]
  <2>1. ASSUME NEW p \in V \X (1..n) PROVE AnalysisStep(p[1], s[p[2]]) \in V
    <3>1. p[1] \in V /\ s[p[2]] \in TradeRecord
      OBVIOUS
    <3> QED
      BY <3>1, AnalysisStepIsRecord
  <2> QED
    BY <2>1
<1>3. \A v \in V, k \in 1..n : step[<<v, k>>] = AnalysisStep(v, s[k])
  OBVIOUS
<1> HIDE DEF step
<1>4. PICK j : LeftFoldValues(j, AnalysisStart, step, V, n)
  <2>1. Steps(step, AnalysisStart, V, 1..n)
    BY <1>1, <1>2 DEF Steps
  <2> HIDE DEF V
  <2> QED
    BY <2>1, FoldLeftExists
<1>5. IsFold(j)
  <2>1. ASSUME NEW x \in SUBSET (1..n), x # {}
        PROVE  j[x] = AnalysisStep(j[x \ {Max(x)}], s[Max(x)])
    <3>0. x \in SUBSET (1..n) /\ x # {}
      BY <2>1
    <3>1. IsFiniteSet(x) /\ x \subseteq Int
      <4>1. IsFiniteSet(1..n)
        BY FS_Interval
      <4>2. IsFiniteSet(x)
        BY <3>0, <4>1, FS_Subset
      <4>3. x \subseteq Int
        BY <3>0
      <4> QED
        BY <4>2, <4>3
    <3>2. Max(x) \in x
      BY <2>1, <3>1, MaxOf
    <3>3. j[x] = step[<<j[x \ {Max(x)}], Max(x)>>]
      BY <1>4, <2>1 DEF LeftFoldValues
    <3>4. Max(x) \in 1..n /\ j[x \ {Max(x)}] \in V
      BY <1>4, <3>0, <3>2 DEF LeftFoldValues
    <3> QED
      BY <1>3, <3>3, <3>4
  <2>2. \A x \in SUBSET (1..n) :
          j[x] = IF x = {} THEN AnalysisStart ELSE AnalysisStep(j[x \ {Max(x)}], s[Max(x)])
    BY <1>4, <2>1 DEF LeftFoldValues
  <2>3. j = [x \in SUBSET (1..n) |-> j[x]]
    BY <1>4 DEF LeftFoldValues
  <2> QED
    BY <1>0, <2>2, <2>3
<1>6. IsFold(it)
  BY <1>5
<1>7. FoldLeft(AnalysisStep, AnalysisStart, s) = it[DOMAIN s]
  BY DEF FoldLeft, MapThenFoldSet
<1>8. \A x \in SUBSET (1..n) :
        it[x] = IF x = {} THEN AnalysisStart ELSE AnalysisStep(it[x \ {Max(x)}], s[Max(x)])
  <2> HIDE DEF it
  <2> QED
    BY <1>0, <1>6
<1> HIDE DEF it
<1> DEFINE acc == [k \in 0..n |-> it[1..k]]
<1>9. acc[0] = AnalysisStart
  <2>1. 1..0 = {} /\ 0 \in 0..n
    OBVIOUS
  <2>2. it[1..0] = AnalysisStart
    BY <1>8, <2>1
  <2> QED
    BY <2>1, <2>2
<1>10. ASSUME NEW k \in 1..n PROVE acc[k] = AnalysisStep(acc[k - 1], s[k])
  <2>1. 1..k # {} /\ Max(1..k) = k /\ (1..k) \ {k} = 1..(k - 1)
    <3>1. k \in Nat /\ k # 0
      BY <1>10
    <3> QED
      BY <3>1, FirstPlaces
  <2>2. 1..k \in SUBSET (1..n) /\ k - 1 \in 0..n
    OBVIOUS
  <2>3. it[1..k] = AnalysisStep(it[1..(k - 1)], s[k])
    BY <1>8, <2>1, <2>2
  <2> QED
    BY <2>2, <2>3
<1> HIDE DEF acc
<1>11. \A k \in 0..n : acc[k] \in V
  <2> DEFINE G == {k \in 0..n : acc[k] \in V}
  <2>1. 0 \in G
    BY <1>1, <1>9
  <2>2. ASSUME NEW k \in 1..n, k - 1 \in G PROVE k \in G
    <3>1. acc[k - 1] \in V /\ s[k] \in TradeRecord
      BY <2>2
    <3> QED
      BY <1>10, <3>1, AnalysisStepIsRecord
  <2> HIDE DEF G
  <2>3. \A k \in 0..n : k \in G
    BY <2>1, <2>2, UpToInduction
  <2> QED
    BY <2>3 DEF G
<1>12. acc \in [0..n -> V] /\ acc[n] = it[1..n]
  BY <1>11 DEF acc
<1> QED
  BY <1>0, <1>7, <1>9, <1>10, <1>12 DEF AnalysisTurns

(***************************************************************************)
(* The realized curve, and what is meant by its peak, its largest fall and *)
(* the runs of places that are in a set W.                                 *)
(***************************************************************************)

PnlAt(s, n) == [j \in 1..n |-> s[j].pnl]

\* A point of the curve is the sum of the profits before it.
LEMMA CurveIsTotal ==
  ASSUME NEW n \in Nat, NEW s \in [1..n -> TradeRecord]
  PROVE  /\ DOMAIN Curve(s) = 0..n
         /\ PnlAt(s, n) \in [1..n -> Int]
         /\ \A k \in 0..n : Curve(s)[k] = Total(PnlAt(s, n), 1..k)
<1>1. Len(s) = n
  BY ListsAreSequences
<1>2. PnlAt(s, n) \in [1..n -> Int]
  <2>1. \A j \in 1..n : s[j].pnl \in Int
    BY DEF TradeRecord
  <2> QED
    BY <2>1 DEF PnlAt
<1>3. ASSUME NEW k \in 0..n
      PROVE  MapThenSumSet(LAMBDA j : s[j].pnl, 1..k) = Total(PnlAt(s, n), 1..k)
  <2> DEFINE f == PnlAt(s, n)
             S == 1..k
             IsSum(i) == i = [x \in SUBSET S |-> IF x = {} THEN 0
                                                ELSE s[Pick(x)].pnl + i[x \ {Pick(x)}]]
  <2>1. ASSUME NEW x \in SUBSET S, x # {} PROVE f[Pick(x)] = s[Pick(x)].pnl
    <3>1. Pick(x) \in x
      BY <2>1 DEF Pick
    <3>2. x \subseteq 1..k /\ 1..k \subseteq 1..n
      BY <1>3, <2>1
    <3>3. Pick(x) \in 1..n
      BY <3>1, <3>2
    <3> QED
      BY <3>3 DEF PnlAt
  <2>2. \A i : IsSum(i) <=> Recurs(i, f, S)
    <3> HIDE DEF f, S
    <3>1. ASSUME NEW i, NEW x \in SUBSET S
          PROVE  NextSum(i, f, x) = IF x = {} THEN 0 ELSE s[Pick(x)].pnl + i[x \ {Pick(x)}]
      BY <2>1 DEF NextSum
    <3> QED
      BY <3>1 DEF Recurs
  <2>3. MapThenSumSet(LAMBDA j : s[j].pnl, S) = (CHOOSE i : IsSum(i))[S]
    BY DEF MapThenSumSet, MapThenFoldSet, Pick
  <2>4. Total(f, S) = (CHOOSE i : Recurs(i, f, S))[S]
    BY DEF Total, MapThenSumSet, MapThenFoldSet, Recurs, NextSum, Pick
  <2> HIDE DEF f, S, IsSum
  <2>5. (CHOOSE i : IsSum(i)) = (CHOOSE i : Recurs(i, f, S))
    BY <2>2
  <2>6. MapThenSumSet(LAMBDA j : s[j].pnl, S) = Total(f, S)
    BY <2>3, <2>4, <2>5
  <2> QED
    BY <2>6 DEF f, S
<1>4. DOMAIN Curve(s) = 0..n
  BY <1>1 DEF Curve
<1>5. \A k \in 0..n : Curve(s)[k] = MapThenSumSet(LAMBDA j : s[j].pnl, 1..k)
  BY <1>1 DEF Curve
<1> QED
  BY <1>2, <1>3, <1>4, <1>5

\* The curve starts at zero and moves by the profit of each trade.
LEMMA CurveMoves ==
  ASSUME NEW n \in Nat, NEW s \in [1..n -> TradeRecord]
  PROVE  /\ Curve(s) \in [0..n -> Int]
         /\ Curve(s)[0] = 0
         /\ \A k \in 1..n : Curve(s)[k] = Curve(s)[k - 1] + s[k].pnl
<1> DEFINE f == PnlAt(s, n)
           c == Curve(s)
<1>1. f \in [1..n -> Int] /\ DOMAIN c = 0..n /\ \A k \in 0..n : c[k] = Total(f, 1..k)
  BY CurveIsTotal
<1>2. \A k \in 1..n : f[k] = s[k].pnl
  BY DEF PnlAt
<1> HIDE DEF f, c
<1>3. IsFiniteSet(1..n)
  BY FS_Interval
<1>4. ASSUME NEW k \in 0..n PROVE c[k] \in Int
  <2>1. PICK S : S = 1..n
    OBVIOUS
  <2>2. IsFiniteSet(S) /\ f \in [S -> Int] /\ 1..k \in SUBSET S
    BY <1>1, <1>3, <2>1
  <2> QED
    BY <1>1, <2>2, PartTotalInt
<1>5. c[0] = 0
  <2>1. 1..0 = {} /\ 0 \in 0..n
    OBVIOUS
  <2> QED
    BY <1>1, <2>1, TotalEmpty
<1>6. ASSUME NEW k \in 1..n PROVE c[k] = c[k - 1] + s[k].pnl
  <2>1. PICK S : S = 1..n
    OBVIOUS
  <2>2. PICK P : P = 1..k
    OBVIOUS
  <2>3. IsFiniteSet(S) /\ f \in [S -> Int] /\ P \in SUBSET S /\ k \in P
    BY <1>1, <1>3, <2>1, <2>2
  <2>4. Total(f, P) = f[k] + Total(f, P \ {k})
    <3>1. PICK g \in [S -> Int] : g = f
      BY <2>3
    <3>2. IsFiniteSet(S)
      BY <2>3
    <3>3. PICK a \in P : a = k
      BY <2>3
    <3>4. P \in SUBSET S
      BY <2>3
    <3>5. Total(g, P) = g[a] + Total(g, P \ {a})
      BY <3>2, <3>4, TotalTakes
    <3> QED
      BY <3>1, <3>3, <3>5
  <2>5. P \ {k} = 1..(k - 1)
    BY <2>2
  <2>6. c[k] = f[k] + c[k - 1]
    <3>0. k \in 0..n /\ k - 1 \in 0..n
      BY <1>6
    <3>1. c[k] = Total(f, P)
      BY <1>1, <2>2, <3>0
    <3>2. c[k - 1] = Total(f, P \ {k})
      BY <1>1, <2>5, <3>0
    <3> QED
      BY <2>4, <3>1, <3>2
  <2>7. c[k - 1] \in Int /\ f[k] \in Int
    BY <1>1, <1>4
  <2> QED
    BY <1>2, <2>6, <2>7
<1>7. c = [k \in 0..n |-> c[k]]
  BY <1>1 DEF c, Curve
<1> QED
  BY <1>4, <1>5, <1>6, <1>7 DEF c

\* p is the largest of the first values of c, d the largest fall among them.
PeakOf(p, c, k) == (\E i \in 0..k : c[i] = p) /\ \A i \in 0..k : c[i] <= p
FallOf(d, c, k) == /\ \E i, j \in 0..k : i <= j /\ c[i] - c[j] = d
                   /\ \A i, j \in 0..k : i <= j => c[i] - c[j] <= d

\* One more value raises the peak or falls from it.
LEMMA PeakAndFallGrow ==
  ASSUME NEW n \in Nat, NEW c \in [0..n -> Int], NEW k \in 1..n, NEW p \in Int, NEW d \in Int,
         PeakOf(p, c, k - 1), FallOf(d, c, k - 1),
         NEW q, q = Max({p, c[k]})
  PROVE  PeakOf(q, c, k) /\ FallOf(Max({d, q - c[k]}), c, k)
<1>1. k \in Nat /\ k - 1 \in 0..n /\ c[k] \in Int /\ \A i \in 0..k : c[i] \in Int
  OBVIOUS
<1>2. \A i \in 0..k : i # k => i \in 0..(k - 1)
  OBVIOUS
<1>3. q \in Int /\ q = IF p >= c[k] THEN p ELSE c[k]
  BY <1>1, MaxOfTwo
<1>4. (\E i \in 0..k : c[i] = q) /\ \A i \in 0..k : c[i] <= q
  <2>1. \A i \in 0..(k - 1) : c[i] <= p
    BY DEF PeakOf
  <2>2. \E i \in 0..(k - 1) : c[i] = p
    BY DEF PeakOf
  <2>3. \A i \in 0..k : c[i] <= q
    BY <1>1, <1>2, <1>3, <2>1
  <2>4. \E i \in 0..k : c[i] = q
    BY <1>1, <1>3, <2>2
  <2> QED
    BY <2>3, <2>4
<1>5. PICK e \in Int : e = Max({d, q - c[k]}) /\ e = IF d >= q - c[k] THEN d ELSE q - c[k]
  <2>1. PICK x \in Int : x = q - c[k]
    BY <1>1, <1>3
  <2>2. Max({d, x}) = IF d >= x THEN d ELSE x
    BY MaxOfTwo
  <2> QED
    BY <2>1, <2>2
<1>6. \E i, j \in 0..k : i <= j /\ c[i] - c[j] = e
  <2>1. CASE e = d
    <3>1. PICK i \in 0..(k - 1), j \in 0..(k - 1) : i <= j /\ c[i] - c[j] = d
      BY DEF FallOf
    <3>2. i \in 0..k /\ j \in 0..k
      BY <1>1
    <3> QED
      BY <2>1, <3>1, <3>2
  <2>2. CASE e = q - c[k]
    <3>1. PICK i \in 0..k : c[i] = q
      BY <1>4
    <3>2. k \in 0..k /\ i <= k
      BY <1>1
    <3> QED
      BY <2>2, <3>1, <3>2
  <2> QED
    BY <1>5, <2>1, <2>2
<1>7. ASSUME NEW i \in 0..k, NEW j \in 0..k, i <= j PROVE c[i] - c[j] <= e
  <2>0. /\ c[i] \in Int /\ c[j] \in Int /\ c[k] \in Int /\ q \in Int
        /\ d <= e /\ q - c[k] <= e /\ c[i] <= q
    <3>1. c[i] \in Int /\ c[j] \in Int /\ c[k] \in Int /\ q \in Int /\ c[i] <= q
      BY <1>1, <1>3, <1>4, <1>7
    <3>2. PICK x \in Int : x = q - c[k]
      BY <3>1
    <3>3. d <= e /\ x <= e
      BY <1>5, <3>2
    <3> QED
      BY <3>1, <3>2, <3>3
  <2>1. CASE j = k
    BY <2>0, <2>1
  <2>2. CASE j # k
    <3>1. i \in 0..(k - 1) /\ j \in 0..(k - 1)
      BY <1>1, <1>7, <2>2
    <3>2. c[i] - c[j] <= d
      BY <1>7, <3>1 DEF FallOf
    <3> QED
      BY <1>5, <2>0, <3>2, SMTT(60)
  <2> QED
    BY <2>1, <2>2
<1> QED
  BY <1>4, <1>5, <1>6, <1>7 DEF PeakOf, FallOf

\* The places after i, m of them; w of them in W end at k, but no more; and the
\* longest run of places in W among the first k has the length m.
Run(i, m) == (i + 1)..(i + m)
Ending(w, W, k) == w \in 0..k /\ Run(k - w, w) \subseteq W /\ (w < k => k - w \notin W)
Longest(m, W, k) ==
  /\ m \in 0..k
  /\ \E i \in 0..(k - m) : Run(i, m) \subseteq W
  /\ \A l \in 1..k : \A i \in 0..(k - l) : Run(i, l) \subseteq W => l <= m

\* One more place in W lengthens the run that ends there.
LEMMA RunsGrow ==
  ASSUME NEW k \in Nat \ {0}, NEW W, k \in W, NEW w, NEW m,
         Ending(w, W, k - 1), Longest(m, W, k - 1)
  PROVE  Ending(w + 1, W, k) /\ Longest(Max({m, w + 1}), W, k)
<1>1. w \in 0..(k - 1) /\ m \in 0..(k - 1) /\ w + 1 \in 0..k
  BY DEF Ending, Longest
<1>2. Ending(w + 1, W, k)
  <2>1. k - (w + 1) = k - 1 - w
    BY <1>1
  <2>2. \A j \in Run(k - (w + 1), w + 1) : j = k \/ j \in Run(k - 1 - w, w)
    BY <1>1 DEF Run
  <2>3. Run(k - (w + 1), w + 1) \subseteq W
    BY <2>2 DEF Ending
  <2>4. w + 1 < k => k - (w + 1) \notin W
    BY <1>1, <2>1 DEF Ending
  <2> QED
    BY <1>1, <2>3, <2>4 DEF Ending
<1>3. PICK x \in Int : x = Max({m, w + 1}) /\ x = IF m >= w + 1 THEN m ELSE w + 1
  BY <1>1, MaxOfTwo
<1>4. x \in 0..k
  BY <1>1, <1>3
<1>5. \E i \in 0..(k - x) : Run(i, x) \subseteq W
  <2>1. CASE x = m
    <3>1. PICK i \in 0..(k - 1 - m) : Run(i, m) \subseteq W
      BY DEF Longest
    <3>2. i \in 0..(k - x)
      BY <1>1, <2>1
    <3> QED
      BY <2>1, <3>1, <3>2
  <2>2. CASE x = w + 1
    <3>1. k - x \in 0..(k - x)
      BY <1>1, <2>2
    <3> QED
      BY <1>2, <2>2, <3>1 DEF Ending
  <2> QED
    BY <1>3, <2>1, <2>2
<1>6. ASSUME NEW l \in 1..k, NEW i \in 0..(k - l), Run(i, l) \subseteq W PROVE l <= x
  <2>1. CASE i + l = k
    <3>1. SUFFICES ASSUME l > w + 1 PROVE FALSE
      BY <1>1, <1>3
    <3>2. w < k - 1 /\ k - 1 - w \in Run(i, l)
      BY <1>1, <2>1, <3>1 DEF Run
    <3> QED
      BY <1>6, <3>2 DEF Ending
  <2>2. CASE i + l # k
    <3>1. l \in 1..(k - 1) /\ i \in 0..(k - 1 - l)
      BY <2>2
    <3>2. l <= m
      BY <1>6, <3>1 DEF Longest
    <3> QED
      BY <1>1, <1>3, <3>2
  <2> QED
    BY <2>1, <2>2
<1> QED
  BY <1>2, <1>3, <1>4, <1>5, <1>6 DEF Longest

\* A place outside of W ends the run.
LEMMA RunsEnd ==
  ASSUME NEW k \in Nat \ {0}, NEW W, k \notin W, NEW m, Longest(m, W, k - 1)
  PROVE  Ending(0, W, k) /\ Longest(m, W, k)
<1>1. m \in 0..(k - 1) /\ m \in 0..k
  BY DEF Longest
<1>2. Ending(0, W, k)
  BY DEF Ending, Run
<1>3. \E i \in 0..(k - m) : Run(i, m) \subseteq W
  <2>1. PICK i \in 0..(k - 1 - m) : Run(i, m) \subseteq W
    BY DEF Longest
  <2>2. i \in 0..(k - m)
    BY <1>1
  <2> QED
    BY <2>1, <2>2
<1>4. ASSUME NEW l \in 1..k, NEW i \in 0..(k - l), Run(i, l) \subseteq W PROVE l <= m
  <2>1. i + l # k
    <3>1. i + l = k => k \in Run(i, l)
      BY DEF Run
    <3> QED
      BY <1>4, <3>1
  <2>2. l \in 1..(k - 1) /\ i \in 0..(k - 1 - l)
    BY <2>1
  <2> QED
    BY <1>4, <2>2 DEF Longest
<1> QED
  BY <1>1, <1>2, <1>3, <1>4 DEF Longest

(***************************************************************************)
(* What holds after each turn.                                             *)
(***************************************************************************)

WinsAt(s, n)   == {j \in 1..n : s[j].pnl > 0}
LossesAt(s, n) == {j \in 1..n : s[j].pnl < 0}

\* The counters after k trades: the runs that end there and the longest ones.
StreakAt(x, s, n, k) ==
  /\ Ending(x.wins, WinsAt(s, n), k) /\ Longest(x.maxWins, WinsAt(s, n), k)
  /\ Ending(x.losses, LossesAt(s, n), k) /\ Longest(x.maxLosses, LossesAt(s, n), k)

\* The loop variables after k trades, in terms of the curve.
AnalysisAt(a, s, n, k) ==
  /\ a.cumulative = Curve(s)[k]
  /\ PeakOf(a.peak, Curve(s), k) /\ FallOf(a.max_drawdown, Curve(s), k)
  /\ Len(a.points) = k /\ (k # 0 => a.points[k].cumulative = Curve(s)[k])
  /\ StreakAt(a.streak, s, n, k)

\* The counters of the analysis count runs.
LEMMA StreakCounts ==
  ASSUME NEW n \in Nat, NEW s \in [1..n -> TradeRecord], NEW k \in 1..n,
         NEW x \in StreakRecord, StreakAt(x, s, n, k - 1)
  PROVE  StreakAt(Streak(x, s[k].pnl, TRUE), s, n, k)
<1>1. s[k].pnl \in Int /\ k \in Nat \ {0}
  BY DEF TradeRecord
<1>2. /\ Ending(x.wins, WinsAt(s, n), k - 1) /\ Longest(x.maxWins, WinsAt(s, n), k - 1)
      /\ Ending(x.losses, LossesAt(s, n), k - 1) /\ Longest(x.maxLosses, LossesAt(s, n), k - 1)
  BY DEF StreakAt
<1>3. CASE s[k].pnl > 0
  <2>1. k \in WinsAt(s, n) /\ k \notin LossesAt(s, n)
    BY <1>1, <1>3 DEF WinsAt, LossesAt
  <2>2. Streak(x, s[k].pnl, TRUE)
          = [wins |-> x.wins + 1, losses |-> 0,
             maxWins |-> Max({x.maxWins, x.wins + 1}), maxLosses |-> x.maxLosses]
    BY <1>1, <1>3 DEF Streak
  <2>3. /\ Ending(x.wins + 1, WinsAt(s, n), k)
        /\ Longest(Max({x.maxWins, x.wins + 1}), WinsAt(s, n), k)
    BY <1>1, <1>2, <2>1, RunsGrow
  <2>4. Ending(0, LossesAt(s, n), k) /\ Longest(x.maxLosses, LossesAt(s, n), k)
    BY <1>1, <1>2, <2>1, RunsEnd
  <2>5. PICK y : y = [wins |-> x.wins + 1, losses |-> 0,
                        maxWins |-> Max({x.maxWins, x.wins + 1}), maxLosses |-> x.maxLosses]
    OBVIOUS
  <2>6. y.wins = x.wins + 1 /\ y.losses = 0 /\ y.maxWins = Max({x.maxWins, x.wins + 1}) /\ y.maxLosses = x.maxLosses
    BY <2>5
  <2>7. StreakAt(y, s, n, k)
    BY <2>3, <2>4, <2>6 DEF StreakAt
  <2> QED
    BY <2>2, <2>5, <2>7, Zenon
<1>4. CASE s[k].pnl < 0
  <2>1. k \in LossesAt(s, n) /\ k \notin WinsAt(s, n)
    BY <1>1, <1>4 DEF WinsAt, LossesAt
  <2>2. Streak(x, s[k].pnl, TRUE)
          = [wins |-> 0, losses |-> x.losses + 1,
             maxWins |-> x.maxWins, maxLosses |-> Max({x.maxLosses, x.losses + 1})]
    BY <1>1, <1>4 DEF Streak
  <2>3. /\ Ending(x.losses + 1, LossesAt(s, n), k)
        /\ Longest(Max({x.maxLosses, x.losses + 1}), LossesAt(s, n), k)
    BY <1>1, <1>2, <2>1, RunsGrow
  <2>4. Ending(0, WinsAt(s, n), k) /\ Longest(x.maxWins, WinsAt(s, n), k)
    BY <1>1, <1>2, <2>1, RunsEnd
  <2>5. PICK y : y = [wins |-> 0, losses |-> x.losses + 1,
                        maxWins |-> x.maxWins, maxLosses |-> Max({x.maxLosses, x.losses + 1})]
    OBVIOUS
  <2>6. y.wins = 0 /\ y.losses = x.losses + 1 /\ y.maxWins = x.maxWins /\ y.maxLosses = Max({x.maxLosses, x.losses + 1})
    BY <2>5
  <2>7. StreakAt(y, s, n, k)
    BY <2>3, <2>4, <2>6 DEF StreakAt
  <2> QED
    BY <2>2, <2>5, <2>7, Zenon
<1>5. CASE s[k].pnl = 0
  <2>1. k \notin LossesAt(s, n) /\ k \notin WinsAt(s, n)
    BY <1>1, <1>5 DEF WinsAt, LossesAt
  <2>2. Streak(x, s[k].pnl, TRUE)
          = [wins |-> 0, losses |-> 0, maxWins |-> x.maxWins, maxLosses |-> x.maxLosses]
    BY <1>5 DEF Streak
  <2>3. Ending(0, LossesAt(s, n), k) /\ Longest(x.maxLosses, LossesAt(s, n), k)
    BY <1>1, <1>2, <2>1, RunsEnd
  <2>4. Ending(0, WinsAt(s, n), k) /\ Longest(x.maxWins, WinsAt(s, n), k)
    BY <1>1, <1>2, <2>1, RunsEnd
  <2>5. PICK y : y = [wins |-> 0, losses |-> 0, maxWins |-> x.maxWins, maxLosses |-> x.maxLosses]
    OBVIOUS
  <2>6. y.wins = 0 /\ y.losses = 0 /\ y.maxWins = x.maxWins /\ y.maxLosses = x.maxLosses
    BY <2>5
  <2>7. StreakAt(y, s, n, k)
    BY <2>3, <2>4, <2>6 DEF StreakAt
  <2> QED
    BY <2>2, <2>5, <2>7, Zenon
<1>6. s[k].pnl > 0 \/ s[k].pnl < 0 \/ s[k].pnl = 0
  BY <1>1
<1> QED
  BY <1>3, <1>4, <1>5, <1>6

\* What holds before the first turn.
LEMMA AnalysisBegins ==
  ASSUME NEW n \in Nat, NEW s \in [1..n -> TradeRecord]
  PROVE  AnalysisAt(AnalysisStart, s, n, 0)
<1>1. Curve(s)[0] = 0
  BY CurveMoves
<1>2. 0..0 = {0} /\ Len(<<>>) = 0
  OBVIOUS
<1>3. PeakOf(0, Curve(s), 0) /\ FallOf(0, Curve(s), 0)
  BY <1>1, <1>2 DEF PeakOf, FallOf
<1>4. \A W : Ending(0, W, 0) /\ Longest(0, W, 0)
  <2>1. ASSUME NEW W PROVE Ending(0, W, 0) /\ Longest(0, W, 0)
    <3>1. 0 - 0 = 0 /\ 1..0 = {} /\ Run(0, 0) = {}
      BY DEF Run
    <3> QED
      BY <1>2, <3>1 DEF Ending, Longest
  <2> QED
    BY <2>1
<1> QED
  BY <1>1, <1>2, <1>3, <1>4 DEF AnalysisAt, AnalysisStart, StreakAt, Streak0

\* What a turn preserves.
LEMMA AnalysisTurn ==
  ASSUME NEW n \in Nat, NEW s \in [1..n -> TradeRecord], NEW k \in 1..n,
         NEW a \in AnalysisRecord, AnalysisAt(a, s, n, k - 1)
  PROVE  AnalysisAt(AnalysisStep(a, s[k]), s, n, k)
<1>1. /\ a.cumulative \in Int /\ a.peak \in Int /\ a.max_drawdown \in Int
      /\ a.points \in Seq(Point) /\ a.streak \in StreakRecord
      /\ s[k].pnl \in Int /\ k \in Nat \ {0}
  BY DEF AnalysisRecord, TradeRecord
<1>2. PICK c \in [0..n -> Int] : c = Curve(s)
  BY CurveMoves
<1>3. c[k] = c[k - 1] + s[k].pnl /\ c[k] \in Int
  <2>1. \A i \in 1..n : Curve(s)[i] = Curve(s)[i - 1] + s[i].pnl
    BY CurveMoves
  <2>2. k \in 0..n
    BY <1>1
  <2> QED
    BY <1>2, <2>1, <2>2
<1>4. c[k] = a.cumulative + s[k].pnl
  BY <1>2, <1>3 DEF AnalysisAt
<1>5. PICK p : p = Max({a.peak, c[k]})
  OBVIOUS
<1>6. PeakOf(p, c, k) /\ FallOf(Max({a.max_drawdown, p - c[k]}), c, k)
  <2>1. PeakOf(a.peak, c, k - 1) /\ FallOf(a.max_drawdown, c, k - 1)
    BY <1>2 DEF AnalysisAt
  <2> QED
    BY <1>1, <1>5, <2>1, PeakAndFallGrow
<1> DEFINE point == [trade |-> s[k].id, cumulative |-> c[k], running_peak |-> p, drawdown |-> p - c[k],
                     pct |-> IF p > 0 THEN <<p - c[k], p>> ELSE NoValue]
<1>7. AnalysisStep(a, s[k])
        = [cumulative |-> c[k], peak |-> p, max_drawdown |-> Max({a.max_drawdown, p - c[k]}),
           points |-> Append(a.points, point), streak |-> Streak(a.streak, s[k].pnl, TRUE)]
  BY <1>4, <1>5 DEF AnalysisStep
<1>8. point.cumulative = c[k]
  OBVIOUS
<1> HIDE DEF point
<1>9. Len(Append(a.points, point)) = k /\ Append(a.points, point)[k] = point
  <2>1. Len(a.points) = k - 1
    BY DEF AnalysisAt
  <2> QED
    BY <1>1, <2>1
<1>10. StreakAt(Streak(a.streak, s[k].pnl, TRUE), s, n, k)
  BY <1>1, StreakCounts DEF AnalysisAt
<1>11. PICK b : b = AnalysisStep(a, s[k])
  OBVIOUS
<1>12. /\ b.cumulative = c[k] /\ b.peak = p /\ b.max_drawdown = Max({a.max_drawdown, p - c[k]})
       /\ b.points = Append(a.points, point) /\ b.streak = Streak(a.streak, s[k].pnl, TRUE)
  BY <1>7, <1>11
<1>13. Len(b.points) = k /\ b.points[k].cumulative = c[k]
  BY <1>8, <1>9, <1>12
<1>14. AnalysisAt(b, s, n, k)
  BY <1>2, <1>6, <1>10, <1>12, <1>13 DEF AnalysisAt
<1> QED
  BY <1>11, <1>14

\* What the loop returns, in terms of the curve.
LEMMA AnalysisReturns ==
  ASSUME NEW n \in Nat, NEW s \in [1..n -> TradeRecord]
  PROVE  AnalysisAt(FoldLeft(AnalysisStep, AnalysisStart, s), s, n, n)
         /\ FoldLeft(AnalysisStep, AnalysisStart, s) \in AnalysisRecord
<1>1. PICK acc : /\ AnalysisTurns(acc, s, n)
                 /\ FoldLeft(AnalysisStep, AnalysisStart, s) = acc[n]
  BY AnalysisLoops
<1> DEFINE G == {k \in 0..n : AnalysisAt(acc[k], s, n, k)}
<1>2. 0 \in G
  BY <1>1, AnalysisBegins DEF AnalysisTurns
<1>3. ASSUME NEW k \in 1..n, k - 1 \in G PROVE k \in G
  <2>1. acc[k - 1] \in AnalysisRecord /\ acc[k] = AnalysisStep(acc[k - 1], s[k])
    BY <1>1 DEF AnalysisTurns
  <2> QED
    BY <1>3, <2>1, AnalysisTurn
<1> HIDE DEF G
<1>4. \A k \in 0..n : k \in G
  BY <1>2, <1>3, UpToInduction
<1> QED
  BY <1>1, <1>4 DEF G, AnalysisTurns

(***************************************************************************)
(* The sums of profits.                                                    *)
(***************************************************************************)

PnlOf(T) == [t \in T |-> t.pnl]

\* The profit of some of the trades is a total of the profits of all.
LEMMA SumPnlIsTotal ==
  ASSUME NEW T, NEW G \in SUBSET T
  PROVE  SumPnl(G) = Total(PnlOf(T), G)
<1> DEFINE f == PnlOf(T)
           IsSum(i) == i = [x \in SUBSET G |-> IF x = {} THEN 0 ELSE Pick(x).pnl + i[x \ {Pick(x)}]]
<1>1. ASSUME NEW x \in SUBSET G, x # {} PROVE f[Pick(x)] = Pick(x).pnl
  <2>1. Pick(x) \in x
    BY <1>1 DEF Pick
  <2>2. Pick(x) \in T
    BY <1>1, <2>1
  <2> QED
    BY <2>2 DEF PnlOf
<1>2. \A i : IsSum(i) <=> Recurs(i, f, G)
  <2> HIDE DEF f
  <2>1. ASSUME NEW i, NEW x \in SUBSET G
        PROVE  NextSum(i, f, x) = IF x = {} THEN 0 ELSE Pick(x).pnl + i[x \ {Pick(x)}]
    BY <1>1 DEF NextSum
  <2> QED
    BY <2>1 DEF Recurs
<1>3. SumPnl(G) = (CHOOSE i : IsSum(i))[G]
  BY DEF SumPnl, MapThenSumSet, MapThenFoldSet, Pick
<1>4. Total(f, G) = (CHOOSE i : Recurs(i, f, G))[G]
  BY DEF Total, MapThenSumSet, MapThenFoldSet, Recurs, NextSum, Pick
<1> HIDE DEF f, IsSum
<1>5. (CHOOSE i : IsSum(i)) = (CHOOSE i : Recurs(i, f, G))
  BY <1>2
<1>6. SumPnl(G) = Total(f, G)
  BY <1>3, <1>4, <1>5
<1> QED
  BY <1>6 DEF f

\* A sequence that lists T ends its curve at the profit of T.
LEMMA CurveEnds ==
  ASSUME NEW T, Recorded(T), NEW R, NEW s, Lists(s, R, T)
  PROVE  Curve(s)[Cardinality(T)] = SumPnl(T)
<1> DEFINE n == Cardinality(T)
           f == PnlAt(s, n)
           parts == [t \in T |-> Total(f, {i \in 1..n : s[i] = t})]
<1>1. IsFiniteSet(T) /\ n \in Nat /\ s \in [1..n -> T] /\ T \subseteq TradeRecord
  BY FS_CardinalityType DEF Recorded, Lists
<1>2. s \in [1..n -> TradeRecord]
  BY <1>1
<1> HIDE DEF n
<1>3. f \in [1..n -> Int] /\ Curve(s)[n] = Total(f, 1..n)
  BY <1>1, <1>2, CurveIsTotal
<1>4. IsFiniteSet(1..n)
  BY <1>1, FS_Interval
<1>5. ASSUME NEW t \in T PROVE parts[t] = t.pnl
  <2>1. PICK i \in 1..n : s[i] = t
    BY DEF Lists, n
  <2>2. \A j \in 1..n : s[j] = t => j = i
    <3>1. ASSUME NEW j \in 1..n, s[j] = t, j # i PROVE FALSE
      <4>1. j < i \/ i < j
        BY <1>1, <3>1
      <4> QED
        BY <2>1, <3>1, <4>1 DEF Lists, n
    <3> QED
      BY <3>1
  <2>3. {j \in 1..n : s[j] = t} = {i}
    BY <2>1, <2>2
  <2>4. Total(f, {i}) = f[i]
    <3> HIDE DEF f
    <3>1. PICK S : S = 1..n
      OBVIOUS
    <3>2. IsFiniteSet(S) /\ f \in [S -> Int] /\ i \in S
      BY <1>3, <1>4, <3>1
    <3> QED
      BY <3>2, TotalSingle
  <2>5. f[i] = t.pnl
    BY <2>1 DEF PnlAt
  <2> QED
    BY <2>3, <2>4, <2>5
<1>6. Total(parts, T) = Total(f, 1..n)
  <2> HIDE DEF f
  <2>1. PICK S : S = 1..n
    OBVIOUS
  <2>2. IsFiniteSet(S) /\ f \in [S -> Int] /\ s \in [S -> T]
    BY <1>1, <1>3, <1>4, <2>1
  <2>3. Total([t \in T |-> Total(f, {i \in S : s[i] = t})], T) = Total(f, S)
    BY <1>1, <2>2, TotalOfParts, SMTT(60)
  <2> QED
    BY <2>1, <2>3
<1>7. Total(parts, T) = Total(PnlOf(T), T)
  <2>1. \A t \in T : parts[t] = PnlOf(T)[t]
    BY <1>5 DEF PnlOf
  <2> HIDE DEF parts
  <2> QED
    BY <2>1, TotalSame
<1>8. SumPnl(T) = Total(PnlOf(T), T)
  <2>1. PICK G \in SUBSET T : G = T
    OBVIOUS
  <2> QED
    BY <2>1, SumPnlIsTotal
<1> QED
  BY <1>3, <1>6, <1>7, <1>8 DEF n

(***************************************************************************)
(* The analysis means what it says.                                        *)
(***************************************************************************)

\* The longest run is what LongestRun looks for.
LEMMA LongestIsMax ==
  ASSUME NEW n \in Nat, NEW W, NEW m, Longest(m, W, n)
  PROVE  Max({0} \cup {l \in 1..n : \E i \in 0..(n - l) : \A j \in (i + 1)..(i + l) : j \in W}) = m
<1> DEFINE S == {0} \cup {l \in 1..n : \E i \in 0..(n - l) : \A j \in (i + 1)..(i + l) : j \in W}
<1>1. S \subseteq Int /\ m \in 0..n
  BY DEF Longest
<1>2. m \in S
  <2>1. CASE m = 0
    BY <2>1
  <2>2. CASE m # 0
    <3>1. m \in 1..n
      BY <1>1, <2>2
    <3>2. \E i \in 0..(n - m) : \A j \in (i + 1)..(i + m) : j \in W
      BY DEF Longest, Run
    <3> QED
      BY <3>1, <3>2
  <2> QED
    BY <2>1, <2>2
<1>3. ASSUME NEW l \in S PROVE m >= l
  <2>1. CASE l = 0
    BY <1>1, <2>1
  <2>2. CASE l # 0
    <3>1. l \in 1..n /\ \E i \in 0..(n - l) : \A j \in (i + 1)..(i + l) : j \in W
      BY <1>3, <2>2
    <3>2. l <= m
      BY <3>1 DEF Longest, Run
    <3> QED
      BY <1>1, <3>1, <3>2
  <2> QED
    BY <2>1, <2>2
<1> HIDE DEF S
<1>4. Max(S) = m
  BY <1>1, <1>2, <1>3, MaxIs
<1> QED
  BY <1>4 DEF S

\* The largest fall is the maximum of all falls.
LEMMA FallIsMax ==
  ASSUME NEW n \in Nat, NEW c \in [0..n -> Int], NEW d \in Int, FallOf(d, c, n)
  PROVE  Max({c[p[1]] - c[p[2]] : p \in {q \in (0..n) \X (0..n) : q[1] <= q[2]}}) = d
<1> DEFINE S == {c[p[1]] - c[p[2]] : p \in {q \in (0..n) \X (0..n) : q[1] <= q[2]}}
<1>1. ASSUME NEW x \in S PROVE x \in Int /\ d >= x
  <2>1. PICK p \in (0..n) \X (0..n) : p[1] <= p[2] /\ x = c[p[1]] - c[p[2]]
    BY <1>1
  <2>2. PICK i \in 0..n : i = p[1]
    BY <2>1
  <2>3. PICK j \in 0..n : j = p[2]
    BY <2>1
  <2>4. c[i] \in Int /\ c[j] \in Int /\ c[i] - c[j] <= d
    BY <2>1, <2>2, <2>3 DEF FallOf
  <2> QED
    BY <2>1, <2>2, <2>3, <2>4
<1>2. d \in S
  <2>1. PICK i \in 0..n, j \in 0..n : i <= j /\ c[i] - c[j] = d
    BY DEF FallOf
  <2>2. <<i, j>> \in {q \in (0..n) \X (0..n) : q[1] <= q[2]}
    BY <2>1
  <2>3. c[<<i, j>>[1]] - c[<<i, j>>[2]] = d
    BY <2>1
  <2> QED
    BY <2>2, <2>3
<1> HIDE DEF S
<1>3. S \subseteq Int
  BY <1>1
<1>4. Max(S) = d
  BY <1>1, <1>2, <1>3, MaxIs
<1> QED
  BY <1>4 DEF S

\* The drawdown, the streaks and the last point of the analysis of any trades
\* are what they are called.
LEMMA AnalysisMeansIt ==
  ASSUME NEW T, Recorded(T)
  PROVE  MeansWhatItSays(Analyze(T), AnalysisOrder(T), Curve(AnalysisOrder(T)))
<1> DEFINE n == Cardinality(T)
           s == AnalysisOrder(T)
           a == AnalysisLoop(T)
           x == Analyze(T)
<1>1. n \in Nat /\ Lists(s, ByExit(T), T) /\ s \in [1..n -> T] /\ T \subseteq TradeRecord
  BY FS_CardinalityType, LoopsSeeTrades DEF Recorded, Lists
<1>2. a = FoldLeft(AnalysisStep, AnalysisStart, s)
  BY DEF AnalysisLoop, AnalysisStart
<1>3. /\ x.stats.net_profit = SumPnl(T)
      /\ x.max_consecutive_wins = a.streak.maxWins /\ x.max_consecutive_losses = a.streak.maxLosses
      /\ x.max_realized_pnl_drawdown = a.max_drawdown /\ x.points = a.points
  BY DEF Analyze, Stats
<1> HIDE DEF n, s, a, x
<1>4. s \in [1..n -> TradeRecord]
  BY <1>1
<1>5. AnalysisAt(a, s, n, n) /\ a \in AnalysisRecord
  BY <1>1, <1>2, <1>4, AnalysisReturns
<1>6. Len(s) = n
  BY <1>1, ListsAreSequences
<1>7. PICK c \in [0..n -> Int] : c = Curve(s)
  BY <1>1, <1>4, CurveMoves
<1>8. x.max_realized_pnl_drawdown
        = Max({c[p[1]] - c[p[2]] : p \in {q \in (0..n) \X (0..n) : q[1] <= q[2]}})
  <2>1. a.max_drawdown \in Int /\ FallOf(a.max_drawdown, c, n)
    BY <1>5, <1>7 DEF AnalysisAt, AnalysisRecord
  <2> QED
    BY <1>1, <1>3, <2>1, FallIsMax
<1>9. x.max_consecutive_wins = LongestRun(s, LAMBDA t : t.pnl > 0)
  <2>1. Max({0} \cup {l \in 1..n : \E i \in 0..(n - l) : \A j \in (i + 1)..(i + l) : j \in WinsAt(s, n)})
          = a.streak.maxWins
    BY <1>1, <1>5, LongestIsMax DEF AnalysisAt, StreakAt
  <2>2. ASSUME NEW l \in 1..n, NEW i \in 0..(n - l), NEW j \in (i + 1)..(i + l)
        PROVE  j \in WinsAt(s, n) <=> s[j].pnl > 0
    BY <1>1, <2>2 DEF WinsAt
  <2>3. {l \in 1..n : \E i \in 0..(n - l) : \A j \in (i + 1)..(i + l) : j \in WinsAt(s, n)}
          = {l \in 1..n : \E i \in 0..(n - l) : \A j \in (i + 1)..(i + l) : s[j].pnl > 0}
    BY <2>2
  <2>4. LongestRun(s, LAMBDA t : t.pnl > 0)
          = Max({0} \cup {l \in 1..n : \E i \in 0..(n - l) : \A j \in (i + 1)..(i + l) : s[j].pnl > 0})
    BY <1>6 DEF LongestRun
  <2> QED
    BY <1>3, <2>1, <2>3, <2>4
<1>10. x.max_consecutive_losses = LongestRun(s, LAMBDA t : t.pnl < 0)
  <2>1. Max({0} \cup {l \in 1..n : \E i \in 0..(n - l) : \A j \in (i + 1)..(i + l) : j \in LossesAt(s, n)})
          = a.streak.maxLosses
    BY <1>1, <1>5, LongestIsMax DEF AnalysisAt, StreakAt
  <2>2. ASSUME NEW l \in 1..n, NEW i \in 0..(n - l), NEW j \in (i + 1)..(i + l)
        PROVE  j \in LossesAt(s, n) <=> s[j].pnl < 0
    BY <1>1, <2>2 DEF LossesAt
  <2>3. {l \in 1..n : \E i \in 0..(n - l) : \A j \in (i + 1)..(i + l) : j \in LossesAt(s, n)}
          = {l \in 1..n : \E i \in 0..(n - l) : \A j \in (i + 1)..(i + l) : s[j].pnl < 0}
    BY <2>2
  <2>4. LongestRun(s, LAMBDA t : t.pnl < 0)
          = Max({0} \cup {l \in 1..n : \E i \in 0..(n - l) : \A j \in (i + 1)..(i + l) : s[j].pnl < 0})
    BY <1>6 DEF LongestRun
  <2> QED
    BY <1>3, <2>1, <2>3, <2>4
<1>11. x.points # <<>> => Last(x.points).cumulative = x.stats.net_profit
  <2>1. Len(a.points) = n /\ a.points \in Seq(Point)
    BY <1>5 DEF AnalysisAt, AnalysisRecord
  <2>2. x.points # <<>> => n # 0
    BY <1>3, <2>1
  <2>3. n # 0 => Last(a.points).cumulative = Curve(s)[n]
    BY <1>5, <2>1 DEF AnalysisAt, Last
  <2>4. Curve(s)[n] = SumPnl(T)
    BY <1>1, CurveEnds DEF n
  <2> QED
    BY <1>3, <2>2, <2>3, <2>4
<1>12. MeansWhatItSays(x, s, c)
  BY <1>6, <1>8, <1>9, <1>10, <1>11 DEF MeansWhatItSays
<1> QED
  BY <1>7, <1>12 DEF s, x

-----------------------------------------------------------------------------
(***************************************************************************)
(* The breakdowns.  Each divides the trades over its rows, and each of the *)
(* four figures of a group is a total over the trades in it.               *)
(***************************************************************************)

\* Every trade is in one row, and a row has the statistics of its trades.
Divides(rows, T) ==
  /\ IsFiniteSet(DOMAIN rows)
  /\ \E ix \in [T -> DOMAIN rows] :
       \A i \in DOMAIN rows : rows[i].stats = Stats({t \in T : ix[t] = i})

\* What one trade adds to a figure.
Share(field, T) ==
  [t \in T |-> CASE field = "trade_count"      -> 1
                 [] field = "net_profit"       -> t.pnl
                 [] field = "breakeven_trades" -> IF t.pnl = 0 THEN 1 ELSE 0
                 [] OTHER                      -> IF t.pnl < 0 THEN t.pnl ELSE 0]

Figures == {"trade_count", "net_profit", "breakeven_trades", "gross_loss"}

\* Shares are integers.
LEMMA SharesAreIntegers ==
  ASSUME NEW T, Recorded(T), NEW field \in Figures
  PROVE  Share(field, T) \in [T -> Int]
<1>1. \A t \in T : t.pnl \in Int
  BY DEF Recorded, TradeRecord
<1> QED
  BY <1>1 DEF Share, Figures

\* The winners, the losers and the rest are all trades.
LEMMA WinnersAndLosers ==
  ASSUME NEW T, Recorded(T), NEW G \in SUBSET T
  PROVE  Cardinality(G) - Cardinality(Winners(G)) - Cardinality(Losers(G))
           = Cardinality({t \in G : t.pnl = 0})
<1> DEFINE Z == {t \in G : t.pnl = 0}
<1>1. IsFiniteSet(G) /\ \A t \in G : t.pnl \in Int
  BY FS_Subset DEF Recorded, TradeRecord
<1>2. IsFiniteSet(G \ Winners(G)) /\ Cardinality(G \ Winners(G)) = Cardinality(G) - Cardinality(G \cap Winners(G))
  BY <1>1, FS_Difference
<1>3. Cardinality((G \ Winners(G)) \ Losers(G))
        = Cardinality(G \ Winners(G)) - Cardinality((G \ Winners(G)) \cap Losers(G))
  BY <1>2, FS_Difference
<1>4. /\ G \cap Winners(G) = Winners(G) /\ (G \ Winners(G)) \cap Losers(G) = Losers(G)
      /\ (G \ Winners(G)) \ Losers(G) = Z
  BY <1>1 DEF Winners, Losers
<1> HIDE DEF Z
<1>5. Cardinality(Z) = Cardinality(G) - Cardinality(Winners(G)) - Cardinality(Losers(G))
  BY <1>2, <1>3, <1>4
<1> QED
  BY <1>5 DEF Z

\* Each figure of a group is the total of the shares of its trades.
LEMMA FiguresAreTotals ==
  ASSUME NEW T, Recorded(T), NEW field \in Figures, NEW G \in SUBSET T
  PROVE  Stats(G)[field] = Total(Share(field, T), G)
<1>1. IsFiniteSet(T) /\ \A t \in T : t.pnl \in Int
  BY DEF Recorded, TradeRecord
<1>2. PICK f \in [T -> Int] : f = Share(field, T)
  BY SharesAreIntegers
<1>3. CASE field = "trade_count"
  <2>1. \A t \in T : f[t] = IF t \in T THEN 1 ELSE 0
    BY <1>2, <1>3 DEF Share
  <2>2. Total(f, G) = Cardinality(G \cap T)
    <3>1. PICK P : P = T
      OBVIOUS
    <3>2. \A t \in T : f[t] = IF t \in P THEN 1 ELSE 0
      BY <2>1, <3>1
    <3>3. \A s \in SUBSET T : Total(f, s) = Cardinality(s \cap P)
      BY <1>1, <3>2, TotalCounts
    <3> QED
      BY <3>1, <3>3
  <2>3. G \cap T = G /\ Stats(G)["trade_count"] = Cardinality(G)
    BY DEF Stats
  <2> QED
    BY <1>2, <1>3, <2>2, <2>3
<1>4. CASE field = "net_profit"
  <2>1. f = PnlOf(T)
    BY <1>2, <1>4 DEF Share, PnlOf
  <2>2. SumPnl(G) = Total(f, G)
    BY <2>1, SumPnlIsTotal
  <2>3. Stats(G)["net_profit"] = SumPnl(G)
    BY DEF Stats
  <2> QED
    BY <1>2, <1>4, <2>2, <2>3
<1>5. CASE field = "breakeven_trades"
  <2> DEFINE P == {t \in T : t.pnl = 0}
  <2>1. \A t \in T : f[t] = IF t \in P THEN 1 ELSE 0
    BY <1>2, <1>5 DEF Share
  <2>2. Total(f, G) = Cardinality(G \cap P)
    <3> HIDE DEF P
    <3> QED
      BY <1>1, <2>1, TotalCounts
  <2>3. G \cap P = {t \in G : t.pnl = 0}
    OBVIOUS
  <2>4. Stats(G)["breakeven_trades"] = Cardinality(G) - Cardinality(Winners(G)) - Cardinality(Losers(G))
    BY DEF Stats
  <2>5. Stats(G)["breakeven_trades"] = Cardinality({t \in G : t.pnl = 0})
    BY <2>4, WinnersAndLosers
  <2> QED
    BY <1>2, <1>5, <2>2, <2>3, <2>5
<1>6. CASE field = "gross_loss"
  <2>0. PICK h \in [T -> Int] : h = PnlOf(T)
    BY <1>1 DEF PnlOf
  <2> DEFINE P == {t \in T : t.pnl < 0}
  <2>1. \A t \in T : f[t] = IF t \in P THEN h[t] ELSE 0
    BY <1>2, <1>6, <2>0 DEF Share, PnlOf
  <2>2. Total(f, G) = Total(h, G \cap P)
    <3> HIDE DEF P
    <3>0. IsFiniteSet(T) /\ f \in [T -> Int] /\ h \in [T -> Int]
      BY <1>1
    <3>1. \A s \in SUBSET T : Total(f, s) = Total(h, s \cap P)
      BY <3>0, <2>1, TotalOfPart
    <3> QED
      BY <3>1
  <2>3. G \cap P = Losers(G) /\ Losers(G) \in SUBSET T
    BY DEF Losers
  <2>4. SumPnl(Losers(G)) = Total(h, Losers(G))
    BY <2>0, <2>3, SumPnlIsTotal
  <2>5. Stats(G)["gross_loss"] = SumPnl(Losers(G))
    BY DEF Stats
  <2> QED
    BY <1>2, <1>6, <2>2, <2>3, <2>4, <2>5
<1> QED
  BY <1>3, <1>4, <1>5, <1>6 DEF Figures

\* The sum of a figure over rows, as a total.
LEMMA RowSumIsTotal ==
  ASSUME NEW rows, NEW field
  PROVE  MapThenSumSet(LAMBDA i : rows[i].stats[field], DOMAIN rows)
           = Total([i \in DOMAIN rows |-> rows[i].stats[field]], DOMAIN rows)
<1> DEFINE f == [i \in DOMAIN rows |-> rows[i].stats[field]]
           G == DOMAIN rows
           IsSum(i) == i = [x \in SUBSET G |-> IF x = {} THEN 0
                                              ELSE rows[Pick(x)].stats[field] + i[x \ {Pick(x)}]]
<1>1. ASSUME NEW x \in SUBSET G, x # {} PROVE f[Pick(x)] = rows[Pick(x)].stats[field]
  <2>1. Pick(x) \in x
    BY <1>1 DEF Pick
  <2>2. Pick(x) \in G
    BY <1>1, <2>1
  <2> QED
    BY <2>2
<1>2. \A i : IsSum(i) <=> Recurs(i, f, G)
  <2> HIDE DEF f, G
  <2>1. ASSUME NEW i, NEW x \in SUBSET G
        PROVE  NextSum(i, f, x) = IF x = {} THEN 0 ELSE rows[Pick(x)].stats[field] + i[x \ {Pick(x)}]
    BY <1>1 DEF NextSum
  <2> QED
    BY <2>1 DEF Recurs
<1>3. MapThenSumSet(LAMBDA i : rows[i].stats[field], G) = (CHOOSE i : IsSum(i))[G]
  BY DEF MapThenSumSet, MapThenFoldSet, Pick
<1>4. Total(f, G) = (CHOOSE i : Recurs(i, f, G))[G]
  BY DEF Total, MapThenSumSet, MapThenFoldSet, Recurs, NextSum, Pick
<1> HIDE DEF f, G, IsSum
<1>5. (CHOOSE i : IsSum(i)) = (CHOOSE i : Recurs(i, f, G))
  BY <1>2
<1>6. MapThenSumSet(LAMBDA i : rows[i].stats[field], G) = Total(f, G)
  BY <1>3, <1>4, <1>5
<1> QED
  BY <1>6 DEF f, G

\* Rows that divide the trades add up to the figures of all trades.
LEMMA RowsAddUp ==
  ASSUME NEW T, Recorded(T), NEW rows, Divides(rows, T), NEW field \in Figures
  PROVE  MapThenSumSet(LAMBDA i : rows[i].stats[field], DOMAIN rows) = Stats(T)[field]
<1> DEFINE I == DOMAIN rows
           f == [i \in I |-> rows[i].stats[field]]
<1>1. PICK ix \in [T -> I] : \A i \in I : rows[i].stats = Stats({t \in T : ix[t] = i})
  BY DEF Divides
<1>2. IsFiniteSet(I) /\ IsFiniteSet(T)
  BY DEF Divides, Recorded
<1>3. PICK h \in [T -> Int] : h = Share(field, T)
  BY SharesAreIntegers
<1>4. ASSUME NEW i \in I PROVE rows[i].stats[field] = Total(h, {t \in T : ix[t] = i})
  <2>1. PICK G \in SUBSET T : G = {t \in T : ix[t] = i}
    OBVIOUS
  <2>2. Stats(G)[field] = Total(h, G)
    BY <1>3, <2>1, FiguresAreTotals
  <2> QED
    BY <1>1, <2>1, <2>2
<1> HIDE DEF I
<1>5. Total([i \in I |-> Total(h, {t \in T : ix[t] = i})], I) = Total(h, T)
  BY <1>2, TotalOfParts
<1>6. Total(f, I) = Total(h, T)
  <2> DEFINE g == [i \in I |-> Total(h, {t \in T : ix[t] = i})]
  <2>1. \A i \in I : f[i] = g[i]
    BY <1>4
  <2> HIDE DEF f, g
  <2>2. Total(f, I) = Total(g, I)
    BY <2>1, TotalSame
  <2> QED
    BY <1>5, <2>2 DEF g
<1>7. Stats(T)[field] = Total(h, T)
  <2>1. PICK G \in SUBSET T : G = T
    OBVIOUS
  <2> QED
    BY <1>3, <2>1, FiguresAreTotals
<1> QED
  BY <1>6, <1>7, RowSumIsTotal DEF I

\* There are n rows, one per value of a key; the i-th is that of at[i].
OneRowPerKey(rows, n, at, key, T) ==
  /\ n \in Nat /\ DOMAIN rows = 1..n
  /\ \A t \in T : \E i \in 1..n : at[i] = key[t]
  /\ \A i, j \in 1..n : at[i] = at[j] => i = j
  /\ \A i \in 1..n : rows[i].stats = Stats({t \in T : key[t] = at[i]})

\* Such rows divide the trades.
LEMMA RowsByKey ==
  ASSUME NEW T, NEW key, NEW n, NEW rows, NEW at, OneRowPerKey(rows, n, at, key, T)
  PROVE  Divides(rows, T)
<1>0. /\ n \in Nat /\ DOMAIN rows = 1..n
      /\ \A t \in T : \E i \in 1..n : at[i] = key[t]
      /\ \A i, j \in 1..n : at[i] = at[j] => i = j
      /\ \A i \in 1..n : rows[i].stats = Stats({t \in T : key[t] = at[i]})
  BY DEF OneRowPerKey
<1> DEFINE ix == [t \in T |-> CHOOSE i \in 1..n : at[i] = key[t]]
<1>1. ASSUME NEW t \in T PROVE ix[t] \in 1..n /\ at[ix[t]] = key[t]
  BY <1>0
<1>2. ix \in [T -> 1..n]
  BY <1>1
<1> HIDE DEF ix
<1>3. ASSUME NEW i \in 1..n PROVE {t \in T : ix[t] = i} = {t \in T : key[t] = at[i]}
  BY <1>0, <1>1
<1>4. IsFiniteSet(1..n)
  BY <1>0, FS_Interval
<1> QED
  BY <1>0, <1>2, <1>3, <1>4 DEF Divides

\* The values of a function on the trades are finitely many.
LEMMA FinitelyManyKeys ==
  ASSUME NEW T, IsFiniteSet(T), NEW key, DOMAIN key = T
  PROVE  IsFiniteSet({key[t] : t \in T})
<1> DEFINE I == {key[t] : t \in T}
           f == [t \in T |-> key[t]]
<1>1. f \in Surjection(T, I)
  BY DEF Surjection
<1> HIDE DEF I, f
<1>2. IsFiniteSet(I)
  BY <1>1, FS_Surjection
<1> QED
  BY <1>2 DEF I

\* The rows of the symbols, the best first.
LEMMA SymbolsDivide ==
  ASSUME NEW T, Recorded(T)
  PROVE  Divides(BySymbol(T), T)
<1> DEFINE key == [t \in T |-> t.symbol]
           row == [t \in T |-> [symbol |-> t.symbol, stats |-> Stats({u \in T : key[u] = t.symbol})]]
           rowset == {row[t] : t \in T}
           R == {p \in rowset \X rowset : Before(<<-p[1].stats.net_profit, p[1].symbol>>,
                                                 <<-p[2].stats.net_profit, p[2].symbol>>)}
           A(x) == {y \in rowset : Before(<<-y.stats.net_profit, y.symbol>>,
                                         <<-x.stats.net_profit, x.symbol>>)}
           P(x) == {y \in rowset : <<y, x>> \in R}
           n == Cardinality(rowset)
           rows == BySymbol(T)
<1>0. IsFiniteSet(T) /\ \A t \in T : t.symbol \in Int
  BY DEF Recorded, TradeRecord
<1>1. {[symbol |-> k, stats |-> Stats(Groups(T, key)[k])] : k \in DOMAIN Groups(T, key)} = rowset
  <2>1. DOMAIN Groups(T, key) = {key[t] : t \in T}
    BY DEF Groups
  <2>2. \A k \in DOMAIN Groups(T, key) : Groups(T, key)[k] = {u \in T : key[u] = k}
    BY DEF Groups
  <2>3. ASSUME NEW t \in T PROVE row[t] = [symbol |-> key[t], stats |-> Stats(Groups(T, key)[key[t]])]
    BY <2>1, <2>2
  <2> DEFINE F(k) == [symbol |-> k, stats |-> Stats(Groups(T, key)[k])]
  <2>4. \A t \in T : row[t] = F(key[t])
    BY <2>3
  <2> HIDE DEF row, F
  <2>5. {F(k) : k \in DOMAIN Groups(T, key)} = rowset
    <3>1. \A t \in T : key[t] \in DOMAIN Groups(T, key)
      BY <2>1
    <3>2. \A k \in DOMAIN Groups(T, key) : \E t \in T : k = key[t]
      BY <2>1
    <3> HIDE DEF key
    <3> QED
      BY <2>4, <3>1, <3>2
  <2> QED
    BY <2>5 DEF F
<1>2. rows = InOrder(rowset, LAMBDA r, s : Before(<<-r.stats.net_profit, r.symbol>>,
                                                 <<-s.stats.net_profit, s.symbol>>))
  <2> HIDE DEF rowset
  <2> QED
    BY <1>1 DEF BySymbol
<1>3. IsFiniteSet(rowset)
  <2>1. DOMAIN row = T
    OBVIOUS
  <2> HIDE DEF row
  <2> QED
    BY <1>0, <2>1, FinitelyManyKeys
<1>4. ASSUME NEW r \in rowset
      PROVE  /\ r.symbol \in Int /\ r.stats = Stats({u \in T : key[u] = r.symbol})
             /\ r = [symbol |-> r.symbol, stats |-> r.stats]
             /\ r.stats.net_profit \in Int
  <2>1. PICK t \in T : r = row[t]
    BY <1>4
  <2>2. r = [symbol |-> t.symbol, stats |-> Stats({u \in T : key[u] = t.symbol})]
    BY <2>1
  <2>3. PICK G \in SUBSET T : G = {u \in T : key[u] = t.symbol}
    OBVIOUS
  <2>4. Stats(G).net_profit \in Int
    <3>1. PnlOf(T) \in [T -> Int]
      BY DEF PnlOf, Recorded, TradeRecord
    <3>2. SumPnl(G) = Total(PnlOf(T), G)
      BY SumPnlIsTotal
    <3>3. Total(PnlOf(T), G) \in Int
      BY <1>0, <3>1, PartTotalInt
    <3> QED
      BY <3>2, <3>3 DEF Stats
  <2> HIDE DEF key
  <2> QED
    BY <1>0, <2>2, <2>3, <2>4
<1>5. \A r, q \in rowset : r.symbol = q.symbol => r = q
  <2>1. ASSUME NEW r \in rowset, NEW q \in rowset, r.symbol = q.symbol PROVE r = q
    <3>0. {u \in T : key[u] = r.symbol} = {u \in T : key[u] = q.symbol}
      BY <2>1
    <3>1. r.stats = q.stats
      <4>1. r.stats = Stats({u \in T : key[u] = r.symbol}) /\ q.stats = Stats({u \in T : key[u] = q.symbol})
        BY <1>4
      <4> QED
        BY <3>0, <4>1
    <3>2. r = [symbol |-> r.symbol, stats |-> r.stats] /\ q = [symbol |-> q.symbol, stats |-> q.stats]
      BY <1>4
    <3> QED
      BY <2>1, <3>1, <3>2, Zenon
  <2> QED
    BY <2>1
<1> HIDE DEF key, row, rowset
<1>6. OrdersAll(R, rowset)
  <2>1. ASSUME NEW r \in rowset, NEW q \in rowset
        PROVE  <<r, q>> \in R
                 <=> \/ -r.stats.net_profit < -q.stats.net_profit
                     \/ r.symbol < q.symbol /\ -r.stats.net_profit = -q.stats.net_profit
    <3>1. PICK a : a = <<-r.stats.net_profit, r.symbol>>
      OBVIOUS
    <3>2. PICK b : b = <<-q.stats.net_profit, q.symbol>>
      OBVIOUS
    <3>3. Len(a) = 2 /\ a[1] = -r.stats.net_profit /\ a[2] = r.symbol
      BY <3>1
    <3>4. b[1] = -q.stats.net_profit /\ b[2] = q.symbol
      BY <3>2
    <3>5. Before(a, b) <=> \/ a[1] < b[1]
                           \/ a[2] < b[2] /\ a[1] = b[1]
      BY <3>3, BeforeTwo
    <3>6. <<r, q>> \in R <=> Before(a, b)
      BY <3>1, <3>2
    <3> QED
      BY <3>3, <3>4, <3>5, <3>6
  <2>2. \A r \in rowset : r.symbol \in Int /\ r.stats.net_profit \in Int
    BY <1>4
  <2> HIDE DEF R
  <2> QED
    BY <1>5, <2>1, <2>2 DEF OrdersAll
<1>7. rows = Arranged(R, rowset)
  <2>1. rows = [i \in 1..n |-> CHOOSE x \in rowset : Cardinality(A(x)) = i - 1]
    BY <1>2 DEF InOrder
  <2>2. Arranged(R, rowset) = [i \in 1..n |-> CHOOSE x \in rowset : Cardinality(P(x)) = i - 1]
    BY DEF Arranged, InOrder
  <2>3. \A x \in rowset : A(x) = P(x)
    OBVIOUS
  <2> HIDE DEF A, P
  <2>4. ASSUME NEW i \in 1..n
        PROVE  (CHOOSE x \in rowset : Cardinality(A(x)) = i - 1)
                 = CHOOSE x \in rowset : Cardinality(P(x)) = i - 1
    BY <2>3
  <2> QED
    BY <2>1, <2>2, <2>4
<1> HIDE DEF R, rows
<1>8. Lists(rows, R, rowset) /\ n \in Nat
  BY <1>3, <1>6, <1>7, SortedLists, FS_CardinalityType
<1>9. rows \in [1..n -> rowset]
  BY <1>8 DEF Lists
<1> DEFINE at == [i \in 1..n |-> rows[i].symbol]
<1>10. \A t \in T : \E i \in 1..n : at[i] = key[t]
  <2>1. ASSUME NEW t \in T PROVE \E i \in 1..n : at[i] = key[t]
    <3>1. PICK r \in rowset : r.symbol = key[t]
      <4>1. row[t] \in rowset
        BY DEF rowset
      <4>2. row[t].symbol = key[t]
        BY DEF row, key
      <4> QED
        BY <4>1, <4>2
    <3>2. PICK i \in 1..n : rows[i] = r
      BY <1>8 DEF Lists
    <3> QED
      BY <3>1, <3>2
  <2> QED
    BY <2>1
<1>11. \A i, j \in 1..n : at[i] = at[j] => i = j
  <2>1. ASSUME NEW i \in 1..n, NEW j \in 1..n, at[i] = at[j], i # j PROVE FALSE
    <3>1. rows[i] = rows[j]
      BY <1>5, <1>9, <2>1
    <3>2. i < j \/ j < i
      BY <1>8, <2>1
    <3> QED
      BY <1>8, <3>1, <3>2 DEF Lists
  <2> QED
    BY <2>1
<1>12. \A i \in 1..n : rows[i].stats = Stats({t \in T : key[t] = at[i]})
  <2>1. ASSUME NEW i \in 1..n PROVE rows[i].stats = Stats({t \in T : key[t] = at[i]})
    <3>1. rows[i] \in rowset /\ at[i] = rows[i].symbol
      BY <1>9
    <3> QED
      BY <1>4, <3>1
  <2> QED
    BY <2>1
<1>13. DOMAIN rows = 1..n
  BY <1>9
<1> HIDE DEF at, n
<1>14. OneRowPerKey(rows, n, at, key, T)
  BY <1>8, <1>10, <1>11, <1>12, <1>13 DEF OneRowPerKey
<1>15. Divides(rows, T)
  BY <1>14, RowsByKey, Zenon
<1> QED
  BY <1>15 DEF rows

\* The rows of the months.
LEMMA MonthsDivide ==
  ASSUME NEW T, Recorded(T)
  PROVE  Divides(ByMonth(T), T)
<1> DEFINE key == [t \in T |-> t.exit \div MonthLength]
           M == {key[t] : t \in T}
           months == InOrder(M, <)
           n == Cardinality(M)
           rows == ByMonth(T)
<1>0. IsFiniteSet(T) /\ \A t \in T : t.exit \in Int
  BY DEF Recorded, TradeRecord
<1>1. DOMAIN Groups(T, key) = M /\ \A k \in M : Groups(T, key)[k] = {t \in T : key[t] = k}
  BY DEF Groups
<1>2. M \subseteq Int
  BY <1>0, MonthAssumption
<1>3. IsFiniteSet(M)
  <2>1. DOMAIN key = T
    OBVIOUS
  <2> HIDE DEF key
  <2> QED
    BY <1>0, <2>1, FinitelyManyKeys
<1>4. rows = [i \in DOMAIN months |-> [month |-> months[i], stats |-> Stats(Groups(T, key)[months[i]])]]
  <2> HIDE DEF M
  <2> QED
    BY <1>1 DEF ByMonth
<1>5. \A t \in T : key[t] \in M
  OBVIOUS
<1> HIDE DEF M, key
<1>6. n \in Nat /\ Lists(months, {p \in M \X M : p[1] < p[2]}, M)
  BY <1>2, <1>3, NumbersInOrder, FS_CardinalityType
<1> HIDE DEF months
<1>7. /\ months \in [1..n -> M]
      /\ \A x \in M : \E i \in 1..n : months[i] = x
      /\ \A i, j \in 1..n : i < j => months[i] # months[j]
  BY <1>6 DEF Lists
<1>8. DOMAIN rows = 1..n /\ \A i \in 1..n : rows[i].stats = Stats({t \in T : key[t] = months[i]})
  <2> HIDE DEF rows
  <2>1. DOMAIN months = 1..n /\ \A i \in 1..n : months[i] \in M
    BY <1>7
  <2>2. DOMAIN rows = 1..n
    BY <1>4, <2>1
  <2>3. ASSUME NEW i \in 1..n PROVE rows[i].stats = Stats({t \in T : key[t] = months[i]})
    <3>1. rows[i].stats = Stats(Groups(T, key)[months[i]])
      BY <1>4, <2>1
    <3> QED
      BY <1>1, <2>1, <3>1
  <2> QED
    BY <2>2, <2>3
<1>9. \A t \in T : \E i \in 1..n : months[i] = key[t]
  BY <1>5, <1>7
<1>10. \A i, j \in 1..n : months[i] = months[j] => i = j
  BY <1>6, <1>7
<1> HIDE DEF n, rows
<1>11. OneRowPerKey(rows, n, months, key, T)
  BY <1>6, <1>8, <1>9, <1>10 DEF OneRowPerKey
<1>12. Divides(rows, T)
  BY <1>11, RowsByKey, Zenon
<1> QED
  BY <1>12 DEF rows

\* The rows of the exit reasons.
LEMMA ReasonsDivide ==
  ASSUME NEW T, Recorded(T)
  PROVE  Divides(ByReason(T), T)
<1> DEFINE key == [t \in T |-> t.reason]
           M == {key[t] : t \in T}
           places == {i \in DOMAIN ExitReasons : ExitReasons[i] \in DOMAIN Groups(T, key)}
           order == InOrder(places, <)
           n == Cardinality(places)
           present == KeepIf(ExitReasons, LAMBDA r : r \in DOMAIN Groups(T, key))
           rows == ByReason(T)
<1>0. IsFiniteSet(T) /\ \A t \in T : \E i \in 1..6 : t.reason = ExitReasons[i]
  BY DEF Recorded, TradeRecord
<1>1. DOMAIN Groups(T, key) = M /\ \A k \in M : Groups(T, key)[k] = {t \in T : key[t] = k}
  BY DEF Groups
<1>2. DOMAIN ExitReasons = 1..6 /\ \A i, j \in 1..6 : ExitReasons[i] = ExitReasons[j] => i = j
  <2>1. 1..6 = {1, 2, 3, 4, 5, 6}
    OBVIOUS
  <2> QED
    BY <2>1 DEF ExitReasons
<1>3. present = [i \in DOMAIN order |-> ExitReasons[order[i]]]
  BY DEF KeepIf
<1>4. rows = [i \in DOMAIN present |->
               [reason |-> present[i], stats |-> Stats(Groups(T, key)[present[i]]),
                share |-> <<Cardinality(Groups(T, key)[present[i]]), Cardinality(T)>>]]
  BY DEF ByReason
<1>5. \A t \in T : key[t] = t.reason /\ key[t] \in M
  OBVIOUS
<1>6. IsFiniteSet(places) /\ places \subseteq Int /\ places \subseteq 1..6
  <2>1. places \in SUBSET (1..6)
    BY <1>2
  <2>2. IsFiniteSet(1..6)
    <3>1. PICK m \in Nat : m = 6
      OBVIOUS
    <3>2. IsFiniteSet(1..m)
      BY FS_Interval
    <3> QED
      BY <3>1, <3>2
  <2>3. IsFiniteSet(places)
    <3> HIDE DEF places
    <3> QED
      BY <2>1, <2>2, FS_Subset
  <2> QED
    BY <2>1, <2>3
<1>7. places = {i \in 1..6 : ExitReasons[i] \in M}
  BY <1>1, <1>2
<1> HIDE DEF M, key, places
<1>8. n \in Nat /\ Lists(order, {p \in places \X places : p[1] < p[2]}, places)
  BY <1>6, NumbersInOrder, FS_CardinalityType
<1> HIDE DEF order
<1>9. /\ order \in [1..n -> places]
      /\ \A x \in places : \E i \in 1..n : order[i] = x
      /\ \A i, j \in 1..n : i < j => order[i] # order[j]
  BY <1>8 DEF Lists
<1> HIDE DEF n, present, rows
<1>10. DOMAIN present = 1..n /\ \A i \in 1..n : present[i] = ExitReasons[order[i]] /\ present[i] \in M
  BY <1>3, <1>7, <1>9
<1>11. DOMAIN rows = 1..n /\ \A i \in 1..n : rows[i].stats = Stats({t \in T : key[t] = present[i]})
  BY <1>1, <1>4, <1>10
<1>12. \A t \in T : \E i \in 1..n : present[i] = key[t]
  <2>1. ASSUME NEW t \in T PROVE \E i \in 1..n : present[i] = key[t]
    <3>1. PICK p \in 1..6 : ExitReasons[p] = key[t]
      BY <1>0, <1>5
    <3>2. p \in places
      BY <1>5, <1>7, <3>1
    <3>3. PICK i \in 1..n : order[i] = p
      BY <1>9, <3>2
    <3> QED
      BY <1>10, <3>1, <3>3
  <2> QED
    BY <2>1
<1>13. \A i, j \in 1..n : present[i] = present[j] => i = j
  <2>1. ASSUME NEW i \in 1..n, NEW j \in 1..n, present[i] = present[j], i # j PROVE FALSE
    <3>1. order[i] \in 1..6 /\ order[j] \in 1..6
      BY <1>6, <1>9
    <3>2. order[i] = order[j]
      BY <1>2, <1>10, <2>1, <3>1
    <3>3. i < j \/ j < i
      BY <1>8, <2>1
    <3> QED
      BY <1>9, <3>2, <3>3
  <2> QED
    BY <2>1
<1>14. OneRowPerKey(rows, n, present, key, T)
  BY <1>8, <1>11, <1>12, <1>13 DEF OneRowPerKey
<1>15. Divides(rows, T)
  BY <1>14, RowsByKey, Zenon
<1> QED
  BY <1>15 DEF rows

\* The symbols, the exit reasons and the months of any trades add up to the
\* summary.
LEMMA BreakdownsDivide ==
  ASSUME NEW T, Recorded(T)
  PROVE  BreakdownsAddUp(Analyze(T))
<1>1. /\ Analyze(T).by_symbol = BySymbol(T) /\ Analyze(T).by_exit_reason = ByReason(T)
      /\ Analyze(T).by_month = ByMonth(T) /\ Analyze(T).stats = Stats(T)
  BY DEF Analyze
<1>2. ASSUME NEW rows \in {BySymbol(T), ByReason(T), ByMonth(T)}, NEW field \in Figures
      PROVE  MapThenSumSet(LAMBDA i : rows[i].stats[field], DOMAIN rows) = Stats(T)[field]
  <2>1. Divides(rows, T)
    BY <1>2, SymbolsDivide, ReasonsDivide, MonthsDivide
  <2> QED
    BY <2>1, RowsAddUp
<1>3. Stats(T).gross_loss = Stats(T)["gross_loss"]
  OBVIOUS
<1> QED
  BY <1>1, <1>2, <1>3 DEF BreakdownsAddUp, Figures

\* For any finite set of trades with ids of their own, the analysis means what
\* it says and its breakdowns add up: analyze_backtest_trades.
THEOREM StatisticsAreRight ==
  ASSUME NEW T, Recorded(T)
  PROVE  /\ MeansWhatItSays(Analyze(T), AnalysisOrder(T), Curve(AnalysisOrder(T)))
         /\ BreakdownsAddUp(Analyze(T))
BY AnalysisMeansIt, BreakdownsDivide

(***************************************************************************)
(* The trades that the runs feed have ids of their own: the next id is one *)
(* more than their number.                                                 *)
(***************************************************************************)

TradesInv == Recorded(trades) /\ \A t \in trades : t.id \in 1..Cardinality(trades)

\* No trades are trades.
LEMMA TradesInitially == AlgorithmsInit => TradesInv
BY FS_EmptySet DEF AlgorithmsInit, TradesInv, Recorded

\* A trade is added with a new id; nothing else touches the trades.
LEMMA TradesInductive == TradesInv /\ [AlgorithmsNext]_algorithmVars => TradesInv'
<1> SUFFICES ASSUME TradesInv, [AlgorithmsNext]_algorithmVars PROVE TradesInv'
  OBVIOUS
<1>1. CASE AddTrade
  <2>1. PICK symbol \in {1, 2}, entry \in {1, 2, 3}, exit \in {1, 2, 3}, pnl \in {-2, 0, 3} :
          trades' = trades \cup {[id |-> Cardinality(trades) + 1, symbol |-> symbol,
            entry |-> entry, exit |-> exit, pnl |-> pnl,
            reason |-> IF pnl > 0 THEN "take_profit" ELSE IF pnl < 0 THEN "stop_loss"
                       ELSE "end_of_period"]}
    BY <1>1 DEF AddTrade
  <2>2. PICK t : t = [id |-> Cardinality(trades) + 1, symbol |-> symbol,
            entry |-> entry, exit |-> exit, pnl |-> pnl,
            reason |-> IF pnl > 0 THEN "take_profit" ELSE IF pnl < 0 THEN "stop_loss"
                       ELSE "end_of_period"]
    OBVIOUS
  <2>3. IsFiniteSet(trades) /\ Cardinality(trades) \in Nat
    BY FS_CardinalityType DEF TradesInv, Recorded
  <2>4. t \in TradeRecord /\ t.id = Cardinality(trades) + 1
    <3>1. \A r \in {"take_profit", "stop_loss", "end_of_period"} : \E i \in 1..6 : r = ExitReasons[i]
      <4>1. ExitReasons[1] = "stop_loss" /\ ExitReasons[2] = "take_profit" /\ ExitReasons[4] = "end_of_period"
        BY DEF ExitReasons
      <4> QED
        BY <4>1
    <3>2. PICK r \in {"take_profit", "stop_loss", "end_of_period"} :
            t = [id |-> Cardinality(trades) + 1, symbol |-> symbol, entry |-> entry, exit |-> exit,
                 pnl |-> pnl, reason |-> r]
      BY <2>2
    <3>3. symbol \in Int /\ entry \in Int /\ exit \in Int /\ pnl \in Int
      BY <2>1
    <3> QED
      BY <2>3, <3>1, <3>2, <3>3 DEF TradeRecord
  <2>5. trades' = trades \cup {t}
    BY <2>1, <2>2
  <2>6. t \notin trades
    BY <2>3, <2>4 DEF TradesInv
  <2>7. IsFiniteSet(trades') /\ Cardinality(trades') = Cardinality(trades) + 1
    BY <2>3, <2>5, <2>6, FS_AddElement
  <2>8. \A u \in trades' : u.id \in 1..Cardinality(trades')
    BY <2>3, <2>4, <2>5, <2>7 DEF TradesInv
  <2>9. \A u, v \in trades' : u.id = v.id => u = v
    BY <2>3, <2>4, <2>5 DEF TradesInv, Recorded
  <2>10. trades' \subseteq TradeRecord
    BY <2>4, <2>5 DEF TradesInv, Recorded
  <2> QED
    BY <2>7, <2>8, <2>9, <2>10 DEF TradesInv, Recorded
<1>2. CASE trades' = trades
  BY <1>2 DEF TradesInv, Recorded
<1>3. CASE AddDay
  BY <1>2, <1>3 DEF AddDay
<1>4. CASE AddResult
  BY <1>2, <1>4 DEF AddResult
<1>5. CASE AddMinute
  BY <1>2, <1>5 DEF AddMinute
<1>6. CASE UNCHANGED algorithmVars
  BY <1>2, <1>6 DEF algorithmVars
<1> QED
  BY <1>1, <1>3, <1>4, <1>5, <1>6 DEF AlgorithmsNext

\* The statistics of a backtest are right as a whole and in every breakdown.
THEOREM StatisticsAlwaysHold == AlgorithmsSpec => []StatisticsHold
<1>1. TradesInv => StatisticsHold
  BY StatisticsAreRight DEF TradesInv, StatisticsHold
<1> QED
  BY <1>1, TradesInitially, TradesInductive, PTL DEF AlgorithmsSpec

-----------------------------------------------------------------------------
(***************************************************************************)
(* The metrics stored with the run, and the analysis.  When both loops see *)
(* one order they run in step: the equity is the capital and the realized  *)
(* profit, and so is its peak.                                             *)
(***************************************************************************)

MetricsRecord == [equity: Int, peak: Int, drawdown: Int \X Int, streak: StreakRecord]
MetricsStart == [equity |-> Capital, peak |-> Capital, drawdown |-> <<0, 1>>, streak |-> Streak0]

\* A turn makes a state of the loop a state of the loop.
LEMMA MetricsStepIsRecord ==
  ASSUME NEW a \in MetricsRecord, NEW t \in TradeRecord
  PROVE  MetricsStep(a, t) \in MetricsRecord
<1>1. /\ a.equity \in Int /\ a.peak \in Int /\ a.drawdown \in Int \X Int
      /\ a.streak \in StreakRecord /\ t.pnl \in Int
  BY DEF MetricsRecord, TradeRecord
<1>2. PICK e \in Int : e = a.equity + t.pnl
  BY <1>1
<1>3. PICK p \in Int : p = Max({a.peak, e})
  BY <1>1, MaxOfTwo
<1>4. Streak(a.streak, t.pnl, FALSE) \in StreakRecord
  BY <1>1, StreakIsRecord
<1>5. PICK q \in Int \X Int :
        q = IF p # 0 /\ Smaller(a.drawdown, <<p - e, p>>) THEN <<p - e, p>> ELSE a.drawdown
  <2>1. <<p - e, p>> \in Int \X Int
    OBVIOUS
  <2> QED
    BY <1>1, <2>1
<1>6. MetricsStep(a, t) = [equity |-> e, peak |-> p, drawdown |-> q,
                           streak |-> Streak(a.streak, t.pnl, FALSE)]
  BY <1>2, <1>3, <1>5 DEF MetricsStep
<1>7. [equity |-> e, peak |-> p, drawdown |-> q, streak |-> Streak(a.streak, t.pnl, FALSE)]
        \in MetricsRecord
  BY <1>4 DEF MetricsRecord
<1> QED
  BY <1>6, <1>7

\* acc holds the states of the loop over s, from before the first turn to
\* after the last.
MetricsTurns(acc, s, n) ==
  /\ acc \in [0..n -> MetricsRecord]
  /\ acc[0] = MetricsStart
  /\ \A k \in 1..n : acc[k] = MetricsStep(acc[k - 1], s[k])

\* The fold is the loop.
LEMMA MetricsLoops ==
  ASSUME NEW n \in Nat, NEW s \in [1..n -> TradeRecord]
  PROVE  \E acc : /\ MetricsTurns(acc, s, n)
                  /\ FoldLeft(MetricsStep, MetricsStart, s) = acc[n]
<1> DEFINE V == MetricsRecord
           step == [p \in V \X (1..n) |-> MetricsStep(p[1], s[p[2]])]
           IsFold(i) == i = [x \in SUBSET DOMAIN s |->
                               IF x = {} THEN MetricsStart
                               ELSE MetricsStep(i[x \ {Max(x)}], s[Max(x)])]
           it == CHOOSE i : IsFold(i)
<1>0. DOMAIN s = 1..n
  OBVIOUS
<1>1. MetricsStart \in V
  BY DEF MetricsStart, MetricsRecord, StreakRecord, Streak0, Capital
<1>2. step \in [V \X (1..n) -> V]
  <2>1. ASSUME NEW p \in V \X (1..n) PROVE MetricsStep(p[1], s[p[2]]) \in V
    <3>1. p[1] \in V /\ s[p[2]] \in TradeRecord
      OBVIOUS
    <3> QED
      BY <3>1, MetricsStepIsRecord
  <2> QED
    BY <2>1
<1>3. \A v \in V, k \in 1..n : step[<<v, k>>] = MetricsStep(v, s[k])
  OBVIOUS
<1> HIDE DEF step
<1>4. PICK j : LeftFoldValues(j, MetricsStart, step, V, n)
  <2>1. Steps(step, MetricsStart, V, 1..n)
    BY <1>1, <1>2 DEF Steps
  <2> HIDE DEF V
  <2> QED
    BY <2>1, FoldLeftExists
<1>5. IsFold(j)
  <2>1. ASSUME NEW x \in SUBSET (1..n), x # {}
        PROVE  j[x] = MetricsStep(j[x \ {Max(x)}], s[Max(x)])
    <3>0. x \in SUBSET (1..n) /\ x # {}
      BY <2>1
    <3>1. IsFiniteSet(x) /\ x \subseteq Int
      <4>1. IsFiniteSet(1..n)
        BY FS_Interval
      <4>2. IsFiniteSet(x)
        BY <3>0, <4>1, FS_Subset
      <4>3. x \subseteq Int
        BY <3>0
      <4> QED
        BY <4>2, <4>3
    <3>2. Max(x) \in x
      BY <2>1, <3>1, MaxOf
    <3>3. j[x] = step[<<j[x \ {Max(x)}], Max(x)>>]
      BY <1>4, <2>1 DEF LeftFoldValues
    <3>4. Max(x) \in 1..n /\ j[x \ {Max(x)}] \in V
      BY <1>4, <3>0, <3>2 DEF LeftFoldValues
    <3> QED
      BY <1>3, <3>3, <3>4
  <2>2. \A x \in SUBSET (1..n) :
          j[x] = IF x = {} THEN MetricsStart ELSE MetricsStep(j[x \ {Max(x)}], s[Max(x)])
    BY <1>4, <2>1 DEF LeftFoldValues
  <2>3. j = [x \in SUBSET (1..n) |-> j[x]]
    BY <1>4 DEF LeftFoldValues
  <2> QED
    BY <1>0, <2>2, <2>3
<1>6. IsFold(it)
  BY <1>5
<1>7. FoldLeft(MetricsStep, MetricsStart, s) = it[DOMAIN s]
  BY DEF FoldLeft, MapThenFoldSet
<1>8. \A x \in SUBSET (1..n) :
        it[x] = IF x = {} THEN MetricsStart ELSE MetricsStep(it[x \ {Max(x)}], s[Max(x)])
  <2> HIDE DEF it
  <2> QED
    BY <1>0, <1>6
<1> HIDE DEF it
<1> DEFINE acc == [k \in 0..n |-> it[1..k]]
<1>9. acc[0] = MetricsStart
  <2>1. 1..0 = {} /\ 0 \in 0..n
    OBVIOUS
  <2>2. it[1..0] = MetricsStart
    BY <1>8, <2>1
  <2> QED
    BY <2>1, <2>2
<1>10. ASSUME NEW k \in 1..n PROVE acc[k] = MetricsStep(acc[k - 1], s[k])
  <2>1. 1..k # {} /\ Max(1..k) = k /\ (1..k) \ {k} = 1..(k - 1)
    <3>1. k \in Nat /\ k # 0
      BY <1>10
    <3> QED
      BY <3>1, FirstPlaces
  <2>2. 1..k \in SUBSET (1..n) /\ k - 1 \in 0..n
    OBVIOUS
  <2>3. it[1..k] = MetricsStep(it[1..(k - 1)], s[k])
    BY <1>8, <2>1, <2>2
  <2> QED
    BY <2>2, <2>3
<1> HIDE DEF acc
<1>11. \A k \in 0..n : acc[k] \in V
  <2> DEFINE G == {k \in 0..n : acc[k] \in V}
  <2>1. 0 \in G
    BY <1>1, <1>9
  <2>2. ASSUME NEW k \in 1..n, k - 1 \in G PROVE k \in G
    <3>1. acc[k - 1] \in V /\ s[k] \in TradeRecord
      BY <2>2
    <3> QED
      BY <1>10, <3>1, MetricsStepIsRecord
  <2> HIDE DEF G
  <2>3. \A k \in 0..n : k \in G
    BY <2>1, <2>2, UpToInduction
  <2> QED
    BY <2>3 DEF G
<1>12. acc \in [0..n -> V] /\ acc[n] = it[1..n]
  BY <1>11 DEF acc
<1> QED
  BY <1>0, <1>7, <1>9, <1>10, <1>12 DEF MetricsTurns

\* Counters that carry a streak over a breakeven trade (x) are never behind
\* those that do not (y).
NeverBehind(x, y) ==
  /\ 0 <= y.wins /\ y.wins <= x.wins /\ 0 <= y.losses /\ y.losses <= x.losses
  /\ y.maxWins <= x.maxWins /\ y.maxLosses <= x.maxLosses

\* The drawdown q as a share of the peak and the drawdown d in money begin
\* together, and the share is never larger than d in terms of the capital.
DrawdownsAgree(q, d) ==
  /\ 0 <= d /\ 0 <= q[1] /\ 1 <= q[2]
  /\ q[1] = 0 <=> d = 0
  /\ q[1] * Capital <= d * q[2]

\* The states of both loops after as many turns.
Together(b, a) ==
  /\ b.equity = Capital + a.cumulative /\ b.peak = Capital + a.peak /\ 0 <= a.peak
  /\ DrawdownsAgree(b.drawdown, a.max_drawdown)
  /\ NeverBehind(b.streak, a.streak)

\* A turn leaves no counter behind.
LEMMA CountersStayAhead ==
  ASSUME NEW x \in StreakRecord, NEW y \in StreakRecord, NEW pnl \in Int, NeverBehind(x, y)
  PROVE  NeverBehind(Streak(x, pnl, FALSE), Streak(y, pnl, TRUE))
<1>1. /\ x.wins \in Int /\ x.losses \in Int /\ x.maxWins \in Int /\ x.maxLosses \in Int
      /\ y.wins \in Int /\ y.losses \in Int /\ y.maxWins \in Int /\ y.maxLosses \in Int
  BY DEF StreakRecord
<1>2. /\ 0 <= y.wins /\ y.wins <= x.wins /\ 0 <= y.losses /\ y.losses <= x.losses
      /\ y.maxWins <= x.maxWins /\ y.maxLosses <= x.maxLosses
  BY DEF NeverBehind
<1>3. CASE pnl > 0
  <2>1. PICK m \in Int : m = Max({x.maxWins, x.wins + 1}) /\ m >= x.maxWins /\ m >= x.wins + 1
    BY <1>1, MaxOfTwo
  <2>2. PICK l \in Int : l = Max({y.maxWins, y.wins + 1}) /\ (l = y.maxWins \/ l = y.wins + 1)
    BY <1>1, MaxOfTwo
  <2>3. PICK u : u = [wins |-> x.wins + 1, losses |-> 0, maxWins |-> m, maxLosses |-> x.maxLosses]
    OBVIOUS
  <2>4. PICK v : v = [wins |-> y.wins + 1, losses |-> 0, maxWins |-> l, maxLosses |-> y.maxLosses]
    OBVIOUS
  <2>5. Streak(x, pnl, FALSE) = u
    BY <1>3, <2>1, <2>3 DEF Streak
  <2>6. Streak(y, pnl, TRUE) = v
    BY <1>3, <2>2, <2>4 DEF Streak
  <2>7. NeverBehind(u, v)
    <3>1. l <= m
      BY <1>1, <1>2, <2>1, <2>2
    <3> QED
      BY <1>1, <1>2, <2>3, <2>4, <3>1 DEF NeverBehind
  <2> QED
    BY <2>5, <2>6, <2>7, Zenon
<1>4. CASE pnl < 0
  <2>1. PICK m \in Int : m = Max({x.maxLosses, x.losses + 1}) /\ m >= x.maxLosses /\ m >= x.losses + 1
    BY <1>1, MaxOfTwo
  <2>2. PICK l \in Int : l = Max({y.maxLosses, y.losses + 1}) /\ (l = y.maxLosses \/ l = y.losses + 1)
    BY <1>1, MaxOfTwo
  <2>3. PICK u : u = [wins |-> 0, losses |-> x.losses + 1, maxWins |-> x.maxWins, maxLosses |-> m]
    OBVIOUS
  <2>4. PICK v : v = [wins |-> 0, losses |-> y.losses + 1, maxWins |-> y.maxWins, maxLosses |-> l]
    OBVIOUS
  <2>5. Streak(x, pnl, FALSE) = u
    BY <1>4, <2>1, <2>3 DEF Streak
  <2>6. Streak(y, pnl, TRUE) = v
    BY <1>4, <2>2, <2>4 DEF Streak
  <2>7. NeverBehind(u, v)
    <3>1. l <= m
      BY <1>1, <1>2, <2>1, <2>2
    <3> QED
      BY <1>1, <1>2, <2>3, <2>4, <3>1 DEF NeverBehind
  <2> QED
    BY <2>5, <2>6, <2>7, Zenon
<1>5. CASE pnl = 0
  <2>1. PICK v : v = [wins |-> 0, losses |-> 0, maxWins |-> y.maxWins, maxLosses |-> y.maxLosses]
    OBVIOUS
  <2>2. Streak(x, pnl, FALSE) = x
    BY <1>5 DEF Streak
  <2>3. Streak(y, pnl, TRUE) = v
    BY <1>5, <2>1 DEF Streak
  <2>4. NeverBehind(x, v)
    BY <1>1, <1>2, <2>1 DEF NeverBehind
  <2> QED
    BY <2>2, <2>3, <2>4, Zenon
<1>6. pnl > 0 \/ pnl < 0 \/ pnl = 0
  OBVIOUS
<1> QED
  BY <1>3, <1>4, <1>5, <1>6, Zenon

\* Without a breakeven trade the counters are the same.
LEMMA CountersStayEqual ==
  ASSUME NEW x, NEW pnl \in Int, pnl # 0
  PROVE  Streak(x, pnl, FALSE) = Streak(x, pnl, TRUE)
<1>1. CASE pnl > 0
  <2>1. PICK u : u = [wins |-> x.wins + 1, losses |-> 0,
                        maxWins |-> Max({x.maxWins, x.wins + 1}), maxLosses |-> x.maxLosses]
    OBVIOUS
  <2>2. Streak(x, pnl, FALSE) = u
    BY <1>1, <2>1 DEF Streak
  <2>3. Streak(x, pnl, TRUE) = u
    BY <1>1, <2>1 DEF Streak
  <2> QED
    BY <2>2, <2>3, Zenon
<1>2. CASE pnl < 0
  <2>1. PICK u : u = [wins |-> 0, losses |-> x.losses + 1,
                        maxWins |-> x.maxWins, maxLosses |-> Max({x.maxLosses, x.losses + 1})]
    OBVIOUS
  <2>2. Streak(x, pnl, FALSE) = u
    BY <1>2, <2>1 DEF Streak
  <2>3. Streak(x, pnl, TRUE) = u
    BY <1>2, <2>1 DEF Streak
  <2> QED
    BY <2>2, <2>3, Zenon
<1>3. pnl > 0 \/ pnl < 0
  OBVIOUS
<1> QED
  BY <1>1, <1>2, <1>3, Zenon

\* The larger of two shares, and the larger of two falls: f is the fall of a
\* turn, p the peak it is a share of.
LEMMA DrawdownsStayTogether ==
  ASSUME NEW q \in Int \X Int, NEW d \in Int, DrawdownsAgree(q, d),
         NEW f \in Int, NEW p \in Int, 0 <= f, Capital <= p
  PROVE  DrawdownsAgree(IF Smaller(q, <<f, p>>) THEN <<f, p>> ELSE q, Max({d, f}))
<1>1. PICK e \in Int : e = Max({d, f}) /\ e >= d /\ e >= f /\ (e = d \/ e = f)
  BY MaxOfTwo
<1>2. PICK q1 \in Int, q2 \in Int : q = <<q1, q2>>
  OBVIOUS
<1>3. /\ 0 <= d /\ 0 <= q1 /\ 1 <= q2 /\ (q1 = 0 <=> d = 0) /\ q1 * 3 <= d * q2
  BY <1>2 DEF DrawdownsAgree, Capital
<1>4. p >= 3
  BY DEF Capital
<1>5. CASE q1 * p < f * q2
  <2>1. (IF Smaller(q, <<f, p>>) THEN <<f, p>> ELSE q) = <<f, p>>
    BY <1>2, <1>5 DEF Smaller
  <2>2. f > 0
    <3>1. 0 <= q1 * p
      BY <1>3, <1>4
    <3>2. f = 0 => f * q2 = 0
      BY <1>3
    <3> QED
      BY <1>5, <3>1, <3>2
  <2>3. f * 3 <= e * p
    <3>1. f * 3 <= f * p
      BY <1>4
    <3>2. f * p <= e * p
      BY <1>1, <1>4
    <3> QED
      BY <3>1, <3>2
  <2>4. DrawdownsAgree(<<f, p>>, e)
    BY <1>1, <1>4, <2>2, <2>3 DEF DrawdownsAgree, Capital
  <2> QED
    BY <1>1, <2>1, <2>4
<1>6. CASE ~(q1 * p < f * q2)
  <2>1. (IF Smaller(q, <<f, p>>) THEN <<f, p>> ELSE q) = q
    BY <1>2, <1>6 DEF Smaller
  <2>2. q1 = 0 <=> e = 0
    <3>1. q1 = 0 => f = 0
      <4>1. q1 = 0 => q1 * p = 0
        OBVIOUS
      <4>2. f > 0 => f * q2 > 0
        BY <1>3
      <4> QED
        BY <1>6, <4>1, <4>2
    <3> QED
      BY <1>1, <1>3, <3>1
  <2>3. q1 * 3 <= e * q2
    <3>1. d * q2 <= e * q2
      BY <1>1, <1>3
    <3> QED
      BY <1>3, <3>1
  <2>4. DrawdownsAgree(q, e)
    BY <1>1, <1>2, <1>3, <2>2, <2>3 DEF DrawdownsAgree, Capital
  <2> QED
    BY <1>1, <2>1, <2>4
<1> QED
  BY <1>5, <1>6

\* A turn of both loops over the same trade.
LEMMA LoopsStayTogether ==
  ASSUME NEW b \in MetricsRecord, NEW a \in AnalysisRecord, NEW t \in TradeRecord, Together(b, a)
  PROVE  Together(MetricsStep(b, t), AnalysisStep(a, t))
<1>1. /\ a.cumulative \in Int /\ a.peak \in Int /\ a.max_drawdown \in Int
      /\ a.streak \in StreakRecord /\ t.pnl \in Int
      /\ b.drawdown \in Int \X Int /\ b.streak \in StreakRecord
  BY DEF AnalysisRecord, MetricsRecord, TradeRecord
<1>2. /\ b.equity = Capital + a.cumulative /\ b.peak = Capital + a.peak /\ 0 <= a.peak
      /\ DrawdownsAgree(b.drawdown, a.max_drawdown)
      /\ NeverBehind(b.streak, a.streak)
  BY DEF Together
<1>3. PICK c \in Int : c = a.cumulative + t.pnl
  BY <1>1
<1>4. PICK p \in Int : p = Max({a.peak, c}) /\ p >= a.peak /\ p >= c
  BY <1>1, MaxOfTwo
<1>5. PICK e \in Int : e = b.equity + t.pnl /\ e = Capital + c
  BY <1>1, <1>2, <1>3 DEF Capital
<1>6. PICK r \in Int : r = Max({b.peak, e}) /\ r = Capital + p
  <2>1. b.peak \in Int
    BY <1>1, <1>2 DEF Capital
  <2>2. Max({a.peak, c}) = IF a.peak >= c THEN a.peak ELSE c
    BY <1>1, MaxOfTwo
  <2>3. Max({b.peak, e}) = IF b.peak >= e THEN b.peak ELSE e
    BY <2>1, MaxOfTwo
  <2> QED
    BY <1>1, <1>2, <1>4, <1>5, <2>2, <2>3 DEF Capital
<1>7. PICK f \in Int : f = p - c /\ f = r - e /\ 0 <= f
  <2>1. p - c \in Int /\ 0 <= p - c
    BY <1>3, <1>4
  <2>2. p - c = r - e
    <3>1. p \in Int /\ c \in Int /\ r \in Int /\ e \in Int
      BY <1>3, <1>4, <1>5, <1>6
    <3>2. r = 3 + p /\ e = 3 + c
      BY <1>5, <1>6 DEF Capital
    <3> QED
      BY <3>1, <3>2
  <2> QED
    BY <2>1, <2>2
<1>8. Capital <= r /\ r # 0
  BY <1>2, <1>1, <1>4, <1>6 DEF Capital
<1>9. PICK q : q = IF Smaller(b.drawdown, <<f, r>>) THEN <<f, r>> ELSE b.drawdown
  OBVIOUS
<1>10. DrawdownsAgree(q, Max({a.max_drawdown, f}))
  BY <1>1, <1>2, <1>7, <1>8, <1>9, DrawdownsStayTogether
<1>11. PICK x : x = Streak(b.streak, t.pnl, FALSE)
  OBVIOUS
<1>12. PICK y : y = Streak(a.streak, t.pnl, TRUE)
  OBVIOUS
<1>13. NeverBehind(x, y)
  <2>1. NeverBehind(Streak(b.streak, t.pnl, FALSE), Streak(a.streak, t.pnl, TRUE))
    BY <1>1, <1>2, CountersStayAhead
  <2> QED
    BY <1>11, <1>12, <2>1, Zenon
<1>14. PICK v : v = MetricsStep(b, t)
  OBVIOUS
<1>15. v.equity = e /\ v.peak = r /\ v.drawdown = q /\ v.streak = x
  BY <1>5, <1>6, <1>7, <1>8, <1>9, <1>11, <1>14 DEF MetricsStep
<1>16. PICK u : u = AnalysisStep(a, t)
  OBVIOUS
<1>17. u.cumulative = c /\ u.peak = p /\ u.max_drawdown = Max({a.max_drawdown, f}) /\ u.streak = y
  BY <1>3, <1>4, <1>7, <1>12, <1>16 DEF AnalysisStep
<1>18. Together(v, u)
  BY <1>2, <1>1, <1>4, <1>5, <1>6, <1>10, <1>13, <1>15, <1>17 DEF Together
<1> QED
  BY <1>14, <1>16, <1>18

\* What both loops return for the same sequence of trades.
LEMMA LoopsReturn ==
  ASSUME NEW n \in Nat, NEW s \in [1..n -> TradeRecord]
  PROVE  LET b == FoldLeft(MetricsStep, MetricsStart, s)
             a == FoldLeft(AnalysisStep, AnalysisStart, s)
         IN /\ b \in MetricsRecord /\ a \in AnalysisRecord /\ Together(b, a)
            /\ (\A k \in 1..n : s[k].pnl # 0) => b.streak = a.streak
<1>1. PICK B : /\ MetricsTurns(B, s, n)
               /\ FoldLeft(MetricsStep, MetricsStart, s) = B[n]
  BY MetricsLoops
<1>2. PICK A : /\ AnalysisTurns(A, s, n)
               /\ FoldLeft(AnalysisStep, AnalysisStart, s) = A[n]
  BY AnalysisLoops
<1>3. \A k \in 0..n : B[k] \in MetricsRecord /\ A[k] \in AnalysisRecord
  BY <1>1, <1>2 DEF MetricsTurns, AnalysisTurns
<1>4. \A k \in 1..n : B[k] = MetricsStep(B[k - 1], s[k]) /\ A[k] = AnalysisStep(A[k - 1], s[k])
  BY <1>1, <1>2 DEF MetricsTurns, AnalysisTurns
<1>5. B[0] = MetricsStart /\ A[0] = AnalysisStart
  BY <1>1, <1>2 DEF MetricsTurns, AnalysisTurns
<1> DEFINE G == {k \in 0..n : Together(B[k], A[k])}
           E == {k \in 0..n : (\A i \in 1..n : s[i].pnl # 0) => B[k].streak = A[k].streak}
<1>6. 0 \in G
  <2>1. Together(MetricsStart, AnalysisStart)
    BY DEF Together, MetricsStart, AnalysisStart, DrawdownsAgree, NeverBehind, Streak0, Capital
  <2> QED
    BY <1>5, <2>1
<1>7. ASSUME NEW k \in 1..n, k - 1 \in G PROVE k \in G
  <2>1. /\ B[k - 1] \in MetricsRecord /\ A[k - 1] \in AnalysisRecord /\ s[k] \in TradeRecord
        /\ Together(B[k - 1], A[k - 1])
    BY <1>3, <1>7
  <2>2. Together(MetricsStep(B[k - 1], s[k]), AnalysisStep(A[k - 1], s[k]))
    BY <2>1, LoopsStayTogether
  <2> QED
    BY <1>4, <2>2
<1>8. 0 \in E
  BY <1>5 DEF MetricsStart, AnalysisStart
<1>9. ASSUME NEW k \in 1..n, k - 1 \in E PROVE k \in E
  <2>1. SUFFICES ASSUME \A i \in 1..n : s[i].pnl # 0 PROVE B[k].streak = A[k].streak
    OBVIOUS
  <2>2. s[k].pnl \in Int /\ s[k].pnl # 0
    BY <2>1 DEF TradeRecord
  <2>3. PICK x : x = B[k - 1].streak
    OBVIOUS
  <2>4. A[k - 1].streak = x
    BY <1>9, <2>1, <2>3
  <2>5. B[k].streak = Streak(x, s[k].pnl, FALSE)
    <3>1. PICK u : u = Streak(B[k - 1].streak, s[k].pnl, FALSE)
      OBVIOUS
    <3>2. MetricsStep(B[k - 1], s[k]).streak = u
      BY <3>1 DEF MetricsStep
    <3> QED
      BY <1>4, <2>3, <3>1, <3>2, Zenon
  <2>6. A[k].streak = Streak(x, s[k].pnl, TRUE)
    <3>1. PICK u : u = Streak(A[k - 1].streak, s[k].pnl, TRUE)
      OBVIOUS
    <3>2. AnalysisStep(A[k - 1], s[k]).streak = u
      BY <3>1 DEF AnalysisStep
    <3> QED
      BY <1>4, <2>4, <3>1, <3>2, Zenon
  <2>7. Streak(x, s[k].pnl, FALSE) = Streak(x, s[k].pnl, TRUE)
    BY <2>2, CountersStayEqual
  <2> QED
    BY <2>5, <2>6, <2>7, Zenon
<1> HIDE DEF G, E
<1>10. \A k \in 0..n : k \in G
  BY <1>6, <1>7, UpToInduction
<1>11. \A k \in 0..n : k \in E
  BY <1>8, <1>9, UpToInduction
<1> QED
  BY <1>1, <1>2, <1>3, <1>10, <1>11 DEF G, E

\* The stored metrics and the analysis of any recorded trades tell the same
\* story.
THEOREM MetricsAreRight == Recorded(trades) => MetricsMatchAnalysis
<1> SUFFICES ASSUME Recorded(trades) PROVE MetricsMatchAnalysis
  OBVIOUS
<1> DEFINE m == CalculateMetrics(trades, Cardinality(trades), Capital)
           a == Analyze(trades)
           n == Cardinality(trades)
           s == AnalysisOrder(trades)
           c == FoldLeft(MetricsStep, MetricsStart, MetricsOrder(trades))
           l == FoldLeft(AnalysisStep, AnalysisStart, s)
<1>1. /\ m.net_profit = a.stats.net_profit /\ m.gross_loss = a.stats.gross_loss
      /\ m.winning_trades = a.stats.winning_trades /\ m.profit_factor = a.profit_factor
  BY DEF CalculateMetrics, Analyze, Stats
<1>2. /\ m.max_consecutive_wins = c.streak.maxWins /\ m.max_consecutive_losses = c.streak.maxLosses
      /\ m.max_drawdown = c.drawdown
  BY DEF CalculateMetrics, MetricsStart
<1>3. /\ a.max_consecutive_wins = l.streak.maxWins /\ a.max_consecutive_losses = l.streak.maxLosses
      /\ a.max_realized_pnl_drawdown = l.max_drawdown
  BY DEF Analyze, AnalysisLoop, AnalysisStart
<1>4. n \in Nat /\ s \in [1..n -> trades] /\ trades \subseteq TradeRecord
  BY FS_CardinalityType, LoopsSeeTrades DEF Recorded, Lists
<1> HIDE DEF m, a, n, s
<1>5. ASSUME \A t, u \in trades : t.exit = u.exit => t = u
      PROVE  /\ c \in MetricsRecord /\ l \in AnalysisRecord /\ Together(c, l)
             /\ (~\E t \in trades : t.pnl = 0) => c.streak = l.streak
  <2>1. MetricsOrder(trades) = s
    BY <1>5, LoopsSeeOneOrder DEF s
  <2>2. s \in [1..n -> TradeRecord]
    BY <1>4
  <2>3. (~\E t \in trades : t.pnl = 0) => \A k \in 1..n : s[k].pnl # 0
    BY <1>4
  <2>4. c = FoldLeft(MetricsStep, MetricsStart, s)
    BY <2>1
  <2> HIDE DEF c
  <2> QED
    BY <1>4, <2>2, <2>3, <2>4, LoopsReturn
<1> HIDE DEF c, l
<1>6. ASSUME \A t, u \in trades : t.exit = u.exit => t = u
      PROVE  /\ m.max_consecutive_wins >= a.max_consecutive_wins
             /\ m.max_consecutive_losses >= a.max_consecutive_losses
             /\ (~\E t \in trades : t.pnl = 0) =>
                  /\ m.max_consecutive_wins = a.max_consecutive_wins
                  /\ m.max_consecutive_losses = a.max_consecutive_losses
             /\ (m.max_drawdown[1] = 0) = (a.max_realized_pnl_drawdown = 0)
             /\ ~Smaller(<<a.max_realized_pnl_drawdown, Capital>>, m.max_drawdown)
  <2>1. /\ NeverBehind(c.streak, l.streak) /\ DrawdownsAgree(c.drawdown, l.max_drawdown)
        /\ (~\E t \in trades : t.pnl = 0) => c.streak = l.streak
    BY <1>5, <1>6 DEF Together
  <2>2. /\ c.streak \in StreakRecord /\ l.streak \in StreakRecord
        /\ c.drawdown \in Int \X Int /\ l.max_drawdown \in Int
    BY <1>5, <1>6 DEF MetricsRecord, AnalysisRecord
  <2>3. /\ m.max_consecutive_wins >= a.max_consecutive_wins
        /\ m.max_consecutive_losses >= a.max_consecutive_losses
    BY <1>2, <1>3, <2>1, <2>2 DEF NeverBehind, StreakRecord
  <2>4. (~\E t \in trades : t.pnl = 0) =>
          /\ m.max_consecutive_wins = a.max_consecutive_wins
          /\ m.max_consecutive_losses = a.max_consecutive_losses
    BY <1>2, <1>3, <2>1
  <2>5. PICK q1 \in Int, q2 \in Int : c.drawdown = <<q1, q2>>
    BY <2>2
  <2>6. (q1 = 0 <=> l.max_drawdown = 0) /\ q1 * 3 <= l.max_drawdown * q2
    BY <2>1, <2>5 DEF DrawdownsAgree, Capital
  <2>7. (m.max_drawdown[1] = 0) = (a.max_realized_pnl_drawdown = 0)
    BY <1>2, <1>3, <2>5, <2>6
  <2>8. ~Smaller(<<a.max_realized_pnl_drawdown, Capital>>, m.max_drawdown)
    BY <1>2, <1>3, <2>2, <2>5, <2>6 DEF Smaller, Capital
  <2> QED
    BY <2>3, <2>4, <2>7, <2>8
<1>7. MetricsMatch(m, a)
  BY <1>1, <1>6 DEF MetricsMatch
<1> QED
  BY <1>7 DEF MetricsMatchAnalysis, m, a

\* The stored metrics and the analysis of one run tell the same story.
THEOREM MetricsAlwaysMatch == AlgorithmsSpec => []MetricsMatchAnalysis
<1>1. TradesInv => MetricsMatchAnalysis
  BY MetricsAreRight DEF TradesInv
<1> QED
  BY <1>1, TradesInitially, TradesInductive, PTL DEF AlgorithmsSpec

-----------------------------------------------------------------------------
(***************************************************************************)
(* Ranking.  Scores are numbers between 0 and 10000, whatever the metrics. *)
(***************************************************************************)

\* Division with remainder.
LEMMA DivMod ==
  ASSUME NEW x \in Int, NEW y \in Int, y > 0
  PROVE  /\ x \div y \in Int /\ x % y \in Int
         /\ x = y * (x \div y) + (x % y) /\ 0 <= x % y /\ x % y < y
OBVIOUS

\* Rounding half up is off by at most a half.
LEMMA RoundingIsClose ==
  ASSUME NEW x \in Int, NEW y \in Int, y > 0
  PROVE  /\ RoundHalfUp(x, y) \in Int
         /\ y * (2 * RoundHalfUp(x, y) - 1) <= 2 * x /\ 2 * x < y * (2 * RoundHalfUp(x, y) + 1)
<1>1. PICK q \in Int, b \in Int : q = x \div y /\ b = x % y /\ x = y * q + b /\ 0 <= b /\ b < y
  BY DivMod
<1>2. CASE 2 * b >= y
  <2>1. RoundHalfUp(x, y) = q + 1
    BY <1>1, <1>2 DEF RoundHalfUp
  <2>2. y * (2 * (q + 1) - 1) = 2 * (y * q) + y /\ y * (2 * (q + 1) + 1) = 2 * (y * q) + 3 * y
    OBVIOUS
  <2>3. PICK m \in Int : m = y * q
    OBVIOUS
  <2>4. 2 * m + y <= 2 * x /\ 2 * x < 2 * m + 3 * y
    BY <1>1, <1>2, <2>3
  <2> QED
    BY <2>1, <2>2, <2>3, <2>4
<1>3. CASE ~(2 * b >= y)
  <2>1. RoundHalfUp(x, y) = q
    BY <1>1, <1>3 DEF RoundHalfUp
  <2>2. y * (2 * q - 1) = 2 * (y * q) - y /\ y * (2 * q + 1) = 2 * (y * q) + y
    OBVIOUS
  <2>3. PICK m \in Int : m = y * q
    OBVIOUS
  <2>4. 2 * m - y <= 2 * x /\ 2 * x < 2 * m + y
    BY <1>1, <1>3, <2>3
  <2> QED
    BY <2>1, <2>2, <2>3, <2>4
<1> QED
  BY <1>2, <1>3

\* Rounding a number between two multiples of y stays between them.
LEMMA RoundingStays ==
  ASSUME NEW x \in Int, NEW y \in Int, y > 0, NEW m \in Int
  PROVE  /\ y * m <= x => m <= RoundHalfUp(x, y)
         /\ x <= y * m => RoundHalfUp(x, y) <= m
<1>1. PICK r \in Int : /\ r = RoundHalfUp(x, y)
                       /\ y * (2 * r - 1) <= 2 * x /\ 2 * x < y * (2 * r + 1)
  BY RoundingIsClose
<1>2. y * m <= x => m <= r
  <2>1. SUFFICES ASSUME y * m <= x, r + 1 <= m PROVE FALSE
    OBVIOUS
  <2>2. y * (r + 1) <= y * m
    BY <2>1
  <2>3. y * (2 * r + 1) = 2 * (y * (r + 1)) - y
    OBVIOUS
  <2> QED
    BY <1>1, <2>1, <2>2, <2>3
<1>3. x <= y * m => r <= m
  <2>1. SUFFICES ASSUME x <= y * m, m + 1 <= r PROVE FALSE
    OBVIOUS
  <2>2. y * (m + 1) <= y * r
    BY <2>1
  <2>3. y * (2 * r - 1) = 2 * (y * r) - y /\ y * (m + 1) = y * m + y
    OBVIOUS
  <2> QED
    BY <1>1, <2>1, <2>2, <2>3
<1> QED
  BY <1>1, <1>2, <1>3

\* A score is a number between 0 and 100 points.
Points == 0..10000

LEMMA ScoreIsBounded ==
  ASSUME NEW x \in Int, NEW y \in Int
  PROVE  Score(x, y) \in Points
<1>1. CASE x <= 0 \/ x >= y
  <2>1. Score(x, y) = 0 \/ Score(x, y) = 10000
    BY <1>1 DEF Score
  <2> QED
    BY <2>1 DEF Points
<1>2. CASE ~(x <= 0) /\ ~(x >= y)
  <2>1. 0 < x /\ x < y /\ y > 0
    BY <1>2
  <2>2. PICK a \in Int, b \in Int : /\ a = (100 * x) \div y /\ b = (100 * x) % y
                                    /\ 100 * x = y * a + b /\ 0 <= b /\ b < y
    <3>1. 100 * x \in Int
      OBVIOUS
    <3> QED
      BY <2>1, <3>1, DivMod
  <2>3. 0 <= a /\ a <= 99
    <3>1. a <= -1 => y * a <= -y
      BY <2>1
    <3>2. a >= 100 => y * a >= 100 * y
      BY <2>1
    <3> QED
      BY <2>1, <2>2, <3>1, <3>2
  <2>4. PICK c \in Int : c = RoundHalfUp(100 * b, y) /\ 0 <= c /\ c <= 100
    <3>1. PICK x1 \in Int : x1 = 100 * b /\ y * 0 <= x1 /\ x1 <= y * 100
      BY <2>1, <2>2
    <3>2. RoundHalfUp(x1, y) \in Int
      BY <2>1, <3>1, RoundingIsClose
    <3>3. 0 <= RoundHalfUp(x1, y)
      BY <2>1, <3>1, RoundingStays
    <3>4. RoundHalfUp(x1, y) <= 100
      BY <2>1, <3>1, RoundingStays
    <3> QED
      BY <3>1, <3>2, <3>3, <3>4
  <2>5. Score(x, y) = 100 * a + c
    BY <1>2, <2>2, <2>4 DEF Score
  <2>6. \A m, k \in Int : 0 <= m /\ m <= 99 /\ 0 <= k /\ k <= 100 => 100 * m + k \in Points
    BY DEF Points
  <2>7. 100 * a + c \in Points
    BY <2>3, <2>4, <2>6, Zenon
  <2> QED
    BY <2>5, <2>7, Zenon
<1> QED
  BY <1>1, <1>2

\* The weighted sum of four parts.
LEMMA SumOfFour ==
  ASSUME NEW s \in [1..4 -> Int]
  PROVE  SumOf(s) = s[1] + s[2] + s[3] + s[4]
<1>1. PICK S : S = {1, 2, 3, 4}
  OBVIOUS
<1>2. 1..4 = S /\ DOMAIN s = S /\ s \in [S -> Int]
  BY <1>1
<1>3. IsFiniteSet(S)
  <2>1. PICK m \in Int : m = 4
    OBVIOUS
  <2>2. IsFiniteSet(1..m)
    BY FS_Interval
  <2> QED
    BY <1>2, <2>1, <2>2
<1>4. SumOf(s) = Total(s, S)
  BY <1>2, Zenon DEF SumOf, Total
<1>5. PICK U \in SUBSET S : U = {2, 3, 4}
  BY <1>1
<1>6. PICK B \in SUBSET S : B = {3, 4}
  BY <1>1
<1>7. ASSUME NEW T \in SUBSET S, NEW a \in T PROVE Total(s, T) = s[a] + Total(s, T \ {a})
  <2>1. PICK g \in [S -> Int] : g = s
    BY <1>2
  <2>2. IsFiniteSet(S)
    BY <1>3
  <2>3. PICK V \in SUBSET S : V = T
    BY <1>7
  <2>4. PICK b \in V : b = a
    BY <1>7, <2>3
  <2>5. Total(g, V) = g[b] + Total(g, V \ {b})
    BY <2>2, TotalTakes
  <2> QED
    BY <2>1, <2>3, <2>4, <2>5
<1>8. S \ {1} = U /\ U \ {2} = B /\ B \ {3} = {4}
  BY <1>1, <1>5, <1>6
<1>9. /\ Total(s, S) = s[1] + Total(s, U)
      /\ Total(s, U) = s[2] + Total(s, B)
      /\ Total(s, B) = s[3] + Total(s, {4})
  BY <1>1, <1>5, <1>6, <1>7, <1>8
<1>10. Total(s, {4}) = s[4]
  BY <1>1, <1>2, <1>3, TotalSingle
<1>11. s[1] \in Int /\ s[2] \in Int /\ s[3] \in Int /\ s[4] \in Int
  OBVIOUS
<1> QED
  BY <1>4, <1>9, <1>10, <1>11

\* The smaller of two.
LEMMA MinOfTwo ==
  ASSUME NEW a \in Int, NEW b \in Int
  PROVE  Min({a, b}) = IF a <= b THEN a ELSE b
<1>1. Min({a, b}) \in {a, b} /\ \A y \in {a, b} : Min({a, b}) <= y
  <2>1. \E m \in {a, b} : \A y \in {a, b} : m <= y
    <3>1. CASE a <= b
      BY <3>1
    <3>2. CASE ~(a <= b)
      BY <3>2
    <3> QED
      BY <3>1, <3>2
  <2> QED
    BY <2>1 DEF Min
<1> QED
  BY <1>1

\* The total of a candidate: the weighted components, rounded and capped.
LEMMA WeightedFour ==
  ASSUME NEW t \in Int, NEW s \in Int, NEW l \in Int, NEW v \in Int
  PROVE  Weighted(<< <<25, t>>, <<45, s>>, <<15, l>>, <<15, v>> >>)
           = Min({10000, RoundHalfUp(25 * t + 45 * s + 15 * l + 15 * v, 100)})
<1> DEFINE parts == << <<25, t>>, <<45, s>>, <<15, l>>, <<15, v>> >>
           w == [i \in DOMAIN parts |-> parts[i][1] * parts[i][2]]
<1>1. DOMAIN parts = 1..4
  OBVIOUS
<1>2. w[1] = 25 * t /\ w[2] = 45 * s /\ w[3] = 15 * l /\ w[4] = 15 * v
  OBVIOUS
<1>3. w \in [1..4 -> Int]
  <2>1. \A i \in 1..4 : i = 1 \/ i = 2 \/ i = 3 \/ i = 4
    OBVIOUS
  <2>2. \A i \in 1..4 : w[i] \in Int
    <3> HIDE DEF w
    <3> QED
      BY <1>2, <2>1
  <2> QED
    BY <1>1, <2>2
<1>4. Weighted(parts) = Min({10000, RoundHalfUp(SumOf(w), 100)})
  BY DEF Weighted
<1> HIDE DEF w, parts
<1>5. SumOf(w) = 25 * t + 45 * s + 15 * l + 15 * v
  BY <1>2, <1>3, SumOfFour
<1> QED
  BY <1>4, <1>5 DEF parts

Quotients == Int \X Int

\* A passing result: what the scanner hands over, with its metrics as numbers.
IsResult(r) ==
  /\ DOMAIN r = {"symbol", "passed", "primary", "matched", "scores", "sma20", "sma60",
                 "value", "atr_pct"}
  /\ r.symbol \in Int /\ r.passed
  /\ r.scores \in [DOMAIN r.scores -> Int] /\ r.matched \in Seq(DOMAIN r.scores)
  /\ r.sma20 \in {Missing} \cup Quotients /\ r.sma60 \in {Missing} \cup Quotients
  /\ r.value \in Quotients /\ r.atr_pct \in Quotients

SetupScores(r) == {r.scores[n] : n \in ToSet(r.matched)}
SetupScore(r) == Max({0} \cup SetupScores(r))
LiquidityScore(r) ==
  LinearScore(IF MinimumValue > 0 THEN Div(r.value, Whole(MinimumValue)) ELSE Zero, 100, 500)

\* The scores of the matched setups are finitely many numbers.
LEMMA SetupScoresAreFinite ==
  ASSUME NEW r, IsResult(r)
  PROVE  IsFiniteSet(SetupScores(r)) /\ SetupScores(r) \subseteq Int
<1>1. PICK n \in Nat : n = Len(r.matched) /\ DOMAIN r.matched = 1..n
  BY DEF IsResult
<1>2. PICK D : D = 1..n
  OBVIOUS
<1>3. \A i \in D : r.matched[i] \in DOMAIN r.scores
  BY <1>1, <1>2 DEF IsResult
<1>4. IsFiniteSet(D)
  <2>1. IsFiniteSet(1..n)
    BY FS_Interval
  <2> QED
    BY <1>2, <2>1
<1>5. SetupScores(r) = {r.scores[r.matched[i]] : i \in D}
  BY <1>1, <1>2 DEF SetupScores, ToSet
<1> DEFINE f == [i \in D |-> r.scores[r.matched[i]]]
<1>6. f \in Surjection(D, SetupScores(r))
  BY <1>5 DEF Surjection
<1>7. \A i \in D : r.scores[r.matched[i]] \in Int
  BY <1>3 DEF IsResult
<1> HIDE DEF f
<1>8. IsFiniteSet(SetupScores(r))
  BY <1>4, <1>6, FS_Surjection
<1> QED
  BY <1>5, <1>7, <1>8

\* The setup score is at least zero and every matched score, and one of them.
LEMMA SetupScoreIsBest ==
  ASSUME NEW r, IsResult(r)
  PROVE  /\ SetupScore(r) \in {0} \cup SetupScores(r) /\ SetupScore(r) \in Int
         /\ \A x \in {0} \cup SetupScores(r) : SetupScore(r) >= x
<1>1. PICK S : S = {0} \cup SetupScores(r)
  OBVIOUS
<1>2. S \subseteq Int /\ S # {} /\ IsFiniteSet(S)
  <2>1. IsFiniteSet({0})
    BY FS_Singleton
  <2>2. IsFiniteSet({0} \cup SetupScores(r))
    BY <2>1, SetupScoresAreFinite, FS_Union
  <2> QED
    BY <1>1, <2>2, SetupScoresAreFinite
<1>3. Max(S) \in S /\ \A y \in S : Max(S) >= y
  BY <1>2, MaxOf
<1>4. SetupScore(r) = Max(S)
  BY <1>1 DEF SetupScore
<1> QED
  BY <1>1, <1>2, <1>3, <1>4

\* A quotient of numbers is a quotient of numbers.
LEMMA DivIsRatio ==
  ASSUME NEW a \in Quotients, NEW b \in Quotients
  PROVE  Div(a, b) \in Quotients /\ Gain(a, b) \in Quotients
<1>1. a[1] \in Int /\ a[2] \in Int /\ b[1] \in Int /\ b[2] \in Int
  BY DEF Quotients
<1>2. a[1] * b[2] \in Int /\ a[2] * b[1] \in Int /\ a[1] * b[2] - b[1] * a[2] \in Int
  BY <1>1
<1> QED
  BY <1>2 DEF Div, Gain, Zero, Quotients

\* The score of a quotient between two bounds.
LEMMA LinearScoreIsBounded ==
  ASSUME NEW v \in Quotients, NEW low \in Int, NEW high \in Int
  PROVE  LinearScore(v, low, high) \in Points
<1>1. PICK a \in Int, b \in Int : v[1] = a /\ v[2] = b
  BY DEF Quotients
<1>2. PICK x, y : x = 100 * v[1] - low * v[2] /\ y = (high - low) * v[2]
  OBVIOUS
<1>3. x \in Int /\ y \in Int
  BY <1>1, <1>2
<1>4. LinearScore(v, low, high) = Score(x, y)
  BY <1>2, Zenon DEF LinearScore, HighIsGood
<1>5. Score(x, y) \in Points
  BY <1>3, ScoreIsBounded, Zenon
<1> QED
  BY <1>4, <1>5, Zenon

\* So are the components that are not setup scores.
LEMMA ComponentsAreBounded ==
  ASSUME NEW r, IsResult(r)
  PROVE  /\ SwingTrend(r.sma20, r.sma60) \in Points
         /\ LiquidityScore(r) \in Points
         /\ SwingVolatility(r.atr_pct) \in Points
<1>0. Zero \in Quotients
  BY DEF Zero, Quotients
<1>1. SwingTrend(r.sma20, r.sma60) \in Points
  <2>1. PICK g : g = IF r.sma60 # Missing /\ r.sma60[1] > 0
                     THEN Gain(IF r.sma20 = Missing THEN Zero ELSE r.sma20, r.sma60) ELSE Zero
    OBVIOUS
  <2>2. PICK q : q = IF r.sma20 = Missing THEN Zero ELSE r.sma20
    OBVIOUS
  <2>3. q \in Quotients
    BY <1>0, <2>2 DEF IsResult
  <2>4. g = IF r.sma60 # Missing /\ r.sma60[1] > 0 THEN Gain(q, r.sma60) ELSE Zero
    BY <2>1, <2>2
  <2>5. r.sma60 # Missing => r.sma60 \in Quotients
    BY DEF IsResult
  <2>6. r.sma60 # Missing => Gain(q, r.sma60) \in Quotients
    BY <2>3, <2>5, DivIsRatio
  <2>7. g \in Quotients
    BY <1>0, <2>4, <2>6
  <2>8. SwingTrend(r.sma20, r.sma60) = LinearScore(g, 0, 20)
    BY <2>1, Zenon DEF SwingTrend
  <2> QED
    BY <2>7, <2>8, LinearScoreIsBounded
<1>2. LiquidityScore(r) \in Points
  <2>1. PICK g : g = IF MinimumValue > 0 THEN Div(r.value, Whole(MinimumValue)) ELSE Zero
    OBVIOUS
  <2>2. MinimumValue \in Int
    BY ScreeningAssumption
  <2>3. Whole(MinimumValue) \in Quotients /\ r.value \in Quotients
    BY <2>2 DEF Whole, Quotients, IsResult
  <2>4. Div(r.value, Whole(MinimumValue)) \in Quotients
    BY <2>3, DivIsRatio
  <2>5. g \in Quotients
    BY <1>0, <2>1, <2>4
  <2>6. LiquidityScore(r) = LinearScore(g, 100, 500)
    BY <2>1, Zenon DEF LiquidityScore
  <2> QED
    BY <2>5, <2>6, LinearScoreIsBounded
<1>3. SwingVolatility(r.atr_pct) \in Points
  <2>1. PICK v \in Quotients : v = r.atr_pct
    BY DEF IsResult
  <2>2. PICK a \in Int, b \in Int : a = v[1] /\ b = v[2]
    BY DEF Quotients
  <2>3. LinearScore(v, 1, 3) \in Points
    BY LinearScoreIsBounded
  <2>4. Score(12 * v[2] - 100 * v[1], 6 * v[2]) \in Points
    <3>1. PICK x, y : x = 12 * v[2] - 100 * v[1] /\ y = 6 * v[2]
      OBVIOUS
    <3>2. x \in Int /\ y \in Int
      BY <2>2, <3>1
    <3>3. Score(x, y) \in Points
      BY <3>2, ScoreIsBounded, Zenon
    <3> QED
      BY <3>1, <3>3, Zenon
  <2>5. \/ SwingVolatility(v) = 0 \/ SwingVolatility(v) = 10000
        \/ SwingVolatility(v) = LinearScore(v, 1, 3)
        \/ SwingVolatility(v) = Score(12 * v[2] - 100 * v[1], 6 * v[2])
    BY DEF SwingVolatility
  <2>6. 0 \in Points /\ 10000 \in Points
    BY DEF Points
  <2> QED
    BY <2>1, <2>3, <2>4, <2>5, <2>6
<1> QED
  BY <1>1, <1>2, <1>3

\* What the swing ranker makes of a result.
LEMMA ScoreSwingIs ==
  ASSUME NEW r, IsResult(r)
  PROVE  LET t == SwingTrend(r.sma20, r.sma60)
             s == SetupScore(r)
             l == LiquidityScore(r)
             v == SwingVolatility(r.atr_pct)
         IN ScoreSwing(r) =
              [symbol |-> r.symbol, primary |-> r.primary,
               components |-> [trend |-> t, setup |-> s, liquidity |-> l, volatility |-> v],
               total |-> Min({10000, RoundHalfUp(25 * t + 45 * s + 15 * l + 15 * v, 100)})]
<1>1. PICK t, s, l, v : t = SwingTrend(r.sma20, r.sma60) /\ s = SetupScore(r)
                        /\ l = LiquidityScore(r) /\ v = SwingVolatility(r.atr_pct)
  OBVIOUS
<1>2. t \in Int /\ s \in Int /\ l \in Int /\ v \in Int
  <2>1. t \in Points /\ l \in Points /\ v \in Points
    BY <1>1, ComponentsAreBounded
  <2>2. s \in Int
    BY <1>1, SetupScoreIsBest
  <2> QED
    BY <2>1, <2>2 DEF Points
<1>3. Weighted(<< <<25, t>>, <<45, s>>, <<15, l>>, <<15, v>> >>)
        = Min({10000, RoundHalfUp(25 * t + 45 * s + 15 * l + 15 * v, 100)})
  BY <1>2, WeightedFour
<1>4. s = Max({0} \cup {r.scores[n] : n \in ToSet(r.matched)})
  BY <1>1 DEF SetupScore, SetupScores
<1>5. l = LinearScore(IF MinimumValue > 0 THEN Div(r.value, Whole(MinimumValue)) ELSE Zero, 100, 500)
  BY <1>1 DEF LiquidityScore
<1>6. /\ SwingWeights.trend = 25 /\ SwingWeights.setup = 45
      /\ SwingWeights.liquidity = 15 /\ SwingWeights.volatility = 15
  BY DEF SwingWeights
<1>7. ScoreSwing(r) =
        [symbol |-> r.symbol, primary |-> r.primary,
         components |-> [trend |-> t, setup |-> s, liquidity |-> l, volatility |-> v],
         total |-> Weighted(<< <<25, t>>, <<45, s>>, <<15, l>>, <<15, v>> >>)]
  BY <1>1, <1>4, <1>5, <1>6 DEF ScoreSwing
<1> QED
  BY <1>1, <1>3, <1>7

\* The total by its four parts.
Average(t, s, l, v) == Min({10000, RoundHalfUp(25 * t + 45 * s + 15 * l + 15 * v, 100)})

\* It stays between the smallest part and the largest, since one of them is
\* within a hundred points.
LEMMA AverageIsBetween ==
  ASSUME NEW t \in Points, NEW s \in Int, NEW l \in Points, NEW v \in Points
  PROVE  /\ Average(t, s, l, v) \in Int
         /\ \A m \in Int : m <= t /\ m <= s /\ m <= l /\ m <= v => m <= Average(t, s, l, v)
         /\ \A m \in Int : t <= m /\ s <= m /\ l <= m /\ v <= m => Average(t, s, l, v) <= m
<1>1. t \in Int /\ l \in Int /\ v \in Int /\ t <= 10000
  BY DEF Points
<1>2. PICK x \in Int : x = 25 * t + 45 * s + 15 * l + 15 * v
  BY <1>1
<1>3. PICK y \in Int : y = 100 /\ y > 0
  OBVIOUS
<1>4. RoundHalfUp(x, y) \in Int
  BY <1>2, <1>3, RoundingIsClose
<1>5. PICK q \in Int : q = RoundHalfUp(x, y)
  BY <1>4
<1>6. Average(t, s, l, v) = IF 10000 <= q THEN 10000 ELSE q
  <2>1. Average(t, s, l, v) = Min({10000, q})
    BY <1>2, <1>3, <1>5 DEF Average
  <2>2. PICK k \in Int : k = 10000
    OBVIOUS
  <2>3. Min({k, q}) = IF k <= q THEN k ELSE q
    BY <1>5, <2>2, MinOfTwo
  <2> QED
    BY <2>1, <2>2, <2>3
<1>7. ASSUME NEW m \in Int, m <= t /\ m <= s /\ m <= l /\ m <= v PROVE m <= Average(t, s, l, v)
  <2>1. y * m <= x
    BY <1>1, <1>2, <1>3, <1>7
  <2>2. m <= q
    BY <1>3, <1>5, <2>1, RoundingStays
  <2> QED
    BY <1>1, <1>5, <1>6, <1>7, <2>2
<1>8. ASSUME NEW m \in Int, t <= m /\ s <= m /\ l <= m /\ v <= m PROVE Average(t, s, l, v) <= m
  <2>1. x <= y * m
    BY <1>1, <1>2, <1>3, <1>8
  <2>2. q <= m
    BY <1>3, <1>5, <2>1, RoundingStays
  <2> QED
    BY <1>5, <1>6, <2>2
<1> QED
  BY <1>5, <1>6, <1>7, <1>8

\* A larger number is rounded to a larger one.
LEMMA RoundingKeepsOrder ==
  ASSUME NEW x \in Int, NEW z \in Int, x <= z, NEW y \in Int, y > 0
  PROVE  RoundHalfUp(x, y) <= RoundHalfUp(z, y)
<1>1. PICK q \in Int : /\ q = RoundHalfUp(x, y)
                       /\ y * (2 * q - 1) <= 2 * x /\ 2 * x < y * (2 * q + 1)
  BY RoundingIsClose
<1>2. PICK r \in Int : /\ r = RoundHalfUp(z, y)
                       /\ y * (2 * r - 1) <= 2 * z /\ 2 * z < y * (2 * r + 1)
  BY RoundingIsClose
<1>3. SUFFICES ASSUME r + 1 <= q PROVE FALSE
  BY <1>1, <1>2
<1>4. y * (r + 1) <= y * q
  BY <1>3
<1>5. y * (2 * r + 1) = 2 * (y * (r + 1)) - y /\ y * (2 * q - 1) = 2 * (y * q) - y
  OBVIOUS
<1> QED
  BY <1>1, <1>2, <1>4, <1>5

\* A better setup score never lowers the total.
LEMMA AverageKeepsOrder ==
  ASSUME NEW t \in Points, NEW s \in Int, NEW l \in Points, NEW v \in Points,
         NEW z \in Int, s <= z
  PROVE  Average(t, s, l, v) <= Average(t, z, l, v)
<1>1. t \in Int /\ l \in Int /\ v \in Int
  BY DEF Points
<1>2. PICK x \in Int : x = 25 * t + 45 * s + 15 * l + 15 * v
  BY <1>1
<1>3. PICK w \in Int : w = 25 * t + 45 * z + 15 * l + 15 * v
  BY <1>1
<1>4. PICK y \in Int : y = 100 /\ y > 0
  OBVIOUS
<1>5. x <= w
  BY <1>1, <1>2, <1>3
<1>6. RoundHalfUp(x, y) \in Int /\ RoundHalfUp(w, y) \in Int
  BY <1>4, RoundingIsClose
<1>7. RoundHalfUp(x, y) <= RoundHalfUp(w, y)
  BY <1>4, <1>5, RoundingKeepsOrder
<1>8. PICK p \in Int, q \in Int : p = RoundHalfUp(x, y) /\ q = RoundHalfUp(w, y) /\ p <= q
  BY <1>6, <1>7
<1>9. PICK k \in Int : k = 10000
  OBVIOUS
<1>10. Min({k, p}) = IF k <= p THEN k ELSE p
  BY MinOfTwo
<1>11. Min({k, q}) = IF k <= q THEN k ELSE q
  BY MinOfTwo
<1>12. Average(t, s, l, v) = Min({k, p})
  BY <1>2, <1>4, <1>8, <1>9 DEF Average
<1>13. Average(t, z, l, v) = Min({k, q})
  BY <1>3, <1>4, <1>8, <1>9 DEF Average
<1> QED
  BY <1>8, <1>9, <1>10, <1>11, <1>12, <1>13

\* The total of any result is an average, and a better score never lowers it.
LEMMA TotalOfResult ==
  ASSUME NEW r, IsResult(r)
  PROVE  LET c == ScoreSwing(r)
             parts == {c.components[n] : n \in DOMAIN c.components}
             better == [r EXCEPT !.scores = [n \in DOMAIN r.scores |-> r.scores[n] + 7]]
         IN /\ c.total \in Min(parts)..Max(parts) /\ ScoreSwing(better).total >= c.total
            /\ c.total \in Int /\ c.components.setup \in Int
            /\ c.symbol = r.symbol /\ c.primary = r.primary
<1> DEFINE better == [r EXCEPT !.scores = [n \in DOMAIN r.scores |-> r.scores[n] + 7]]
<1>1. PICK t, s, l, v : t = SwingTrend(r.sma20, r.sma60) /\ s = SetupScore(r)
                        /\ l = LiquidityScore(r) /\ v = SwingVolatility(r.atr_pct)
  OBVIOUS
<1>2. t \in Points /\ s \in Int /\ l \in Points /\ v \in Points
  BY <1>1, ComponentsAreBounded, SetupScoreIsBest
<1>3. PICK c : c = ScoreSwing(r)
  OBVIOUS
<1>4. c = [symbol |-> r.symbol, primary |-> r.primary,
           components |-> [trend |-> t, setup |-> s, liquidity |-> l, volatility |-> v],
           total |-> Average(t, s, l, v)]
  BY <1>1, <1>3, ScoreSwingIs DEF Average
<1>5. PICK parts : parts = {t, s, l, v}
  OBVIOUS
<1>6. {c.components[n] : n \in DOMAIN c.components} = parts
  BY <1>4, <1>5
<1>7. PICK a \in Int : a = c.total /\ a = Average(t, s, l, v)
  <2>1. Average(t, s, l, v) \in Int
    BY <1>2, AverageIsBetween
  <2> QED
    BY <1>4, <2>1
<1>8. t \in Int /\ s \in Int /\ l \in Int /\ v \in Int
  BY <1>2 DEF Points
<1>9. Min(parts) \in Int /\ Min(parts) <= a
  <2>1. PICK p \in {t, s} : p <= t /\ p <= s
    <3>1. t <= s \/ s <= t
      BY <1>8
    <3>2. t <= t /\ s <= s
      BY <1>8
    <3> QED
      BY <3>1, <3>2
  <2>2. PICK q \in {l, v} : q <= l /\ q <= v
    <3>1. l <= v \/ v <= l
      BY <1>8
    <3>2. l <= l /\ v <= v
      BY <1>8
    <3> QED
      BY <3>1, <3>2
  <2>3. p \in Int /\ q \in Int
    BY <1>8
  <2>4. \E m \in parts : \A y \in parts : m <= y
    <3>1. p <= q => \A y \in parts : p <= y
      BY <1>5, <1>8, <2>1, <2>2, <2>3
    <3>2. q <= p => \A y \in parts : q <= y
      BY <1>5, <1>8, <2>1, <2>2, <2>3
    <3>3. p \in parts /\ q \in parts
      BY <1>5
    <3> QED
      BY <2>3, <3>1, <3>2, <3>3
  <2>5. PICK m : m \in parts /\ (\A y \in parts : m <= y) /\ m = Min(parts)
    BY <2>4 DEF Min
  <2>6. m \in Int /\ m <= t /\ m <= s /\ m <= l /\ m <= v
    BY <1>5, <1>8, <2>5
  <2>7. m <= Average(t, s, l, v)
    BY <1>2, <2>6, AverageIsBetween
  <2> QED
    BY <1>7, <2>5, <2>6, <2>7
<1>10. Max(parts) \in Int /\ a <= Max(parts)
  <2>1. IsFiniteSet(parts)
    <3>1. IsFiniteSet({t}) /\ IsFiniteSet({s}) /\ IsFiniteSet({l}) /\ IsFiniteSet({v})
      BY FS_Singleton
    <3>2. IsFiniteSet({t} \cup {s}) /\ IsFiniteSet({l} \cup {v})
      BY <3>1, FS_Union
    <3>3. IsFiniteSet(({t} \cup {s}) \cup ({l} \cup {v}))
      BY <3>2, FS_Union
    <3>4. parts = ({t} \cup {s}) \cup ({l} \cup {v})
      BY <1>5
    <3> QED
      BY <3>3, <3>4
  <2>2. parts \subseteq Int /\ parts # {}
    BY <1>5, <1>8
  <2>3. PICK m : m = Max(parts) /\ m \in parts /\ \A y \in parts : m >= y
    BY <2>1, <2>2, MaxOf
  <2>4. m \in Int /\ t <= m /\ s <= m /\ l <= m /\ v <= m
    BY <1>5, <1>8, <2>3
  <2>5. Average(t, s, l, v) <= m
    BY <1>2, <2>4, AverageIsBetween
  <2> QED
    BY <1>7, <2>3, <2>4, <2>5
<1>11. ScoreSwing(better).total >= a
  <2>1. /\ better.symbol = r.symbol /\ better.passed = r.passed /\ better.matched = r.matched
        /\ better.sma20 = r.sma20 /\ better.sma60 = r.sma60 /\ better.value = r.value
        /\ better.atr_pct = r.atr_pct /\ DOMAIN better = DOMAIN r
        /\ better.scores = [n \in DOMAIN r.scores |-> r.scores[n] + 7]
    BY DEF IsResult
  <2> HIDE DEF better
  <2>2. \A n \in DOMAIN r.scores : r.scores[n] \in Int
    BY DEF IsResult
  <2>3. DOMAIN better.scores = DOMAIN r.scores /\ better.scores \in [DOMAIN r.scores -> Int]
    BY <2>1, <2>2
  <2>4. IsResult(better)
    BY <2>1, <2>3 DEF IsResult
  <2>5. PICK z : z = SetupScore(better)
    OBVIOUS
  <2>6. z \in Int
    BY <2>4, <2>5, SetupScoreIsBest
  <2>7. s <= z
    <3>1. s \in {0} \cup SetupScores(r)
      BY <1>1, SetupScoreIsBest
    <3>2. \A x \in {0} \cup SetupScores(better) : z >= x
      BY <2>4, <2>5, SetupScoreIsBest
    <3>3. CASE s = 0
      BY <2>6, <3>2, <3>3
    <3>4. CASE s \in SetupScores(r)
      <4>1. PICK n \in ToSet(r.matched) : s = r.scores[n]
        BY <3>4 DEF SetupScores
      <4>2. n \in DOMAIN r.scores
        BY DEF IsResult, ToSet
      <4>3. better.scores[n] = s + 7
        BY <2>1, <4>1, <4>2
      <4>4. better.scores[n] \in SetupScores(better)
        BY <2>1, <4>1 DEF SetupScores
      <4> QED
        BY <1>8, <2>6, <3>2, <4>3, <4>4
    <3> QED
      BY <3>1, <3>3, <3>4
  <2>8. LiquidityScore(better) = l
    BY <1>1, <2>1 DEF LiquidityScore
  <2>9. SwingTrend(better.sma20, better.sma60) = t /\ SwingVolatility(better.atr_pct) = v
    BY <1>1, <2>1
  <2>10. ScoreSwing(better).total = Average(t, z, l, v)
    BY <2>4, <2>5, <2>8, <2>9, ScoreSwingIs DEF Average
  <2>11. Average(t, s, l, v) <= Average(t, z, l, v)
    BY <1>2, <2>6, <2>7, AverageKeepsOrder
  <2>12. Average(t, z, l, v) \in Int
    BY <1>2, <2>6, AverageIsBetween
  <2> QED
    BY <1>7, <2>10, <2>11, <2>12
<1>12. a \in Min(parts)..Max(parts)
  BY <1>7, <1>9, <1>10
<1>13. c.total = a /\ c.components.setup = s /\ c.symbol = r.symbol /\ c.primary = r.primary
  BY <1>4, <1>7
<1> HIDE DEF better
<1>14. /\ c.total \in Min({c.components[n] : n \in DOMAIN c.components})
                        ..Max({c.components[n] : n \in DOMAIN c.components})
       /\ ScoreSwing(better).total >= c.total /\ c.total \in Int /\ c.components.setup \in Int
       /\ c.symbol = r.symbol /\ c.primary = r.primary
  BY <1>2, <1>6, <1>7, <1>11, <1>12, <1>13
<1> QED
  BY <1>3, <1>14, Zenon DEF better

\* Scores of finitely many candidates with symbols of their own, whose keys
\* are numbers.
Scoring(C) ==
  /\ IsFiniteSet(C)
  /\ \A c \in C : /\ c.total \in Int /\ c.components.setup \in Int
                  /\ PlaceOf(c.primary) \in Int /\ c.symbol \in Int
  /\ \A c, d \in C : c.symbol = d.symbol => c = d

KeyOrder(C) == {p \in C \X C : SmallerKey(RankKey(p[1]), RankKey(p[2]))}

\* When one key of four numbers is smaller than another.
LEMMA SmallerKeyFour ==
  ASSUME NEW a, NEW b, DOMAIN a = 1..4
  PROVE  SmallerKey(a, b) <=> \/ a[1] < b[1]
                              \/ a[2] < b[2] /\ a[1] = b[1]
                              \/ a[3] < b[3] /\ a[1] = b[1] /\ a[2] = b[2]
                              \/ a[4] < b[4] /\ a[1] = b[1] /\ a[2] = b[2] /\ a[3] = b[3]
<1>1. 1..4 = {1, 2, 3, 4} /\ 1..0 = {} /\ 1..1 = {1} /\ 1..2 = {1, 2} /\ 1..3 = {1, 2, 3}
  OBVIOUS
<1>2. SmallerKey(a, b) <=> \/ a[1] < b[1] /\ \A j \in 1..0 : a[j] = b[j]
                           \/ a[2] < b[2] /\ \A j \in 1..1 : a[j] = b[j]
                           \/ a[3] < b[3] /\ \A j \in 1..2 : a[j] = b[j]
                           \/ a[4] < b[4] /\ \A j \in 1..3 : a[j] = b[j]
  BY <1>1 DEF SmallerKey
<1> QED
  BY <1>1, <1>2

\* What it takes for one score to have the smaller key.
LEMMA SmallerKeyOfScores ==
  ASSUME NEW c, NEW d
  PROVE  SmallerKey(RankKey(c), RankKey(d))
           <=> \/ -c.total < -d.total
               \/ -c.components.setup < -d.components.setup /\ -c.total = -d.total
               \/ /\ PlaceOf(c.primary) < PlaceOf(d.primary)
                  /\ -c.total = -d.total /\ -c.components.setup = -d.components.setup
               \/ /\ c.symbol < d.symbol
                  /\ -c.total = -d.total /\ -c.components.setup = -d.components.setup
                  /\ PlaceOf(c.primary) = PlaceOf(d.primary)
<1>1. PICK a : a = RankKey(c)
  OBVIOUS
<1>2. PICK b : b = RankKey(d)
  OBVIOUS
<1>3. PICK p, q : p = PlaceOf(c.primary) /\ q = PlaceOf(d.primary)
  OBVIOUS
<1>4. DOMAIN a = 1..4 /\ a[1] = -c.total /\ a[2] = -c.components.setup /\ a[3] = p /\ a[4] = c.symbol
  BY <1>1, <1>3 DEF RankKey
<1>5. b[1] = -d.total /\ b[2] = -d.components.setup /\ b[3] = q /\ b[4] = d.symbol
  BY <1>2, <1>3 DEF RankKey
<1>6. SmallerKey(a, b) <=> \/ a[1] < b[1]
                           \/ a[2] < b[2] /\ a[1] = b[1]
                           \/ a[3] < b[3] /\ a[1] = b[1] /\ a[2] = b[2]
                           \/ a[4] < b[4] /\ a[1] = b[1] /\ a[2] = b[2] /\ a[3] = b[3]
  BY <1>4, SmallerKeyFour
<1> QED
  BY <1>1, <1>2, <1>3, <1>4, <1>5, <1>6

\* The keys order the scores, since no symbol comes twice; a score that ranks
\* behind another does not exceed it.
LEMMA KeysOrderScores ==
  ASSUME NEW C, Scoring(C)
  PROVE  /\ OrdersAll(KeyOrder(C), C)
         /\ \A c, d \in C : <<c, d>> \in KeyOrder(C) => c.total >= d.total
<1>0. \A c \in C : /\ c.total \in Int /\ c.components.setup \in Int
                   /\ PlaceOf(c.primary) \in Int /\ c.symbol \in Int
  BY DEF Scoring
<1>1. ASSUME NEW c \in C, NEW d \in C
      PROVE  <<c, d>> \in KeyOrder(C)
               <=> \/ -c.total < -d.total
                   \/ -c.components.setup < -d.components.setup /\ -c.total = -d.total
                   \/ /\ PlaceOf(c.primary) < PlaceOf(d.primary)
                      /\ -c.total = -d.total /\ -c.components.setup = -d.components.setup
                   \/ /\ c.symbol < d.symbol
                      /\ -c.total = -d.total /\ -c.components.setup = -d.components.setup
                      /\ PlaceOf(c.primary) = PlaceOf(d.primary)
  <2>1. <<c, d>> \in KeyOrder(C) <=> SmallerKey(RankKey(c), RankKey(d))
    BY DEF KeyOrder
  <2> QED
    BY <2>1, SmallerKeyOfScores
<1>2. \A c \in C : <<c, c>> \notin KeyOrder(C)
  BY <1>0, <1>1
<1>3. \A c, d, e \in C : <<c, d>> \in KeyOrder(C) /\ <<d, e>> \in KeyOrder(C) => <<c, e>> \in KeyOrder(C)
  BY <1>0, <1>1
<1>4. \A c, d \in C : c # d => <<c, d>> \in KeyOrder(C) \/ <<d, c>> \in KeyOrder(C)
  <2>1. \A c, d \in C : c # d => c.symbol < d.symbol \/ d.symbol < c.symbol
    BY <1>0 DEF Scoring
  <2> QED
    BY <1>0, <1>1, <2>1
<1>5. \A c, d \in C : <<c, d>> \in KeyOrder(C) => c.total >= d.total
  BY <1>0, <1>1
<1> QED
  BY <1>2, <1>3, <1>4, <1>5 DEF OrdersAll

\* Scores in a row, each once.
InRow(s, n, C) ==
  /\ n \in Nat /\ s \in [1..n -> C] /\ \A c \in C : \E i \in 1..n : s[i] = c
  /\ \A i, j \in 1..n : s[i] = s[j] => i = j

\* Sorting them lists them in the order of the keys, whatever the row was.
LEMMA SortingLists ==
  ASSUME NEW C, Scoring(C), NEW n, NEW s, InRow(s, n, C)
  PROVE  Lists(SortedByKey(s), KeyOrder(C), C)
<1> DEFINE D == 1..n
           key == [i \in D |-> RankKey(s[i])]
           R == {p \in D \X D : <<s[p[1]], s[p[2]]>> \in KeyOrder(C)}
           InFront(i, j) == SmallerKey(key[i], key[j]) \/ (key[i] = key[j] /\ i < j)
           order == InOrder(D, InFront)
<1>1. n \in Nat /\ s \in [D -> C] /\ DOMAIN s = D
  BY DEF InRow
<1>2. SortedByKey(s) = [i \in DOMAIN order |-> s[order[i]]]
  BY <1>1 DEF SortedByKey, Sorted
<1>3. IsFiniteSet(D) /\ Cardinality(D) = n
  <2>1. IsFiniteSet(1..n) /\ Cardinality(1..n) = IF 1 > n THEN 0 ELSE n - 1 + 1
    BY <1>1, FS_Interval
  <2> QED
    BY <1>1, <2>1
<1>4. OrdersAll(KeyOrder(C), C)
  BY KeysOrderScores
<1>5. \A i, j \in D : s[i] \in C /\ s[j] \in C /\ (s[i] = s[j] => i = j)
  BY <1>1 DEF InRow
<1> HIDE DEF D
<1>6. OrdersAll(R, D)
  <2>1. \A i, j \in D : <<i, j>> \in R <=> <<s[i], s[j]>> \in KeyOrder(C)
    OBVIOUS
  <2> HIDE DEF R
  <2> QED
    BY <1>4, <1>5, <2>1 DEF OrdersAll
<1>7. ASSUME NEW i \in D, NEW j \in D PROVE InFront(i, j) <=> <<i, j>> \in R
  <2>1. key[i] = RankKey(s[i]) /\ key[j] = RankKey(s[j])
    OBVIOUS
  <2>2. <<i, j>> \in R <=> SmallerKey(key[i], key[j])
    BY <1>5, <2>1 DEF KeyOrder
  <2>3. key[i] = key[j] => i = j
    <3>1. s[i] \in C /\ s[j] \in C
      BY <1>5
    <3>2. RankKey(s[i])[4] = s[i].symbol /\ RankKey(s[j])[4] = s[j].symbol
      BY DEF RankKey
    <3> HIDE DEF key
    <3> QED
      BY <1>5, <2>1, <3>1, <3>2 DEF Scoring
  <2>4. ~(key[i] = key[j] /\ i < j)
    <3>1. i \in Int
      BY <1>7 DEF D
    <3> HIDE DEF key
    <3> QED
      BY <2>3, <3>1
  <2> HIDE DEF key, R
  <2> QED
    BY <2>2, <2>4
<1>8. order = Arranged(R, D)
  <2> DEFINE A(x) == {y \in D : InFront(y, x)}
             P(x) == {y \in D : <<y, x>> \in R}
  <2>1. order = [i \in 1..Cardinality(D) |-> CHOOSE x \in D : Cardinality(A(x)) = i - 1]
    BY DEF InOrder
  <2>2. Arranged(R, D) = [i \in 1..Cardinality(D) |-> CHOOSE x \in D : Cardinality(P(x)) = i - 1]
    BY DEF Arranged, InOrder
  <2> HIDE DEF order, InFront
  <2>3. \A x \in D : A(x) = P(x)
    BY <1>7
  <2> HIDE DEF A, P, R
  <2>4. ASSUME NEW i \in 1..Cardinality(D)
        PROVE  (CHOOSE x \in D : Cardinality(A(x)) = i - 1) = CHOOSE x \in D : Cardinality(P(x)) = i - 1
    BY <2>3
  <2> QED
    BY <2>1, <2>2, <2>4
<1>9. Lists(order, R, D)
  <2> HIDE DEF order, R, InFront
  <2> QED
    BY <1>3, <1>6, <1>8, SortedLists
<1> HIDE DEF order, InFront, key
<1>10. /\ order \in [1..n -> D] /\ \A x \in D : \E i \in 1..n : order[i] = x
       /\ \A i, j \in 1..n : i < j => <<order[i], order[j]>> \in R /\ order[i] # order[j]
  <2> HIDE DEF R
  <2> QED
    BY <1>3, <1>9 DEF Lists
<1>11. Cardinality(C) = n
  <2>1. s \in Bijection(D, C)
    <3>1. IsInjective(s)
      BY <1>1, <1>5 DEF IsInjective
    <3>2. \A c \in C : \E i \in D : s[i] = c
      BY DEF InRow, D
    <3> QED
      BY <1>1, <3>1, <3>2 DEF Bijection, Injection, Surjection
  <2> QED
    BY <1>3, <2>1, FS_Bijection DEF ExistsBijection
<1>12. SortedByKey(s) = [i \in 1..n |-> s[order[i]]]
  BY <1>2, <1>10
<1> DEFINE t == [i \in 1..n |-> s[order[i]]]
<1>13. t \in [1..n -> C]
  BY <1>1, <1>10
<1>14. \A c \in C : \E i \in 1..n : t[i] = c
  <2>1. ASSUME NEW c \in C PROVE \E i \in 1..n : t[i] = c
    <3>1. PICK x \in D : s[x] = c
      BY DEF InRow, D
    <3>2. PICK i \in 1..n : order[i] = x
      BY <1>10
    <3> QED
      BY <3>1, <3>2
  <2> QED
    BY <2>1
<1>15. \A i, j \in 1..n : i < j => <<t[i], t[j]>> \in KeyOrder(C) /\ t[i] # t[j]
  <2>1. ASSUME NEW i \in 1..n, NEW j \in 1..n, i < j
        PROVE  <<s[order[i]], s[order[j]]>> \in KeyOrder(C) /\ s[order[i]] # s[order[j]]
    <3>1. order[i] \in D /\ order[j] \in D /\ <<order[i], order[j]>> \in R /\ order[i] # order[j]
      BY <1>10, <2>1
    <3> QED
      BY <1>5, <3>1
  <2> QED
    BY <2>1
<1> HIDE DEF t
<1>16. Lists(t, KeyOrder(C), C)
  BY <1>11, <1>13, <1>14, <1>15 DEF Lists
<1> QED
  BY <1>12, <1>16 DEF t

-----------------------------------------------------------------------------
(***************************************************************************)
(* The order of the ranking and its cut.                                   *)
(***************************************************************************)

\* A setup has a place, known or not.
LEMMA PlacesAreNumbers ==
  ASSUME NEW setup
  PROVE  PlaceOf(setup) \in Int
<1>1. DOMAIN SetupOrder = 1..3 /\ Len(SetupOrder) = 3
  BY DEF SetupOrder
<1>2. CASE setup \notin ToSet(SetupOrder)
  BY <1>1, <1>2 DEF PlaceOf
<1>3. CASE setup \in ToSet(SetupOrder)
  <2>1. PICK i \in DOMAIN SetupOrder : SetupOrder[i] = setup
    BY <1>3 DEF ToSet
  <2>2. (CHOOSE j \in DOMAIN SetupOrder : SetupOrder[j] = setup) \in DOMAIN SetupOrder
    BY <2>1
  <2>3. PICK k : k = CHOOSE j \in DOMAIN SetupOrder : SetupOrder[j] = setup
    OBVIOUS
  <2>4. PlaceOf(setup) = k
    BY <1>3, <2>3, Zenon DEF PlaceOf
  <2>5. k \in DOMAIN SetupOrder
    BY <2>2, <2>3, Zenon
  <2> QED
    BY <1>1, <2>4, <2>5
<1> QED
  BY <1>2, <1>3

\* n results, each of a symbol of its own.
IsBatch(rs, n) ==
  /\ n \in Nat /\ DOMAIN rs = 1..n /\ rs = [i \in 1..n |-> rs[i]]
  /\ \A i \in 1..n : IsResult(rs[i])
  /\ \A i, j \in 1..n : rs[i].symbol = rs[j].symbol => i = j

ScoresOf(rs) == {ScoreSwing(rs[i]) : i \in DOMAIN rs}

\* Their scores can be ranked.
LEMMA BatchesAreScored ==
  ASSUME NEW rs, NEW n, IsBatch(rs, n)
  PROVE  /\ Scoring(ScoresOf(rs))
         /\ InRow([i \in DOMAIN rs |-> ScoreSwing(rs[i])], n, ScoresOf(rs))
<1> DEFINE C == ScoresOf(rs)
           s == [i \in 1..n |-> ScoreSwing(rs[i])]
<1>1. n \in Nat /\ DOMAIN rs = 1..n /\ \A i \in 1..n : IsResult(rs[i])
  BY DEF IsBatch
<1>2. PICK D : D = 1..n
  OBVIOUS
<1>3. ASSUME NEW i \in D
      PROVE  LET c == ScoreSwing(rs[i])
             IN c.total \in Int /\ c.components.setup \in Int /\ c.symbol = rs[i].symbol
  <2>1. PICK r : r = rs[i]
    OBVIOUS
  <2>2. IsResult(r)
    BY <1>1, <1>2, <1>3, <2>1
  <2>3. /\ ScoreSwing(r).total \in Int /\ ScoreSwing(r).components.setup \in Int
        /\ ScoreSwing(r).symbol = r.symbol
    BY <2>2, TotalOfResult
  <2> QED
    BY <2>1, <2>3
<1>4. \A i \in D : rs[i].symbol \in Int
  BY <1>1, <1>2 DEF IsResult
<1>5. \A i, j \in D : rs[i].symbol = rs[j].symbol => i = j
  BY <1>2 DEF IsBatch
<1>6. C = {s[i] : i \in D} /\ s \in [D -> C]
  BY <1>1, <1>2 DEF ScoresOf
<1>7. IsFiniteSet(D)
  <2>1. IsFiniteSet(1..n)
    BY <1>1, FS_Interval
  <2> QED
    BY <1>2, <2>1
<1>8. \A i \in D : s[i] = ScoreSwing(rs[i])
  BY <1>2
<1> HIDE DEF C, s
<1>9. IsFiniteSet(C)
  <2>1. s \in Surjection(D, C)
    BY <1>6 DEF Surjection
  <2> QED
    BY <1>7, <2>1, FS_Surjection
<1>10. \A i, j \in D : s[i].symbol = s[j].symbol => i = j
  BY <1>3, <1>5, <1>8
<1>11. \A c \in C : /\ c.total \in Int /\ c.components.setup \in Int /\ PlaceOf(c.primary) \in Int
                    /\ c.symbol \in Int
  <2>1. ASSUME NEW i \in D
        PROVE  /\ s[i].total \in Int /\ s[i].components.setup \in Int
               /\ PlaceOf(s[i].primary) \in Int /\ s[i].symbol \in Int
    BY <1>3, <1>4, <1>8, PlacesAreNumbers
  <2> QED
    BY <1>6, <2>1
<1>12. \A c, d \in C : c.symbol = d.symbol => c = d
  BY <1>6, <1>10
<1>13. Scoring(C)
  BY <1>9, <1>11, <1>12 DEF Scoring
<1>14. InRow(s, n, C)
  BY <1>1, <1>2, <1>6, <1>10 DEF InRow
<1>15. [i \in DOMAIN rs |-> ScoreSwing(rs[i])] = s
  BY <1>1 DEF s
<1> QED
  BY <1>13, <1>14, <1>15 DEF C

\* Ranking lists them by their keys.
LEMMA RankLists ==
  ASSUME NEW rs, NEW n, IsBatch(rs, n)
  PROVE  Lists(Rank(rs), KeyOrder(ScoresOf(rs)), ScoresOf(rs))
<1>1. PICK s : s = [i \in DOMAIN rs |-> ScoreSwing(rs[i])]
  OBVIOUS
<1>2. Scoring(ScoresOf(rs)) /\ InRow(s, n, ScoresOf(rs))
  BY <1>1, BatchesAreScored
<1>3. Lists(SortedByKey(s), KeyOrder(ScoresOf(rs)), ScoresOf(rs))
  BY <1>2, SortingLists
<1> QED
  BY <1>1, <1>3 DEF Rank

\* The ranking depends on the scores alone.
LEMMA RankIsCanonical ==
  ASSUME NEW rs, NEW n, IsBatch(rs, n), NEW us, IsBatch(us, n), ScoresOf(us) = ScoresOf(rs)
  PROVE  Rank(us) = Rank(rs)
<1>1. PICK C : C = ScoresOf(rs)
  OBVIOUS
<1>2. Lists(Rank(rs), KeyOrder(C), C)
  BY <1>1, RankLists
<1>3. Lists(Rank(us), KeyOrder(C), C)
  <2>1. Lists(Rank(us), KeyOrder(ScoresOf(us)), ScoresOf(us))
    BY RankLists
  <2> QED
    BY <1>1, <2>1
<1>4. Scoring(C)
  BY <1>1, BatchesAreScored
<1>5. IsFiniteSet(C) /\ OrdersAll(KeyOrder(C), C)
  BY <1>4, KeysOrderScores DEF Scoring
<1> QED
  BY <1>2, <1>3, <1>5, ListsAreOne

\* So it does not depend on the order in which the results come.
LEMMA RankOfAnyOrder ==
  ASSUME NEW rs, NEW n, IsBatch(rs, n), NEW p \in [1..n -> 1..n],
         \A i, j \in 1..n : p[i] = p[j] => i = j
  PROVE  Rank([i \in 1..n |-> rs[p[i]]]) = Rank(rs)
<1> DEFINE us == [i \in 1..n |-> rs[p[i]]]
<1>1. PICK D : D = 1..n
  OBVIOUS
<1>2. n \in Nat /\ DOMAIN rs = D /\ p \in [D -> D] /\ DOMAIN us = D
  BY <1>1 DEF IsBatch
<1>3. \A i \in D : us[i] = rs[p[i]]
  BY <1>1
<1> HIDE DEF us
<1>4. IsBatch(us, n)
  <2>1. us = [i \in 1..n |-> us[i]]
    BY DEF us
  <2>2. \A i \in 1..n : IsResult(us[i])
    BY <1>1, <1>2, <1>3 DEF IsBatch
  <2>3. \A i, j \in 1..n : us[i].symbol = us[j].symbol => i = j
    <3>1. ASSUME NEW i \in D, NEW j \in D, us[i].symbol = us[j].symbol PROVE i = j
      <4>1. p[i] \in D /\ p[j] \in D /\ rs[p[i]].symbol = rs[p[j]].symbol
        BY <1>2, <1>3, <3>1
      <4>2. p[i] = p[j]
        BY <1>1, <4>1 DEF IsBatch
      <4> QED
        BY <1>1, <4>2
    <3> QED
      BY <1>1, <3>1
  <2> QED
    BY <1>1, <1>2, <2>1, <2>2, <2>3 DEF IsBatch
<1>5. ScoresOf(us) = ScoresOf(rs)
  <2>1. p \in Injection(D, D)
    BY <1>1, <1>2 DEF Injection, IsInjective
  <2>2. IsFiniteSet(D)
    <3>1. IsFiniteSet(1..n)
      BY <1>2, FS_Interval
    <3> QED
      BY <1>1, <3>1
  <2>3. p \in Surjection(D, D)
    BY <2>1, <2>2, FS_Injection
  <2>4. \A j \in D : \E i \in D : p[i] = j
    BY <2>3 DEF Surjection
  <2>5. \A i \in D : p[i] \in D
    BY <1>2
  <2>6. ScoresOf(us) = {ScoreSwing(rs[p[i]]) : i \in D}
    BY <1>2, <1>3 DEF ScoresOf
  <2>7. ScoresOf(rs) = {ScoreSwing(rs[j]) : j \in D}
    BY <1>2 DEF ScoresOf
  <2> QED
    BY <2>4, <2>5, <2>6, <2>7
<1>6. Rank(us) = Rank(rs)
  BY <1>4, <1>5, RankIsCanonical
<1> QED
  BY <1>6 DEF us

QualifiedOf(C) == {c \in C : c.total >= MinimumCandidateScore}
Places(m) == IF MaximumCandidates <= m THEN MaximumCandidates ELSE m

\* The selection is the first qualified ones of the ranking.
LEMMA SelectionIsFirst ==
  ASSUME NEW C, Scoring(C), NEW s, Lists(s, KeyOrder(C), C)
  PROVE  \E q : /\ Lists(q, KeyOrder(C), QualifiedOf(C))
                /\ ToSet(Selected(s)) = {q[i] : i \in 1..Places(Cardinality(QualifiedOf(C)))}
<1>1. PICK Q \in SUBSET C : Q = QualifiedOf(C)
  BY DEF QualifiedOf
<1>2. IsFiniteSet(C)
  BY DEF Scoring
<1>3. IsFiniteSet(Q) /\ Cardinality(Q) \in Nat
  BY <1>2, FS_Subset, FS_CardinalityType
<1>4. PICK q : q = Kept(s, Q)
  OBVIOUS
<1>5. Lists(q, KeyOrder(C), Q)
  BY <1>2, <1>4, KeptAreListed
<1>6. Qualified(s) = q
  <2>1. {i \in DOMAIN s : s[i].total >= MinimumCandidateScore} = {i \in DOMAIN s : s[i] \in Q}
    <3>1. \A i \in DOMAIN s : s[i] \in C
      BY DEF Lists
    <3> QED
      BY <1>1, <3>1 DEF QualifiedOf
  <2> QED
    BY <1>4, <2>1 DEF Qualified, Kept, KeepIf
<1>7. PICK k \in Nat : k = Cardinality(Q)
  BY <1>3
<1>8. q \in [1..k -> Q]
  BY <1>5, <1>7 DEF Lists
<1>9. q \in Seq(Q) /\ Len(q) = k
  BY <1>8
<1>10. PICK m \in Nat : m = Places(k) /\ m <= k
  <2>1. MaximumCandidates \in Nat
    BY RankingAssumption
  <2> QED
    BY <2>1 DEF Places
<1>11. Min({MaximumCandidates, k}) = m
  <2>1. PICK a \in Int : a = MaximumCandidates
    BY RankingAssumption
  <2>2. Min({a, k}) = IF a <= k THEN a ELSE k
    BY MinOfTwo
  <2> QED
    BY <1>10, <2>1, <2>2 DEF Places
<1>12. Selected(s) = SubSeq(q, 1, m)
  BY <1>6, <1>9, <1>11 DEF Selected
<1>13. SubSeq(q, 1, m) = [i \in 1..m |-> q[i]]
  BY <1>9, <1>10
<1>14. ToSet(Selected(s)) = {q[i] : i \in 1..m}
  BY <1>12, <1>13 DEF ToSet
<1> QED
  BY <1>1, <1>5, <1>7, <1>10, <1>14

\* Who is left out of the selection of s meets no free place.
LEMMA SelectionKeepsBest ==
  ASSUME NEW C, Scoring(C), NEW s, Lists(s, KeyOrder(C), C),
         NEW c \in C, c \notin ToSet(Selected(s)), c.total >= MinimumCandidateScore
  PROVE  /\ Cardinality(ToSet(Selected(s))) = MaximumCandidates
         /\ \A d \in ToSet(Selected(s)) : d.total >= c.total
<1>1. PICK q : /\ Lists(q, KeyOrder(C), QualifiedOf(C))
               /\ ToSet(Selected(s)) = {q[i] : i \in 1..Places(Cardinality(QualifiedOf(C)))}
  BY SelectionIsFirst
<1>2. PICK Q \in SUBSET C : Q = QualifiedOf(C)
  BY DEF QualifiedOf
<1>3. IsFiniteSet(Q) /\ Cardinality(Q) \in Nat
  BY <1>2, FS_Subset, FS_CardinalityType DEF Scoring
<1>4. PICK k \in Nat : k = Cardinality(Q)
  BY <1>3
<1>5. MaximumCandidates \in Nat
  BY RankingAssumption
<1>6. PICK m \in Nat : m = Places(k) /\ m <= k /\ (m = k \/ m = MaximumCandidates)
  BY <1>5 DEF Places
<1>7. Lists(q, KeyOrder(C), Q) /\ ToSet(Selected(s)) = {q[i] : i \in 1..m}
  BY <1>1, <1>2, <1>4, <1>6
<1>8. PICK j \in 1..k : q[j] = c
  <2>1. c \in Q
    BY <1>2 DEF QualifiedOf
  <2> QED
    BY <1>4, <1>7, <2>1 DEF Lists
<1>9. ~(j <= m)
  BY <1>4, <1>6, <1>7, <1>8
<1>10. m = MaximumCandidates
  BY <1>4, <1>6, <1>8, <1>9
<1>11. Cardinality({q[i] : i \in 1..m}) = m
  <2>1. PICK I \in SUBSET (1..Cardinality(Q)) : I = 1..m
    BY <1>4, <1>6
  <2>2. Cardinality({q[i] : i \in I}) = Cardinality(I)
    BY <1>3, <1>7, ListMembers
  <2>3. Cardinality(1..m) = IF 1 > m THEN 0 ELSE m - 1 + 1
    BY <1>6, FS_Interval
  <2> QED
    BY <1>6, <2>1, <2>2, <2>3
<1>12. ASSUME NEW i \in 1..m PROVE q[i].total >= c.total
  <2>1. i \in 1..k /\ i < j
    BY <1>6, <1>8, <1>9, <1>12
  <2>2. <<q[i], q[j]>> \in KeyOrder(C) /\ q[i] \in C /\ q[j] \in C
    BY <1>4, <1>7, <1>8, <2>1 DEF Lists
  <2>3. q[i].total >= q[j].total
    BY <2>2, KeysOrderScores
  <2> QED
    BY <1>8, <2>3
<1> QED
  BY <1>7, <1>10, <1>11, <1>12

\* Without one of the scores, every other one keeps its place.
LEMMA SelectionSurvives ==
  ASSUME NEW C, Scoring(C), NEW s, Lists(s, KeyOrder(C), C),
         NEW a \in C, NEW u, Lists(u, KeyOrder(C \ {a}), C \ {a})
  PROVE  ToSet(Selected(s)) \ {a} \subseteq ToSet(Selected(u))
<1>1. PICK E \in SUBSET C : E = C \ {a}
  OBVIOUS
<1>2. IsFiniteSet(C) /\ IsFiniteSet(E)
  BY <1>1, FS_Subset DEF Scoring
<1>3. Scoring(E)
  BY <1>2 DEF Scoring
<1>4. PICK R, P : R = KeyOrder(C) /\ P = KeyOrder(E)
  OBVIOUS
<1>5. PICK Q \in SUBSET C : Q = QualifiedOf(C)
  BY DEF QualifiedOf
<1>6. PICK W \in SUBSET Q : W = QualifiedOf(E)
  BY <1>1, <1>5 DEF QualifiedOf
<1>7. IsFiniteSet(Q) /\ IsFiniteSet(W)
  <2>1. W \in SUBSET C
    BY <1>5, <1>6
  <2> QED
    BY <1>2, <2>1, FS_Subset
<1>8. PICK k \in Nat, l \in Nat : k = Cardinality(Q) /\ l = Cardinality(W)
  BY <1>7, FS_CardinalityType
<1>9. PICK q : Lists(q, R, Q) /\ ToSet(Selected(s)) = {q[i] : i \in 1..Places(k)}
  BY <1>4, <1>5, <1>8, SelectionIsFirst
<1>10. PICK w : Lists(w, P, W) /\ ToSet(Selected(u)) = {w[i] : i \in 1..Places(l)}
  <2>1. Lists(u, KeyOrder(E), E)
    BY <1>1
  <2>2. \E w : /\ Lists(w, KeyOrder(E), QualifiedOf(E))
               /\ ToSet(Selected(u)) = {w[i] : i \in 1..Places(Cardinality(QualifiedOf(E)))}
    BY <1>3, <2>1, SelectionIsFirst
  <2> QED
    BY <1>4, <1>6, <1>8, <2>2
<1>11. OrdersAll(R, Q) /\ OrdersAll(P, W)
  <2>1. OrdersAll(R, C) /\ OrdersAll(P, E)
    BY <1>3, <1>4, KeysOrderScores
  <2>2. \A x \in W : x \in E
    BY <1>6 DEF QualifiedOf
  <2> QED
    BY <2>1, <2>2 DEF OrdersAll
<1>12. MaximumCandidates \in Nat
  BY RankingAssumption
<1>13. ASSUME NEW c \in ToSet(Selected(s)), c # a PROVE c \in ToSet(Selected(u))
  <2>1. PICK i \in 1..Places(k) : c = q[i]
    BY <1>9, <1>13
  <2>2. i \in 1..k /\ i <= MaximumCandidates
    BY <1>12, <2>1 DEF Places
  <2>3. c \in Q
    BY <1>8, <1>9, <2>1, <2>2 DEF Lists
  <2>4. c \in W
    BY <1>1, <1>5, <1>6, <1>13, <2>3 DEF QualifiedOf
  <2>5. PICK j \in 1..l : w[j] = c
    BY <1>8, <1>10, <2>4 DEF Lists
  <2>6. Cardinality(Preceding(R, Q, q[i])) = i - 1
    BY <1>7, <1>8, <1>9, <1>11, <2>2, ListPlaces
  <2>7. Cardinality(Preceding(P, W, w[j])) = j - 1
    BY <1>7, <1>8, <1>10, <1>11, <2>5, ListPlaces
  <2>8. Preceding(P, W, c) \subseteq Preceding(R, Q, c)
    <3>1. \A x \in W : <<x, c>> \in P => <<x, c>> \in R
      BY <1>1, <1>4 DEF KeyOrder
    <3> QED
      BY <1>6, <3>1 DEF Preceding
  <2>9. IsFiniteSet(Preceding(R, Q, c))
    <3>1. Preceding(R, Q, c) \in SUBSET Q
      BY DEF Preceding
    <3> QED
      BY <1>7, <3>1, FS_Subset
  <2>10. Cardinality(Preceding(P, W, c)) <= Cardinality(Preceding(R, Q, c))
    <3>1. PICK A, B : A = Preceding(P, W, c) /\ B = Preceding(R, Q, c)
      OBVIOUS
    <3>2. IsFiniteSet(B) /\ A \in SUBSET B
      BY <2>8, <2>9, <3>1
    <3>3. Cardinality(A) <= Cardinality(B)
      BY <3>2, FS_Subset
    <3> QED
      BY <3>1, <3>3
  <2>11. j <= i
    BY <1>8, <2>1, <2>2, <2>5, <2>6, <2>7, <2>10
  <2>12. j \in 1..Places(l)
    BY <1>8, <1>12, <2>2, <2>5, <2>11 DEF Places
  <2> QED
    BY <1>10, <2>5, <2>12
<1> QED
  BY <1>13

\* A batch without one of its results is a batch, and the scores are those
\* without its score.
LEMMA BatchWithoutOne ==
  ASSUME NEW rs, NEW n, IsBatch(rs, n), NEW i \in 1..n
  PROVE  /\ IsBatch(RemoveAt(rs, i), n - 1)
         /\ ScoresOf(RemoveAt(rs, i)) = ScoresOf(rs) \ {ScoreSwing(rs[i])}
<1>1. n \in Nat /\ DOMAIN rs = 1..n /\ rs = [j \in 1..n |-> rs[j]]
  BY DEF IsBatch
<1>2. PICK T : T = {rs[j] : j \in 1..n}
  OBVIOUS
<1>3. rs \in Seq(T) /\ Len(rs) = n
  BY <1>1, <1>2
<1>4. n - 1 \in Nat /\ i \in Nat /\ i - 1 \in Nat
  BY <1>1
<1>5. PICK m \in Nat : m = n - 1
  BY <1>4
<1>6. PICK a, b : a = SubSeq(rs, 1, i - 1) /\ b = SubSeq(rs, i + 1, Len(rs))
  OBVIOUS
<1>7. /\ a \in Seq(T) /\ Len(a) = i - 1 /\ \A j \in 1..(i - 1) : a[j] = rs[j]
      /\ b \in Seq(T) /\ Len(b) = n - i /\ \A j \in 1..(n - i) : b[j] = rs[j + i]
  <2>1. \A j \in 1..n : rs[j] \in T
    BY <1>2
  <2>2. PICK x \in Int, y \in Int : x = i - 1 /\ y = i + 1 /\ x <= n
    BY <1>1
  <2>3. /\ SubSeq(rs, 1, x) \in Seq(T) /\ Len(SubSeq(rs, 1, x)) = (IF 1 <= x THEN x - 1 + 1 ELSE 0)
        /\ \A j \in 1..(x - 1 + 1) : SubSeq(rs, 1, x)[j] = rs[1 + j - 1]
    <3>1. PICK z \in Int : z = 1
      OBVIOUS
    <3>2. \A j \in z..x : rs[j] \in T
      BY <1>1, <2>1, <2>2, <3>1
    <3> QED
      BY <2>2, <3>1, <3>2, SubSeqProperties
  <2>4. /\ SubSeq(rs, y, n) \in Seq(T) /\ Len(SubSeq(rs, y, n)) = (IF y <= n THEN n - y + 1 ELSE 0)
        /\ \A j \in 1..(n - y + 1) : SubSeq(rs, y, n)[j] = rs[y + j - 1]
    <3>1. \A j \in y..n : rs[j] \in T
      BY <1>1, <2>1, <2>2
    <3>2. n \in Int
      BY <1>1
    <3> QED
      BY <2>2, <3>1, <3>2, SubSeqProperties
  <2>5. a = SubSeq(rs, 1, x) /\ b = SubSeq(rs, y, n)
    BY <1>3, <1>6, <2>2
  <2>6. Len(a) = i - 1 /\ \A j \in 1..(i - 1) : a[j] = rs[j]
    <3>1. \A j \in 1..(i - 1) : j \in 1..(x - 1 + 1) /\ 1 + j - 1 = j
      BY <1>1, <2>2
    <3> QED
      BY <1>4, <2>2, <2>3, <2>5, <3>1
  <2>7. Len(b) = n - i /\ \A j \in 1..(n - i) : b[j] = rs[j + i]
    <3>1. \A j \in 1..(n - i) : j \in 1..(n - y + 1) /\ y + j - 1 = j + i
      BY <1>1, <2>2
    <3>2. i <= n
      BY <1>1
    <3> QED
      BY <1>1, <1>4, <2>2, <2>4, <2>5, <3>1, <3>2, SMTT(60)
  <2> QED
    BY <2>3, <2>4, <2>5, <2>6, <2>7
<1>8. PICK us : us = a \o b /\ us = RemoveAt(rs, i)
  BY <1>6 DEF RemoveAt
<1> DEFINE at(j) == IF j < i THEN j ELSE j + 1
<1>9. us \in Seq(T) /\ Len(us) = m /\ \A j \in 1..m : us[j] = rs[at(j)]
  <2>0. /\ a \o b \in Seq(T) /\ Len(a \o b) = Len(a) + Len(b)
        /\ \A j \in 1..(Len(a) + Len(b)) : (a \o b)[j] = IF j <= Len(a) THEN a[j] ELSE b[j - Len(a)]
    <3>1. a \in Seq(T) /\ b \in Seq(T)
      BY <1>7
    <3> QED
      BY <3>1, ConcatProperties
  <2>1. us \in Seq(T)
    BY <1>8, <2>0
  <2>2. Len(us) = m /\ Len(a) + Len(b) = m
    BY <1>1, <1>5, <1>7, <1>8, <2>0
  <2>3. ASSUME NEW j \in 1..m PROVE us[j] = rs[at(j)]
    <3>0. us[j] = IF j <= i - 1 THEN a[j] ELSE b[j - (i - 1)]
      BY <1>7, <1>8, <2>0, <2>2, <2>3
    <3>1. CASE j < i
      <4>1. j \in 1..(i - 1) /\ j <= i - 1
        BY <1>1, <1>5, <2>3, <3>1
      <4> QED
        BY <1>7, <3>0, <3>1, <4>1
    <3>2. CASE ~(j < i)
      <4>1. PICK k \in Int : k = j - (i - 1) /\ k \in 1..(n - i) /\ k + i = j + 1 /\ ~(j <= i - 1)
        BY <1>1, <1>5, <2>3, <3>2
      <4>2. us[j] = b[k]
        BY <3>0, <4>1
      <4>3. b[k] = rs[k + i]
        BY <1>7, <4>1
      <4> QED
        BY <3>2, <4>1, <4>2, <4>3
    <3> QED
      BY <3>1, <3>2
  <2> QED
    BY <2>1, <2>2, <2>3
<1>10. PICK D, F : D = 1..n /\ F = 1..m
  OBVIOUS
<1>11. /\ \A j \in F : at(j) \in D /\ at(j) # i
       /\ \A j, k \in F : at(j) = at(k) => j = k
       /\ \A k \in D : k # i => \E j \in F : at(j) = k
  <2>1. \A j \in F : at(j) \in D /\ at(j) # i
    BY <1>1, <1>4, <1>5, <1>10
  <2>2. \A j, k \in F : at(j) = at(k) => j = k
    BY <1>1, <1>4, <1>5, <1>10
  <2>3. ASSUME NEW k \in D, k # i PROVE \E j \in F : at(j) = k
    <3>1. CASE k < i
      <4>1. k \in F /\ at(k) = k
        BY <1>1, <1>5, <1>10, <2>3, <3>1
      <4> QED
        BY <4>1
    <3>2. CASE ~(k < i)
      <4>1. PICK j \in Int : j = k - 1
        BY <1>10, <2>3
      <4>2. j \in F /\ at(j) = k
        BY <1>1, <1>4, <1>5, <1>10, <2>3, <3>2, <4>1
      <4> QED
        BY <4>2
    <3> QED
      BY <3>1, <3>2
  <2> QED
    BY <2>1, <2>2, <2>3
<1> HIDE DEF at
<1>12. \A j \in F : us[j] = rs[at(j)]
  BY <1>9, <1>10
<1>13. DOMAIN us = F /\ us = [j \in F |-> us[j]]
  BY <1>5, <1>9, <1>10
<1>14. \A k \in D : IsResult(rs[k])
  BY <1>10 DEF IsBatch
<1>15. \A j, k \in D : rs[j].symbol = rs[k].symbol => j = k
  BY <1>10 DEF IsBatch
<1>16. IsBatch(us, m)
  <2>1. \A j \in F : IsResult(us[j])
    BY <1>11, <1>12, <1>14
  <2>2. \A j, k \in F : us[j].symbol = us[k].symbol => j = k
    BY <1>11, <1>12, <1>15
  <2> QED
    BY <1>5, <1>10, <1>13, <2>1, <2>2 DEF IsBatch
<1>17. ScoresOf(us) = ScoresOf(rs) \ {ScoreSwing(rs[i])}
  <2>1. ScoresOf(us) = {ScoreSwing(rs[at(j)]) : j \in F}
    BY <1>12, <1>13 DEF ScoresOf
  <2>2. ScoresOf(rs) = {ScoreSwing(rs[k]) : k \in D}
    BY <1>1, <1>10 DEF ScoresOf
  <2>3. \A k \in D : ScoreSwing(rs[k]).symbol = rs[k].symbol
    <3>1. ASSUME NEW k \in D PROVE ScoreSwing(rs[k]).symbol = rs[k].symbol
      <4>1. PICK r : r = rs[k]
        OBVIOUS
      <4>2. IsResult(r)
        BY <1>14, <3>1, <4>1
      <4>3. ScoreSwing(r).symbol = r.symbol
        BY <4>2, TotalOfResult
      <4> QED
        BY <4>1, <4>3
    <3> QED
      BY <3>1
  <2>4. \A j, k \in D : ScoreSwing(rs[j]) = ScoreSwing(rs[k]) => j = k
    BY <1>15, <2>3
  <2>5. i \in D
    BY <1>10
  <2> QED
    BY <1>11, <2>1, <2>2, <2>4, <2>5
<1> QED
  BY <1>5, <1>8, <1>16, <1>17

-----------------------------------------------------------------------------
(***************************************************************************)
(* The two rankers.                                                        *)
(***************************************************************************)

\* The pieces of the volatility score s of n tenths of a percent.
PieceOf(n, s) ==
  /\ s \in Int
  /\ n <= 10 \/ n >= 120 => s = 0
  /\ 10 < n /\ n < 30 => s = 500 * (n - 10)
  /\ 30 <= n /\ n <= 60 => s = 10000
  /\ 60 < n /\ n < 120 => 12 * s <= 2000 * (120 - n) + 6 /\ 12 * s >= 2000 * (120 - n) - 6

Tenths == 0..131
VolatilityAt(n) == SwingVolatility(<<n, 1000>>)

\* The score has them.
LEMMA VolatilityPieces ==
  ASSUME NEW n \in Tenths
  PROVE  PieceOf(n, VolatilityAt(n))
<1>0. n \in Int /\ 0 <= n /\ n <= 131
  BY DEF Tenths
<1>1. PICK v : v = <<n, 1000>>
  OBVIOUS
<1>2. v[1] = n /\ v[2] = 1000
  BY <1>1
<1>3. /\ AtMost(v, 1) <=> n <= 10
      /\ AtLeast(v, 12) <=> n >= 12 * 10
      /\ AtLeast(v, 3) <=> n >= 30
      /\ AtMost(v, 6) <=> n <= 60
  BY <1>0, <1>2 DEF AtMost, AtLeast
<1>4. CASE n <= 10 \/ n >= 120
  <2>1. AtMost(v, 1) \/ AtLeast(v, 12)
    BY <1>3, <1>4
  <2>2. SwingVolatility(v) = 0
    BY <1>0, <1>3, <1>4, <2>1 DEF SwingVolatility
  <2> QED
    BY <1>0, <1>1, <1>4, <2>2 DEF PieceOf, VolatilityAt
<1>5. CASE 10 < n /\ n < 30
  <2>1. ~(AtMost(v, 1) \/ AtLeast(v, 12)) /\ ~AtMost(v, 1) /\ ~AtLeast(v, 3)
    BY <1>0, <1>3, <1>5
  <2>2. SwingVolatility(v) = LinearScore(v, 1, 3)
    BY <2>1 DEF SwingVolatility
  <2>3. LinearScore(v, 1, 3) = Score(100 * n - 1000, 2000)
    BY <1>0, <1>2 DEF LinearScore, HighIsGood
  <2>4. PICK x \in Int : x = 100 * n - 1000
    BY <1>0
  <2>5. ~(x <= 0) /\ ~(x >= 2000)
    BY <1>0, <1>5, <2>4
  <2>6. PICK a \in Int : a = (100 * x) \div 2000 /\ a = 5 * n - 50 /\ (100 * x) % 2000 = 0
    BY <1>0, <2>4
  <2>7. RoundHalfUp(100 * 0, 2000) = 0
    BY DEF RoundHalfUp
  <2>8. Score(x, 2000) = 100 * a
    BY <2>5, <2>6, <2>7 DEF Score
  <2>9. SwingVolatility(v) = 500 * (n - 10)
    BY <1>0, <2>2, <2>3, <2>4, <2>6, <2>8
  <2> QED
    BY <1>0, <1>1, <1>5, <2>9 DEF PieceOf, VolatilityAt
<1>6. CASE 30 <= n /\ n <= 60
  <2>1. /\ ~(AtMost(v, 1) \/ AtLeast(v, 12)) /\ ~(~AtMost(v, 1) /\ ~AtLeast(v, 3))
        /\ AtLeast(v, 3) /\ AtMost(v, 6)
    BY <1>0, <1>3, <1>6
  <2>2. SwingVolatility(v) = 10000
    BY <2>1 DEF SwingVolatility
  <2> QED
    BY <1>0, <1>1, <1>6, <2>2 DEF PieceOf, VolatilityAt
<1>7. CASE 60 < n /\ n < 120
  <2>1. /\ ~(AtMost(v, 1) \/ AtLeast(v, 12)) /\ ~(~AtMost(v, 1) /\ ~AtLeast(v, 3))
        /\ ~(AtLeast(v, 3) /\ AtMost(v, 6))
    BY <1>0, <1>3, <1>7
  <2>2. SwingVolatility(v) = Score(12 * v[2] - 100 * v[1], 6 * v[2])
    BY <2>1 DEF SwingVolatility
  <2>3. PICK x \in Int, y \in Int : x = 12000 - 100 * n /\ y = 6000 /\ y > 0
    BY <1>0
  <2>4. 12 * v[2] - 100 * v[1] = x /\ 6 * v[2] = y
    BY <1>0, <1>2, <2>3
  <2>5. ~(x <= 0) /\ ~(x >= y)
    BY <1>0, <1>7, <2>3
  <2>6. PICK z \in Int : z = 100 * x
    BY <2>3
  <2>7. PICK a \in Int, b \in Int : a = z \div y /\ b = z % y /\ z = y * a + b
    BY <2>3, <2>6, DivMod
  <2>8. PICK w \in Int : w = 100 * b
    BY <2>7
  <2>9. PICK c \in Int : c = RoundHalfUp(w, y)
                         /\ y * (2 * c - 1) <= 2 * w /\ 2 * w < y * (2 * c + 1)
    <3>1. w \in Int /\ y \in Int /\ y > 0
      BY <2>3, <2>8
    <3> QED
      BY <3>1, RoundingIsClose
  <2>10. PICK s \in Int : s = 100 * a + c
    BY <2>7, <2>9
  <2>11. Score(x, y) = s
    BY <2>5, <2>6, <2>7, <2>8, <2>9, <2>10 DEF Score
  <2>12. 12 * s <= 2000 * (120 - n) + 6 /\ 12 * s >= 2000 * (120 - n) - 6
    <3>1. 100 * (12000 - 100 * n) = 6000 * a + b
      BY <2>3, <2>6, <2>7
    <3>2. 6000 * (2 * c - 1) <= 2 * (100 * b) /\ 2 * (100 * b) < 6000 * (2 * c + 1)
      BY <2>3, <2>8, <2>9
    <3> QED
      BY <1>0, <2>7, <2>9, <2>10, <3>1, <3>2
  <2>13. SwingVolatility(v) = s
    BY <2>2, <2>4, <2>11
  <2> QED
    BY <1>0, <1>1, <1>7, <2>10, <2>12, <2>13 DEF PieceOf, VolatilityAt
<1> QED
  BY <1>0, <1>4, <1>5, <1>6, <1>7

\* The pieces meet.
LEMMA VolatilityIsSmooth ==
  \A n \in 0..130 :
    Distance(SwingVolatility(<<n, 1000>>), SwingVolatility(<<n + 1, 1000>>)) <= 500
<1> TAKE n \in 0..130
<1>1. n \in Tenths /\ n + 1 \in Tenths
  BY DEF Tenths
<1>2. PICK k, l : k = n /\ l = n + 1 /\ k \in Tenths /\ l \in Tenths
  BY <1>1
<1>3. PieceOf(k, VolatilityAt(k)) /\ PieceOf(l, VolatilityAt(l))
  BY <1>2, VolatilityPieces, Zenon
<1>4. PICK s, t : s = VolatilityAt(k) /\ t = VolatilityAt(l)
  OBVIOUS
<1>5. PieceOf(k, s) /\ PieceOf(l, t)
  BY <1>3, <1>4
<1>6. s - t <= 500 /\ t - s <= 500
  <2>1. s \in Int /\ t \in Int
    BY <1>5 DEF PieceOf
  <2>2. k \in Int /\ l = k + 1
    BY <1>2 DEF Tenths
  <2> QED
    BY <1>5, <2>1, <2>2 DEF PieceOf
<1>7. Distance(s, t) <= 500
  BY <1>5, <1>6 DEF Distance, PieceOf
<1> QED
  BY <1>2, <1>4, <1>7 DEF VolatilityAt

\* The rankers score trends of known averages alike.
LEMMA TrendsAgree ==
  \A a, b \in 98..122 : ScoreTrend(Whole(a), Whole(b)) = SwingTrend(Whole(a), Whole(b))
<1> TAKE a, b \in 98..122
<1>1. PICK x, y : x = Whole(a) /\ y = Whole(b)
  OBVIOUS
<1>2. x # Missing /\ y # Missing /\ y[1] > 0 /\ ~(y[1] <= 0)
  BY <1>1 DEF Whole, Missing
<1>3. Missing \notin {x, y}
  BY <1>2
<1>4. ScoreTrend(x, y) = LinearScore(Gain(x, y), 0, 20)
  BY <1>2, <1>3 DEF ScoreTrend
<1>5. SwingTrend(x, y) = LinearScore(Gain(x, y), 0, 20)
  BY <1>2 DEF SwingTrend
<1> QED
  BY <1>1, <1>4, <1>5

\* And the volatility of a known range.
LEMMA VolatilitiesAgree ==
  \A n \in 0..130 : ScoreVolatility(Whole(n), Whole(1000)) = SwingVolatility(<<n, 1000>>)
<1> TAKE n \in 0..130
<1>1. PICK x, y, v : x = Whole(n) /\ y = Whole(1000) /\ v = <<n, 1000>>
  BY ZenonT(60)
<1>2. x # Missing /\ y # Missing /\ ~(y[1] <= 0) /\ ~(x[1] < 0)
  BY <1>1 DEF Whole, Missing
<1>3. Missing \notin {x, y}
  BY <1>2
<1>4. Div(x, y) = v
  BY <1>1 DEF Div, Whole
<1>5. ScoreVolatility(x, y) =
        CASE AtMost(v, 1) \/ AtLeast(v, 12) -> 0
          [] ~AtMost(v, 1) /\ ~AtLeast(v, 3) -> LinearScore(v, 1, 3)
          [] AtLeast(v, 3) /\ AtMost(v, 6)   -> 10000
          [] OTHER -> Score(12 * v[2] - 100 * v[1], 6 * v[2])
  BY <1>2, <1>3, <1>4 DEF ScoreVolatility
<1>6. ScoreVolatility(x, y) = SwingVolatility(v)
  BY <1>5 DEF SwingVolatility
<1> QED
  BY <1>1, <1>6

\* Whatever results the scanner delivers, their ranking is sound.
THEOREM RankingIsRight ==
  ASSUME NEW n, IsBatch(results, n)
  PROVE  RankingIsSound
<1>1. n \in Nat /\ DOMAIN results = 1..n
  BY DEF IsBatch
<1>2. PICK C, s : C = ScoresOf(results) /\ s = Rank(results)
  OBVIOUS
<1>3. Scoring(C) /\ Lists(s, KeyOrder(C), C)
  BY <1>2, BatchesAreScored, RankLists
<1>4. RankIgnoresInputOrder
  <2>1. ASSUME NEW p \in Orders
        PROVE  Rank([i \in DOMAIN results |-> results[p[i]]]) = Rank(results)
    <3>1. p \in [1..n -> 1..n] /\ \A i, j \in 1..n : p[i] = p[j] => i = j
      BY <1>1, <2>1 DEF Orders
    <3>2. Rank([i \in 1..n |-> results[p[i]]]) = Rank(results)
      BY <3>1, RankOfAnyOrder
    <3> QED
      BY <1>1, <3>2
  <2> QED
    BY <2>1 DEF RankIgnoresInputOrder
<1>5. SelectionIsBest
  <2>1. ToSet(s) = C
    BY <1>3 DEF Lists, ToSet
  <2>2. PICK S : S = ToSet(Selected(s))
    OBVIOUS
  <2>3. ASSUME NEW c \in C \ S, c.total >= MinimumCandidateScore
        PROVE  Cardinality(S) = MaximumCandidates /\ \A d \in S : d.total >= c.total
    <3>1. c \in C /\ c \notin ToSet(Selected(s))
      BY <2>2, <2>3
    <3>2. /\ Cardinality(ToSet(Selected(s))) = MaximumCandidates
          /\ \A d \in ToSet(Selected(s)) : d.total >= c.total
      BY <1>3, <2>3, <3>1, SelectionKeepsBest
    <3> QED
      BY <2>2, <3>2
  <2>4. ASSUME NEW i \in DOMAIN results
        PROVE  Symbols(S) \ {results[i].symbol}
                 \subseteq Symbols(ToSet(Selected(Rank(RemoveAt(results, i)))))
    <3>1. PICK us, a : us = RemoveAt(results, i) /\ a = ScoreSwing(results[i])
      OBVIOUS
    <3>2. i \in 1..n
      BY <1>1, <2>4
    <3>3. IsBatch(us, n - 1) /\ ScoresOf(us) = C \ {a}
      BY <1>2, <3>1, <3>2, BatchWithoutOne
    <3>4. Lists(Rank(us), KeyOrder(C \ {a}), C \ {a})
      <4>1. Lists(Rank(us), KeyOrder(ScoresOf(us)), ScoresOf(us))
        BY <3>3, RankLists
      <4> QED
        BY <3>3, <4>1
    <3>5. a \in C
      BY <1>2, <3>1 DEF ScoresOf
    <3>6. PICK u : u = Rank(us)
      OBVIOUS
    <3>7. Lists(u, KeyOrder(C \ {a}), C \ {a})
      BY <3>4, <3>6
    <3>8. S \ {a} \subseteq ToSet(Selected(u))
      BY <1>3, <2>2, <3>5, <3>7, SelectionSurvives
    <3>9. a.symbol = results[i].symbol
      <4>1. PICK r : r = results[i]
        OBVIOUS
      <4>2. IsResult(r)
        BY <3>2, <4>1 DEF IsBatch
      <4>3. ScoreSwing(r).symbol = r.symbol
        BY <4>2, TotalOfResult
      <4> QED
        BY <3>1, <4>1, <4>3
    <3>10. \A d \in S : d.symbol # a.symbol => d \in ToSet(Selected(u))
      BY <3>8
    <3> QED
      BY <3>1, <3>6, <3>9, <3>10 DEF Symbols
  <2> QED
    BY <1>2, <2>1, <2>2, <2>3, <2>4, Zenon DEF SelectionIsBest
<1>6. TotalIsAnAverage
  <2>1. ASSUME NEW i \in DOMAIN results
        PROVE  LET r == results[i]
                   c == ScoreSwing(r)
                   parts == {c.components[k] : k \in DOMAIN c.components}
                   better == [r EXCEPT !.scores = [k \in DOMAIN r.scores |-> r.scores[k] + 7]]
               IN c.total \in Min(parts)..Max(parts) /\ ScoreSwing(better).total >= c.total
    <3>1. PICK r : r = results[i]
      OBVIOUS
    <3>2. i \in 1..n
      BY <1>1, <2>1
    <3>3. IsResult(r)
      BY <3>1, <3>2 DEF IsBatch
    <3>4. LET c == ScoreSwing(r)
              parts == {c.components[k] : k \in DOMAIN c.components}
              better == [r EXCEPT !.scores = [k \in DOMAIN r.scores |-> r.scores[k] + 7]]
          IN c.total \in Min(parts)..Max(parts) /\ ScoreSwing(better).total >= c.total
      BY <3>3, TotalOfResult, Zenon
    <3> QED
      BY <3>1, <3>4, Zenon
  <2> QED
    BY <2>1, Zenon DEF TotalIsAnAverage
<1>7. RankersAgree
  <2>1. \A a, b \in 98..122 : ScoreTrend(Whole(a), Whole(b)) = SwingTrend(Whole(a), Whole(b))
    BY TrendsAgree
  <2>2. \A k \in 0..130 : ScoreVolatility(Whole(k), Whole(1000)) = SwingVolatility(<<k, 1000>>)
    BY VolatilitiesAgree
  <2>3. \A k \in 0..130 :
          Distance(SwingVolatility(<<k, 1000>>), SwingVolatility(<<k + 1, 1000>>)) <= 500
    BY VolatilityIsSmooth
  <2> QED
    BY <2>1, <2>2, <2>3 DEF RankersAgree
<1> QED
  BY <1>4, <1>5, <1>6, <1>7 DEF RankingIsSound

\* The results are delivered one by one, each for a new symbol.
Batch(rs) == IsBatch(rs, Len(rs)) /\ rs \in Seq({rs[i] : i \in DOMAIN rs})
ResultsInv == Batch(results)

\* None at first.
LEMMA ResultsInitially == AlgorithmsInit => ResultsInv
  BY DEF AlgorithmsInit, ResultsInv, Batch, IsBatch

\* A delivered result is complete.
LEMMA DeliveredIsResult ==
  ASSUME NEW symbol \in Int, NEW gain \in {0, 7, 25}, NEW score \in {7995, 9990},
         NEW atr \in {5, 14, 45, 90}
  PROVE  IsResult(Delivered(symbol, gain, score, atr))
         /\ Delivered(symbol, gain, score, atr).symbol = symbol
<1>1. PICK name : name = SetupOrder[1 + (gain % 2)]
  OBVIOUS
<1> DEFINE scores == [k \in {name} |-> score]
<1>3. DOMAIN scores = {name} /\ scores \in [{name} -> Int] /\ <<name>> \in Seq({name})
  OBVIOUS
<1>4. PICK w : w = MinimumValue * (1 + 4 * (symbol \div 2))
  OBVIOUS
<1>5. w \in Int
  <2>1. PICK a \in Int, b \in Int : a = MinimumValue /\ b = 1 + 4 * (symbol \div 2)
    BY ScreeningAssumption
  <2> QED
    BY <1>4, <2>1
<1>6. <<100 + gain, 1>> \in Quotients /\ <<100, 1>> \in Quotients /\ <<w, 1>> \in Quotients /\ <<atr, 1000>> \in Quotients
  BY <1>5 DEF Quotients
<1> HIDE DEF scores
<1>7. IsResult([symbol |-> symbol, passed |-> TRUE, primary |-> name, matched |-> <<name>>,
                scores |-> scores, sma20 |-> <<100 + gain, 1>>, sma60 |-> <<100, 1>>,
                value |-> <<w, 1>>, atr_pct |-> <<atr, 1000>>])
  BY <1>3, <1>6 DEF IsResult
<1>8. Delivered(symbol, gain, score, atr).symbol = symbol
  BY DEF Delivered
<1> QED
  BY <1>1, <1>4, <1>7, <1>8 DEF scores, Delivered

\* A sequence by its members.
LEMMA SequencesAreFunctions ==
  ASSUME NEW T, NEW us \in Seq(T)
  PROVE  DOMAIN us = 1..Len(us) /\ us = [i \in 1..Len(us) |-> us[i]] /\ Len(us) \in Nat
OBVIOUS

FitsIn(r, rs) == IsResult(r) /\ \A i \in DOMAIN rs : rs[i].symbol # r.symbol

\* A complete result of a new symbol extends a batch.
LEMMA BatchGrows ==
  ASSUME NEW rs, Batch(rs), NEW r, FitsIn(r, rs)
  PROVE  Batch(Append(rs, r))
<1>0. IsBatch(rs, Len(rs)) /\ rs \in Seq({rs[i] : i \in DOMAIN rs})
  BY DEF Batch
<1>1. PICK n \in Nat : n = Len(rs) /\ DOMAIN rs = 1..n
  BY <1>0 DEF IsBatch
<1>2. PICK us : us = Append(rs, r)
  OBVIOUS
<1>3. PICK T : T = {rs[i] : i \in DOMAIN rs} \cup {r}
  OBVIOUS
<1>4. rs \in Seq(T) /\ r \in T
  BY <1>0, <1>1, <1>3
<1>5. us \in Seq(T) /\ Len(us) = n + 1 /\ us[n + 1] = r /\ \A i \in 1..n : us[i] = rs[i]
  BY <1>1, <1>2, <1>4
<1>6. PICK m \in Nat : m = n + 1
  BY <1>1
<1>7. DOMAIN us = 1..m /\ us = [i \in 1..m |-> us[i]]
  <2>1. us \in Seq(T) /\ Len(us) = m
    BY <1>5, <1>6
  <2> QED
    BY <2>1, SequencesAreFunctions
<1>8. \A i \in 1..m : i \in 1..n \/ i = m
  BY <1>1, <1>6
<1>9. \A i \in 1..m : IsResult(us[i])
  <2>1. \A i \in 1..n : IsResult(us[i])
    BY <1>0, <1>1, <1>5 DEF IsBatch
  <2>2. IsResult(us[m])
    BY <1>5, <1>6 DEF FitsIn
  <2> QED
    BY <1>8, <2>1, <2>2
<1>10. \A i, j \in 1..m : us[i].symbol = us[j].symbol => i = j
  <2>1. \A i, j \in 1..n : us[i].symbol = us[j].symbol => i = j
    BY <1>0, <1>1, <1>5 DEF IsBatch
  <2>2. \A i \in 1..n : us[i].symbol # us[m].symbol
    BY <1>1, <1>5, <1>6 DEF FitsIn
  <2> QED
    BY <1>8, <2>1, <2>2
<1>11. IsBatch(us, m)
  BY <1>6, <1>7, <1>9, <1>10 DEF IsBatch
<1>12. us \in Seq({us[i] : i \in DOMAIN us})
  BY <1>5
<1> QED
  BY <1>2, <1>5, <1>6, <1>11, <1>12 DEF Batch

\* Every step keeps them so.
LEMMA ResultsInductive == ResultsInv /\ [AlgorithmsNext]_algorithmVars => ResultsInv'
<1> SUFFICES ASSUME ResultsInv, [AlgorithmsNext]_algorithmVars PROVE ResultsInv'
  OBVIOUS
<1>1. CASE results' = results
  BY <1>1 DEF ResultsInv, Batch, IsBatch
<1>2. CASE AddResult
  <2>1. PICK r : FitsIn(r, results) /\ results' = Append(results, r)
    <3>1. PICK symbol \in 1..MaxResults, gain \in {0, 7, 25}, score \in {7995, 9990},
               atr \in {5, 14, 45, 90} :
                 /\ \A i \in DOMAIN results : results[i].symbol # symbol
                 /\ results' = Append(results, Delivered(symbol, gain, score, atr))
      BY <1>2 DEF AddResult
    <3>2. PICK r : r = Delivered(symbol, gain, score, atr)
      OBVIOUS
    <3>3. IsResult(r) /\ r.symbol = symbol
      <4>1. symbol \in Int
        OBVIOUS
      <4> QED
        BY <3>2, <4>1, DeliveredIsResult, SMTT(60)
    <3> QED
      BY <3>1, <3>2, <3>3 DEF FitsIn
  <2>2. PICK rs, us : rs = results /\ us = results'
    OBVIOUS
  <2>3. Batch(rs) /\ FitsIn(r, rs) /\ us = Append(rs, r)
    BY <2>1, <2>2 DEF ResultsInv
  <2>4. Batch(us)
    BY <2>3, BatchGrows, Zenon
  <2> QED
    BY <2>2, <2>4 DEF ResultsInv, Batch, IsBatch
<1> QED
  BY <1>1, <1>2 DEF AlgorithmsNext, algorithmVars, AddTrade, AddDay, AddMinute

\* The order, the cut and the totals of the watchlist are sound for a batch of
\* any size from the results that AddResult can deliver (ranking/ranker.py and
\* the selection of the pipeline).
THEOREM RankingAlwaysSound == AlgorithmsSpec => []RankingIsSound
<1>1. AlgorithmsInit => ResultsInv
  BY ResultsInitially
<1>2. ResultsInv /\ [AlgorithmsNext]_algorithmVars => ResultsInv'
  BY ResultsInductive
<1>3. ResultsInv => RankingIsSound
  BY RankingIsRight DEF ResultsInv, Batch
<1> QED
  BY <1>1, <1>2, <1>3, PTL DEF AlgorithmsSpec

(***************************************************************************)
(* Windows: the last n bars, and the n bars before the last.               *)
(***************************************************************************)

\* s is a sequence of length n.
Row(s, n) == n \in Nat /\ s = [i \in 1..n |-> s[i]]

\* The length of a row, and what it is a sequence of.
LEMMA RowLength ==
  ASSUME NEW s, NEW n, Row(s, n)
  PROVE  n \in Nat /\ DOMAIN s = 1..n /\ Len(s) = n /\ s \in Seq({s[i] : i \in 1..n})
<1>1. n \in Nat /\ DOMAIN s = 1..n /\ s = [i \in 1..n |-> s[i]]
  BY DEF Row
<1>2. Len(s) = n
  BY <1>1
<1>3. s \in [1..n -> {s[i] : i \in 1..n}]
  BY <1>1
<1>4. s \in Seq({s[i] : i \in 1..n})
  BY <1>1, <1>3
<1> QED
  BY <1>1, <1>2, <1>4

\* A part of a row, by its places.
LEMMA PartOfRow ==
  ASSUME NEW s, NEW n, Row(s, n), NEW a \in 1..(n + 1), NEW b \in 0..n, a <= b + 1
  PROVE  SubSeq(s, a, b) = [i \in 1..(b - a + 1) |-> s[a + i - 1]]
<1> DEFINE S == {s[i] : i \in 1..n}
<1>1. n \in Nat /\ a \in Int /\ b \in Int
  <2>1. n \in Nat
    BY RowLength
  <2> QED
    BY <2>1
<1>2. \A i \in a..b : s[i] \in S
  <2>1. \A i \in a..b : i \in 1..n
    BY <1>1
  <2> QED
    BY <2>1
<1> HIDE DEF S
<1>3. PICK t : t = SubSeq(s, a, b)
  OBVIOUS
<1>4. /\ t \in Seq(S)
      /\ Len(t) = IF a <= b THEN b - a + 1 ELSE 0
      /\ \A i \in 1..(b - a + 1) : t[i] = s[a + i - 1]
  BY <1>1, <1>2, <1>3, SubSeqProperties
<1>5. PICK m \in Nat : m = b - a + 1
  BY <1>1
<1>6. Len(t) = m /\ \A i \in 1..m : t[i] = s[a + i - 1]
  BY <1>1, <1>4, <1>5
<1>7. t = [i \in 1..m |-> t[i]]
  BY <1>4, <1>6, SequencesAreFunctions
<1>8. t = [i \in 1..m |-> s[a + i - 1]]
  BY <1>6, <1>7
<1> QED
  BY <1>3, <1>5, <1>8

\* The last n of l members.
LEMMA SuffixIs ==
  ASSUME NEW s, NEW l, Row(s, l), NEW n \in 0..l
  PROVE  Suffix(s, n) = [i \in 1..n |-> s[l - n + i]] /\ Row(Suffix(s, n), n)
<1>1. l \in Nat /\ Len(s) = l
  BY RowLength
<1>2. PICK a \in 1..(l + 1) : a = l - n + 1
  BY <1>1
<1>3. Max({1, l - n + 1}) = a
  BY <1>1, <1>2, MaxOfTwo
<1>4. Suffix(s, n) = SubSeq(s, a, l)
  BY <1>1, <1>3 DEF Suffix
<1>5. SubSeq(s, a, l) = [i \in 1..(l - a + 1) |-> s[a + i - 1]]
  <2>1. l \in 0..l /\ a <= l + 1
    BY <1>1
  <2> QED
    BY <2>1, PartOfRow
<1>6. l - a + 1 = n /\ n \in Nat
  BY <1>1, <1>2
<1>7. SubSeq(s, a, l) = [i \in 1..n |-> s[l - n + i]]
  <2>1. \A i \in 1..n : a + i - 1 = l - n + i
    BY <1>1, <1>2
  <2> QED
    BY <1>5, <1>6, <2>1
<1> QED
  BY <1>4, <1>6, <1>7 DEF Row

\* The n members before the last.
LEMMA PriorBarsIs ==
  ASSUME NEW s, NEW l, Row(s, l), NEW n \in Nat, n + 1 <= l
  PROVE  PriorBars(s, n) = [i \in 1..n |-> s[l - 1 - n + i]] /\ Row(PriorBars(s, n), n)
<1>1. l \in Nat /\ Len(s) = l /\ l - 1 \in Nat
  <2>1. l \in Nat /\ Len(s) = l
    BY RowLength
  <2> QED
    BY <2>1
<1>2. PICK k \in Nat : k = l - 1
  BY <1>1
<1>3. Front(s) = [i \in 1..k |-> s[i]]
  <2>1. 1 \in 1..(l + 1) /\ k \in 0..l /\ 1 <= k + 1
    BY <1>1, <1>2
  <2>2. SubSeq(s, 1, k) = [i \in 1..(k - 1 + 1) |-> s[1 + i - 1]]
    BY <2>1, PartOfRow
  <2>3. k - 1 + 1 = k /\ \A i \in 1..k : 1 + i - 1 = i
    OBVIOUS
  <2>4. SubSeq(s, 1, k) = [i \in 1..k |-> s[i]]
    BY <2>2, <2>3
  <2> QED
    BY <1>1, <1>2, <2>4 DEF Front
<1>4. PICK f : f = Front(s)
  OBVIOUS
<1>5. Row(f, k) /\ \A i \in 1..k : f[i] = s[i]
  BY <1>3, <1>4 DEF Row
<1>6. n \in 0..k
  BY <1>1, <1>2
<1>7. Suffix(f, n) = [i \in 1..n |-> f[k - n + i]] /\ Row(Suffix(f, n), n)
  BY <1>5, <1>6, SuffixIs
<1>8. \A i \in 1..n : f[k - n + i] = s[l - 1 - n + i]
  <2>1. \A i \in 1..n : k - n + i \in 1..k /\ k - n + i = l - 1 - n + i
    BY <1>1, <1>2, <1>6
  <2> QED
    BY <1>5, <2>1
<1>9. Suffix(f, n) = [i \in 1..n |-> s[l - 1 - n + i]]
  BY <1>7, <1>8
<1> QED
  BY <1>4, <1>7, <1>9 DEF PriorBars

\* A window of a window is a window of the whole.
LEMMA SuffixOfSuffix ==
  ASSUME NEW s, NEW l, Row(s, l), NEW m \in 0..l, NEW n \in 0..m
  PROVE  Suffix(Suffix(s, m), n) = Suffix(s, n)
<1>1. PICK t : t = Suffix(s, m)
  OBVIOUS
<1>2. l \in Nat /\ n \in 0..l
  <2>1. l \in Nat
    BY RowLength
  <2> QED
    BY <2>1
<1>3. t = [i \in 1..m |-> s[l - m + i]] /\ Row(t, m)
  BY <1>1, SuffixIs
<1>4. Suffix(t, n) = [i \in 1..n |-> t[m - n + i]]
  <2>1. Row(t, m) /\ n \in 0..m
    BY <1>3
  <2> QED
    BY <2>1, SuffixIs
<1>5. \A i \in 1..n : m - n + i \in 1..m /\ l - m + (m - n + i) = l - n + i
  BY <1>2
<1>6. \A i \in 1..n : t[m - n + i] = s[l - n + i]
  BY <1>3, <1>5
<1>7. Suffix(s, n) = [i \in 1..n |-> s[l - n + i]]
  BY <1>2, SuffixIs
<1> QED
  BY <1>1, <1>4, <1>6, <1>7

\* So are the bars before its last one.
LEMMA PriorOfSuffix ==
  ASSUME NEW s, NEW l, Row(s, l), NEW m \in 0..l, NEW n \in Nat, n + 1 <= m
  PROVE  PriorBars(Suffix(s, m), n) = PriorBars(s, n)
<1>1. PICK t : t = Suffix(s, m)
  OBVIOUS
<1>2. l \in Nat /\ n + 1 <= l /\ m \in Nat
  <2>1. l \in Nat
    BY RowLength
  <2> QED
    BY <2>1
<1>3. t = [i \in 1..m |-> s[l - m + i]] /\ Row(t, m)
  BY <1>1, SuffixIs
<1>4. PriorBars(t, n) = [i \in 1..n |-> t[m - 1 - n + i]]
  <2>1. Row(t, m) /\ n \in Nat /\ n + 1 <= m
    BY <1>3
  <2> QED
    BY <2>1, PriorBarsIs
<1>5. \A i \in 1..n : m - 1 - n + i \in 1..m /\ l - m + (m - 1 - n + i) = l - 1 - n + i
  BY <1>2
<1>6. \A i \in 1..n : t[m - 1 - n + i] = s[l - 1 - n + i]
  BY <1>3, <1>5
<1>7. PriorBars(s, n) = [i \in 1..n |-> s[l - 1 - n + i]]
  BY <1>2, PriorBarsIs
<1> QED
  BY <1>1, <1>4, <1>6, <1>7

\* And its last bars.
LEMMA LastOfSuffix ==
  ASSUME NEW s, NEW l, Row(s, l), NEW m \in 1..l
  PROVE  /\ Len(Suffix(s, m)) = m /\ Last(Suffix(s, m)) = Last(s)
         /\ \A k \in 0..(m - 1) : Suffix(s, m)[m - k] = s[l - k]
<1>1. PICK t : t = Suffix(s, m)
  OBVIOUS
<1>2. l \in Nat /\ Len(s) = l /\ m \in 0..l /\ m \in Nat
  <2>1. l \in Nat /\ Len(s) = l
    BY RowLength
  <2> QED
    BY <2>1
<1>3. t = [i \in 1..m |-> s[l - m + i]] /\ Row(t, m)
  BY <1>1, <1>2, SuffixIs
<1>4. Len(t) = m
  BY <1>3, RowLength
<1>5. ASSUME NEW k \in 0..(m - 1) PROVE t[m - k] = s[l - k]
  <2>1. m - k \in 1..m /\ l - m + (m - k) = l - k
    BY <1>2
  <2> QED
    BY <1>3, <2>1
<1>6. t[m] = s[l]
  <2>1. m \in 1..m /\ l - m + m = l
    BY <1>2
  <2> QED
    BY <1>3, <2>1
<1> QED
  BY <1>1, <1>2, <1>4, <1>5, <1>6 DEF Last

(***************************************************************************)
(* The configuration: every lookback that __post_init__ accepts fits.      *)
(***************************************************************************)

\* No member of a set of six exceeds its largest.
LEMMA LargestOfSix ==
  ASSUME NEW a \in Int, NEW b \in Int, NEW c \in Int, NEW d \in Int, NEW e \in Int, NEW f \in Int
  PROVE  LET x == Max({a, b, c, d, e, f})
         IN x \in Int /\ x >= a /\ x >= b /\ x >= c /\ x >= d /\ x >= e /\ x >= f
<1>1. PICK S : S = {a, b, c, d, e, f}
  OBVIOUS
<1>2. IsFiniteSet({a}) /\ IsFiniteSet({b}) /\ IsFiniteSet({c}) /\ IsFiniteSet({d})
      /\ IsFiniteSet({e}) /\ IsFiniteSet({f})
  BY FS_Singleton
<1>3. IsFiniteSet({a} \cup {b}) /\ IsFiniteSet({c} \cup {d}) /\ IsFiniteSet({e} \cup {f})
  BY <1>2, FS_Union
<1>4. IsFiniteSet(({a} \cup {b}) \cup ({c} \cup {d}))
  BY <1>3, FS_Union
<1>5. IsFiniteSet((({a} \cup {b}) \cup ({c} \cup {d})) \cup ({e} \cup {f}))
  BY <1>3, <1>4, FS_Union
<1>6. S = (({a} \cup {b}) \cup ({c} \cup {d})) \cup ({e} \cup {f})
  BY <1>1
<1>7. IsFiniteSet(S) /\ S \subseteq Int /\ S # {}
  BY <1>1, <1>5, <1>6
<1>8. Max(S) \in S /\ \A y \in S : Max(S) >= y
  BY <1>7, MaxOf
<1> QED
  BY <1>1, <1>7, <1>8

\* What an accepted configuration says of each lookback.
LEMMA AcceptedLookbacks ==
  ASSUME NEW m \in Int, NEW box \in Int, NEW pull \in Int, NEW pullVolume \in Int,
         NEW range \in Int, NEW short \in Int, NEW long \in Int, NEW history \in Int,
         ConfigAccepts(m, box, pull, pullVolume, range, short, long, history)
  PROVE  /\ box > 0 /\ pull > 0 /\ pullVolume > 0 /\ range > 0 /\ short > 0 /\ long > 0
         /\ pullVolume <= pull /\ short <= long
         /\ m <= history /\ box + 1 <= history /\ pull + 1 <= history
         /\ range + 1 <= history /\ long + 2 <= history
<1>1. PICK x : x = Max({m, box + 1, pull + 1, pullVolume + 1, range + 1, long + 2})
  OBVIOUS
<1>2. x \in Int /\ x >= m /\ x >= box + 1 /\ x >= pull + 1 /\ x >= range + 1 /\ x >= long + 2
  <2>1. PICK b \in Int, c \in Int, d \in Int, e \in Int, f \in Int :
          b = box + 1 /\ c = pull + 1 /\ d = pullVolume + 1 /\ e = range + 1 /\ f = long + 2
    OBVIOUS
  <2>2. x = Max({m, b, c, d, e, f})
    BY <1>1, <2>1
  <2>3. m \in Int /\ b \in Int /\ c \in Int /\ d \in Int /\ e \in Int /\ f \in Int
    BY <2>1
  <2>4. x \in Int /\ x >= m /\ x >= b /\ x >= c /\ x >= d /\ x >= e /\ x >= f
    BY <2>2, <2>3, LargestOfSix
  <2> QED
    BY <2>1, <2>4
<1>3. history >= x /\ pullVolume <= pull /\ short <= long
  BY <1>1 DEF ConfigAccepts
<1>4. box > 0 /\ pull > 0 /\ pullVolume > 0 /\ range > 0 /\ short > 0 /\ long > 0
  BY DEF ConfigAccepts
<1> QED
  BY <1>2, <1>3, <1>4

\* Every window is full.
WindowsFit(m, box, pull, pullVolume, range, short, long, history) ==
  LET read == [i \in 1..history |-> i]
      prior == PriorBars(read, long)
  IN /\ Len(Suffix(read, m)) = m
     /\ Len(PriorBars(read, box)) = box
     /\ Len(Suffix(PriorBars(read, pull), pullVolume)) = pullVolume
     /\ Len(PriorBars(read, long + 1)) = long + 1
     /\ Len(Suffix(prior, short)) = short
     /\ Len(Suffix(prior, range)) = range \/ range > long

\* Every window that an accepted configuration reads is full.
LEMMA AcceptedWindows ==
  ASSUME NEW m \in Nat, NEW box \in Int, NEW pull \in Int, NEW pullVolume \in Int,
         NEW range \in Int, NEW short \in Int, NEW long \in Int, NEW history \in Int,
         ConfigAccepts(m, box, pull, pullVolume, range, short, long, history)
  PROVE  WindowsFit(m, box, pull, pullVolume, range, short, long, history)
<1>1. /\ box > 0 /\ pull > 0 /\ pullVolume > 0 /\ range > 0 /\ short > 0 /\ long > 0
      /\ pullVolume <= pull /\ short <= long
      /\ m <= history /\ box + 1 <= history /\ pull + 1 <= history
      /\ range + 1 <= history /\ long + 2 <= history
  <2>1. m \in Int
    OBVIOUS
  <2> QED
    BY <2>1, AcceptedLookbacks
<1>2. PICK read : read = [i \in 1..history |-> i]
  OBVIOUS
<1>3. history \in Nat /\ Row(read, history)
  BY <1>1, <1>2 DEF Row
<1>4. Len(Suffix(read, m)) = m
  <2>1. m \in 0..history
    BY <1>1
  <2>2. Row(Suffix(read, m), m)
    BY <1>3, <2>1, SuffixIs
  <2> QED
    BY <2>2, RowLength
<1>5. ASSUME NEW n \in Nat, n + 1 <= history
      PROVE  Row(PriorBars(read, n), n) /\ Len(PriorBars(read, n)) = n
  <2>1. Row(PriorBars(read, n), n)
    BY <1>3, <1>5, PriorBarsIs
  <2> QED
    BY <2>1, RowLength
<1>6. ASSUME NEW t, NEW l \in Nat, Row(t, l), NEW n \in Nat, n <= l
      PROVE  Len(Suffix(t, n)) = n
  <2>1. n \in 0..l
    BY <1>6
  <2>2. Row(Suffix(t, n), n)
    BY <1>6, <2>1, SuffixIs
  <2> QED
    BY <2>2, RowLength
<1>7. Len(PriorBars(read, box)) = box
  <2>1. box \in Nat /\ box + 1 <= history
    BY <1>1
  <2> QED
    BY <1>5, <2>1
<1>8. Row(PriorBars(read, pull), pull) /\ pull \in Nat
  <2>1. pull \in Nat /\ pull + 1 <= history
    BY <1>1
  <2> QED
    BY <1>5, <2>1
<1>9. Len(Suffix(PriorBars(read, pull), pullVolume)) = pullVolume
  <2>1. pullVolume \in Nat /\ pullVolume <= pull
    BY <1>1
  <2> QED
    BY <1>6, <1>8, <2>1
<1>10. Len(PriorBars(read, long + 1)) = long + 1
  <2>1. long + 1 \in Nat /\ long + 1 + 1 <= history
    BY <1>1
  <2> QED
    BY <1>5, <2>1
<1>11. Row(PriorBars(read, long), long) /\ long \in Nat
  <2>1. long \in Nat /\ long + 1 <= history
    BY <1>1
  <2> QED
    BY <1>5, <2>1
<1>12. Len(Suffix(PriorBars(read, long), short)) = short
  <2>1. short \in Nat /\ short <= long
    BY <1>1
  <2> QED
    BY <1>6, <1>11, <2>1
<1>13. Len(Suffix(PriorBars(read, long), range)) = range \/ range > long
  <2>1. CASE range <= long
    <3>1. range \in Nat /\ range <= long
      BY <1>1, <2>1
    <3> QED
      BY <1>6, <1>11, <3>1
  <2>2. CASE ~(range <= long)
    BY <1>11, <2>2
  <2> QED
    BY <2>1, <2>2
<1> QED
  BY <1>2, <1>4, <1>7, <1>9, <1>10, <1>12, <1>13, Zenon DEF WindowsFit

\* The lookbacks of a configuration are integers.
LookbacksInv == algorithm = "config" => lookbacks \in [1..6 -> Int]

\* So an accepted configuration is safe.
LEMMA ConfigsAreSafe ==
  ASSUME LookbacksInv
  PROVE  AcceptedConfigIsSafe
<1> SUFFICES ASSUME algorithm = "config" PROVE AcceptedConfigIsSafe
  BY DEF AcceptedConfigIsSafe
<1>1. lookbacks \in [1..6 -> Int]
  BY DEF LookbacksInv
<1>2. PICK box, pull, pullVolume, range, short, long :
        /\ box = lookbacks[1] /\ pull = lookbacks[2] /\ pullVolume = lookbacks[3]
        /\ range = lookbacks[4] /\ short = lookbacks[5] /\ long = lookbacks[6]
  OBVIOUS
<1>3. box \in Int /\ pull \in Int /\ pullVolume \in Int /\ range \in Int /\ short \in Int /\ long \in Int
  BY <1>1, <1>2
<1>4. ASSUME NEW m \in 1..3, NEW history \in 1..6,
             ConfigAccepts(m, box, pull, pullVolume, range, short, long, history)
      PROVE  WindowsFit(m, box, pull, pullVolume, range, short, long, history)
  <2>1. m \in Nat /\ history \in Int
    OBVIOUS
  <2> QED
    BY <1>3, <1>4, <2>1, AcceptedWindows, Zenon
<1> QED
  BY <1>2, <1>4, Zenon DEF AcceptedConfigIsSafe, WindowsFit

(***************************************************************************)
(* The averages.                                                           *)
(***************************************************************************)

\* Rows with the same last members have the same simple average of them.
LEMMA MeansAgree ==
  ASSUME NEW v, NEW l, Row(v, l), NEW w, NEW m, Row(w, m), NEW p \in Nat, p <= l, p <= m,
         \A k \in 0..(p - 1) : w[m - k] = v[l - k]
  PROVE  SimpleMovingAverage(v, p) = SimpleMovingAverage(w, p)
<1>1. l \in Nat /\ Len(v) = l /\ m \in Nat /\ Len(w) = m
  BY RowLength
<1>2. p \in 0..l /\ p \in 0..m
  BY <1>1
<1>3. Suffix(v, p) = [i \in 1..p |-> v[l - p + i]]
  BY <1>2, SuffixIs
<1>4. Suffix(w, p) = [i \in 1..p |-> w[m - p + i]]
  BY <1>2, SuffixIs
<1>5. ASSUME NEW i \in 1..p PROVE w[m - p + i] = v[l - p + i]
  <2>1. p - i \in 0..(p - 1) /\ m - (p - i) = m - p + i /\ l - (p - i) = l - p + i
    BY <1>1
  <2> QED
    BY <2>1
<1>6. Suffix(v, p) = Suffix(w, p)
  BY <1>3, <1>4, <1>5
<1>7. ~(Len(v) < p) /\ ~(Len(w) < p)
  BY <1>1
<1> QED
  BY <1>6, <1>7, Zenon DEF SimpleMovingAverage

\* One turn of the exponential average.
NextEma(ema, v, period) == <<2 * v * ema[2] + (period - 1) * ema[1], (period + 1) * ema[2]>>

\* acc holds the exponential average after each close from the period on.
EmaTurns(acc, values, period, n) ==
  /\ acc[0] = <<SumOf(SubSeq(values, 1, period)), period>>
  /\ \A k \in 1..n : acc[k] = NextEma(acc[k - 1], values[period + k], period)

\* The set V holds the first average, and no turn leaves it.
EmaClosed(values, l, period, V) ==
  /\ <<SumOf(SubSeq(values, 1, period)), period>> \in V
  /\ \A e \in V, k \in 1..l : NextEma(e, values[k], period) \in V

\* acc runs through V to the exponential average.
EmaRun(acc, values, period, n, V) ==
  /\ acc \in [0..n -> V] /\ EmaTurns(acc, values, period, n)
  /\ ExponentialMovingAverage(values, period) = acc[n]

\* The fold is the loop, and never leaves a set that no turn leaves.
LEMMA EmaLoops ==
  ASSUME NEW values, NEW l, Row(values, l), NEW period \in 1..l, NEW V,
         EmaClosed(values, l, period, V)
  PROVE  \E acc : EmaRun(acc, values, period, l - period, V)
<1> DEFINE base == <<SumOf(SubSeq(values, 1, period)), period>>
           s == SubSeq(values, period + 1, Len(values))
           IsFold(i) == i = [x \in SUBSET DOMAIN s |->
                               IF x = {} THEN base
                               ELSE NextEma(i[x \ {Max(x)}], s[Max(x)], period)]
           it == CHOOSE i : IsFold(i)
<1>1. l \in Nat /\ Len(values) = l
  BY RowLength
<1>2. PICK n \in Nat : n = l - period
  BY <1>1
<1>3. s = [i \in 1..n |-> values[period + i]]
  <2>1. period + 1 \in 1..(l + 1) /\ l \in 0..l /\ period + 1 <= l + 1
    BY <1>1
  <2>2. SubSeq(values, period + 1, l) = [i \in 1..(l - (period + 1) + 1) |-> values[period + 1 + i - 1]]
    BY <2>1, PartOfRow
  <2>3. l - (period + 1) + 1 = n /\ \A i \in 1..n : period + 1 + i - 1 = period + i
    BY <1>1, <1>2
  <2>4. SubSeq(values, period + 1, l) = [i \in 1..n |-> values[period + i]]
    BY <2>2, <2>3
  <2> QED
    BY <1>1, <2>4
<1>4. DOMAIN s = 1..n
  BY <1>3
<1>5. ASSUME NEW e \in V, NEW k \in 1..n PROVE NextEma(e, s[k], period) \in V
  <2>1. period + k \in 1..l
    BY <1>1, <1>2
  <2>2. s[k] = values[period + k]
    BY <1>3
  <2> HIDE DEF s
  <2> QED
    BY <2>1, <2>2 DEF EmaClosed
<1>6. ExponentialMovingAverage(values, period) = it[DOMAIN s]
  <2>1. ~(Len(values) < period)
    BY <1>1
  <2> QED
    BY <2>1, Zenon DEF ExponentialMovingAverage, FoldLeft, MapThenFoldSet, NextEma
<1>7. base \in V
  BY DEF EmaClosed
<1> HIDE DEF base, s
<1> DEFINE step == [p \in V \X (1..n) |-> NextEma(p[1], s[p[2]], period)]
<1>8. step \in [V \X (1..n) -> V]
  BY <1>5
<1>9. \A v \in V, k \in 1..n : step[<<v, k>>] = NextEma(v, s[k], period)
  OBVIOUS
<1> HIDE DEF step
<1>10. PICK j : LeftFoldValues(j, base, step, V, n)
  <2>1. Steps(step, base, V, 1..n)
    BY <1>7, <1>8 DEF Steps
  <2> QED
    BY <2>1, FoldLeftExists
<1>11. IsFold(j)
  <2>1. ASSUME NEW x \in SUBSET (1..n), x # {}
        PROVE  j[x] = NextEma(j[x \ {Max(x)}], s[Max(x)], period)
    <3>0. x \in SUBSET (1..n) /\ x # {}
      BY <2>1
    <3>1. IsFiniteSet(x) /\ x \subseteq Int
      <4>1. IsFiniteSet(1..n)
        BY FS_Interval
      <4>2. IsFiniteSet(x)
        BY <3>0, <4>1, FS_Subset
      <4>3. x \subseteq Int
        BY <3>0
      <4> QED
        BY <4>2, <4>3
    <3>2. Max(x) \in x
      BY <2>1, <3>1, MaxOf
    <3>3. j[x] = step[<<j[x \ {Max(x)}], Max(x)>>]
      BY <1>10, <2>1 DEF LeftFoldValues
    <3>4. Max(x) \in 1..n /\ j[x \ {Max(x)}] \in V
      BY <1>10, <3>0, <3>2 DEF LeftFoldValues
    <3> QED
      BY <1>9, <3>3, <3>4
  <2>2. \A x \in SUBSET (1..n) :
          j[x] = IF x = {} THEN base ELSE NextEma(j[x \ {Max(x)}], s[Max(x)], period)
    BY <1>10, <2>1 DEF LeftFoldValues
  <2>3. j = [x \in SUBSET (1..n) |-> j[x]]
    BY <1>10 DEF LeftFoldValues
  <2> QED
    BY <1>4, <2>2, <2>3
<1>12. IsFold(it)
  BY <1>11
<1>13. \A x \in SUBSET (1..n) :
         it[x] = IF x = {} THEN base ELSE NextEma(it[x \ {Max(x)}], s[Max(x)], period)
  <2> HIDE DEF it
  <2> QED
    BY <1>4, <1>12
<1> HIDE DEF it
<1> DEFINE acc == [k \in 0..n |-> it[1..k]]
<1>14. acc[0] = base
  <2>1. 1..0 = {} /\ 0 \in 0..n
    OBVIOUS
  <2>2. it[1..0] = base
    BY <1>13, <2>1
  <2> QED
    BY <2>1, <2>2
<1>15. ASSUME NEW k \in 1..n PROVE acc[k] = NextEma(acc[k - 1], s[k], period)
  <2>1. 1..k # {} /\ Max(1..k) = k /\ (1..k) \ {k} = 1..(k - 1)
    <3>1. k \in Nat /\ k # 0
      BY <1>15
    <3> QED
      BY <3>1, FirstPlaces
  <2>2. 1..k \in SUBSET (1..n) /\ k \in 0..n /\ k - 1 \in 0..n
    OBVIOUS
  <2>3. it[1..k] = NextEma(it[1..(k - 1)], s[k], period)
    BY <1>13, <2>1, <2>2
  <2> QED
    BY <2>2, <2>3
<1>16. acc[n] = it[1..n] /\ acc = [k \in 0..n |-> acc[k]]
  OBVIOUS
<1> HIDE DEF acc
<1>17. \A k \in 0..n : acc[k] \in V
  <2> DEFINE G == {k \in 0..n : acc[k] \in V}
  <2>1. 0 \in G
    BY <1>7, <1>14
  <2>2. ASSUME NEW k \in 1..n, k - 1 \in G PROVE k \in G
    <3>1. acc[k - 1] \in V /\ k \in 0..n
      BY <2>2
    <3> QED
      BY <1>5, <1>15, <3>1
  <2> HIDE DEF G
  <2>3. \A k \in 0..n : k \in G
    BY <2>1, <2>2, UpToInduction
  <2> QED
    BY <2>3 DEF G
<1>18. acc \in [0..n -> V]
  BY <1>16, <1>17
<1>19. EmaTurns(acc, values, period, n)
  BY <1>3, <1>14, <1>15 DEF EmaTurns, base
<1>20. ExponentialMovingAverage(values, period) = acc[n]
  BY <1>4, <1>6, <1>16
<1>21. EmaRun(acc, values, period, n, V)
  BY <1>18, <1>19, <1>20 DEF EmaRun
<1> QED
  BY <1>2, <1>21

\* What the first average is in, and no turn leaves, the last is in.
LEMMA EmaStays ==
  ASSUME NEW values, NEW l, Row(values, l), NEW period \in 1..l, NEW V,
         EmaClosed(values, l, period, V)
  PROVE  ExponentialMovingAverage(values, period) \in V
<1>1. l \in Nat
  BY RowLength
<1>2. PICK acc : EmaRun(acc, values, period, l - period, V)
  BY EmaLoops
<1>3. l - period \in 0..(l - period)
  BY <1>1
<1> QED
  BY <1>2, <1>3 DEF EmaRun

\* The quotients between two integers.
Between(lo, hi) == {q \in Int \X Int : q[2] > 0 /\ lo * q[2] <= q[1] /\ q[1] <= hi * q[2]}

\* A sum lies between as many smallest and largest values.
LEMMA SumBetween ==
  ASSUME NEW v, NEW n, Row(v, n), NEW lo \in Int, NEW hi \in Int,
         \A k \in 1..n : v[k] \in Int /\ lo <= v[k] /\ v[k] <= hi
  PROVE  SumOf(v) \in Int /\ lo * n <= SumOf(v) /\ SumOf(v) <= hi * n
<1>1. n \in Nat /\ DOMAIN v = 1..n
  BY RowLength
<1>2. PICK S : S = 1..n
  OBVIOUS
<1>3. IsFiniteSet(S) /\ Cardinality(S) = n
  BY <1>1, <1>2, FS_Interval
<1>4. v \in [S -> Int] /\ \A x \in S : lo <= v[x] /\ v[x] <= hi
  BY <1>2 DEF Row
<1>5. SumOf(v) = Total(v, S)
  <2>1. DOMAIN v = S
    BY <1>1, <1>2
  <2> QED
    BY <2>1, Zenon DEF SumOf, Total
<1>6. lo * Cardinality(S) <= Total(v, S) /\ Total(v, S) <= hi * Cardinality(S)
  BY <1>3, <1>4, TotalBetween
<1>7. Total(v, S) \in Int
  BY <1>3, <1>4, TotalInt
<1> QED
  BY <1>3, <1>5, <1>6, <1>7

\* So does the simple average of the last ones.
LEMMA MeanBetween ==
  ASSUME NEW v, NEW l, Row(v, l), NEW p \in 1..l, NEW lo \in Int, NEW hi \in Int,
         \A k \in 1..l : v[k] \in Int /\ lo <= v[k] /\ v[k] <= hi
  PROVE  SimpleMovingAverage(v, p) \in Between(lo, hi)
<1>1. l \in Nat /\ Len(v) = l
  BY RowLength
<1>2. p \in 0..l /\ p \in Int /\ p > 0
  BY <1>1
<1>3. PICK w : w = Suffix(v, p)
  OBVIOUS
<1>4. w = [i \in 1..p |-> v[l - p + i]] /\ Row(w, p)
  BY <1>2, <1>3, SuffixIs
<1>5. \A k \in 1..p : w[k] \in Int /\ lo <= w[k] /\ w[k] <= hi
  <2>1. \A k \in 1..p : l - p + k \in 1..l
    BY <1>1
  <2> QED
    BY <1>4, <2>1
<1>6. PICK sum \in Int : sum = SumOf(w) /\ lo * p <= sum /\ sum <= hi * p
  <2>1. SumOf(w) \in Int /\ lo * p <= SumOf(w) /\ SumOf(w) <= hi * p
    BY <1>4, <1>5, SumBetween
  <2> QED
    BY <2>1
<1>7. <<sum, p>> \in Between(lo, hi)
  BY <1>2, <1>6 DEF Between
<1>8. SimpleMovingAverage(v, p) = <<sum, p>>
  <2>1. ~(Len(v) < p)
    BY <1>1
  <2> QED
    BY <1>3, <1>6, <2>1, Zenon DEF SimpleMovingAverage
<1> QED
  BY <1>7, <1>8

\* A turn of the exponential average stays there.
LEMMA NextEmaBetween ==
  ASSUME NEW lo \in Int, NEW hi \in Int, NEW e \in Between(lo, hi), NEW v \in Int, lo <= v, v <= hi,
         NEW period \in Nat, period > 0
  PROVE  NextEma(e, v, period) \in Between(lo, hi)
<1>1. PICK x \in Int, b \in Nat : e = <<x, b>> /\ b > 0 /\ lo * b <= x /\ x <= hi * b
  BY DEF Between
<1>2. PICK c \in Nat : c = period - 1
  OBVIOUS
<1>3. b * lo <= b * v /\ b * v <= b * hi
  BY TimesKeepsOrder
<1>4. PICK low \in Int, high \in Int : low = lo * b /\ high = hi * b
  OBVIOUS
<1>5. c * low <= c * x /\ c * x <= c * high
  BY <1>1, <1>4, TimesKeepsOrder
<1>6. PICK cb \in Nat, cl \in Int, ch \in Int, cx \in Int, bv \in Int :
        cb = c * b /\ cl = c * low /\ ch = c * high /\ cx = c * x /\ bv = b * v
  OBVIOUS
<1>7. 2 * v * b + (period - 1) * x = 2 * bv + cx
  <2>1. 2 * v * b = 2 * bv
    BY <1>1, <1>6
  <2> QED
    BY <1>2, <1>6, <2>1
<1>8. (period + 1) * b = cb + 2 * b
  BY <1>2, <1>6
<1>9. lo * (cb + 2 * b) = cl + 2 * low /\ hi * (cb + 2 * b) = ch + 2 * high
  <2>1. lo * cb = cl /\ hi * cb = ch
    BY <1>4, <1>6
  <2>2. lo * (cb + 2 * b) = lo * cb + 2 * (lo * b) /\ hi * (cb + 2 * b) = hi * cb + 2 * (hi * b)
    OBVIOUS
  <2> QED
    BY <1>4, <2>1, <2>2
<1>10. low <= bv /\ bv <= high /\ cl <= cx /\ cx <= ch
  BY <1>3, <1>4, <1>5, <1>6
<1>11. cl + 2 * low <= 2 * bv + cx /\ 2 * bv + cx <= ch + 2 * high
  BY <1>10
<1>12. cb + 2 * b > 0 /\ cb + 2 * b \in Int /\ 2 * bv + cx \in Int
  BY <1>1
<1>13. <<2 * bv + cx, cb + 2 * b>> \in Between(lo, hi)
  BY <1>9, <1>11, <1>12 DEF Between
<1>14. NextEma(e, v, period) = <<2 * bv + cx, cb + 2 * b>>
  BY <1>1, <1>7, <1>8 DEF NextEma
<1> QED
  BY <1>13, <1>14

\* So the exponential average never leaves it.
LEMMA EmaBetween ==
  ASSUME NEW v, NEW l, Row(v, l), NEW p \in 1..l, NEW lo \in Int, NEW hi \in Int,
         \A k \in 1..l : v[k] \in Int /\ lo <= v[k] /\ v[k] <= hi
  PROVE  ExponentialMovingAverage(v, p) \in Between(lo, hi)
<1>1. l \in Nat /\ Len(v) = l
  BY RowLength
<1>2. p \in Nat /\ p > 0
  BY <1>1
<1>3. PICK w : w = SubSeq(v, 1, p)
  OBVIOUS
<1>4. w = [i \in 1..p |-> v[i]] /\ Row(w, p)
  <2>1. 1 \in 1..(l + 1) /\ p \in 0..l /\ 1 <= p + 1
    BY <1>1
  <2>2. SubSeq(v, 1, p) = [i \in 1..(p - 1 + 1) |-> v[1 + i - 1]]
    BY <2>1, PartOfRow
  <2>3. p - 1 + 1 = p /\ \A i \in 1..p : 1 + i - 1 = i
    BY <1>2
  <2>4. SubSeq(v, 1, p) = [i \in 1..p |-> v[i]]
    BY <2>2, <2>3
  <2> QED
    BY <1>2, <1>3, <2>4 DEF Row
<1>5. \A k \in 1..p : w[k] \in Int /\ lo <= w[k] /\ w[k] <= hi
  <2>1. \A k \in 1..p : k \in 1..l
    BY <1>1
  <2> QED
    BY <1>4, <2>1
<1>6. PICK sum \in Int : sum = SumOf(w) /\ lo * p <= sum /\ sum <= hi * p
  <2>1. SumOf(w) \in Int /\ lo * p <= SumOf(w) /\ SumOf(w) <= hi * p
    BY <1>4, <1>5, SumBetween
  <2> QED
    BY <2>1
<1>7. <<SumOf(SubSeq(v, 1, p)), p>> \in Between(lo, hi)
  <2>1. <<sum, p>> \in Between(lo, hi)
    BY <1>2, <1>6 DEF Between
  <2> QED
    BY <1>3, <1>6, <2>1
<1>8. \A e \in Between(lo, hi), k \in 1..l : NextEma(e, v[k], p) \in Between(lo, hi)
  <2>1. ASSUME NEW e \in Between(lo, hi), NEW k \in 1..l
        PROVE  NextEma(e, v[k], p) \in Between(lo, hi)
    <3>1. v[k] \in Int /\ lo <= v[k] /\ v[k] <= hi
      OBVIOUS
    <3> QED
      BY <1>2, <3>1, NextEmaBetween
  <2> QED
    BY <2>1
<1>9. EmaClosed(v, l, p, Between(lo, hi))
  BY <1>7, <1>8 DEF EmaClosed
<1> QED
  BY <1>9, EmaStays

(***************************************************************************)
(* What each part of the strategy reads of the bars: a few windows and the *)
(* last bars, so two histories that agree on those are judged alike.       *)
(***************************************************************************)

\* The box setup reads the last bar, those before it and two averages.
LEMMA BoxDepends ==
  ASSUME NEW s, NEW t, NEW i, NEW j,
         ~(Len(s) < BoxLookback + 1), ~(Len(t) < BoxLookback + 1), Last(s) = Last(t),
         PriorBars(s, BoxLookback) = PriorBars(t, BoxLookback),
         i.sma20 = j.sma20, i.sma60 = j.sma60
  PROVE  Box(s, i) = Box(t, j)
<1>1. Trend(i) = Trend(j)
  BY DEF Trend
<1>2. PICK latest, prior, sma, trend :
         latest = Last(s) /\ prior = PriorBars(s, BoxLookback) /\ sma = i.sma20 /\ trend = Trend(i)
  OBVIOUS
<1>3. latest = Last(t) /\ prior = PriorBars(t, BoxLookback) /\ sma = j.sma20 /\ trend = Trend(j)
  BY <1>1, <1>2
<1> QED
  BY <1>2, <1>3, ZenonT(60) DEF Box

\* The contraction setup reads one bar more.
LEMMA ContractionDepends ==
  ASSUME NEW s, NEW t, NEW i, NEW j,
         ~(Len(s) < LongLookback + 2), ~(Len(t) < LongLookback + 2), Last(s) = Last(t),
         PriorBars(s, LongLookback) = PriorBars(t, LongLookback),
         PriorBars(s, LongLookback + 1) = PriorBars(t, LongLookback + 1),
         i.sma20 = j.sma20, i.sma60 = j.sma60
  PROVE  Contraction(s, i) = Contraction(t, j)
<1>1. Trend(i) = Trend(j)
  BY DEF Trend
<1> DEFINE
      Read(latest, prior, span, sma, trend) ==
        LET range == Suffix(prior, RangeLookback)
            hi == Highest(range)
            width == Div(Whole(hi - Lowest(range)), Whole(hi))
            ranges == [k \in 1..(Len(span) - 1) |-> TrueRange(span[k + 1], span[k].close)]
            longRange == <<SumOf(ranges), Len(ranges)>>
            shortRange == <<SumOf(Suffix(ranges, ShortLookback)), ShortLookback>>
            rangeRatio == Div(shortRange, longRange)
            longVolume == <<SumOf(Volumes(prior)), Len(prior)>>
            shortVolume == <<SumOf(Volumes(Suffix(prior, ShortLookback))), ShortLookback>>
            volumeRatio == Div(shortVolume, longVolume)
            breakoutRatio == Div(Whole(latest.volume), longVolume)
            rules == <<trend, Above(latest.close, sma), hi > 0 /\ AtMost(width, 8),
                       longRange[1] > 0 /\ AtMost(rangeRatio, 70),
                       longVolume[1] > 0 /\ AtMost(volumeRatio, 80),
                       latest.close >= hi, AtLeast(breakoutRatio, 120), latest.close >= latest.open>>
        IN [ok |-> All(rules), rules |-> rules,
            score |-> Weighted(<< <<30, LowIsGood(width, 3, 8)>>,
                                  <<25, LowIsGood(rangeRatio, 40, 70)>>,
                                  <<20, LowIsGood(volumeRatio, 50, 80)>>,
                                  <<25, HighIsGood(breakoutRatio, 120, 300)>> >>)]
<1>2. Contraction(s, i) = Read(Last(s), PriorBars(s, LongLookback),
                               PriorBars(s, LongLookback + 1), i.sma20, Trend(i))
  BY Zenon DEF Contraction
<1>3. Contraction(t, j) = Read(Last(t), PriorBars(t, LongLookback),
                               PriorBars(t, LongLookback + 1), j.sma20, Trend(j))
  BY Zenon DEF Contraction
<1> HIDE DEF Read
<1> QED
  BY <1>1, <1>2, <1>3

\* The common rules read the last window and what the history is long enough for.
LEMMA CommonDepends ==
  ASSUME NEW s, NEW t, NEW i, NEW j,
         s # <<>>, t # <<>>, ~(Len(s) < Sma20), ~(Len(t) < Sma20),
         ~(Len(s) < MinimumHistory), ~(Len(t) < MinimumHistory), Last(s) = Last(t),
         Suffix(s, Sma20) = Suffix(t, Sma20),
         i.sma20 = j.sma20, i.sma60 = j.sma60, i.atr14 = j.atr14
  PROVE  Common(s, i) = Common(t, j)
<1>1. PICK latest, window, sma, long, atr :
         /\ latest = Last(s) /\ window = Suffix(s, Sma20)
         /\ sma = i.sma20 /\ long = i.sma60 /\ atr = i.atr14
  OBVIOUS
<1>2. /\ latest = Last(t) /\ window = Suffix(t, Sma20)
      /\ sma = j.sma20 /\ long = j.sma60 /\ atr = j.atr14
  BY <1>1
<1>3. PICK short, few : /\ short = (Len(s) < Sma20) /\ short = (Len(t) < Sma20)
                        /\ few = (Len(s) < MinimumHistory) /\ few = (Len(t) < MinimumHistory)
  OBVIOUS
<1> QED
  BY <1>1, <1>2, <1>3, ZenonT(60) DEF Common

\* The pullback setup reads the exponential average in two rules: that it is
\* positive and that the close is near it.
LEMMA PullbackDepends ==
  ASSUME NEW s, NEW t, NEW i, NEW j,
         ~(Len(s) < PullbackLookback + 1), ~(Len(t) < PullbackLookback + 1), Last(s) = Last(t),
         PriorBars(s, PullbackLookback) = PriorBars(t, PullbackLookback),
         s[Len(s) - 1] = t[Len(t) - 1],
         i.sma20 = j.sma20, i.sma60 = j.sma60,
         i.ema20 # Missing, j.ema20 # Missing, i.ema20[1] > 0, j.ema20[1] > 0
  PROVE  LET a == Pullback(s, i)
             b == Pullback(t, j)
         IN DOMAIN a.rules = DOMAIN b.rules
            /\ \A k \in DOMAIN a.rules \ {5} : a.rules[k] = b.rules[k]
<1>1. Trend(i) = Trend(j)
  BY DEF Trend
<1> DEFINE
      Deep(latest, prior) ==
        LET peak == Max({prior[k].close : k \in DOMAIN prior})
            depth == Div(Whole(peak - latest.close), Whole(peak))
        IN AtLeast(depth, 3) /\ AtMost(depth, 12)
      Quiet(prior) ==
        LET average == <<SumOf(Volumes(prior)), Len(prior)>>
            short == <<SumOf(Volumes(Suffix(prior, PullbackVolumeLookback))), PullbackVolumeLookback>>
        IN AtMost(Div(short, average), 90)
      Supported(latest, sma) == sma # Missing /\ 100 * latest.close * sma[2] >= 98 * sma[1]
      Rules(latest, prior, before, sma, long, trend, positive, near) ==
        <<trend, Above(latest.close, long), positive, Deep(latest, prior), near,
          Supported(latest, sma), latest.close > before.close, latest.close >= latest.open,
          Quiet(prior)>>
      Ema(ind) == IF ind.ema20 = Missing THEN Zero ELSE ind.ema20
      Near(latest, ema) ==
        AtMost(IF ema[1] <= 0 THEN Zero
               ELSE <<Distance(latest.close * ema[2], ema[1]), ema[1]>>, 4)
      Read(bs, ind) == Rules(Last(bs), PriorBars(bs, PullbackLookback), bs[Len(bs) - 1], ind.sma20,
                             ind.sma60, Trend(ind), Ema(ind)[1] > 0, Near(Last(bs), Ema(ind)))
<1>2. Pullback(s, i).rules = Read(s, i)
  BY Zenon DEF Pullback
<1>3. Pullback(t, j).rules = Read(t, j)
  BY Zenon DEF Pullback
<1>4. Ema(i)[1] > 0 /\ Ema(j)[1] > 0
  BY Zenon
<1> DEFINE Alike(u, v) == DOMAIN u = DOMAIN v /\ \A k \in DOMAIN u \ {5} : u[k] = v[k]
<1>5. \A latest, prior, before, sma, long, trend, p, n, m :
        Alike(Rules(latest, prior, before, sma, long, trend, p, n),
              Rules(latest, prior, before, sma, long, trend, p, m))
  <2> HIDE DEF Deep, Quiet, Supported
  <2> QED
    OBVIOUS
<1>6. PICK p : p = (Ema(i)[1] > 0) /\ p = (Ema(j)[1] > 0)
  BY <1>4
<1> HIDE DEF Ema, Near, Rules
<1>7. \E n : Read(s, i) = Rules(Last(s), PriorBars(s, PullbackLookback), s[Len(s) - 1], i.sma20,
                                i.sma60, Trend(i), p, n)
  BY <1>6
<1>8. \E m : Read(t, j) = Rules(Last(s), PriorBars(s, PullbackLookback), s[Len(s) - 1], i.sma20,
                                i.sma60, Trend(i), p, m)
  BY <1>1, <1>6
<1> HIDE DEF Read
<1>9. Alike(Read(s, i), Read(t, j))
  <2> HIDE DEF Alike
  <2> QED
    BY <1>5, <1>7, <1>8
<1> QED
  BY <1>2, <1>3, <1>9

(***************************************************************************)
(* The bars that the strategy is fed, and two histories of one symbol.     *)
(***************************************************************************)

\* A day's bar: prices are positive, and open and close lie within the range.
DayBar == {b \in [open : Int, high : Int, low : Int, close : Int, volume : Int] :
             /\ 0 < b.low /\ b.low <= b.open /\ b.low <= b.close
             /\ b.open <= b.high /\ b.close <= b.high /\ 0 < b.volume}

History(s, l) == Row(s, l) /\ \A i \in 1..l : s[i] \in DayBar

\* Bars are only ever appended to such a history.
BarsInv == algorithm = "screening" => bars \in Seq(DayBar)

\* What the configuration says of the lookbacks (SwingScreeningConfig).
LEMMA LookbacksFit ==
  /\ MinimumHistory \in Nat /\ Sma20 \in Nat /\ Sma60 \in Nat /\ Atr14 \in Nat
  /\ BoxLookback \in Nat /\ PullbackLookback \in Nat /\ PullbackVolumeLookback \in Nat
  /\ RangeLookback \in Nat /\ ShortLookback \in Nat /\ LongLookback \in Nat
  /\ Sma20 > 0 /\ Sma60 > 0 /\ Atr14 > 0
  /\ Sma20 <= MinimumHistory /\ Sma60 <= MinimumHistory /\ Atr14 < MinimumHistory
  /\ BoxLookback > 0 /\ PullbackLookback > 0 /\ PullbackVolumeLookback > 0
  /\ RangeLookback > 0 /\ ShortLookback > 0 /\ LongLookback > 0
  /\ PullbackVolumeLookback <= PullbackLookback /\ ShortLookback <= LongLookback
  /\ BoxLookback + 1 <= MinimumHistory /\ PullbackLookback + 1 <= MinimumHistory
  /\ LongLookback + 2 <= MinimumHistory
<1>1. /\ MinimumHistory \in Nat /\ Sma20 \in Nat /\ Sma60 \in Nat /\ Atr14 \in Nat
      /\ BoxLookback \in Nat /\ PullbackLookback \in Nat /\ PullbackVolumeLookback \in Nat
      /\ RangeLookback \in Nat /\ ShortLookback \in Nat /\ LongLookback \in Nat
  BY ScreeningAssumption
<1>2. Sma20 > 0 /\ Sma60 > 0 /\ Atr14 > 0 /\ Sma60 <= MinimumHistory /\ Atr14 < MinimumHistory
  BY <1>1, ScreeningAssumption
<1>3. ConfigAccepts(Sma20, BoxLookback, PullbackLookback, PullbackVolumeLookback,
                    RangeLookback, ShortLookback, LongLookback, MinimumHistory)
  BY ScreeningAssumption
<1>4. /\ MinimumHistory \in Int /\ Sma20 \in Int
      /\ BoxLookback \in Int /\ PullbackLookback \in Int /\ PullbackVolumeLookback \in Int
      /\ RangeLookback \in Int /\ ShortLookback \in Int /\ LongLookback \in Int
  BY <1>1
<1> QED
  BY <1>1, <1>2, <1>3, <1>4, AcceptedLookbacks

\* The closes of a history.
LEMMA ClosesAre ==
  ASSUME NEW s, NEW l, History(s, l)
  PROVE  /\ Row(Closes(s), l)
         /\ \A k \in 1..l : Closes(s)[k] = s[k].close /\ s[k].close \in Int /\ s[k].close > 0
<1>1. l \in Nat /\ DOMAIN s = 1..l
  BY RowLength DEF History
<1>2. \A k \in 1..l : s[k].close \in Int /\ s[k].close > 0
  <2>1. ASSUME NEW k \in 1..l PROVE s[k].close \in Int /\ s[k].close > 0
    <3>1. s[k] \in DayBar
      BY DEF History
    <3> QED
      BY <3>1 DEF DayBar
  <2> QED
    BY <2>1
<1> QED
  BY <1>1, <1>2 DEF Row, Closes

\* The last bars of a history are one.
LEMMA HistoryOfSuffix ==
  ASSUME NEW s, NEW l, History(s, l), NEW m \in 0..l
  PROVE  History(Suffix(s, m), m)
<1>1. Row(s, l) /\ l \in Nat
  <2>1. Row(s, l)
    BY DEF History
  <2> QED
    BY <2>1, RowLength
<1>2. PICK t : t = Suffix(s, m)
  OBVIOUS
<1>3. t = [i \in 1..m |-> s[l - m + i]] /\ Row(t, m)
  BY <1>1, <1>2, SuffixIs
<1>4. \A i \in 1..m : t[i] \in DayBar
  <2>1. \A i \in 1..m : l - m + i \in 1..l
    BY <1>1
  <2> QED
    BY <1>3, <2>1 DEF History
<1> QED
  BY <1>2, <1>3, <1>4 DEF History

\* The exponential average of a history is positive.
LEMMA EmaIsPositive ==
  ASSUME NEW s, NEW l, History(s, l), NEW p \in 1..l
  PROVE  LET e == ExponentialMovingAverage(Closes(s), p) IN e # Missing /\ e[1] > 0
<1>1. Row(s, l) /\ l \in Nat /\ l > 0
  <2>1. Row(s, l)
    BY DEF History
  <2>2. l \in Nat
    BY <2>1, RowLength
  <2> QED
    BY <2>1, <2>2
<1>2. PICK v : v = Closes(s)
  OBVIOUS
<1>3. Row(v, l) /\ \A k \in 1..l : v[k] \in Int /\ v[k] > 0
  BY <1>2, ClosesAre
<1>4. PICK T, S : T = 1..l /\ S = {v[k] : k \in T}
  OBVIOUS
<1>5. PICK hi \in Int : \A k \in 1..l : v[k] <= hi
  <2>1. IsFiniteSet(T)
    BY <1>1, <1>4, FS_Interval
  <2>2. IsFiniteSet(S)
    BY <1>3, <1>4, <2>1, FinitelyManyKeys DEF Row
  <2>3. S \subseteq Int /\ S # {}
    BY <1>1, <1>3, <1>4
  <2>4. Max(S) \in S /\ \A y \in S : Max(S) >= y
    BY <2>2, <2>3, MaxOf
  <2> QED
    BY <1>4, <2>3, <2>4
<1>6. \A k \in 1..l : v[k] \in Int /\ 1 <= v[k] /\ v[k] <= hi
  BY <1>3, <1>5
<1>7. ExponentialMovingAverage(v, p) \in Between(1, hi)
  <2>1. 1 \in Int
    OBVIOUS
  <2> QED
    BY <1>3, <1>6, <2>1, EmaBetween
<1>8. ExponentialMovingAverage(v, p) \in Int \X Int
  BY <1>7 DEF Between
<1>9. ExponentialMovingAverage(v, p)[1] > 0
  BY <1>7 DEF Between
<1> QED
  BY <1>2, <1>8, <1>9 DEF Missing

\* A longer history has the same simple averages and true range.
LEMMA IndicatorsAgree ==
  ASSUME NEW s, NEW l, History(s, l), MinimumHistory <= l
  PROVE  LET i == Indicators(s)
             j == Indicators(Suffix(s, MinimumHistory))
         IN i.sma20 = j.sma20 /\ i.sma60 = j.sma60 /\ i.atr14 = j.atr14
<1>1. PICK m \in Nat : m = MinimumHistory
  BY LookbacksFit
<1>2. PICK t : t = Suffix(s, m)
  OBVIOUS
<1>3. Row(s, l)
  BY DEF History
<1>4. l \in Nat /\ Len(s) = l /\ DOMAIN s = 1..l
  BY <1>3, RowLength
<1>5. m \in 0..l /\ m <= l
  BY <1>1, <1>4
<1>6. t = [i \in 1..m |-> s[l - m + i]] /\ Row(t, m)
  BY <1>2, <1>3, <1>5, SuffixIs
<1>7. History(t, m) /\ Len(t) = m /\ DOMAIN t = 1..m
  BY <1>2, <1>5, <1>6, HistoryOfSuffix, RowLength
<1>8. ASSUME NEW p \in Nat, p <= m
      PROVE  SimpleMovingAverage(Closes(s), p) = SimpleMovingAverage(Closes(t), p)
  <2>1. PICK v, w : v = Closes(s) /\ w = Closes(t)
    OBVIOUS
  <2>2. Row(v, l) /\ \A k \in 1..l : v[k] = s[k].close
    BY <2>1, ClosesAre
  <2>3. Row(w, m) /\ \A k \in 1..m : w[k] = t[k].close
    BY <1>7, <2>1, ClosesAre
  <2>4. ASSUME NEW k \in 0..(p - 1) PROVE w[m - k] = v[l - k]
    <3>1. m - k \in 1..m /\ l - k \in 1..l /\ l - m + (m - k) = l - k
      BY <1>4, <1>5, <1>8
    <3> QED
      BY <1>6, <2>2, <2>3, <3>1
  <2>5. p \in Nat /\ p <= l /\ p <= m
    BY <1>4, <1>5, <1>8
  <2>6. SimpleMovingAverage(v, p) = SimpleMovingAverage(w, p)
    BY <2>2, <2>3, <2>4, <2>5, MeansAgree
  <2> QED
    BY <2>1, <2>6
<1> DEFINE Ranges(b) == [k \in DOMAIN b |-> IF k = 1 THEN b[k].high - b[k].low
                                            ELSE TrueRange(b[k], b[k - 1].close)]
<1>9. AverageTrueRange(s, Atr14) = AverageTrueRange(t, Atr14)
  <2>1. Atr14 \in Nat /\ Atr14 < m /\ Atr14 <= l /\ Atr14 <= m
    BY <1>1, <1>4, <1>5, LookbacksFit
  <2>2. PICK v, w : v = Ranges(s) /\ w = Ranges(t)
    OBVIOUS
  <2>3. Row(v, l) /\ Row(w, m)
    BY <1>4, <1>6, <1>7, <2>2 DEF Row
  <2>4. ASSUME NEW k \in 0..(Atr14 - 1) PROVE w[m - k] = v[l - k]
    <3>1. PICK a, b : a = m - k /\ b = l - k
      OBVIOUS
    <3>2. a \in 1..m /\ b \in 1..l /\ a # 1 /\ b # 1 /\ a - 1 \in 1..m
      BY <1>4, <1>5, <2>1, <3>1
    <3>3. l - m + a = b /\ l - m + (a - 1) = b - 1
      BY <1>4, <1>5, <3>1
    <3>4. t[a] = s[b] /\ t[a - 1] = s[b - 1]
      BY <1>6, <3>2, <3>3
    <3>5. w[a] = TrueRange(t[a], t[a - 1].close)
      BY <1>7, <2>2, <3>2
    <3>6. v[b] = TrueRange(s[b], s[b - 1].close)
      BY <1>4, <2>2, <3>2
    <3> QED
      BY <3>1, <3>4, <3>5, <3>6
  <2>5. SimpleMovingAverage(v, Atr14) = SimpleMovingAverage(w, Atr14)
    BY <2>1, <2>3, <2>4, MeansAgree
  <2>6. ~(Len(s) < Atr14) /\ ~(Len(t) < Atr14)
    BY <1>4, <1>7, <2>1
  <2>7. AverageTrueRange(s, Atr14) = SimpleMovingAverage(v, Atr14)
    BY <2>2, <2>6, Zenon DEF AverageTrueRange
  <2>8. AverageTrueRange(t, Atr14) = SimpleMovingAverage(w, Atr14)
    BY <2>2, <2>6, Zenon DEF AverageTrueRange
  <2> QED
    BY <2>5, <2>7, <2>8
<1>10. Sma20 \in Nat /\ Sma20 <= m /\ Sma60 \in Nat /\ Sma60 <= m
  BY <1>1, LookbacksFit
<1>11. /\ SimpleMovingAverage(Closes(s), Sma20) = SimpleMovingAverage(Closes(t), Sma20)
       /\ SimpleMovingAverage(Closes(s), Sma60) = SimpleMovingAverage(Closes(t), Sma60)
  BY <1>8, <1>10
<1> QED
  BY <1>1, <1>2, <1>9, <1>11 DEF Indicators

\* What an evaluation consists of.
LEMMA ScreenedIs ==
  ASSUME NEW s
  PROVE  LET i == Indicators(s)
             e == Screened(s)
         IN /\ e.common = Common(s, i)
            /\ e.setups = [box_breakout |-> Box(s, i), trend_pullback |-> Pullback(s, i),
                           volatility_contraction_breakout |-> Contraction(s, i)]
BY DEF Screened, Evaluate, Conclude, Screening

\* The pipeline's history and a longer one are judged alike.
LEMMA LongerAgrees ==
  ASSUME NEW s, NEW l, History(s, l), MinimumHistory <= l
  PROVE  LET a == Screened(s)
             b == Screened(Suffix(s, MinimumHistory))
         IN /\ a.common = b.common
            /\ a.setups.box_breakout = b.setups.box_breakout
            /\ a.setups.volatility_contraction_breakout = b.setups.volatility_contraction_breakout
            /\ \A k \in DOMAIN a.setups.trend_pullback.rules \ {5} :
                 a.setups.trend_pullback.rules[k] = b.setups.trend_pullback.rules[k]
<1>1. PICK m \in Nat : m = MinimumHistory
  BY LookbacksFit
<1>2. PICK t : t = Suffix(s, m)
  OBVIOUS
<1>3. Row(s, l)
  BY DEF History
<1>4. l \in Nat /\ Len(s) = l /\ DOMAIN s = 1..l
  BY <1>3, RowLength
<1>5. /\ m >= 1 /\ m >= 3 /\ Sma20 <= m /\ BoxLookback + 1 <= m /\ PullbackLookback + 1 <= m
      /\ LongLookback + 2 <= m /\ Sma20 >= 1 /\ PullbackLookback >= 1
  BY <1>1, LookbacksFit
<1>6. m \in 0..l /\ m \in 1..l /\ m <= l
  BY <1>1, <1>4, <1>5
<1>7. Row(t, m) /\ History(t, m)
  BY <1>2, <1>3, <1>6, SuffixIs, HistoryOfSuffix
<1>8. Len(t) = m /\ Last(t) = Last(s) /\ t[m - 1] = s[l - 1]
  <2>1. 1 \in 0..(m - 1)
    BY <1>1, <1>5
  <2> QED
    BY <1>2, <1>3, <1>6, <2>1, LastOfSuffix
<1>9. PICK i, j : i = Indicators(s) /\ j = Indicators(t)
  OBVIOUS
<1>10. i.sma20 = j.sma20 /\ i.sma60 = j.sma60 /\ i.atr14 = j.atr14
  BY <1>1, <1>2, <1>9, IndicatorsAgree
<1>11. i.ema20 # Missing /\ i.ema20[1] > 0 /\ j.ema20 # Missing /\ j.ema20[1] > 0
  <2>1. Sma20 \in 1..l /\ Sma20 \in 1..m
    BY <1>4, <1>5, <1>6, LookbacksFit
  <2>2. i.ema20 = ExponentialMovingAverage(Closes(s), Sma20)
    BY <1>9 DEF Indicators
  <2>3. j.ema20 = ExponentialMovingAverage(Closes(t), Sma20)
    BY <1>9 DEF Indicators
  <2>4. i.ema20 # Missing /\ i.ema20[1] > 0
    BY <2>1, <2>2, EmaIsPositive
  <2>5. j.ema20 # Missing /\ j.ema20[1] > 0
    BY <1>7, <2>1, <2>3, EmaIsPositive
  <2> QED
    BY <2>4, <2>5
<1>12. ASSUME NEW n \in Nat, n + 1 <= m PROVE PriorBars(s, n) = PriorBars(t, n)
  BY <1>2, <1>3, <1>6, <1>12, PriorOfSuffix
<1>13. Suffix(s, Sma20) = Suffix(t, Sma20)
  <2>1. Sma20 \in 0..m
    BY <1>5, LookbacksFit
  <2> QED
    BY <1>2, <1>3, <1>6, <2>1, SuffixOfSuffix
<1>14. Common(s, i) = Common(t, j)
  <2>1. s # <<>> /\ t # <<>>
    BY <1>4, <1>5, <1>6, <1>8
  <2>2. ~(Len(s) < Sma20) /\ ~(Len(t) < Sma20) /\ ~(Len(s) < MinimumHistory) /\ ~(Len(t) < MinimumHistory)
    BY <1>1, <1>4, <1>5, <1>6, <1>8, LookbacksFit
  <2> QED
    BY <1>8, <1>10, <1>13, <2>1, <2>2, CommonDepends
<1>15. Box(s, i) = Box(t, j)
  <2>1. ~(Len(s) < BoxLookback + 1) /\ ~(Len(t) < BoxLookback + 1)
    BY <1>4, <1>5, <1>6, <1>8, LookbacksFit
  <2>2. PriorBars(s, BoxLookback) = PriorBars(t, BoxLookback)
    BY <1>5, <1>12, LookbacksFit
  <2> QED
    BY <1>8, <1>10, <2>1, <2>2, BoxDepends
<1>16. Contraction(s, i) = Contraction(t, j)
  <2>1. ~(Len(s) < LongLookback + 2) /\ ~(Len(t) < LongLookback + 2)
    BY <1>4, <1>5, <1>6, <1>8, LookbacksFit
  <2>2. PriorBars(s, LongLookback) = PriorBars(t, LongLookback)
    <3>1. LongLookback \in Nat /\ LongLookback + 1 <= m
      BY <1>1, <1>5, LookbacksFit
    <3> QED
      BY <1>12, <3>1
  <2>3. PriorBars(s, LongLookback + 1) = PriorBars(t, LongLookback + 1)
    <3>1. LongLookback + 1 \in Nat /\ LongLookback + 1 + 1 <= m
      BY <1>1, <1>5, LookbacksFit
    <3> QED
      BY <1>12, <3>1
  <2> QED
    BY <1>8, <1>10, <2>1, <2>2, <2>3, ContractionDepends
<1>17. LET a == Pullback(s, i)
           b == Pullback(t, j)
       IN \A k \in DOMAIN a.rules \ {5} : a.rules[k] = b.rules[k]
  <2>1. ~(Len(s) < PullbackLookback + 1) /\ ~(Len(t) < PullbackLookback + 1)
    BY <1>4, <1>5, <1>6, <1>8, LookbacksFit
  <2>2. PriorBars(s, PullbackLookback) = PriorBars(t, PullbackLookback)
    BY <1>5, <1>12, LookbacksFit
  <2>3. s[Len(s) - 1] = t[Len(t) - 1]
    BY <1>4, <1>8
  <2> QED
    BY <1>8, <1>10, <1>11, <2>1, <2>2, <2>3, PullbackDepends
<1>18. PICK a, b : a = Screened(s) /\ b = Screened(t)
  OBVIOUS
<1>19. /\ a.common = Common(s, i)
       /\ a.setups = [box_breakout |-> Box(s, i), trend_pullback |-> Pullback(s, i),
                      volatility_contraction_breakout |-> Contraction(s, i)]
  BY <1>9, <1>18, ScreenedIs
<1>20. /\ b.common = Common(t, j)
       /\ b.setups = [box_breakout |-> Box(t, j), trend_pullback |-> Pullback(t, j),
                      volatility_contraction_breakout |-> Contraction(t, j)]
  BY <1>9, <1>18, ScreenedIs
<1>21. /\ a.common = b.common /\ a.setups.box_breakout = b.setups.box_breakout
       /\ a.setups.volatility_contraction_breakout = b.setups.volatility_contraction_breakout
       /\ a.setups.trend_pullback = Pullback(s, i) /\ b.setups.trend_pullback = Pullback(t, j)
  BY <1>14, <1>15, <1>16, <1>19, <1>20
<1> QED
  BY <1>1, <1>2, <1>17, <1>18, <1>21

\* What is fed to the strategy and to the configuration.
ScreeningInv == LookbacksInv /\ BarsInv

\* Initially an uptrend of two days, or the lookbacks of a configuration.
LEMMA ScreeningInitially == AlgorithmsInit => ScreeningInv
<1> SUFFICES ASSUME AlgorithmsInit PROVE ScreeningInv
  OBVIOUS
<1>1. LookbacksInv
  <2> SUFFICES ASSUME algorithm = "config" PROVE lookbacks \in [1..6 -> Int]
    BY DEF LookbacksInv
  <2>1. lookbacks \in [1..6 -> {0, 1, 2, 3}]
    BY DEF AlgorithmsInit
  <2>2. {0, 1, 2, 3} \subseteq Int
    OBVIOUS
  <2> QED
    BY <2>1, <2>2
<1>2. BarsInv
  <2> SUFFICES ASSUME algorithm = "screening" PROVE bars \in Seq(DayBar)
    BY DEF BarsInv
  <2>1. bars \in Beginnings
    <3>1. bars \in CASE algorithm = "screening" -> Beginnings
                     [] algorithm = "chart" -> {Dated(c) : c \in Charts}
                     [] OTHER -> {<<>>}
      BY DEF AlgorithmsInit
    <3> QED
      BY <3>1, Zenon
  <2>2. /\ Bar(98, 100, 97, 99, 10) \in DayBar /\ Bar(99, 101, 98, 99, 10) \in DayBar
        /\ Bar(98, 100, 97, 100, 10) \in DayBar /\ Bar(100, 104, 99, 104, 10) \in DayBar
    BY DEF Bar, DayBar
  <2>3. PICK a, b : a \in DayBar /\ b \in DayBar /\ bars = <<a, b>>
    BY <2>1, <2>2 DEF Beginnings
  <2> QED
    BY <2>3
<1> QED
  BY <1>1, <1>2 DEF ScreeningInv

\* Every step keeps them so.
LEMMA ScreeningInductive == ScreeningInv /\ [AlgorithmsNext]_algorithmVars => ScreeningInv'
<1> SUFFICES ASSUME ScreeningInv, [AlgorithmsNext]_algorithmVars PROVE ScreeningInv'
  OBVIOUS
<1>1. algorithm' = algorithm /\ lookbacks' = lookbacks /\ (bars' = bars \/ AddDay)
  <2>1. CASE AddTrade
    BY <2>1 DEF AddTrade
  <2>2. CASE AddDay
    BY <2>2 DEF AddDay
  <2>3. CASE AddResult
    BY <2>3 DEF AddResult
  <2>4. CASE AddMinute
    BY <2>4 DEF AddMinute
  <2>5. CASE UNCHANGED algorithmVars
    BY <2>5 DEF algorithmVars
  <2> QED
    BY <2>1, <2>2, <2>3, <2>4, <2>5, Zenon DEF AlgorithmsNext
<1>2. CASE bars' = bars
  BY <1>1, <1>2 DEF ScreeningInv, LookbacksInv, BarsInv
<1>3. CASE AddDay
  <2>1. PICK b : b \in Days /\ bars' = Append(bars, b)
    BY <1>3 DEF AddDay
  <2>2. Days \subseteq DayBar
    BY DEF Days, Bar, DayBar
  <2>3. bars \in Seq(DayBar)
    BY <1>3 DEF AddDay, ScreeningInv, BarsInv
  <2>4. bars' \in Seq(DayBar)
    BY <2>1, <2>2, <2>3
  <2> QED
    BY <1>1, <2>4 DEF ScreeningInv, LookbacksInv, BarsInv
<1> QED
  BY <1>1, <1>2, <1>3

\* The bars are a history.
LEMMA BarsAreHistory ==
  ASSUME ScreeningInv, algorithm = "screening"
  PROVE  Len(bars) \in Nat /\ History(bars, Len(bars))
<1>1. bars \in Seq(DayBar)
  BY DEF ScreeningInv, BarsInv
<1>2. Len(bars) \in Nat /\ Row(bars, Len(bars))
  BY <1>1, SequencesAreFunctions DEF Row
<1>3. \A i \in 1..Len(bars) : bars[i] \in DayBar
  BY <1>1
<1> QED
  BY <1>2, <1>3 DEF History

\* The invariant gives both halves of the property.
LEMMA WindowsFromInv == ScreeningInv => WindowsAreFull
<1> SUFFICES ASSUME ScreeningInv PROVE WindowsAreFull
  OBVIOUS
<1>1. AcceptedConfigIsSafe
  BY ConfigsAreSafe DEF ScreeningInv
<1>2. LongerHistoryAgrees
  <2> SUFFICES ASSUME algorithm = "screening", Len(bars) >= MinimumHistory
               PROVE  LongerHistoryAgrees
    BY DEF LongerHistoryAgrees
  <2>1. PICK s, l : s = bars /\ l = Len(bars)
    OBVIOUS
  <2>2. History(s, l) /\ MinimumHistory <= l
    BY <2>1, BarsAreHistory, LookbacksFit
  <2>3. PICK a, b : a = Screened(s) /\ b = Screened(Suffix(s, MinimumHistory))
    OBVIOUS
  <2>4. /\ a.common = b.common
        /\ a.setups.box_breakout = b.setups.box_breakout
        /\ a.setups.volatility_contraction_breakout = b.setups.volatility_contraction_breakout
        /\ \A k \in DOMAIN a.setups.trend_pullback.rules \ {5} :
             a.setups.trend_pullback.rules[k] = b.setups.trend_pullback.rules[k]
    BY <2>2, <2>3, LongerAgrees
  <2>5. \A n \in {"box_breakout", "volatility_contraction_breakout"} : a.setups[n] = b.setups[n]
    BY <2>4
  <2> QED
    BY <2>1, <2>3, <2>4, <2>5 DEF LongerHistoryAgrees
<1> QED
  BY <1>1, <1>2 DEF WindowsAreFull

\* A history as long as an accepted configuration asks for fills every window,
\* and a longer one adds nothing, for the lookbacks of AlgorithmsInit and however
\* long the history (SwingScreeningConfig.__post_init__ and the windows of swing.py).
THEOREM WindowsAlwaysFull == AlgorithmsSpec => []WindowsAreFull
<1>1. AlgorithmsInit => ScreeningInv
  BY ScreeningInitially
<1>2. ScreeningInv /\ [AlgorithmsNext]_algorithmVars => ScreeningInv'
  BY ScreeningInductive
<1>3. ScreeningInv => WindowsAreFull
  BY WindowsFromInv
<1> QED
  BY <1>1, <1>2, <1>3, PTL DEF AlgorithmsSpec

(***************************************************************************)
(* Averages lie between the closes they average.                           *)
(***************************************************************************)

\* A finite set of integers has a smallest member.
LEMMA MinOf ==
  ASSUME NEW S, IsFiniteSet(S), S \subseteq Int, S # {}
  PROVE  Min(S) \in S /\ \A y \in S : Min(S) <= y
<1> DEFINE G == {s \in SUBSET S : s = {} \/ \E m \in s : \A y \in s : m <= y}
<1>1. {} \in G
  OBVIOUS
<1>2. ASSUME NEW s \in SUBSET S, NEW a \in s, s \ {a} \in G PROVE s \in G
  <2>1. CASE s \ {a} = {}
    <3>1. \A y \in s : a <= y
      BY <2>1
    <3> QED
      BY <3>1
  <2>2. CASE s \ {a} # {}
    <3>1. PICK m \in s \ {a} : \A y \in s \ {a} : m <= y
      BY <1>2, <2>2
    <3>2. CASE m <= a
      BY <3>1, <3>2
    <3>3. CASE ~(m <= a)
      <4>1. \A y \in s : a <= y
        BY <3>1, <3>3
      <4> QED
        BY <4>1
    <3> QED
      BY <3>2, <3>3
  <2> QED
    BY <2>1, <2>2
<1> HIDE DEF G
<1>3. S \in SUBSET S /\ \A s \in SUBSET S : s \in G
  BY <1>1, <1>2, SubsetInduction
<1>4. \E m \in S : \A y \in S : m <= y
  BY <1>3 DEF G
<1> QED
  BY <1>4 DEF Min

\* So do the averages of the indicators (calculations.py).
LEMMA AveragesBetween ==
  ASSUME NEW s, NEW l, History(s, l)
  PROVE  LET ind == Indicators(s)
             closes == ToSet(Closes(s))
         IN \A m \in {ind.sma20, ind.sma60, ind.ema20} \ {Missing} :
              ~Less(m, Whole(Min(closes))) /\ ~Less(Whole(Max(closes)), m)
<1>1. l \in Nat
  <2>1. Row(s, l)
    BY DEF History
  <2> QED
    BY <2>1, RowLength
<1>2. PICK v : v = Closes(s)
  OBVIOUS
<1>3. Row(v, l) /\ \A k \in 1..l : v[k] \in Int
  BY <1>2, ClosesAre
<1>4. Len(v) = l /\ DOMAIN v = 1..l
  BY <1>3, RowLength
<1>5. PICK T, S : T = 1..l /\ S = {v[k] : k \in T}
  OBVIOUS
<1>6. ToSet(v) = S
  BY <1>4, <1>5 DEF ToSet
<1>7. IsFiniteSet(S) /\ S \subseteq Int
  <2>1. IsFiniteSet(T)
    BY <1>1, <1>5, FS_Interval
  <2> QED
    BY <1>3, <1>5, <2>1, FinitelyManyKeys DEF Row
<1>8. ASSUME NEW p \in Nat, p > 0, p <= l
      PROVE  /\ SimpleMovingAverage(v, p) \in Between(Min(S), Max(S))
             /\ ExponentialMovingAverage(v, p) \in Between(Min(S), Max(S))
  <2>1. p \in 1..l
    BY <1>1, <1>8
  <2>2. S # {}
    BY <1>5, <2>1
  <2>3. PICK lo \in Int, hi \in Int : lo = Min(S) /\ hi = Max(S)
    <3>1. Min(S) \in S /\ Max(S) \in S
      BY <1>7, <2>2, MinOf, MaxOf
    <3> QED
      BY <1>7, <3>1
  <2>4. \A y \in S : lo <= y /\ y <= hi
    <3>1. \A y \in S : Min(S) <= y
      BY <1>7, <2>2, MinOf
    <3>2. \A y \in S : Max(S) >= y
      BY <1>7, <2>2, MaxOf
    <3> QED
      BY <1>7, <2>3, <3>1, <3>2
  <2>5. \A k \in 1..l : v[k] \in Int /\ lo <= v[k] /\ v[k] <= hi
    BY <1>3, <1>5, <2>4
  <2>6. SimpleMovingAverage(v, p) \in Between(lo, hi)
    BY <1>3, <2>1, <2>5, MeanBetween
  <2>7. ExponentialMovingAverage(v, p) \in Between(lo, hi)
    BY <1>3, <2>1, <2>5, EmaBetween
  <2> QED
    BY <2>3, <2>6, <2>7
<1>9. ASSUME NEW m, m \in Between(Min(S), Max(S)), S # {}
      PROVE  ~Less(m, Whole(Min(S))) /\ ~Less(Whole(Max(S)), m)
  <2>1. PICK lo \in Int, hi \in Int : lo = Min(S) /\ hi = Max(S)
    <3>1. Min(S) \in S /\ Max(S) \in S
      BY <1>7, <1>9, MinOf, MaxOf
    <3> QED
      BY <1>7, <3>1
  <2>2. m[1] \in Int /\ m[2] \in Int /\ lo * m[2] <= m[1] /\ m[1] <= hi * m[2]
    BY <1>9, <2>1 DEF Between
  <2>3. Whole(lo) = <<lo, 1>> /\ Whole(hi) = <<hi, 1>>
    BY DEF Whole
  <2>4. PICK x \in Int, y \in Int : x = lo * m[2] /\ y = hi * m[2]
    BY <2>2
  <2>5. ~(m[1] * 1 < x) /\ ~(y < m[1] * 1)
    BY <2>2, <2>4
  <2> QED
    BY <2>1, <2>3, <2>4, <2>5 DEF Less
<1>10. ASSUME NEW p \in Nat, p > 0, NEW m,
              m \in {SimpleMovingAverage(v, p), ExponentialMovingAverage(v, p)} \ {Missing}
       PROVE  ~Less(m, Whole(Min(S))) /\ ~Less(Whole(Max(S)), m)
  <2>1. p <= l
    <3> SUFFICES ASSUME l < p PROVE FALSE
      BY <1>1
    <3>1. SimpleMovingAverage(v, p) = Missing /\ ExponentialMovingAverage(v, p) = Missing
      BY <1>4, Zenon DEF SimpleMovingAverage, ExponentialMovingAverage
    <3> QED
      BY <1>10, <3>1
  <2>2. S # {}
    <3>1. 1 \in 1..l
      BY <1>1, <1>10, <2>1
    <3> QED
      BY <1>5, <3>1
  <2>3. m \in Between(Min(S), Max(S))
    BY <1>8, <1>10, <2>1
  <2> QED
    BY <1>9, <2>2, <2>3
<1>11. Sma20 \in Nat /\ Sma60 \in Nat /\ Sma20 > 0 /\ Sma60 > 0
  BY LookbacksFit
<1>12. PICK ind : ind = Indicators(s)
  OBVIOUS
<1>13. /\ ind.sma20 = SimpleMovingAverage(v, Sma20) /\ ind.sma60 = SimpleMovingAverage(v, Sma60)
       /\ ind.ema20 = ExponentialMovingAverage(v, Sma20)
  BY <1>2, <1>12 DEF Indicators
<1>14. \A m \in {ind.sma20, ind.sma60, ind.ema20} \ {Missing} :
         ~Less(m, Whole(Min(S))) /\ ~Less(Whole(Max(S)), m)
  BY <1>10, <1>11, <1>13
<1> QED
  BY <1>2, <1>6, <1>12, <1>14

(***************************************************************************)
(* Ratios: a common factor of both terms changes neither a rule nor a      *)
(* score.                                                                  *)
(***************************************************************************)

\* A factor, as a product of integers keeps it.
LEMMA FactorKeepsSign ==
  ASSUME NEW c \in Nat, c > 0, NEW x \in Int, NEW y \in Int
  PROVE  (c * x <= c * y) = (x <= y) /\ (c * x < c * y) = (x < y)
<1>1. CASE x <= y
  <2>1. c * x <= c * y
    BY <1>1, TimesKeepsOrder
  <2>2. x < y => c * x < c * y
    <3> SUFFICES ASSUME x < y PROVE c * x < c * y
      OBVIOUS
    <3>1. c * (x + 1) <= c * y
      <4>1. x + 1 \in Int /\ x + 1 <= y
        OBVIOUS
      <4> QED
        BY <4>1, TimesKeepsOrder
    <3>2. PICK z \in Int, w \in Int : z = c * x /\ w = c * y
      OBVIOUS
    <3>3. c * (x + 1) = z + c
      BY <3>2
    <3> QED
      BY <3>1, <3>2, <3>3
  <2>3. PICK z \in Int, w \in Int : z = c * x /\ w = c * y
    OBVIOUS
  <2>4. ~(x < y) => z = w
    BY <1>1, <2>3
  <2> QED
    BY <1>1, <2>1, <2>2, <2>3, <2>4
<1>2. CASE ~(x <= y)
  <2>1. c * (y + 1) <= c * x
    <3>1. y + 1 \in Int /\ y + 1 <= x
      BY <1>2
    <3> QED
      BY <3>1, TimesKeepsOrder
  <2>2. PICK z \in Int, w \in Int : z = c * x /\ w = c * y
    OBVIOUS
  <2>3. c * (y + 1) = w + c
    BY <2>2
  <2>4. w < z
    BY <2>1, <2>2, <2>3
  <2> QED
    BY <1>2, <2>2, <2>4
<1> QED
  BY <1>1, <1>2

\* The quotient and the remainder are the only ones that fit.
LEMMA DivModIs ==
  ASSUME NEW x \in Int, NEW y \in Int, y > 0, NEW q \in Int, NEW r \in Int,
         x = y * q + r, 0 <= r, r < y
  PROVE  x \div y = q /\ x % y = r
<1>1. PICK a \in Int, b \in Int : a = x \div y /\ b = x % y /\ x = y * a + b /\ 0 <= b /\ b < y
  BY DivMod
<1>2. PICK d \in Int : d = a - q
  OBVIOUS
<1>3. y * a = y * q + y * d
  BY <1>2
<1>4. PICK m \in Int, n \in Int : m = y * q /\ n = y * d
  OBVIOUS
<1>5. m + r = m + n + b
  BY <1>1, <1>3, <1>4
<1>6. n < y /\ -y < n
  BY <1>1, <1>4, <1>5
<1>7. d >= 1 => n >= y
  BY <1>4
<1>8. d <= -1 => n <= -y
  BY <1>4
<1>9. d = 0
  BY <1>6, <1>7, <1>8
<1>10. n = 0
  BY <1>4, <1>9
<1> QED
  BY <1>1, <1>2, <1>5, <1>9, <1>10

\* Division of two multiples.
LEMMA DivModScales ==
  ASSUME NEW c \in Nat, c > 0, NEW x \in Int, NEW y \in Int, y > 0
  PROVE  (c * x) \div (c * y) = x \div y /\ (c * x) % (c * y) = c * (x % y)
<1>1. PICK q \in Int, r \in Int : q = x \div y /\ r = x % y /\ x = y * q + r /\ 0 <= r /\ r < y
  BY DivMod
<1>2. PICK u \in Int, v \in Int, w \in Int : u = c * x /\ v = c * y /\ w = c * r
  OBVIOUS
<1>3. u = v * q + w
  <2>1. c * (y * q + r) = (c * y) * q + c * r
    OBVIOUS
  <2> QED
    BY <1>1, <1>2, <2>1
<1>4. 0 <= w /\ w < v /\ v > 0
  <2>1. c * 0 <= c * r /\ c * r < c * y
    <3>1. c * 0 <= c * r
      BY <1>1, TimesKeepsOrder
    <3>2. (c * r < c * y) = (r < y)
      BY FactorKeepsSign
    <3> QED
      BY <1>1, <3>1, <3>2
  <2>2. c * 0 = 0
    OBVIOUS
  <2> QED
    BY <1>2, <2>1, <2>2
<1>5. u \div v = q /\ u % v = w
  BY <1>3, <1>4, DivModIs
<1> QED
  BY <1>1, <1>2, <1>5

\* So rounding is the same.
LEMMA RoundingScales ==
  ASSUME NEW c \in Nat, c > 0, NEW x \in Int, NEW y \in Int, y > 0
  PROVE  RoundHalfUp(c * x, c * y) = RoundHalfUp(x, y)
<1>1. (c * x) \div (c * y) = x \div y /\ (c * x) % (c * y) = c * (x % y)
  BY DivModScales
<1>2. PICK r \in Int : r = x % y
  BY DivMod
<1>3. (2 * (c * r) >= c * y) = (2 * r >= y)
  <2>1. (c * y <= c * (2 * r)) = (y <= 2 * r)
    <3>1. 2 * r \in Int
      OBVIOUS
    <3> QED
      BY <3>1, FactorKeepsSign
  <2>2. c * (2 * r) = 2 * (c * r)
    OBVIOUS
  <2>3. PICK u \in Int, v \in Int : u = c * r /\ v = c * y
    OBVIOUS
  <2> QED
    BY <2>1, <2>2, <2>3
<1>4. RoundHalfUp(c * x, c * y) = x \div y + (IF 2 * (c * r) >= c * y THEN 1 ELSE 0)
  BY <1>1, <1>2, Zenon DEF RoundHalfUp
<1>5. RoundHalfUp(x, y) = x \div y + (IF 2 * r >= y THEN 1 ELSE 0)
  BY <1>2, Zenon DEF RoundHalfUp
<1> QED
  BY <1>3, <1>4, <1>5

\* And the score (quantize_score).
LEMMA ScoreScales ==
  ASSUME NEW c \in Nat, c > 0, NEW x \in Int, NEW y \in Int
  PROVE  Score(c * x, c * y) = Score(x, y)
<1>1. PICK u \in Int, v \in Int : u = c * x /\ v = c * y
  OBVIOUS
<1>2. (u <= 0) = (x <= 0)
  <2>1. (c * x <= c * 0) = (x <= 0)
    BY FactorKeepsSign
  <2>2. c * 0 = 0
    OBVIOUS
  <2> QED
    BY <1>1, <2>1, <2>2
<1>3. (u >= v) = (x >= y)
  <2>1. (c * y <= c * x) = (y <= x)
    BY FactorKeepsSign
  <2> QED
    BY <1>1, <2>1
<1>4. CASE x <= 0
  <2>1. Score(u, v) = 0 /\ Score(x, y) = 0
    BY <1>2, <1>4 DEF Score
  <2> QED
    BY <1>1, <2>1
<1>5. CASE ~(x <= 0) /\ x >= y
  <2>1. Score(u, v) = Score(x, y)
    BY <1>2, <1>3, <1>5 DEF Score
  <2> QED
    BY <1>1, <2>1
<1>6. CASE ~(x <= 0) /\ ~(x >= y)
  <2>1. y > 0 /\ v > 0
    <3>1. (c * 0 < c * y) = (0 < y)
      BY FactorKeepsSign
    <3>2. c * 0 = 0 /\ y > 0
      BY <1>6
    <3> QED
      BY <1>1, <3>1, <3>2
  <2>2. PICK z \in Int : z = 100 * x
    OBVIOUS
  <2>3. 100 * u = c * z
    BY <1>1, <2>2
  <2>4. (c * z) \div (c * y) = z \div y /\ (c * z) % (c * y) = c * (z % y)
    BY <2>1, DivModScales
  <2>5. PICK r \in Int : r = z % y
    BY <2>1, DivMod
  <2>6. 100 * (c * r) = c * (100 * r) /\ 100 * r \in Int
    OBVIOUS
  <2>7. RoundHalfUp(c * (100 * r), c * y) = RoundHalfUp(100 * r, y)
    BY <2>1, <2>6, RoundingScales, ZenonT(60)
  <2>8. (100 * u) \div v = z \div y /\ (100 * u) % v = c * r
    BY <1>1, <2>3, <2>4, <2>5
  <2>9. RoundHalfUp(100 * ((100 * u) % v), v) = RoundHalfUp(100 * r, y)
    BY <1>1, <2>6, <2>7, <2>8
  <2>10. Score(u, v) = 100 * ((100 * u) \div v) + RoundHalfUp(100 * ((100 * u) % v), v)
    BY <1>2, <1>3, <1>6 DEF Score
  <2>11. Score(x, y) = 100 * (z \div y) + RoundHalfUp(100 * r, y)
    BY <1>6, <2>2, <2>5 DEF Score
  <2> QED
    BY <1>1, <2>8, <2>9, <2>10, <2>11
<1> QED
  BY <1>4, <1>5, <1>6

\* r is q with both terms multiplied by the same positive number.
SameRatio(q, r) ==
  /\ q \in Quotients /\ r \in Quotients
  /\ \E c \in Nat : c > 0 /\ r[1] = c * q[1] /\ r[2] = c * q[2]

\* A rule cannot tell them apart.
LEMMA SameRatioJudged ==
  ASSUME NEW q, NEW r, SameRatio(q, r), NEW h \in Int
  PROVE  AtMost(r, h) = AtMost(q, h) /\ AtLeast(r, h) = AtLeast(q, h)
<1>1. PICK c \in Nat, a \in Int, b \in Int, x \in Int, y \in Int :
        /\ c > 0 /\ q[1] = a /\ q[2] = b /\ x = c * a /\ y = c * b /\ r[1] = x /\ r[2] = y
  <2>1. PICK c \in Nat : c > 0 /\ r[1] = c * q[1] /\ r[2] = c * q[2]
    BY DEF SameRatio
  <2>2. PICK a \in Int, b \in Int : q[1] = a /\ q[2] = b
    BY DEF SameRatio, Quotients
  <2>3. PICK x \in Int, y \in Int : x = c * a /\ y = c * b
    OBVIOUS
  <2>4. c > 0 /\ q[1] = a /\ q[2] = b /\ x = c * a /\ y = c * b /\ r[1] = x /\ r[2] = y
    BY <2>1, <2>2, <2>3
  <2>5. c \in Nat /\ a \in Int /\ b \in Int /\ x \in Int /\ y \in Int
    OBVIOUS
  <2> QED
    BY <2>4, <2>5, Zenon
<1>2. PICK u \in Int, v \in Int : u = 100 * a /\ v = h * b
  OBVIOUS
<1>3. 100 * x = c * u /\ h * y = c * v
  BY <1>1, <1>2
<1>4. (c * u <= c * v) = (u <= v) /\ (c * v <= c * u) = (v <= u)
  BY <1>1, FactorKeepsSign
<1>5. AtMost(r, h) = (100 * x <= h * y) /\ AtMost(q, h) = (100 * a <= h * b)
  BY <1>1, Zenon DEF AtMost
<1>6. AtLeast(r, h) = (100 * x >= h * y) /\ AtLeast(q, h) = (100 * a >= h * b)
  BY <1>1, Zenon DEF AtLeast
<1>7. PICK m \in Int, n \in Int : m = c * u /\ n = c * v
  OBVIOUS
<1> QED
  BY <1>2, <1>3, <1>4, <1>5, <1>6, <1>7

\* Nor can a score.
LEMMA SameRatioScored ==
  ASSUME NEW q, NEW r, SameRatio(q, r), NEW lo \in Int, NEW hi \in Int
  PROVE  /\ HighIsGood(r, lo, hi) = HighIsGood(q, lo, hi)
         /\ LowIsGood(r, lo, hi) = LowIsGood(q, lo, hi)
<1>1. PICK c \in Nat, a \in Int, b \in Int, x \in Int, y \in Int :
        /\ c > 0 /\ q[1] = a /\ q[2] = b /\ x = c * a /\ y = c * b /\ r[1] = x /\ r[2] = y
  <2>1. PICK c \in Nat : c > 0 /\ r[1] = c * q[1] /\ r[2] = c * q[2]
    BY DEF SameRatio
  <2>2. PICK a \in Int, b \in Int : q[1] = a /\ q[2] = b
    BY DEF SameRatio, Quotients
  <2>3. PICK x \in Int, y \in Int : x = c * a /\ y = c * b
    OBVIOUS
  <2>4. c > 0 /\ q[1] = a /\ q[2] = b /\ x = c * a /\ y = c * b /\ r[1] = x /\ r[2] = y
    BY <2>1, <2>2, <2>3
  <2>5. c \in Nat /\ a \in Int /\ b \in Int /\ x \in Int /\ y \in Int
    OBVIOUS
  <2> QED
    BY <2>4, <2>5, Zenon
<1>2. PICK u \in Int, v \in Int, w \in Int :
        u = 100 * a - lo * b /\ v = (hi - lo) * b /\ w = hi * b - 100 * a
  <2>1. lo * b \in Int /\ hi * b \in Int /\ (hi - lo) * b \in Int
    OBVIOUS
  <2>2. 100 * a - lo * b \in Int /\ hi * b - 100 * a \in Int
    BY <2>1
  <2> QED
    BY <2>1, <2>2
<1>3. 100 * x - lo * y = c * u /\ (hi - lo) * y = c * v /\ hi * y - 100 * x = c * w
  BY <1>1, <1>2
<1>4. Score(c * u, c * v) = Score(u, v) /\ Score(c * w, c * v) = Score(w, v)
  BY <1>1, ScoreScales, ZenonT(60)
<1>5. HighIsGood(r, lo, hi) = Score(100 * x - lo * y, (hi - lo) * y)
  BY <1>1 DEF HighIsGood
<1>6. HighIsGood(q, lo, hi) = Score(100 * a - lo * b, (hi - lo) * b)
  BY <1>1 DEF HighIsGood
<1>7. LowIsGood(r, lo, hi) = Score(hi * y - 100 * x, (hi - lo) * y)
  BY <1>1 DEF LowIsGood
<1>8. LowIsGood(q, lo, hi) = Score(hi * b - 100 * a, (hi - lo) * b)
  BY <1>1 DEF LowIsGood
<1> QED
  BY <1>2, <1>3, <1>4, <1>5, <1>6, <1>7, <1>8

\* Nor the score that is best in between.
LEMMA SameRatioTriangle ==
  ASSUME NEW q, NEW r, SameRatio(q, r), NEW lo \in Int, NEW ideal \in Int, NEW hi \in Int
  PROVE  TriangularScore(r, lo, ideal, hi) = TriangularScore(q, lo, ideal, hi)
<1>1. AtMost(r, ideal) = AtMost(q, ideal)
  BY SameRatioJudged
<1>2. HighIsGood(r, lo, ideal) = HighIsGood(q, lo, ideal)
  BY SameRatioScored
<1>3. LowIsGood(r, ideal, hi) = LowIsGood(q, ideal, hi)
  BY SameRatioScored
<1> QED
  BY <1>1, <1>2, <1>3, Zenon DEF TriangularScore

\* A quotient of two multiples.
LEMMA DivOfMultiples ==
  ASSUME NEW c \in Nat, c > 0, NEW a \in Int, NEW m \in Int, NEW b \in Int, NEW n \in Int
  PROVE  SameRatio(Div(<<a, m>>, <<b, n>>), Div(<<c * a, m>>, <<c * b, n>>))
<1>1. PICK x \in Int, y \in Int : x = c * a /\ y = c * b
  OBVIOUS
<1>2. (y = 0) = (b = 0)
  <2>1. (c * b <= c * 0) = (b <= 0) /\ (c * 0 <= c * b) = (0 <= b)
    BY FactorKeepsSign
  <2>2. c * 0 = 0
    OBVIOUS
  <2> QED
    BY <1>1, <2>1, <2>2
<1>3. CASE b = 0
  <2>1. Div(<<a, m>>, <<b, n>>) = <<0, 1>> /\ Div(<<x, m>>, <<y, n>>) = <<0, 1>>
    BY <1>2, <1>3 DEF Div, Zero
  <2>2. SameRatio(<<0, 1>>, <<0, 1>>)
    <3>1. 1 \in Nat /\ 1 > 0 /\ 0 = 1 * 0 /\ 1 = 1 * 1
      OBVIOUS
    <3> QED
      BY <3>1 DEF SameRatio, Quotients
  <2> QED
    BY <1>1, <2>1, <2>2
<1>4. CASE b # 0
  <2>1. PICK u \in Int, v \in Int, w \in Int, z \in Int :
          u = a * n /\ v = m * b /\ w = x * n /\ z = m * y
    OBVIOUS
  <2>2. Div(<<a, m>>, <<b, n>>) = <<u, v>> /\ Div(<<x, m>>, <<y, n>>) = <<w, z>>
    BY <1>2, <1>4, <2>1 DEF Div
  <2>3. w = c * u /\ z = c * v
    BY <1>1, <2>1
  <2>4. SameRatio(<<u, v>>, <<w, z>>)
    BY <2>3 DEF SameRatio, Quotients
  <2> QED
    BY <1>1, <2>2, <2>4
<1> QED
  BY <1>3, <1>4

(***************************************************************************)
(* The bars after a split, or in another unit of volume: every window and  *)
(* what is read of it is scaled.                                           *)
(***************************************************************************)

\* The scaled bars, by their places.
LEMMA ScaledIs ==
  ASSUME NEW s, NEW l, History(s, l), NEW p \in Int, NEW v \in Int
  PROVE  LET t == Scaled(s, p, v)
         IN /\ Row(t, l)
            /\ \A k \in 1..l : /\ t[k].open = p * s[k].open /\ t[k].high = p * s[k].high
                               /\ t[k].low = p * s[k].low /\ t[k].close = p * s[k].close
                               /\ t[k].volume = v * s[k].volume
<1>1. l \in Nat /\ DOMAIN s = 1..l
  BY RowLength DEF History
<1>2. PICK t : t = Scaled(s, p, v)
  OBVIOUS
<1>3. t = [k \in 1..l |-> Bar(p * s[k].open, p * s[k].high, p * s[k].low,
                              p * s[k].close, v * s[k].volume)]
  BY <1>1, <1>2, Zenon DEF Scaled
<1>4. Row(t, l)
  BY <1>1, <1>3 DEF Row
<1>5. \A o, h, w, c, u : LET b == Bar(o, h, w, c, u)
                         IN b.open = o /\ b.high = h /\ b.low = w /\ b.close = c /\ b.volume = u
  BY DEF Bar
<1>6. ASSUME NEW k \in 1..l
      PROVE  /\ t[k].open = p * s[k].open /\ t[k].high = p * s[k].high
             /\ t[k].low = p * s[k].low /\ t[k].close = p * s[k].close
             /\ t[k].volume = v * s[k].volume
  <2>1. PICK o, h, w, c, u : /\ o = p * s[k].open /\ h = p * s[k].high /\ w = p * s[k].low
                             /\ c = p * s[k].close /\ u = v * s[k].volume
    OBVIOUS
  <2>2. t[k] = Bar(o, h, w, c, u)
    BY <1>3, <2>1
  <2> QED
    BY <1>5, <2>1, <2>2
<1> QED
  BY <1>2, <1>4, <1>6

\* The numbers of a history's bar.
LEMMA BarNumbers ==
  ASSUME NEW s, NEW l, History(s, l), NEW k \in 1..l
  PROVE  /\ s[k].open \in Int /\ s[k].high \in Int /\ s[k].low \in Int /\ s[k].close \in Int
         /\ s[k].volume \in Int
<1>1. s[k] \in DayBar
  BY DEF History
<1> QED
  BY <1>1 DEF DayBar

\* More bars than there are: all of them.
LEMMA SuffixOfShort ==
  ASSUME NEW s, NEW l, Row(s, l), NEW n \in Int, n >= l
  PROVE  Suffix(s, n) = Suffix(s, l)
<1>1. l \in Nat /\ Len(s) = l
  BY RowLength
<1>2. Max({1, l - n + 1}) = 1 /\ Max({1, l - l + 1}) = 1
  BY <1>1, MaxOfTwo
<1> QED
  BY <1>1, <1>2 DEF Suffix

\* The windows of the scaled bars are the scaled windows.
LEMMA ScaledSuffix ==
  ASSUME NEW s, NEW l, History(s, l), NEW p \in Int, NEW v \in Int, NEW n \in 0..l
  PROVE  Suffix(Scaled(s, p, v), n) = Scaled(Suffix(s, n), p, v)
<1>1. Row(s, l) /\ l \in Nat
  BY RowLength DEF History
<1>2. PICK t, w : t = Scaled(s, p, v) /\ w = Suffix(s, n)
  OBVIOUS
<1>3. DOMAIN s = 1..l
  BY <1>1, RowLength
<1>4. t = [k \in 1..l |-> Bar(p * s[k].open, p * s[k].high, p * s[k].low,
                              p * s[k].close, v * s[k].volume)]
  BY <1>2, <1>3, Zenon DEF Scaled
<1>5. Row(t, l)
  BY <1>1, <1>4 DEF Row
<1>6. Suffix(t, n) = [i \in 1..n |-> t[l - n + i]]
  BY <1>5, SuffixIs
<1>7. w = [i \in 1..n |-> s[l - n + i]] /\ DOMAIN w = 1..n
  BY <1>1, <1>2, SuffixIs
<1>8. Scaled(w, p, v) = [i \in 1..n |-> Bar(p * w[i].open, p * w[i].high, p * w[i].low,
                                            p * w[i].close, v * w[i].volume)]
  BY <1>7, Zenon DEF Scaled
<1>9. ASSUME NEW i \in 1..n
      PROVE  t[l - n + i] = Bar(p * w[i].open, p * w[i].high, p * w[i].low,
                                p * w[i].close, v * w[i].volume)
  <2>1. l - n + i \in 1..l
    BY <1>1
  <2>2. w[i] = s[l - n + i]
    BY <1>7
  <2> QED
    BY <1>4, <2>1, <2>2
<1>10. Suffix(t, n) = Scaled(w, p, v)
  BY <1>6, <1>8, <1>9
<1> QED
  BY <1>2, <1>10

\* So are the windows before the last bar.
LEMMA ScaledPrior ==
  ASSUME NEW s, NEW l, History(s, l), NEW p \in Int, NEW v \in Int, NEW n \in Nat, n + 1 <= l
  PROVE  /\ PriorBars(Scaled(s, p, v), n) = Scaled(PriorBars(s, n), p, v)
         /\ History(PriorBars(s, n), n)
<1>1. Row(s, l) /\ l \in Nat
  BY RowLength DEF History
<1>2. PICK t, w : t = Scaled(s, p, v) /\ w = PriorBars(s, n)
  OBVIOUS
<1>3. DOMAIN s = 1..l
  BY <1>1, RowLength
<1>4. t = [k \in 1..l |-> Bar(p * s[k].open, p * s[k].high, p * s[k].low,
                              p * s[k].close, v * s[k].volume)]
  BY <1>2, <1>3, Zenon DEF Scaled
<1>5. Row(t, l)
  BY <1>1, <1>4 DEF Row
<1>6. PriorBars(t, n) = [i \in 1..n |-> t[l - 1 - n + i]]
  BY <1>5, PriorBarsIs
<1>7. w = [i \in 1..n |-> s[l - 1 - n + i]] /\ DOMAIN w = 1..n /\ Row(w, n)
  BY <1>1, <1>2, PriorBarsIs
<1>8. Scaled(w, p, v) = [i \in 1..n |-> Bar(p * w[i].open, p * w[i].high, p * w[i].low,
                                            p * w[i].close, v * w[i].volume)]
  BY <1>7, Zenon DEF Scaled
<1>9. ASSUME NEW i \in 1..n
      PROVE  /\ w[i] \in DayBar
             /\ t[l - 1 - n + i] = Bar(p * w[i].open, p * w[i].high, p * w[i].low,
                                       p * w[i].close, v * w[i].volume)
  <2>1. l - 1 - n + i \in 1..l
    BY <1>1
  <2>2. w[i] = s[l - 1 - n + i]
    BY <1>7
  <2> QED
    BY <1>4, <2>1, <2>2 DEF History
<1>10. PriorBars(t, n) = Scaled(w, p, v)
  BY <1>6, <1>8, <1>9
<1> QED
  BY <1>2, <1>7, <1>9, <1>10 DEF History

Largest(f, n) == Max({f[k] : k \in 1..n})
Smallest(f, n) == Min({f[k] : k \in 1..n})

\* The largest, the smallest and the sum of scaled numbers.
LEMMA NumbersScale ==
  ASSUME NEW n \in Nat, n > 0, NEW f \in [1..n -> Int], NEW g \in [1..n -> Int], NEW p \in Nat, p > 0,
         \A k \in 1..n : g[k] = p * f[k]
  PROVE  /\ Largest(f, n) \in Int /\ Largest(g, n) = p * Largest(f, n)
         /\ Smallest(f, n) \in Int /\ Smallest(g, n) = p * Smallest(f, n)
         /\ SumOf(f) \in Int /\ SumOf(g) = p * SumOf(f)
<1>1. PICK T : T = 1..n
  OBVIOUS
<1>2. IsFiniteSet(T) /\ f \in [T -> Int] /\ g \in [T -> Int] /\ \A k \in T : g[k] = p * f[k]
  <2>1. IsFiniteSet(T)
    BY <1>1, FS_Interval
  <2> QED
    BY <1>1, <2>1
<1>3. PICK S, U : S = {f[k] : k \in T} /\ U = {g[k] : k \in T}
  OBVIOUS
<1>4. /\ IsFiniteSet(S) /\ S \subseteq Int /\ S # {}
      /\ IsFiniteSet(U) /\ U \subseteq Int /\ U # {}
  <2>1. IsFiniteSet(S) /\ IsFiniteSet(U)
    BY <1>2, <1>3, FinitelyManyKeys
  <2>2. 1 \in T
    BY <1>1
  <2> QED
    BY <1>2, <1>3, <2>1, <2>2
<1>5. PICK m \in Int : m = Max(S) /\ m \in S /\ \A y \in S : m >= y
  <2>1. Max(S) \in S /\ \A y \in S : Max(S) >= y
    BY <1>4, MaxOf
  <2> QED
    BY <1>4, <2>1
<1>6. PICK h \in Int : h = Min(S) /\ h \in S /\ \A y \in S : h <= y
  <2>1. Min(S) \in S /\ \A y \in S : Min(S) <= y
    BY <1>4, MinOf
  <2> QED
    BY <1>4, <2>1
<1>7. \A y \in U : \E x \in S : y = p * x
  BY <1>2, <1>3
<1>8. Max(U) = p * m
  <2>1. PICK z \in Int : z = p * m
    OBVIOUS
  <2>2. z \in U
    BY <1>2, <1>3, <1>5, <2>1
  <2>3. ASSUME NEW y \in U PROVE z >= y
    <3>1. PICK x \in Int : x \in S /\ y = p * x
      BY <1>4, <1>7
    <3>2. x <= m
      BY <1>5, <3>1
    <3>3. p * x <= p * m
      BY <3>2, TimesKeepsOrder
    <3> QED
      BY <2>1, <3>1, <3>3
  <2> QED
    BY <1>4, <2>1, <2>2, <2>3, MaxIs
<1>9. Min(U) = p * h
  <2>1. PICK z \in Int : z = p * h
    OBVIOUS
  <2>2. z \in U
    BY <1>2, <1>3, <1>6, <2>1
  <2>3. ASSUME NEW y \in U PROVE z <= y
    <3>1. PICK x \in Int : x \in S /\ y = p * x
      BY <1>4, <1>7
    <3>2. h <= x
      BY <1>6, <3>1
    <3>3. p * h <= p * x
      BY <3>2, TimesKeepsOrder
    <3> QED
      BY <2>1, <3>1, <3>3
  <2>4. PICK o \in Int : o = Min(U) /\ o \in U /\ \A y \in U : o <= y
    <3>1. Min(U) \in U /\ \A y \in U : Min(U) <= y
      BY <1>4, MinOf
    <3> QED
      BY <1>4, <3>1
  <2>5. o = z
    <3>1. o <= z /\ z <= o
      BY <2>2, <2>3, <2>4
    <3> QED
      BY <3>1
  <2> QED
    BY <2>1, <2>4, <2>5
<1>10. SumOf(f) \in Int /\ SumOf(g) = p * SumOf(f)
  <2>1. SumOf(f) = Total(f, T) /\ SumOf(g) = Total(g, T)
    <3>1. DOMAIN f = T /\ DOMAIN g = T
      BY <1>2
    <3>2. SumOf(f) = Total(f, T)
      BY <3>1, Zenon DEF SumOf, Total
    <3>3. SumOf(g) = Total(g, T)
      BY <3>1, Zenon DEF SumOf, Total
    <3> QED
      BY <3>2, <3>3
  <2>2. Total(f, T) \in Int
    BY <1>2, TotalInt
  <2>3. Total(g, T) = p * Total(f, T)
    <3>1. p \in Int
      OBVIOUS
    <3> QED
      BY <1>2, <3>1, TotalScales
  <2> QED
    BY <2>1, <2>2, <2>3
<1> QED
  BY <1>1, <1>3, <1>5, <1>6, <1>8, <1>9, <1>10 DEF Largest, Smallest

\* The same, as a relation between the two windows.
IsScaled(t, s, l, p, v) ==
  /\ Row(t, l)
  /\ \A k \in 1..l : /\ t[k].open = p * s[k].open /\ t[k].high = p * s[k].high
                     /\ t[k].low = p * s[k].low /\ t[k].close = p * s[k].close
                     /\ t[k].volume = v * s[k].volume

\* Scaling a window scales each of its bars.
LEMMA ScaledSatisfies ==
  ASSUME NEW s, NEW l, History(s, l), NEW p \in Int, NEW v \in Int
  PROVE  IsScaled(Scaled(s, p, v), s, l, p, v)
<1> DEFINE t == Scaled(s, p, v)
<1>1. /\ Row(t, l)
      /\ \A k \in 1..l : /\ t[k].open = p * s[k].open /\ t[k].high = p * s[k].high
                         /\ t[k].low = p * s[k].low /\ t[k].close = p * s[k].close
                         /\ t[k].volume = v * s[k].volume
  BY ScaledIs
<1> QED
  BY <1>1, Zenon DEF IsScaled

\* What the setups read of a window.
LEMMA WindowScales ==
  ASSUME NEW w, NEW n, History(w, n), n > 0, NEW p \in Nat, p > 0, NEW v \in Nat, v > 0
  PROVE  LET u == Scaled(w, p, v)
         IN /\ Len(w) = n /\ Len(u) = n
            /\ Highest(w) \in Int /\ Highest(u) = p * Highest(w)
            /\ Lowest(w) \in Int /\ Lowest(u) = p * Lowest(w)
            /\ SumOf(Volumes(w)) \in Int /\ SumOf(Volumes(u)) = v * SumOf(Volumes(w))
            /\ Max({w[i].close : i \in DOMAIN w}) \in Int
            /\ Max({u[i].close : i \in DOMAIN u}) = p * Max({w[i].close : i \in DOMAIN w})
<1>1. n \in Nat /\ Row(w, n) /\ Len(w) = n /\ DOMAIN w = 1..n
  BY RowLength DEF History
<1>2. PICK u : u = Scaled(w, p, v)
  OBVIOUS
<1>3. /\ Row(u, n)
      /\ \A k \in 1..n : /\ u[k].high = p * w[k].high /\ u[k].low = p * w[k].low
                         /\ u[k].close = p * w[k].close /\ u[k].volume = v * w[k].volume
  <2>1. p \in Int /\ v \in Int
    OBVIOUS
  <2>2. IsScaled(Scaled(w, p, v), w, n, p, v)
    BY <2>1, ScaledSatisfies, Zenon
  <2> QED
    BY <1>2, <2>2, Zenon DEF IsScaled
<1>4. Len(u) = n /\ DOMAIN u = 1..n
  BY <1>3, RowLength
<1>5. \A k \in 1..n : w[k].high \in Int /\ w[k].low \in Int /\ w[k].close \in Int /\ w[k].volume \in Int
  BY BarNumbers
<1>6. PICK f, g : f = [k \in 1..n |-> w[k].high] /\ g = [k \in 1..n |-> u[k].high]
  OBVIOUS
<1>7. Highest(w) \in Int /\ Highest(u) = p * Highest(w)
  <2>1. /\ f \in [1..n -> Int] /\ g \in [1..n -> Int] /\ \A k \in 1..n : g[k] = p * f[k]
    BY <1>3, <1>5, <1>6
  <2>2. Largest(f, n) \in Int /\ Largest(g, n) = p * Largest(f, n)
    BY <1>1, <2>1, NumbersScale
  <2>3. {w[i].high : i \in DOMAIN w} = {f[k] : k \in 1..n}
    BY <1>1, <1>6
  <2>4. {u[i].high : i \in DOMAIN u} = {g[k] : k \in 1..n}
    BY <1>4, <1>6
  <2> QED
    BY <2>2, <2>3, <2>4 DEF Highest, Largest
<1>8. PICK d, e : d = [k \in 1..n |-> w[k].low] /\ e = [k \in 1..n |-> u[k].low]
  OBVIOUS
<1>9. Lowest(w) \in Int /\ Lowest(u) = p * Lowest(w)
  <2>1. /\ d \in [1..n -> Int] /\ e \in [1..n -> Int] /\ \A k \in 1..n : e[k] = p * d[k]
    BY <1>3, <1>5, <1>8
  <2>2. Smallest(d, n) \in Int /\ Smallest(e, n) = p * Smallest(d, n)
    BY <1>1, <2>1, NumbersScale
  <2>3. {w[i].low : i \in DOMAIN w} = {d[k] : k \in 1..n}
    BY <1>1, <1>8
  <2>4. {u[i].low : i \in DOMAIN u} = {e[k] : k \in 1..n}
    BY <1>4, <1>8
  <2> QED
    BY <2>2, <2>3, <2>4 DEF Lowest, Smallest
<1>10. PICK a, b : a = [k \in 1..n |-> w[k].close] /\ b = [k \in 1..n |-> u[k].close]
  OBVIOUS
<1>11. /\ Max({w[i].close : i \in DOMAIN w}) \in Int
       /\ Max({u[i].close : i \in DOMAIN u}) = p * Max({w[i].close : i \in DOMAIN w})
  <2>1. /\ a \in [1..n -> Int] /\ b \in [1..n -> Int] /\ \A k \in 1..n : b[k] = p * a[k]
    BY <1>3, <1>5, <1>10
  <2>2. Largest(a, n) \in Int /\ Largest(b, n) = p * Largest(a, n)
    BY <1>1, <2>1, NumbersScale
  <2>3. {w[i].close : i \in DOMAIN w} = {a[k] : k \in 1..n}
    BY <1>1, <1>10
  <2>4. {u[i].close : i \in DOMAIN u} = {b[k] : k \in 1..n}
    BY <1>4, <1>10
  <2> QED
    BY <2>2, <2>3, <2>4 DEF Largest
<1>12. SumOf(Volumes(w)) \in Int /\ SumOf(Volumes(u)) = v * SumOf(Volumes(w))
  <2>1. Volumes(w) = [k \in 1..n |-> w[k].volume] /\ Volumes(u) = [k \in 1..n |-> u[k].volume]
    BY <1>1, <1>4 DEF Volumes
  <2>2. /\ Volumes(w) \in [1..n -> Int] /\ Volumes(u) \in [1..n -> Int]
        /\ \A k \in 1..n : Volumes(u)[k] = v * Volumes(w)[k]
    BY <1>3, <1>5, <2>1
  <2>3. n \in Nat /\ n > 0
    BY <1>1
  <2> QED
    BY <2>2, <2>3, NumbersScale, ZenonT(60)
<1> QED
  BY <1>1, <1>2, <1>4, <1>7, <1>9, <1>11, <1>12

(***************************************************************************)
(* The averages of scaled closes.                                          *)
(***************************************************************************)

\* b is a with its numerator multiplied by p, or neither is there.
UpBy(p, a, b) ==
  \/ a = Missing /\ b = Missing
  \/ a \in Quotients /\ b \in Quotients /\ b[1] = p * a[1] /\ b[2] = a[2]

ScaledRow(v, w, l, p) ==
  Row(v, l) /\ Row(w, l) /\ \A k \in 1..l : v[k] \in Int /\ w[k] = p * v[k]

\* The sum of a part of scaled numbers.
LEMMA PartSumScales ==
  ASSUME NEW v, NEW w, NEW l, NEW p \in Int, ScaledRow(v, w, l, p)
  PROVE  SumOf(v) \in Int /\ SumOf(w) = p * SumOf(v)
<1>1. l \in Nat /\ DOMAIN v = 1..l /\ DOMAIN w = 1..l
  BY RowLength DEF ScaledRow
<1>2. PICK T : T = 1..l
  OBVIOUS
<1>3. v \in [T -> Int] /\ w \in [T -> Int] /\ \A k \in T : w[k] = p * v[k]
  <2>1. \A k \in 1..l : v[k] \in Int /\ w[k] = p * v[k]
    BY DEF ScaledRow
  <2>2. \A k \in 1..l : w[k] \in Int
    BY <2>1
  <2>3. v = [k \in 1..l |-> v[k]] /\ w = [k \in 1..l |-> w[k]]
    BY DEF ScaledRow, Row
  <2> QED
    BY <1>2, <2>1, <2>2, <2>3
<1>4. IsFiniteSet(T)
  BY <1>1, <1>2, FS_Interval
<1>5. SumOf(v) = Total(v, T)
  BY <1>1, <1>2, Zenon DEF SumOf, Total
<1>6. SumOf(w) = Total(w, T)
  BY <1>1, <1>2, Zenon DEF SumOf, Total
<1>7. Total(v, T) \in Int
  BY <1>3, <1>4, TotalInt
<1>8. Total(w, T) = p * Total(v, T)
  BY <1>3, <1>4, TotalScales
<1> QED
  BY <1>5, <1>6, <1>7, <1>8

\* The last scaled numbers are scaled.
LEMMA SuffixScales ==
  ASSUME NEW v, NEW w, NEW l, NEW p \in Int, ScaledRow(v, w, l, p), NEW n \in 0..l
  PROVE  ScaledRow(Suffix(v, n), Suffix(w, n), n, p)
<1>1. l \in Nat /\ Row(v, l) /\ Row(w, l)
  BY RowLength DEF ScaledRow
<1>2. PICK a, b : a = Suffix(v, n) /\ b = Suffix(w, n)
  OBVIOUS
<1>3. a = [i \in 1..n |-> v[l - n + i]] /\ Row(a, n)
  BY <1>1, <1>2, SuffixIs
<1>4. b = [i \in 1..n |-> w[l - n + i]] /\ Row(b, n)
  BY <1>1, <1>2, SuffixIs
<1>5. ASSUME NEW k \in 1..n PROVE a[k] \in Int /\ b[k] = p * a[k]
  <2>1. PICK m : m = l - n + k
    OBVIOUS
  <2>2. m \in 1..l
    BY <1>1, <2>1
  <2>3. a[k] = v[m] /\ b[k] = w[m]
    BY <1>3, <1>4, <2>1
  <2>4. v[m] \in Int /\ w[m] = p * v[m]
    BY <2>2 DEF ScaledRow
  <2> QED
    BY <2>3, <2>4
<1> QED
  BY <1>2, <1>3, <1>4, <1>5 DEF ScaledRow

\* The simple average.
LEMMA MeansScale ==
  ASSUME NEW v, NEW w, NEW l, NEW p \in Int, ScaledRow(v, w, l, p), NEW n \in Nat
  PROVE  UpBy(p, SimpleMovingAverage(v, n), SimpleMovingAverage(w, n))
<1>1. l \in Nat /\ Len(v) = l /\ Len(w) = l
  BY RowLength DEF ScaledRow
<1>2. CASE l < n
  <2>1. SimpleMovingAverage(v, n) = Missing /\ SimpleMovingAverage(w, n) = Missing
    BY <1>1, <1>2 DEF SimpleMovingAverage
  <2> QED
    BY <2>1 DEF UpBy
<1>3. CASE ~(l < n)
  <2>1. PICK a, b : a = Suffix(v, n) /\ b = Suffix(w, n)
    OBVIOUS
  <2>2. n \in 0..l
    BY <1>1, <1>3
  <2>3. ScaledRow(a, b, n, p)
    BY <2>1, <2>2, SuffixScales
  <2>4. SumOf(a) \in Int /\ SumOf(b) = p * SumOf(a)
    BY <2>3, PartSumScales
  <2>5. PICK x \in Int, y \in Int : x = SumOf(a) /\ y = SumOf(b) /\ y = p * x
    BY <2>4
  <2>6. SimpleMovingAverage(v, n) = <<x, n>>
    BY <1>1, <1>3, <2>1, <2>5, Zenon DEF SimpleMovingAverage
  <2>7. SimpleMovingAverage(w, n) = <<y, n>>
    BY <1>1, <1>3, <2>1, <2>5, Zenon DEF SimpleMovingAverage
  <2> QED
    BY <2>5, <2>6, <2>7 DEF UpBy, Quotients
<1> QED
  BY <1>2, <1>3

\* A turn of the exponential average.
LEMMA NextEmaIs ==
  ASSUME NEW e \in Quotients, NEW v \in Int, NEW n \in Int, NEW p \in Int
  PROVE  /\ NextEma(e, v, n) \in Quotients
         /\ \A f \in Quotients : f[1] = p * e[1] /\ f[2] = e[2] =>
              /\ NextEma(f, p * v, n)[1] = p * NextEma(e, v, n)[1]
              /\ NextEma(f, p * v, n)[2] = NextEma(e, v, n)[2]
<1>1. PICK a \in Int, b \in Int : a = e[1] /\ b = e[2]
  BY DEF Quotients
<1>2. PICK x \in Int, y \in Int : x = v * b /\ y = (n - 1) * a
  OBVIOUS
<1>3. PICK z \in Int : z = (n + 1) * b
  OBVIOUS
<1>4. NextEma(e, v, n) = <<2 * x + y, z>>
  <2>1. 2 * v * b = 2 * x
    BY <1>2
  <2> QED
    BY <1>1, <1>2, <1>3, <2>1 DEF NextEma
<1>5. ASSUME NEW f \in Quotients, f[1] = p * e[1] /\ f[2] = e[2]
      PROVE  NextEma(f, p * v, n) = <<p * (2 * x + y), z>>
  <2>1. 2 * (p * v) * b + (n - 1) * (p * a) = p * (2 * x + y)
    <3>1. 2 * (p * v) * b = 2 * (p * x)
      BY <1>2
    <3>2. (n - 1) * (p * a) = p * y
      BY <1>2
    <3>3. p * (2 * x + y) = 2 * (p * x) + p * y
      OBVIOUS
    <3> QED
      BY <3>1, <3>2, <3>3
  <2> QED
    BY <1>1, <1>3, <1>5, <2>1 DEF NextEma
<1>6. NextEma(e, v, n) \in Quotients
  BY <1>4 DEF Quotients
<1> QED
  BY <1>4, <1>5, <1>6

\* The exponential average.
LEMMA EmasScale ==
  ASSUME NEW v, NEW w, NEW l, NEW p \in Int, ScaledRow(v, w, l, p), NEW n \in Nat, n > 0
  PROVE  UpBy(p, ExponentialMovingAverage(v, n), ExponentialMovingAverage(w, n))
<1>1. l \in Nat /\ Len(v) = l /\ Len(w) = l /\ Row(v, l) /\ Row(w, l)
  BY RowLength DEF ScaledRow
<1>2. CASE l < n
  <2>1. ExponentialMovingAverage(v, n) = Missing
    BY <1>1, <1>2, Zenon DEF ExponentialMovingAverage
  <2>2. ExponentialMovingAverage(w, n) = Missing
    BY <1>1, <1>2, Zenon DEF ExponentialMovingAverage
  <2> QED
    BY <2>1, <2>2 DEF UpBy
<1>3. CASE ~(l < n)
  <2>1. n \in 1..l /\ n \in 0..l
    BY <1>1, <1>3
  <2>2. PICK m \in Nat : m = l - n
    BY <1>1, <2>1
  <2>3. PICK a, b : a = SubSeq(v, 1, n) /\ b = SubSeq(w, 1, n)
    OBVIOUS
  <2>4. ScaledRow(a, b, n, p)
    <3>1. 1 \in 1..(l + 1) /\ n \in 0..l /\ 1 <= n + 1 /\ n - 1 + 1 = n
      BY <1>1, <2>1
    <3>2. \A i \in 1..n : 1 + i - 1 = i
      OBVIOUS
    <3>3. a = [i \in 1..(n - 1 + 1) |-> v[1 + i - 1]]
      BY <1>1, <2>3, <3>1, PartOfRow
    <3>4. b = [i \in 1..(n - 1 + 1) |-> w[1 + i - 1]]
      BY <1>1, <2>3, <3>1, PartOfRow
    <3>5. a = [i \in 1..n |-> v[i]] /\ b = [i \in 1..n |-> w[i]]
      BY <3>1, <3>2, <3>3, <3>4
    <3>6. \A i \in 1..n : i \in 1..l
      BY <1>1, <2>1
    <3> QED
      BY <3>5, <3>6 DEF ScaledRow, Row
  <2>5. PICK x \in Int, y \in Int : x = SumOf(a) /\ y = SumOf(b) /\ y = p * x
    <3>1. SumOf(a) \in Int /\ SumOf(b) = p * SumOf(a)
      BY <2>4, PartSumScales
    <3> QED
      BY <3>1
  <2>6. <<x, n>> \in Quotients /\ <<y, n>> \in Quotients
    BY DEF Quotients
  <2>7. ASSUME NEW k \in 1..l PROVE v[k] \in Int /\ w[k] \in Int /\ w[k] = p * v[k]
    <3>1. v[k] \in Int /\ w[k] = p * v[k]
      BY DEF ScaledRow
    <3> QED
      BY <3>1
  <2>8. PICK A : EmaRun(A, v, n, m, Quotients)
    <3>1. \A e \in Quotients, k \in 1..l : NextEma(e, v[k], n) \in Quotients
      <4>1. n \in Int /\ p \in Int
        OBVIOUS
      <4> QED
        BY <2>7, <4>1, NextEmaIs
    <3>2. <<SumOf(SubSeq(v, 1, n)), n>> \in Quotients
      BY <2>3, <2>5, <2>6
    <3>3. EmaClosed(v, l, n, Quotients)
      BY <3>1, <3>2 DEF EmaClosed
    <3>4. \E A : EmaRun(A, v, n, l - n, Quotients)
      BY <1>1, <2>1, <3>3, EmaLoops
    <3> QED
      BY <2>2, <3>4
  <2>9. PICK B : EmaRun(B, w, n, m, Quotients)
    <3>1. \A e \in Quotients, k \in 1..l : NextEma(e, w[k], n) \in Quotients
      <4>1. n \in Int /\ p \in Int
        OBVIOUS
      <4> QED
        BY <2>7, <4>1, NextEmaIs
    <3>2. <<SumOf(SubSeq(w, 1, n)), n>> \in Quotients
      BY <2>3, <2>5, <2>6
    <3>3. EmaClosed(w, l, n, Quotients)
      BY <3>1, <3>2 DEF EmaClosed
    <3>4. \E B : EmaRun(B, w, n, l - n, Quotients)
      BY <1>1, <2>1, <3>3, EmaLoops
    <3> QED
      BY <2>2, <3>4
  <2>20. /\ A \in [0..m -> Quotients] /\ EmaTurns(A, v, n, m) /\ ExponentialMovingAverage(v, n) = A[m]
         /\ B \in [0..m -> Quotients] /\ EmaTurns(B, w, n, m) /\ ExponentialMovingAverage(w, n) = B[m]
    BY <2>8, <2>9 DEF EmaRun
  <2> DEFINE G == {k \in 0..m : B[k][1] = p * A[k][1] /\ B[k][2] = A[k][2]}
  <2>10. 0 \in G
    <3>1. A[0] = <<x, n>> /\ B[0] = <<y, n>>
      BY <2>3, <2>5, <2>20 DEF EmaTurns
    <3> QED
      BY <2>5, <3>1
  <2>11. ASSUME NEW k \in 1..m, k - 1 \in G PROVE k \in G
    <3>1. PICK e \in Quotients, f \in Quotients : e = A[k - 1] /\ f = B[k - 1]
      <4>1. k - 1 \in 0..m
        OBVIOUS
      <4> QED
        BY <2>20, <4>1
    <3>2. f[1] = p * e[1] /\ f[2] = e[2]
      BY <2>11, <3>1
    <3>3. n + k \in 1..l
      BY <1>1, <2>1, <2>2
    <3>4. PICK z \in Int : z = v[n + k] /\ w[n + k] = p * z
      BY <2>7, <3>3
    <3>5. A[k] = NextEma(e, z, n) /\ B[k] = NextEma(f, p * z, n)
      BY <2>20, <3>1, <3>4 DEF EmaTurns
    <3>6. NextEma(f, p * z, n)[1] = p * NextEma(e, z, n)[1] /\ NextEma(f, p * z, n)[2] = NextEma(e, z, n)[2]
      <4>1. n \in Int
        OBVIOUS
      <4> QED
        BY <3>1, <3>2, <3>4, <4>1, NextEmaIs
    <3> QED
      BY <3>5, <3>6
  <2> HIDE DEF G
  <2>12. m \in 0..m
    BY <2>2
  <2>13. m \in G
    BY <2>10, <2>11, <2>12, UpToInduction
  <2>14. B[m][1] = p * A[m][1] /\ B[m][2] = A[m][2] /\ A[m] \in Quotients /\ B[m] \in Quotients
    BY <2>20, <2>12, <2>13 DEF G
  <2> QED
    BY <2>20, <2>14 DEF UpBy
<1> QED
  BY <1>2, <1>3

(***************************************************************************)
(* The setups as functions of the ratios they compare.                     *)
(***************************************************************************)

BoxVerdict(width, breakout, volumeRatio, trend, above, positive, over, up) ==
  LET rules == <<trend, above, positive /\ AtMost(width, 15), over, AtLeast(volumeRatio, 120), up>>
  IN [ok |-> All(rules), rules |-> rules,
      score |-> Weighted(<< <<35, LowIsGood(width, 5, 15)>>,
                            <<30, HighIsGood(breakout, 0, 5)>>,
                            <<35, HighIsGood(volumeRatio, 120, 300)>> >>)]

PullbackVerdict(depth, distance, volumeRatio, body, trend, above, positive, supported, rising, up) ==
  LET rules == <<trend, above, positive, AtLeast(depth, 3) /\ AtMost(depth, 12), AtMost(distance, 4),
                 supported, rising, up, AtMost(volumeRatio, 90)>>
  IN [ok |-> All(rules), rules |-> rules,
      score |-> Weighted(<< <<35, TriangularScore(depth, 3, 6, 12)>>,
                            <<30, LowIsGood(distance, 0, 4)>>,
                            <<20, LowIsGood(volumeRatio, 50, 90)>>,
                            <<15, HighIsGood(body, 0, 3)>> >>)]

ContractionVerdict(width, rangeRatio, volumeRatio, breakoutRatio, trend, above, positive, moving,
                   trading, over, up) ==
  LET rules == <<trend, above, positive /\ AtMost(width, 8), moving /\ AtMost(rangeRatio, 70),
                 trading /\ AtMost(volumeRatio, 80), over, AtLeast(breakoutRatio, 120), up>>
  IN [ok |-> All(rules), rules |-> rules,
      score |-> Weighted(<< <<30, LowIsGood(width, 3, 8)>>,
                            <<25, LowIsGood(rangeRatio, 40, 70)>>,
                            <<20, LowIsGood(volumeRatio, 50, 80)>>,
                            <<25, HighIsGood(breakoutRatio, 120, 300)>> >>)]

\* Equal ratios, equal verdicts.
LEMMA BoxVerdictScales ==
  ASSUME NEW w, NEW x, SameRatio(w, x), NEW b, NEW c, SameRatio(b, c), NEW r, NEW s, SameRatio(r, s),
         NEW trend, NEW above, NEW positive, NEW over, NEW up
  PROVE  BoxVerdict(x, c, s, trend, above, positive, over, up)
           = BoxVerdict(w, b, r, trend, above, positive, over, up)
<1>1. AtMost(x, 15) = AtMost(w, 15)
  BY SameRatioJudged
<1>2. AtLeast(s, 120) = AtLeast(r, 120)
  BY SameRatioJudged
<1>3. LowIsGood(x, 5, 15) = LowIsGood(w, 5, 15)
  BY SameRatioScored
<1>4. HighIsGood(c, 0, 5) = HighIsGood(b, 0, 5)
  BY SameRatioScored
<1>5. HighIsGood(s, 120, 300) = HighIsGood(r, 120, 300)
  BY SameRatioScored
<1> QED
  BY <1>1, <1>2, <1>3, <1>4, <1>5 DEF BoxVerdict

\* The same of the pullback.
LEMMA PullbackVerdictScales ==
  ASSUME NEW d, NEW e, SameRatio(d, e), NEW n, NEW m, SameRatio(n, m), NEW r, NEW s, SameRatio(r, s),
         NEW b, NEW c, SameRatio(b, c),
         NEW trend, NEW above, NEW positive, NEW supported, NEW rising, NEW up
  PROVE  PullbackVerdict(e, m, s, c, trend, above, positive, supported, rising, up)
           = PullbackVerdict(d, n, r, b, trend, above, positive, supported, rising, up)
<1>1. AtLeast(e, 3) = AtLeast(d, 3)
  BY SameRatioJudged
<1>2. AtMost(e, 12) = AtMost(d, 12)
  BY SameRatioJudged
<1>3. AtMost(m, 4) = AtMost(n, 4)
  BY SameRatioJudged
<1>4. AtMost(s, 90) = AtMost(r, 90)
  BY SameRatioJudged
<1>5. TriangularScore(e, 3, 6, 12) = TriangularScore(d, 3, 6, 12)
  BY SameRatioTriangle
<1>6. LowIsGood(m, 0, 4) = LowIsGood(n, 0, 4)
  BY SameRatioScored
<1>7. LowIsGood(s, 50, 90) = LowIsGood(r, 50, 90)
  BY SameRatioScored
<1>8. HighIsGood(c, 0, 3) = HighIsGood(b, 0, 3)
  BY SameRatioScored
<1> QED
  BY <1>1, <1>2, <1>3, <1>4, <1>5, <1>6, <1>7, <1>8 DEF PullbackVerdict

\* And of the contraction.
LEMMA ContractionVerdictScales ==
  ASSUME NEW w, NEW x, SameRatio(w, x), NEW r, NEW s, SameRatio(r, s), NEW v, NEW u, SameRatio(v, u),
         NEW b, NEW c, SameRatio(b, c),
         NEW trend, NEW above, NEW positive, NEW moving, NEW trading, NEW over, NEW up
  PROVE  ContractionVerdict(x, s, u, c, trend, above, positive, moving, trading, over, up)
           = ContractionVerdict(w, r, v, b, trend, above, positive, moving, trading, over, up)
<1>1. AtMost(x, 8) = AtMost(w, 8)
  BY SameRatioJudged
<1>2. AtMost(s, 70) = AtMost(r, 70)
  BY SameRatioJudged
<1>3. AtMost(u, 80) = AtMost(v, 80)
  BY SameRatioJudged
<1>4. AtLeast(c, 120) = AtLeast(b, 120)
  BY SameRatioJudged
<1>5. LowIsGood(x, 3, 8) = LowIsGood(w, 3, 8)
  BY SameRatioScored
<1>6. LowIsGood(s, 40, 70) = LowIsGood(r, 40, 70)
  BY SameRatioScored
<1>7. LowIsGood(u, 50, 80) = LowIsGood(v, 50, 80)
  BY SameRatioScored
<1>8. HighIsGood(c, 120, 300) = HighIsGood(b, 120, 300)
  BY SameRatioScored
<1> QED
  BY <1>1, <1>2, <1>3, <1>4, <1>5, <1>6, <1>7, <1>8 DEF ContractionVerdict

\* What each setup reads of the bars.
BoxRead(bs, ind) ==
  LET latest == Last(bs)
      prior == PriorBars(bs, BoxLookback)
      hi == Highest(prior)
  IN BoxVerdict(Div(Whole(hi - Lowest(prior)), Whole(hi)), Div(Whole(latest.close - hi), Whole(hi)),
                Div(Whole(latest.volume), <<SumOf(Volumes(prior)), Len(prior)>>),
                Trend(ind), Above(latest.close, ind.sma20), hi > 0, latest.close >= hi,
                latest.close >= latest.open)

EmaOf(ind) == IF ind.ema20 = Missing THEN Zero ELSE ind.ema20
DistanceTo(latest, ema) ==
  IF ema[1] <= 0 THEN Zero ELSE <<Distance(latest.close * ema[2], ema[1]), ema[1]>>
SupportedBy(latest, sma) == sma # Missing /\ 100 * latest.close * sma[2] >= 98 * sma[1]

PullbackRead(bs, ind) ==
  LET latest == Last(bs)
      prior == PriorBars(bs, PullbackLookback)
      peak == Max({prior[i].close : i \in DOMAIN prior})
      recent == Suffix(prior, PullbackVolumeLookback)
  IN PullbackVerdict(Div(Whole(peak - latest.close), Whole(peak)), DistanceTo(latest, EmaOf(ind)),
                     Div(<<SumOf(Volumes(recent)), PullbackVolumeLookback>>,
                         <<SumOf(Volumes(prior)), Len(prior)>>),
                     Div(Whole(latest.close - latest.open), Whole(latest.open)),
                     Trend(ind), Above(latest.close, ind.sma60), EmaOf(ind)[1] > 0,
                     SupportedBy(latest, ind.sma20), latest.close > bs[Len(bs) - 1].close,
                     latest.close >= latest.open)

RangesOf(span) == [i \in 1..(Len(span) - 1) |-> TrueRange(span[i + 1], span[i].close)]

ContractionRead(bs, ind) ==
  LET latest == Last(bs)
      prior == PriorBars(bs, LongLookback)
      range == Suffix(prior, RangeLookback)
      hi == Highest(range)
      ranges == RangesOf(PriorBars(bs, LongLookback + 1))
      longRange == <<SumOf(ranges), Len(ranges)>>
      longVolume == <<SumOf(Volumes(prior)), Len(prior)>>
      recent == Suffix(prior, ShortLookback)
  IN ContractionVerdict(Div(Whole(hi - Lowest(range)), Whole(hi)),
                        Div(<<SumOf(Suffix(ranges, ShortLookback)), ShortLookback>>, longRange),
                        Div(<<SumOf(Volumes(recent)), ShortLookback>>, longVolume),
                        Div(Whole(latest.volume), longVolume),
                        Trend(ind), Above(latest.close, ind.sma20), hi > 0, longRange[1] > 0,
                        longVolume[1] > 0, latest.close >= hi, latest.close >= latest.open)

\* The setups are those functions when there are bars enough.
LEMMA SetupsRead ==
  ASSUME NEW bs, NEW ind
  PROVE  /\ Box(bs, ind) = IF Len(bs) < BoxLookback + 1 THEN NotEvaluated ELSE BoxRead(bs, ind)
         /\ Pullback(bs, ind)
              = IF Len(bs) < PullbackLookback + 1 THEN NotEvaluated ELSE PullbackRead(bs, ind)
         /\ Contraction(bs, ind)
              = IF Len(bs) < LongLookback + 2 THEN NotEvaluated ELSE ContractionRead(bs, ind)
<1>1. Box(bs, ind) = IF Len(bs) < BoxLookback + 1 THEN NotEvaluated ELSE BoxRead(bs, ind)
  BY Zenon DEF Box, BoxRead, BoxVerdict
<1>2. Pullback(bs, ind)
        = IF Len(bs) < PullbackLookback + 1 THEN NotEvaluated ELSE PullbackRead(bs, ind)
  BY Zenon DEF Pullback, PullbackRead, PullbackVerdict, EmaOf, DistanceTo, SupportedBy
<1>3. Contraction(bs, ind)
        = IF Len(bs) < LongLookback + 2 THEN NotEvaluated ELSE ContractionRead(bs, ind)
  BY Zenon DEF Contraction, ContractionRead, ContractionVerdict, RangesOf
<1> QED
  BY <1>1, <1>2, <1>3

(***************************************************************************)
(* What the setups read of scaled bars and averages.                       *)
(***************************************************************************)

\* An average that is there, and its scaled one.
LEMMA UpByIs ==
  ASSUME NEW p, NEW a, NEW b, UpBy(p, a, b)
  PROVE  /\ (b = Missing) = (a = Missing)
         /\ a # Missing => /\ a[1] \in Int /\ a[2] \in Int /\ b[1] = p * a[1] /\ b[2] = a[2]
                           /\ a \in Quotients /\ b \in Quotients
<1>1. Missing \notin Quotients
  BY DEF Missing, Quotients
<1> QED
  BY <1>1 DEF UpBy, Quotients

\* The trend is the same.
LEMMA TrendScales ==
  ASSUME NEW p \in Nat, p > 0, NEW i, NEW j, UpBy(p, i.sma20, j.sma20), UpBy(p, i.sma60, j.sma60)
  PROVE  Trend(j) = Trend(i)
<1>1. (j.sma20 = Missing) = (i.sma20 = Missing) /\ (j.sma60 = Missing) = (i.sma60 = Missing)
  BY UpByIs
<1>2. ASSUME i.sma20 # Missing, i.sma60 # Missing
      PROVE  Less(j.sma60, j.sma20) = Less(i.sma60, i.sma20)
  <2>1. PICK a \in Int, b \in Int : a = i.sma60[1] /\ b = i.sma60[2] /\ j.sma60[1] = p * a /\ j.sma60[2] = b
    BY <1>2, UpByIs
  <2>2. PICK c \in Int, d \in Int : c = i.sma20[1] /\ d = i.sma20[2] /\ j.sma20[1] = p * c /\ j.sma20[2] = d
    BY <1>2, UpByIs
  <2>3. PICK x \in Int, y \in Int : x = a * d /\ y = c * b
    OBVIOUS
  <2>4. (p * a) * d = p * x /\ (p * c) * b = p * y
    BY <2>3
  <2>5. (p * y <= p * x) = (y <= x)
    BY FactorKeepsSign
  <2>6. PICK u \in Int, v \in Int : u = p * x /\ v = p * y
    OBVIOUS
  <2>7. Less(i.sma60, i.sma20) = (x < y)
    BY <2>1, <2>2, <2>3 DEF Less
  <2>8. Less(j.sma60, j.sma20) = (u < v)
    BY <2>1, <2>2, <2>4, <2>6 DEF Less
  <2> QED
    BY <2>5, <2>6, <2>7, <2>8
<1> QED
  BY <1>1, <1>2 DEF Trend

\* A close is above the same average.
LEMMA AboveScales ==
  ASSUME NEW p \in Nat, p > 0, NEW x \in Int, NEW a, NEW b, UpBy(p, a, b)
  PROVE  Above(p * x, b) = Above(x, a)
<1>1. (b = Missing) = (a = Missing)
  BY UpByIs
<1>2. ASSUME a # Missing PROVE Less(b, Whole(p * x)) = Less(a, Whole(x))
  <2>1. PICK m \in Int, n \in Int : m = a[1] /\ n = a[2] /\ b[1] = p * m /\ b[2] = n
    BY <1>2, UpByIs
  <2>2. PICK y \in Int : y = x * n
    OBVIOUS
  <2>3. (p * x) * n = p * y
    BY <2>2
  <2>4. (p * y <= p * m) = (y <= m)
    BY FactorKeepsSign
  <2>5. PICK u \in Int, v \in Int : u = p * m /\ v = p * y
    OBVIOUS
  <2>6. Less(a, Whole(x)) = (m < y)
    BY <2>1, <2>2 DEF Less, Whole
  <2>7. Less(b, Whole(p * x)) = (u < v)
    BY <2>1, <2>3, <2>5 DEF Less, Whole
  <2> QED
    BY <2>4, <2>5, <2>6, <2>7
<1> QED
  BY <1>1, <1>2 DEF Above

\* A close is supported by the same average.
LEMMA SupportScales ==
  ASSUME NEW p \in Nat, p > 0, NEW x, NEW y, x.close \in Int, y.close = p * x.close,
         NEW a, NEW b, UpBy(p, a, b)
  PROVE  SupportedBy(y, b) = SupportedBy(x, a)
<1>1. (b = Missing) = (a = Missing)
  BY UpByIs
<1>2. ASSUME a # Missing
      PROVE  (100 * y.close * b[2] >= 98 * b[1]) = (100 * x.close * a[2] >= 98 * a[1])
  <2>1. PICK m \in Int, n \in Int : m = a[1] /\ n = a[2] /\ b[1] = p * m /\ b[2] = n
    BY <1>2, UpByIs
  <2>2. PICK c \in Int : c = x.close /\ y.close = p * c
    OBVIOUS
  <2>3. PICK u \in Int : u = c * n
    OBVIOUS
  <2>4. PICK w \in Int, z \in Int : w = 100 * u /\ z = 98 * m
    OBVIOUS
  <2>5. 100 * c * n = w /\ 100 * (p * c) * n = p * w /\ 98 * (p * m) = p * z
    BY <2>3, <2>4
  <2>6. (p * z <= p * w) = (z <= w)
    BY FactorKeepsSign
  <2>7. PICK f \in Int, g \in Int : f = p * z /\ g = p * w
    OBVIOUS
  <2>8. (100 * x.close * a[2] >= 98 * a[1]) = (w >= z)
    BY <2>1, <2>2, <2>4, <2>5
  <2>9. (100 * y.close * b[2] >= 98 * b[1]) = (g >= f)
    BY <2>1, <2>2, <2>5, <2>7
  <2> QED
    BY <2>6, <2>7, <2>8, <2>9
<1> QED
  BY <1>1, <1>2 DEF SupportedBy

\* The exponential average, or 0.
LEMMA EmaOfScales ==
  ASSUME NEW p \in Nat, p > 0, NEW i, NEW j, UpBy(p, i.ema20, j.ema20)
  PROVE  /\ EmaOf(i) \in Quotients /\ EmaOf(j) \in Quotients
         /\ EmaOf(j)[1] = p * EmaOf(i)[1] /\ EmaOf(j)[2] = EmaOf(i)[2]
<1>1. CASE i.ema20 = Missing
  <2>1. j.ema20 = Missing
    BY <1>1, UpByIs
  <2>2. EmaOf(i) = <<0, 1>> /\ EmaOf(j) = <<0, 1>>
    BY <1>1, <2>1 DEF EmaOf, Zero
  <2>3. 0 = p * 0
    OBVIOUS
  <2> QED
    BY <2>2, <2>3 DEF Quotients
<1>2. CASE i.ema20 # Missing
  <2>1. j.ema20 # Missing
    BY <1>2, UpByIs
  <2>2. EmaOf(i) = i.ema20 /\ EmaOf(j) = j.ema20
    BY <1>2, <2>1 DEF EmaOf
  <2> QED
    BY <1>2, <2>2, UpByIs
<1> QED
  BY <1>1, <1>2

\* The distance of scaled numbers.
LEMMA DistanceScales ==
  ASSUME NEW p \in Nat, p > 0, NEW a \in Int, NEW b \in Int
  PROVE  Distance(a, b) \in Int /\ Distance(p * a, p * b) = p * Distance(a, b)
<1>1. PICK x \in Int, y \in Int : x = p * a /\ y = p * b
  OBVIOUS
<1>2. (y <= x) = (b <= a)
  BY <1>1, FactorKeepsSign
<1>3. p * (a - b) = x - y /\ p * (b - a) = y - x
  BY <1>1
<1> QED
  BY <1>1, <1>2, <1>3 DEF Distance

\* The distance of the close to its average.
LEMMA DistanceToScales ==
  ASSUME NEW p \in Nat, p > 0, NEW x, NEW y, x.close \in Int, y.close = p * x.close,
         NEW a \in Quotients, NEW b \in Quotients, b[1] = p * a[1], b[2] = a[2]
  PROVE  SameRatio(DistanceTo(x, a), DistanceTo(y, b)) /\ (b[1] > 0) = (a[1] > 0)
<1>1. PICK m \in Int, n \in Int : m = a[1] /\ n = a[2]
  BY DEF Quotients
<1>2. PICK u \in Int : u = p * m
  OBVIOUS
<1>3. b[1] = u /\ b[2] = n /\ (u <= 0) = (m <= 0)
  <2>1. (p * m <= p * 0) = (m <= 0)
    BY FactorKeepsSign
  <2>2. p * 0 = 0
    OBVIOUS
  <2> QED
    BY <1>1, <1>2, <2>1, <2>2
<1>4. PICK c \in Int : c = x.close /\ y.close = p * c
  OBVIOUS
<1>5. CASE m <= 0
  <2>1. DistanceTo(x, a) = <<0, 1>> /\ DistanceTo(y, b) = <<0, 1>>
    BY <1>1, <1>3, <1>5 DEF DistanceTo, Zero
  <2>2. SameRatio(<<0, 1>>, <<0, 1>>)
    <3>1. 1 \in Nat /\ 1 > 0 /\ 0 = 1 * 0 /\ 1 = 1 * 1
      OBVIOUS
    <3> QED
      BY <3>1 DEF SameRatio, Quotients
  <2> QED
    BY <1>1, <1>3, <1>5, <2>1, <2>2
<1>6. CASE m > 0
  <2>1. PICK k \in Int : k = c * n
    OBVIOUS
  <2>2. (p * c) * n = p * k
    BY <2>1
  <2>3. PICK d \in Int : d = Distance(k, m) /\ Distance(p * k, p * m) = p * d
    <3>1. k \in Int /\ m \in Int
      OBVIOUS
    <3>2. Distance(k, m) \in Int /\ Distance(p * k, p * m) = p * Distance(k, m)
      BY <3>1, DistanceScales
    <3> QED
      BY <3>2
  <2>4. DistanceTo(x, a) = <<d, m>>
    BY <1>1, <1>4, <1>6, <2>1, <2>3 DEF DistanceTo
  <2>5. PICK z \in Int : z = p * d
    OBVIOUS
  <2>6. DistanceTo(y, b) = <<z, u>>
    BY <1>2, <1>3, <1>4, <1>6, <2>2, <2>3, <2>5 DEF DistanceTo
  <2>7. SameRatio(<<d, m>>, <<z, u>>)
    BY <1>2, <2>5 DEF SameRatio, Quotients
  <2> QED
    BY <1>1, <1>3, <1>6, <2>4, <2>6, <2>7
<1> QED
  BY <1>5, <1>6

\* The indicators of scaled bars.
LEMMA IndicatorsScale ==
  ASSUME NEW s, NEW l, History(s, l), NEW p \in Nat, p > 0, NEW v \in Nat
  PROVE  LET i == Indicators(s)
             j == Indicators(Scaled(s, p, v))
         IN UpBy(p, i.sma20, j.sma20) /\ UpBy(p, i.sma60, j.sma60) /\ UpBy(p, i.ema20, j.ema20)
<1>1. PICK t : t = Scaled(s, p, v)
  OBVIOUS
<1>2. PICK a, b : a = Closes(s) /\ b = Closes(t)
  OBVIOUS
<1>3. Row(a, l) /\ \A k \in 1..l : a[k] = s[k].close /\ a[k] \in Int
  BY <1>2, ClosesAre
<1>4. Row(t, l) /\ \A k \in 1..l : t[k].close = p * s[k].close
  <2>1. p \in Int /\ v \in Int
    OBVIOUS
  <2> QED
    BY <1>1, <2>1, ScaledIs
<1>5. l \in Nat /\ DOMAIN t = 1..l
  BY <1>4, RowLength
<1>6. b = [k \in 1..l |-> t[k].close]
  BY <1>2, <1>5 DEF Closes
<1>7. ScaledRow(a, b, l, p)
  BY <1>3, <1>4, <1>5, <1>6 DEF ScaledRow, Row
<1>8. Sma20 \in Nat /\ Sma60 \in Nat /\ Sma20 > 0 /\ Sma60 > 0
  BY LookbacksFit
<1>9. p \in Int
  OBVIOUS
<1>10. UpBy(p, SimpleMovingAverage(a, Sma20), SimpleMovingAverage(b, Sma20))
  BY <1>7, <1>8, <1>9, MeansScale
<1>11. UpBy(p, SimpleMovingAverage(a, Sma60), SimpleMovingAverage(b, Sma60))
  BY <1>7, <1>8, <1>9, MeansScale
<1>12. UpBy(p, ExponentialMovingAverage(a, Sma20), ExponentialMovingAverage(b, Sma20))
  BY <1>7, <1>8, <1>9, EmasScale
<1> QED
  BY <1>1, <1>2, <1>10, <1>11, <1>12 DEF Indicators

\* The largest of three scaled numbers.
LEMMA MaxOfThreeScales ==
  ASSUME NEW p \in Nat, NEW a \in Int, NEW b \in Int, NEW c \in Int,
         NEW x \in Int, NEW y \in Int, NEW z \in Int, x = p * a, y = p * b, z = p * c
  PROVE  Max({a, b, c}) \in Int /\ Max({x, y, z}) = p * Max({a, b, c})
<1>1. PICK S : S = {a, b, c}
  OBVIOUS
<1>2. IsFiniteSet(S) /\ S \subseteq Int /\ S # {}
  <2>1. IsFiniteSet({c}) /\ IsFiniteSet({b, c}) /\ IsFiniteSet({a, b, c})
    <3>1. IsFiniteSet({c})
      BY FS_Singleton
    <3>2. IsFiniteSet({c} \cup {b})
      BY <3>1, FS_AddElement
    <3>3. {c} \cup {b} = {b, c} /\ {b, c} \cup {a} = {a, b, c}
      OBVIOUS
    <3>4. IsFiniteSet({b, c} \cup {a})
      BY <3>2, <3>3, FS_AddElement
    <3> QED
      BY <3>1, <3>2, <3>3, <3>4
  <2> QED
    BY <1>1, <2>1
<1>3. PICK m \in Int : m = Max(S) /\ m \in S /\ \A e \in S : m >= e
  <2>1. Max(S) \in S /\ \A e \in S : Max(S) >= e
    BY <1>2, MaxOf
  <2> QED
    BY <1>2, <2>1
<1>5. PICK u \in Int : u = p * m
  OBVIOUS
<1>6. a <= m /\ b <= m /\ c <= m /\ m \in {a, b, c}
  BY <1>1, <1>3
<1>7. p * a <= p * m /\ p * b <= p * m /\ p * c <= p * m
  <2>1. p * a <= p * m
    BY <1>6, TimesKeepsOrder
  <2>2. p * b <= p * m
    BY <1>6, TimesKeepsOrder
  <2>3. p * c <= p * m
    BY <1>6, TimesKeepsOrder
  <2> QED
    BY <2>1, <2>2, <2>3
<1>8. u \in {x, y, z} /\ \A k \in {x, y, z} : u >= k
  <2>1. u \in {x, y, z}
    BY <1>5, <1>6
  <2> QED
    BY <1>5, <1>7, <2>1
<1>9. Max({x, y, z}) = u
  <2>1. {x, y, z} \subseteq Int
    OBVIOUS
  <2> QED
    BY <1>8, <2>1, MaxIs
<1> QED
  BY <1>1, <1>3, <1>5, <1>9

\* The true ranges of scaled bars.
LEMMA RangesScale ==
  ASSUME NEW w, NEW n, History(w, n), n > 0, NEW p \in Nat, p > 0, NEW v \in Nat
  PROVE  ScaledRow(RangesOf(w), RangesOf(Scaled(w, p, v)), n - 1, p)
<1>1. n \in Nat /\ Len(w) = n
  BY RowLength DEF History
<1>2. PICK u : u = Scaled(w, p, v)
  OBVIOUS
<1>3. Row(u, n) /\ \A k \in 1..n : /\ u[k].high = p * w[k].high /\ u[k].low = p * w[k].low
                                   /\ u[k].close = p * w[k].close
  <2>1. p \in Int /\ v \in Int
    OBVIOUS
  <2> QED
    BY <1>2, <2>1, ScaledIs
<1>4. Len(u) = n
  BY <1>3, RowLength
<1>5. PICK m \in Nat : m = n - 1
  BY <1>1
<1>6. PICK f, g : f = RangesOf(w) /\ g = RangesOf(u)
  OBVIOUS
<1>7. f = [i \in 1..m |-> TrueRange(w[i + 1], w[i].close)]
  BY <1>1, <1>5, <1>6 DEF RangesOf
<1>8. g = [i \in 1..m |-> TrueRange(u[i + 1], u[i].close)]
  BY <1>4, <1>5, <1>6 DEF RangesOf
<1>9. ASSUME NEW k \in 1..m PROVE f[k] \in Int /\ g[k] = p * f[k]
  <2>1. PICK j : j = k + 1
    OBVIOUS
  <2>2. j \in 1..n /\ k \in 1..n
    BY <1>1, <1>5, <2>1
  <2>3. PICK h \in Int, o \in Int : h = w[j].high /\ o = w[j].low /\ u[j].high = p * h /\ u[j].low = p * o
    BY <1>3, <2>2, BarNumbers
  <2>4. PICK c \in Int : c = w[k].close /\ u[k].close = p * c
    BY <1>3, <2>2, BarNumbers
  <2>5. PICK x \in Int : x = Distance(h, c) /\ Distance(p * h, p * c) = p * x
    BY DistanceScales
  <2>6. PICK y \in Int : y = Distance(o, c) /\ Distance(p * o, p * c) = p * y
    BY DistanceScales, ZenonT(60)
  <2>7. PICK z \in Int : z = h - o
    OBVIOUS
  <2>8. p * h - p * o = p * z
    BY <2>7
  <2>9. f[k] = Max({z, x, y})
    BY <1>7, <2>1, <2>3, <2>4, <2>5, <2>6, <2>7 DEF TrueRange
  <2>10. PICK a \in Int, b \in Int, d \in Int : a = p * z /\ b = p * x /\ d = p * y
    OBVIOUS
  <2>11. g[k] = Max({a, b, d})
    <3>1. g[k] = TrueRange(u[j], u[k].close)
      BY <1>8, <2>1
    <3> QED
      BY <2>3, <2>4, <2>5, <2>6, <2>8, <2>10, <3>1 DEF TrueRange
  <2>12. Max({z, x, y}) \in Int /\ Max({a, b, d}) = p * Max({z, x, y})
    <3>1. /\ z \in Int /\ x \in Int /\ y \in Int /\ a \in Int /\ b \in Int /\ d \in Int
          /\ a = p * z /\ b = p * x /\ d = p * y
      BY <2>10
    <3> QED
      BY <3>1, MaxOfThreeScales
  <2> QED
    BY <2>9, <2>11, <2>12
<1>10. Row(f, m) /\ Row(g, m)
  BY <1>7, <1>8 DEF Row
<1> QED
  BY <1>2, <1>5, <1>6, <1>9, <1>10 DEF ScaledRow

(***************************************************************************)
(* The scores are numbers, and a setup that matches meets its rules.       *)
(***************************************************************************)

\* A weighted score is a number.
LEMMA WeightedIsNumber ==
  ASSUME NEW parts, NEW n \in Nat, DOMAIN parts = 1..n,
         \A i \in 1..n : parts[i][1] * parts[i][2] \in Int
  PROVE  Weighted(parts) \in Int
<1> DEFINE f == [i \in DOMAIN parts |-> parts[i][1] * parts[i][2]]
<1>1. PICK T : T = 1..n
  OBVIOUS
<1>2. Weighted(parts) = Min({10000, RoundHalfUp(SumOf(f), 100)})
  BY DEF Weighted
<1>3. f \in [T -> Int] /\ DOMAIN f = T
  BY <1>1
<1> HIDE DEF f
<1>4. SumOf(f) = Total(f, T)
  BY <1>3, Zenon DEF SumOf, Total
<1>5. IsFiniteSet(T)
  BY <1>1, FS_Interval
<1>6. PICK x \in Int : x = SumOf(f)
  BY <1>3, <1>4, <1>5, TotalInt
<1>7. PICK y \in Int : y = RoundHalfUp(x, 100)
  <2>1. PICK h \in Int : h = 100 /\ h > 0
    OBVIOUS
  <2>2. RoundHalfUp(x, h) \in Int
    BY <2>1, RoundingIsClose
  <2> QED
    BY <2>1, <2>2
<1>8. PICK m \in Int : m = 10000
  OBVIOUS
<1>9. Min({m, y}) \in Int
  BY MinOfTwo
<1> QED
  BY <1>2, <1>6, <1>7, <1>8, <1>9

\* Of three parts.
LEMMA ThreeWeighted ==
  ASSUME NEW a \in Int, NEW b \in Int, NEW c \in Int, NEW x \in Int, NEW y \in Int, NEW z \in Int
  PROVE  Weighted(<< <<a, x>>, <<b, y>>, <<c, z>> >>) \in Int
<1>1. PICK parts : parts = << <<a, x>>, <<b, y>>, <<c, z>> >>
  OBVIOUS
<1>2. PICK n \in Nat : n = 3
  OBVIOUS
<1>3. DOMAIN parts = 1..n
  BY <1>1, <1>2
<1>4. PICK d \in Int, e \in Int, f \in Int : d = a * x /\ e = b * y /\ f = c * z
  OBVIOUS
<1>5. /\ parts[1][1] * parts[1][2] = d /\ parts[2][1] * parts[2][2] = e
      /\ parts[3][1] * parts[3][2] = f
  BY <1>1, <1>4
<1>6. ASSUME NEW i \in 1..n PROVE parts[i][1] * parts[i][2] \in Int
  <2>1. i = 1 \/ i = 2 \/ i = 3
    BY <1>2
  <2> QED
    BY <1>5, <2>1
<1>7. Weighted(parts) \in Int
  BY <1>3, <1>6, WeightedIsNumber
<1> QED
  BY <1>1, <1>7

\* Of four parts.
LEMMA FourWeighted ==
  ASSUME NEW a \in Int, NEW b \in Int, NEW c \in Int, NEW d \in Int,
         NEW x \in Int, NEW y \in Int, NEW z \in Int, NEW w \in Int
  PROVE  Weighted(<< <<a, x>>, <<b, y>>, <<c, z>>, <<d, w>> >>) \in Int
<1>1. PICK parts : parts = << <<a, x>>, <<b, y>>, <<c, z>>, <<d, w>> >>
  OBVIOUS
<1>2. PICK n \in Nat : n = 4
  OBVIOUS
<1>3. DOMAIN parts = 1..n
  BY <1>1, <1>2
<1>4. PICK e \in Int, f \in Int, g \in Int, h \in Int : e = a * x /\ f = b * y /\ g = c * z /\ h = d * w
  OBVIOUS
<1>5. /\ parts[1][1] * parts[1][2] = e /\ parts[2][1] * parts[2][2] = f
      /\ parts[3][1] * parts[3][2] = g /\ parts[4][1] * parts[4][2] = h
  BY <1>1, <1>4
<1>6. ASSUME NEW i \in 1..n PROVE parts[i][1] * parts[i][2] \in Int
  <2>1. i = 1 \/ i = 2 \/ i = 3 \/ i = 4
    BY <1>2
  <2> QED
    BY <1>5, <2>1
<1>7. Weighted(parts) \in Int
  BY <1>3, <1>6, WeightedIsNumber
<1> QED
  BY <1>1, <1>7

\* The score of a quotient.
LEMMA QuotientScored ==
  ASSUME NEW q \in Quotients, NEW lo \in Int, NEW hi \in Int
  PROVE  HighIsGood(q, lo, hi) \in Int /\ LowIsGood(q, lo, hi) \in Int
<1>1. PICK a \in Int, b \in Int : q[1] = a /\ q[2] = b
  BY DEF Quotients
<1>2. PICK x \in Int, y \in Int, z \in Int : x = 100 * a - lo * b /\ y = hi * b - 100 * a /\ z = (hi - lo) * b
  <2>1. PICK u \in Int, v \in Int : u = lo * b /\ v = hi * b
    OBVIOUS
  <2>2. 100 * a - u \in Int /\ v - 100 * a \in Int /\ (hi - lo) * b \in Int
    OBVIOUS
  <2> QED
    BY <2>1, <2>2
<1>3. Score(x, z) \in Points /\ Score(y, z) \in Points
  BY ScoreIsBounded
<1>4. HighIsGood(q, lo, hi) = Score(x, z) /\ LowIsGood(q, lo, hi) = Score(y, z)
  BY <1>1, <1>2 DEF HighIsGood, LowIsGood
<1>5. \A m \in Points : m \in Int
  BY DEF Points
<1> QED
  BY <1>3, <1>4, <1>5

\* A box that matches is broken.
LEMMA BoxVerdictIs ==
  ASSUME NEW w \in Quotients, NEW b \in Quotients, NEW r \in Quotients,
         NEW trend, NEW above, NEW positive, NEW over, NEW up
  PROVE  LET x == BoxVerdict(w, b, r, trend, above, positive, over, up)
         IN x.score \in Int /\ (x.ok => over)
<1>1. PICK s1 \in Int, s2 \in Int, s3 \in Int :
        s1 = LowIsGood(w, 5, 15) /\ s2 = HighIsGood(b, 0, 5) /\ s3 = HighIsGood(r, 120, 300)
  <2>1. LowIsGood(w, 5, 15) \in Int
    BY QuotientScored
  <2>2. HighIsGood(b, 0, 5) \in Int
    BY QuotientScored
  <2>3. HighIsGood(r, 120, 300) \in Int
    BY QuotientScored
  <2> QED
    BY <2>1, <2>2, <2>3
<1>2. Weighted(<< <<35, s1>>, <<30, s2>>, <<35, s3>> >>) \in Int
  BY ThreeWeighted
<1>3. PICK rules : rules = <<trend, above, positive /\ AtMost(w, 15), over, AtLeast(r, 120), up>>
  OBVIOUS
<1>4. 4 \in DOMAIN rules /\ rules[4] = over
  BY <1>3
<1>5. All(rules) => over
  BY <1>4 DEF All
<1>6. PICK x : x = BoxVerdict(w, b, r, trend, above, positive, over, up)
  OBVIOUS
<1>7. x = [ok |-> All(rules), rules |-> rules,
           score |-> Weighted(<< <<35, s1>>, <<30, s2>>, <<35, s3>> >>)]
  BY <1>1, <1>3, <1>6, Zenon DEF BoxVerdict
<1>8. x.ok = All(rules) /\ x.score = Weighted(<< <<35, s1>>, <<30, s2>>, <<35, s3>> >>)
  BY <1>7
<1> QED
  BY <1>2, <1>5, <1>6, <1>8

\* A pullback that matches is below the peak.
LEMMA PullbackVerdictIs ==
  ASSUME NEW d \in Quotients, NEW n \in Quotients, NEW r \in Quotients, NEW b \in Quotients,
         NEW trend, NEW above, NEW positive, NEW supported, NEW rising, NEW up
  PROVE  LET x == PullbackVerdict(d, n, r, b, trend, above, positive, supported, rising, up)
         IN x.score \in Int /\ (x.ok => AtLeast(d, 3))
<1>1. PICK s1 \in Int : s1 = TriangularScore(d, 3, 6, 12)
  <2>1. HighIsGood(d, 3, 6) \in Int
    BY QuotientScored
  <2>2. LowIsGood(d, 6, 12) \in Int
    BY QuotientScored
  <2> QED
    BY <2>1, <2>2, Zenon DEF TriangularScore
<1>2. PICK s2 \in Int, s3 \in Int, s4 \in Int :
        s2 = LowIsGood(n, 0, 4) /\ s3 = LowIsGood(r, 50, 90) /\ s4 = HighIsGood(b, 0, 3)
  <2>1. LowIsGood(n, 0, 4) \in Int
    BY QuotientScored
  <2>2. LowIsGood(r, 50, 90) \in Int
    BY QuotientScored
  <2>3. HighIsGood(b, 0, 3) \in Int
    BY QuotientScored
  <2> QED
    BY <2>1, <2>2, <2>3
<1>3. PICK w1 \in Int, w2 \in Int, w3 \in Int, w4 \in Int : w1 = 35 /\ w2 = 30 /\ w3 = 20 /\ w4 = 15
  OBVIOUS
<1>11. Weighted(<< <<w1, s1>>, <<w2, s2>>, <<w3, s3>>, <<w4, s4>> >>) \in Int
  BY FourWeighted
<1>4. PICK deep : deep = (AtLeast(d, 3) /\ AtMost(d, 12))
  OBVIOUS
<1>5. PICK rules : rules = <<trend, above, positive, deep, AtMost(n, 4), supported, rising, up, AtMost(r, 90)>>
  OBVIOUS
<1>6. 4 \in DOMAIN rules /\ rules[4] = deep
  BY <1>5
<1>7. All(rules) => AtLeast(d, 3)
  BY <1>4, <1>6 DEF All
<1>8. PICK x : x = PullbackVerdict(d, n, r, b, trend, above, positive, supported, rising, up)
  OBVIOUS
<1>9. x = [ok |-> All(rules), rules |-> rules,
           score |-> Weighted(<< <<35, s1>>, <<30, s2>>, <<20, s3>>, <<15, s4>> >>)]
  BY <1>1, <1>2, <1>4, <1>5, <1>8, Zenon DEF PullbackVerdict
<1>10. x.ok = All(rules) /\ x.score = Weighted(<< <<35, s1>>, <<30, s2>>, <<20, s3>>, <<15, s4>> >>)
  BY <1>9
<1> QED
  BY <1>3, <1>7, <1>8, <1>10, <1>11

\* The score of a contraction is a number.
LEMMA ContractionVerdictIs ==
  ASSUME NEW w \in Quotients, NEW r \in Quotients, NEW v \in Quotients, NEW b \in Quotients,
         NEW trend, NEW above, NEW positive, NEW moving, NEW trading, NEW over, NEW up
  PROVE  ContractionVerdict(w, r, v, b, trend, above, positive, moving, trading, over, up).score \in Int
<1>1. PICK s1 \in Int, s2 \in Int, s3 \in Int, s4 \in Int :
        /\ s1 = LowIsGood(w, 3, 8) /\ s2 = LowIsGood(r, 40, 70)
        /\ s3 = LowIsGood(v, 50, 80) /\ s4 = HighIsGood(b, 120, 300)
  <2>1. LowIsGood(w, 3, 8) \in Int
    BY QuotientScored
  <2>2. LowIsGood(r, 40, 70) \in Int
    BY QuotientScored
  <2>3. LowIsGood(v, 50, 80) \in Int
    BY QuotientScored
  <2>4. HighIsGood(b, 120, 300) \in Int
    BY QuotientScored
  <2> QED
    BY <2>1, <2>2, <2>3, <2>4
<1>2. PICK w1 \in Int, w2 \in Int, w3 \in Int, w4 \in Int : w1 = 30 /\ w2 = 25 /\ w3 = 20 /\ w4 = 25
  OBVIOUS
<1>4. Weighted(<< <<w1, s1>>, <<w2, s2>>, <<w3, s3>>, <<w4, s4>> >>) \in Int
  BY FourWeighted
<1>3. ContractionVerdict(w, r, v, b, trend, above, positive, moving, trading, over, up).score
        = Weighted(<< <<30, s1>>, <<25, s2>>, <<20, s3>>, <<25, s4>> >>)
  BY <1>1 DEF ContractionVerdict
<1> QED
  BY <1>2, <1>3, <1>4

(***************************************************************************)
(* The setups of scaled bars.                                              *)
(***************************************************************************)

\* Two readings of a price that is multiplied by p and of a volume by v.
ScaledBar(x, y, p, v) ==
  /\ x.open \in Int /\ y.open = p * x.open /\ x.close \in Int /\ y.close = p * x.close
  /\ x.volume \in Int /\ y.volume = v * x.volume

\* The last bar and the one before it.
LEMMA LastScales ==
  ASSUME NEW s, NEW l, History(s, l), NEW p \in Nat, NEW v \in Nat, NEW k \in 1..l
  PROVE  /\ Len(Scaled(s, p, v)) = Len(s) /\ Len(s) = l /\ l \in Nat
         /\ ScaledBar(s[k], Scaled(s, p, v)[k], p, v)
         /\ Last(s) = s[l] /\ Last(Scaled(s, p, v)) = Scaled(s, p, v)[l]
<1>1. PICK t : t = Scaled(s, p, v)
  OBVIOUS
<1>2. Row(s, l)
  BY DEF History
<1>3. l \in Nat /\ Len(s) = l
  BY <1>2, RowLength
<1>4. p \in Int /\ v \in Int
  OBVIOUS
<1>5. /\ Row(t, l)
      /\ t[k].open = p * s[k].open /\ t[k].close = p * s[k].close /\ t[k].volume = v * s[k].volume
  BY <1>1, <1>4, ScaledIs
<1>6. Len(t) = l
  BY <1>5, RowLength
<1>7. s[k].open \in Int /\ s[k].close \in Int /\ s[k].volume \in Int
  BY BarNumbers
<1> QED
  BY <1>1, <1>3, <1>5, <1>6, <1>7 DEF ScaledBar, Last

\* Scaled numbers compare alike.
LEMMA OrderScales ==
  ASSUME NEW p \in Nat, p > 0, NEW x \in Int, NEW y \in Int, NEW a \in Int, NEW b \in Int,
         x = p * a, y = p * b
  PROVE  (x >= y) = (a >= b) /\ (x > y) = (a > b)
<1>1. (y <= x) = (b <= a) /\ (x <= y) = (a <= b)
  BY FactorKeepsSign
<1> QED
  BY <1>1

\* The ratio of two scaled averages.
LEMMA AveragesScale ==
  ASSUME NEW p \in Nat, p > 0, NEW a \in Int, NEW b \in Int, NEW m \in Int, NEW n \in Int,
         NEW x \in Int, NEW y \in Int, x = p * a, y = p * b
  PROVE  SameRatio(Div(<<a, m>>, <<b, n>>), Div(<<x, m>>, <<y, n>>))
BY DivOfMultiples

\* The ratio of two scaled whole numbers.
LEMMA WholesScale ==
  ASSUME NEW p \in Nat, p > 0, NEW a \in Int, NEW b \in Int,
         NEW x \in Int, NEW y \in Int, x = p * a, y = p * b
  PROVE  SameRatio(Div(Whole(a), Whole(b)), Div(Whole(x), Whole(y)))
<1>1. PICK one \in Int : one = 1
  OBVIOUS
<1>2. SameRatio(Div(<<a, one>>, <<b, one>>), Div(<<x, one>>, <<y, one>>))
  BY AveragesScale
<1> QED
  BY <1>1, <1>2 DEF Whole

\* The box is the same; its score is a number, and it matches only when the
\* close has reached the high of the window.
LEMMA BoxScales ==
  ASSUME NEW s, NEW l, History(s, l), NEW p \in Nat, p > 0, NEW v \in Nat, v > 0,
         BoxLookback + 1 <= l
  PROVE  LET x == BoxRead(s, Indicators(s))
         IN /\ BoxRead(Scaled(s, p, v), Indicators(Scaled(s, p, v))) = x
            /\ x.score \in Int
            /\ x.ok => Last(s).close >= Highest(PriorBars(s, BoxLookback))
<1>1. PICK t : t = Scaled(s, p, v)
  OBVIOUS
<1>2. PICK i, j : i = Indicators(s) /\ j = Indicators(t)
  OBVIOUS
<1>3. UpBy(p, i.sma20, j.sma20) /\ UpBy(p, i.sma60, j.sma60)
  BY <1>1, <1>2, IndicatorsScale
<1>4. PICK n \in Nat : n = BoxLookback /\ n > 0
  BY LookbacksFit
<1>5. PICK w, u : w = PriorBars(s, n) /\ u = PriorBars(t, n)
  OBVIOUS
<1>6. History(w, n) /\ u = Scaled(w, p, v)
  <2>1. p \in Int /\ v \in Int /\ n + 1 <= l
    BY <1>4
  <2> QED
    BY <1>1, <1>5, <2>1, ScaledPrior
<1>7. /\ Len(w) = n /\ Len(u) = n
      /\ Highest(w) \in Int /\ Highest(u) = p * Highest(w)
      /\ Lowest(w) \in Int /\ Lowest(u) = p * Lowest(w)
      /\ SumOf(Volumes(w)) \in Int /\ SumOf(Volumes(u)) = v * SumOf(Volumes(w))
  <2>1. n > 0 /\ History(w, n)
    BY <1>4, <1>6
  <2>2. /\ Len(w) = n /\ Len(Scaled(w, p, v)) = n
        /\ Highest(w) \in Int /\ Highest(Scaled(w, p, v)) = p * Highest(w)
        /\ Lowest(w) \in Int /\ Lowest(Scaled(w, p, v)) = p * Lowest(w)
        /\ SumOf(Volumes(w)) \in Int
        /\ SumOf(Volumes(Scaled(w, p, v))) = v * SumOf(Volumes(w))
    BY <2>1, WindowScales, Zenon
  <2> QED
    BY <1>6, <2>2, Zenon
<1>8. l \in 1..l /\ l \in Nat
  <2>1. l \in Nat
    BY RowLength DEF History
  <2> QED
    BY <1>4, <2>1
<1>9. PICK x, y : x = Last(s) /\ y = Last(t) /\ ScaledBar(x, y, p, v)
  BY <1>1, <1>8, LastScales
<1>10. PICK hi \in Int, hi2 \in Int : hi = Highest(w) /\ hi2 = Highest(u) /\ hi2 = p * hi
  BY <1>7
<1>11. PICK lo \in Int, lo2 \in Int : lo = Lowest(w) /\ lo2 = Lowest(u) /\ lo2 = p * lo
  BY <1>7
<1>12. PICK c \in Int, c2 \in Int : c = x.close /\ c2 = y.close /\ c2 = p * c
  BY <1>9 DEF ScaledBar
<1>13. PICK o \in Int, o2 \in Int : o = x.open /\ o2 = y.open /\ o2 = p * o
  BY <1>9 DEF ScaledBar
<1>14. PICK k \in Int, k2 \in Int : k = x.volume /\ k2 = y.volume /\ k2 = v * k
  BY <1>9 DEF ScaledBar
<1>15. PICK z \in Int, z2 \in Int : z = SumOf(Volumes(w)) /\ z2 = SumOf(Volumes(u)) /\ z2 = v * z
  BY <1>7
<1>16. PICK width, width2 : /\ width = Div(Whole(hi - lo), Whole(hi))
                            /\ width2 = Div(Whole(hi2 - lo2), Whole(hi2))
  OBVIOUS
<1>17. SameRatio(width, width2)
  <2>1. PICK d \in Int, d2 \in Int : d = hi - lo /\ d2 = hi2 - lo2
    BY <1>10, <1>11
  <2>2. d2 = p * d
    BY <1>10, <1>11, <2>1
  <2> QED
    BY <1>10, <1>16, <2>1, <2>2, WholesScale
<1>18. PICK over, over2 : /\ over = Div(Whole(c - hi), Whole(hi))
                          /\ over2 = Div(Whole(c2 - hi2), Whole(hi2))
  OBVIOUS
<1>19. SameRatio(over, over2)
  <2>1. PICK d \in Int, d2 \in Int : d = c - hi /\ d2 = c2 - hi2
    BY <1>10, <1>12
  <2>2. d2 = p * d
    BY <1>10, <1>12, <2>1
  <2> QED
    BY <1>10, <1>18, <2>1, <2>2, WholesScale
<1>20. PICK vr, vr2 : vr = Div(Whole(k), <<z, n>>) /\ vr2 = Div(Whole(k2), <<z2, n>>)
  OBVIOUS
<1>21. SameRatio(vr, vr2)
  <2>1. 1 \in Int /\ n \in Int
    OBVIOUS
  <2>2. SameRatio(Div(<<k, 1>>, <<z, n>>), Div(<<k2, 1>>, <<z2, n>>))
    BY <1>14, <1>15, <2>1, AveragesScale
  <2> QED
    BY <1>20, <2>2 DEF Whole
<1>22. PICK trend : trend = Trend(i) /\ trend = Trend(j)
  BY <1>3, TrendScales
<1>23. PICK above : above = Above(c, i.sma20) /\ above = Above(c2, j.sma20)
  BY <1>3, <1>12, AboveScales
<1>24. PICK positive : positive = (hi > 0) /\ positive = (hi2 > 0)
  <2>1. 0 \in Int /\ 0 = p * 0
    OBVIOUS
  <2>2. (hi2 > 0) = (hi > 0)
    BY <1>10, <2>1, OrderScales
  <2> QED
    BY <2>2
<1>25. PICK reach : reach = (c >= hi) /\ reach = (c2 >= hi2)
  <2>1. (c2 >= hi2) = (c >= hi)
    BY <1>10, <1>12, OrderScales
  <2> QED
    BY <2>1
<1>26. PICK up : up = (c >= o) /\ up = (c2 >= o2)
  <2>1. (c2 >= o2) = (c >= o)
    BY <1>12, <1>13, OrderScales
  <2> QED
    BY <2>1
<1>27. BoxRead(s, i) = BoxVerdict(width, over, vr, trend, above, positive, reach, up)
  <2>1. BoxRead(s, i) =
          BoxVerdict(Div(Whole(Highest(w) - Lowest(w)), Whole(Highest(w))),
                     Div(Whole(x.close - Highest(w)), Whole(Highest(w))),
                     Div(Whole(x.volume), <<SumOf(Volumes(w)), Len(w)>>),
                     Trend(i), Above(x.close, i.sma20), Highest(w) > 0, x.close >= Highest(w),
                     x.close >= x.open)
    BY <1>4, <1>5, <1>9, Zenon DEF BoxRead
  <2> QED
    BY <1>7, <1>10, <1>11, <1>12, <1>13, <1>14, <1>15, <1>16, <1>18, <1>20, <1>22, <1>23, <1>24,
       <1>25, <1>26, <2>1, Zenon
<1>28. BoxRead(t, j) = BoxVerdict(width2, over2, vr2, trend, above, positive, reach, up)
  <2>1. BoxRead(t, j) =
          BoxVerdict(Div(Whole(Highest(u) - Lowest(u)), Whole(Highest(u))),
                     Div(Whole(y.close - Highest(u)), Whole(Highest(u))),
                     Div(Whole(y.volume), <<SumOf(Volumes(u)), Len(u)>>),
                     Trend(j), Above(y.close, j.sma20), Highest(u) > 0, y.close >= Highest(u),
                     y.close >= y.open)
    BY <1>4, <1>5, <1>9, Zenon DEF BoxRead
  <2> QED
    BY <1>7, <1>10, <1>11, <1>12, <1>13, <1>14, <1>15, <1>16, <1>18, <1>20, <1>22, <1>23, <1>24,
       <1>25, <1>26, <2>1, Zenon
<1>29. BoxVerdict(width2, over2, vr2, trend, above, positive, reach, up)
         = BoxVerdict(width, over, vr, trend, above, positive, reach, up)
  BY <1>17, <1>19, <1>21, BoxVerdictScales
<1>30. width \in Quotients /\ over \in Quotients /\ vr \in Quotients
  BY <1>17, <1>19, <1>21 DEF SameRatio
<1>31. PICK a : a = BoxVerdict(width, over, vr, trend, above, positive, reach, up)
  OBVIOUS
<1>32. a.score \in Int /\ (a.ok => reach)
  BY <1>30, <1>31, BoxVerdictIs
<1>33. reach = (Last(s).close >= Highest(PriorBars(s, BoxLookback)))
  BY <1>4, <1>5, <1>9, <1>10, <1>12, <1>25, Zenon
<1> QED
  BY <1>1, <1>2, <1>27, <1>28, <1>29, <1>31, <1>32, <1>33

\* The volume of the last bars of a window.
LEMMA RecentVolumeScales ==
  ASSUME NEW w, NEW n, History(w, n), NEW p \in Nat, p > 0, NEW v \in Nat, v > 0,
         NEW m \in Nat, m > 0, m <= n
  PROVE  /\ SumOf(Volumes(Suffix(w, m))) \in Int
         /\ SumOf(Volumes(Suffix(Scaled(w, p, v), m))) = v * SumOf(Volumes(Suffix(w, m)))
<1>1. n \in Nat
  BY RowLength DEF History
<1>2. m \in 0..n
  BY <1>1
<1>3. PICK r : r = Suffix(w, m)
  OBVIOUS
<1>4. History(r, m)
  BY <1>2, <1>3, HistoryOfSuffix
<1>5. p \in Int /\ v \in Int
  OBVIOUS
<1>6. Suffix(Scaled(w, p, v), m) = Scaled(r, p, v)
  BY <1>2, <1>3, <1>5, ScaledSuffix
<1>7. SumOf(Volumes(r)) \in Int /\ SumOf(Volumes(Scaled(r, p, v))) = v * SumOf(Volumes(r))
  BY <1>4, WindowScales
<1> QED
  BY <1>3, <1>6, <1>7

\* The best close of a window.
Peak(w) == Max({w[i].close : i \in DOMAIN w})

\* It is scaled as the window is.
LEMMA PeakScales ==
  ASSUME NEW w, NEW n, History(w, n), n > 0, NEW p \in Nat, p > 0, NEW v \in Nat, v > 0
  PROVE  /\ Peak(w) \in Int /\ Peak(Scaled(w, p, v)) = p * Peak(w)
         /\ Len(w) = n /\ Len(Scaled(w, p, v)) = n
         /\ SumOf(Volumes(w)) \in Int /\ SumOf(Volumes(Scaled(w, p, v))) = v * SumOf(Volumes(w))
<1>1. PICK u : u = Scaled(w, p, v)
  OBVIOUS
<1>2. /\ Len(w) = n /\ Len(u) = n
      /\ SumOf(Volumes(w)) \in Int /\ SumOf(Volumes(u)) = v * SumOf(Volumes(w))
  BY <1>1, WindowScales
<1>3. /\ Max({w[i].close : i \in DOMAIN w}) \in Int
      /\ Max({u[i].close : i \in DOMAIN u}) = p * Max({w[i].close : i \in DOMAIN w})
  BY <1>1, WindowScales
<1> QED
  BY <1>1, <1>2, <1>3 DEF Peak

\* The pullback is the same; its score is a number, and it matches only when the
\* close is well below the best one of the window.
LEMMA PullbackScales ==
  ASSUME NEW s, NEW l, History(s, l), NEW p \in Nat, p > 0, NEW v \in Nat, v > 0,
         PullbackLookback + 1 <= l
  PROVE  LET x == PullbackRead(s, Indicators(s))
             peak == Peak(PriorBars(s, PullbackLookback))
         IN /\ PullbackRead(Scaled(s, p, v), Indicators(Scaled(s, p, v))) = x
            /\ x.score \in Int
            /\ x.ok => AtLeast(Div(Whole(peak - Last(s).close), Whole(peak)), 3)
<1>1. PICK t : t = Scaled(s, p, v)
  OBVIOUS
<1>2. PICK i, j : i = Indicators(s) /\ j = Indicators(t)
  OBVIOUS
<1>3. UpBy(p, i.sma20, j.sma20) /\ UpBy(p, i.sma60, j.sma60) /\ UpBy(p, i.ema20, j.ema20)
  BY <1>1, <1>2, IndicatorsScale
<1>4. PICK n \in Nat : n = PullbackLookback /\ n > 0
  BY LookbacksFit
<1>5. PICK w, u : w = PriorBars(s, n) /\ u = PriorBars(t, n)
  OBVIOUS
<1>6. History(w, n) /\ u = Scaled(w, p, v)
  <2>1. p \in Int /\ v \in Int /\ n + 1 <= l
    BY <1>4
  <2> QED
    BY <1>1, <1>5, <2>1, ScaledPrior
<1>7. /\ Len(w) = n /\ Len(u) = n
      /\ Peak(w) \in Int /\ Peak(u) = p * Peak(w)
      /\ SumOf(Volumes(w)) \in Int /\ SumOf(Volumes(u)) = v * SumOf(Volumes(w))
  BY <1>4, <1>6, PeakScales
<1>8. l \in Nat /\ l \in 1..l /\ l - 1 \in 1..l
  <2>1. l \in Nat
    BY RowLength DEF History
  <2> QED
    BY <1>4, <2>1
<1>9. PICK x, y : x = Last(s) /\ y = Last(t) /\ ScaledBar(x, y, p, v)
  BY <1>1, <1>8, LastScales
<1>10. PICK x1, y1 : x1 = s[Len(s) - 1] /\ y1 = t[Len(t) - 1] /\ ScaledBar(x1, y1, p, v)
  <2>1. Len(t) = Len(s) /\ Len(s) = l /\ ScaledBar(s[l - 1], t[l - 1], p, v)
    BY <1>1, <1>8, LastScales
  <2> QED
    BY <2>1
<1>11. PICK hi \in Int, hi2 \in Int : hi = Peak(w) /\ hi2 = Peak(u) /\ hi2 = p * hi
  BY <1>7
<1>12. PICK c \in Int, c2 \in Int : c = x.close /\ c2 = y.close /\ c2 = p * c
  BY <1>9 DEF ScaledBar
<1>13. PICK o \in Int, o2 \in Int : o = x.open /\ o2 = y.open /\ o2 = p * o
  BY <1>9 DEF ScaledBar
<1>14. PICK b \in Int, b2 \in Int : b = x1.close /\ b2 = y1.close /\ b2 = p * b
  BY <1>10 DEF ScaledBar
<1>15. PICK z \in Int, z2 \in Int : z = SumOf(Volumes(w)) /\ z2 = SumOf(Volumes(u)) /\ z2 = v * z
  BY <1>7
<1>16. PICK m \in Nat : m = PullbackVolumeLookback /\ m > 0 /\ m <= n
  BY <1>4, LookbacksFit
<1>17. PICK r \in Int, r2 \in Int : /\ r = SumOf(Volumes(Suffix(w, m)))
                                    /\ r2 = SumOf(Volumes(Suffix(u, m))) /\ r2 = v * r
  <2>1. SumOf(Volumes(Suffix(w, m))) \in Int /\ SumOf(Volumes(Suffix(u, m))) = v * SumOf(Volumes(Suffix(w, m)))
    BY <1>6, <1>16, RecentVolumeScales
  <2> QED
    BY <2>1
<1>18. PICK depth, depth2 : /\ depth = Div(Whole(hi - c), Whole(hi))
                            /\ depth2 = Div(Whole(hi2 - c2), Whole(hi2))
  OBVIOUS
<1>19. SameRatio(depth, depth2)
  <2>1. PICK d \in Int, d2 \in Int : d = hi - c /\ d2 = hi2 - c2
    BY <1>11, <1>12
  <2>2. d2 = p * d
    BY <1>11, <1>12, <2>1
  <2> QED
    BY <1>11, <1>18, <2>1, <2>2, WholesScale
<1>20. PICK body, body2 : /\ body = Div(Whole(c - o), Whole(o))
                          /\ body2 = Div(Whole(c2 - o2), Whole(o2))
  OBVIOUS
<1>21. SameRatio(body, body2)
  <2>1. PICK d \in Int, d2 \in Int : d = c - o /\ d2 = c2 - o2
    BY <1>12, <1>13
  <2>2. d2 = p * d
    BY <1>12, <1>13, <2>1
  <2> QED
    BY <1>13, <1>20, <2>1, <2>2, WholesScale
<1>22. PICK vr, vr2 : vr = Div(<<r, m>>, <<z, n>>) /\ vr2 = Div(<<r2, m>>, <<z2, n>>)
  OBVIOUS
<1>23. SameRatio(vr, vr2)
  <2>1. m \in Int /\ n \in Int
    OBVIOUS
  <2>2. SameRatio(Div(<<r, m>>, <<z, n>>), Div(<<r2, m>>, <<z2, n>>))
    BY <1>15, <1>17, <2>1, AveragesScale
  <2> QED
    BY <1>22, <2>2
<1>24. PICK e \in Quotients, e2 \in Quotients :
         e = EmaOf(i) /\ e2 = EmaOf(j) /\ e2[1] = p * e[1] /\ e2[2] = e[2]
  <2>1. /\ EmaOf(i) \in Quotients /\ EmaOf(j) \in Quotients
        /\ EmaOf(j)[1] = p * EmaOf(i)[1] /\ EmaOf(j)[2] = EmaOf(i)[2]
    BY <1>3, EmaOfScales
  <2> QED
    BY <2>1
<1>25. PICK far, far2 : far = DistanceTo(x, e) /\ far2 = DistanceTo(y, e2)
  OBVIOUS
<1>26. x.close \in Int /\ y.close = p * x.close
  BY <1>9 DEF ScaledBar
<1>27. SameRatio(far, far2) /\ (e2[1] > 0) = (e[1] > 0)
  BY <1>24, <1>25, <1>26, DistanceToScales
<1>28. PICK trend : trend = Trend(i) /\ trend = Trend(j)
  BY <1>3, TrendScales
<1>29. PICK above : above = Above(c, i.sma60) /\ above = Above(c2, j.sma60)
  BY <1>3, <1>12, AboveScales
<1>30. PICK positive : positive = (e[1] > 0) /\ positive = (e2[1] > 0)
  BY <1>27
<1>31. PICK supported : supported = SupportedBy(x, i.sma20) /\ supported = SupportedBy(y, j.sma20)
  BY <1>3, <1>26, SupportScales
<1>32. PICK rising : rising = (c > b) /\ rising = (c2 > b2)
  <2>1. (c2 > b2) = (c > b)
    BY <1>12, <1>14, OrderScales
  <2> QED
    BY <2>1
<1>33. PICK up : up = (c >= o) /\ up = (c2 >= o2)
  <2>1. (c2 >= o2) = (c >= o)
    BY <1>12, <1>13, OrderScales
  <2> QED
    BY <2>1
<1>34. PullbackRead(s, i) = PullbackVerdict(depth, far, vr, body, trend, above, positive, supported, rising, up)
  <2>1. PullbackRead(s, i) =
          PullbackVerdict(Div(Whole(Peak(w) - x.close), Whole(Peak(w))),
                          DistanceTo(x, EmaOf(i)),
                          Div(<<SumOf(Volumes(Suffix(w, PullbackVolumeLookback))), PullbackVolumeLookback>>,
                              <<SumOf(Volumes(w)), Len(w)>>),
                          Div(Whole(x.close - x.open), Whole(x.open)),
                          Trend(i), Above(x.close, i.sma60), EmaOf(i)[1] > 0, SupportedBy(x, i.sma20),
                          x.close > s[Len(s) - 1].close, x.close >= x.open)
    BY <1>4, <1>5, <1>9, Zenon DEF PullbackRead, Peak
  <2> QED
    BY <1>7, <1>10, <1>11, <1>12, <1>13, <1>14, <1>15, <1>16, <1>17, <1>18, <1>20, <1>22, <1>24,
       <1>25, <1>28, <1>29, <1>30, <1>31, <1>32, <1>33, <2>1, Zenon
<1>35. PullbackRead(t, j) =
         PullbackVerdict(depth2, far2, vr2, body2, trend, above, positive, supported, rising, up)
  <2>1. PullbackRead(t, j) =
          PullbackVerdict(Div(Whole(Peak(u) - y.close), Whole(Peak(u))),
                          DistanceTo(y, EmaOf(j)),
                          Div(<<SumOf(Volumes(Suffix(u, PullbackVolumeLookback))), PullbackVolumeLookback>>,
                              <<SumOf(Volumes(u)), Len(u)>>),
                          Div(Whole(y.close - y.open), Whole(y.open)),
                          Trend(j), Above(y.close, j.sma60), EmaOf(j)[1] > 0, SupportedBy(y, j.sma20),
                          y.close > t[Len(t) - 1].close, y.close >= y.open)
    BY <1>4, <1>5, <1>9, Zenon DEF PullbackRead, Peak
  <2> QED
    BY <1>7, <1>10, <1>11, <1>12, <1>13, <1>14, <1>15, <1>16, <1>17, <1>18, <1>20, <1>22, <1>24,
       <1>25, <1>28, <1>29, <1>30, <1>31, <1>32, <1>33, <2>1, Zenon
<1>36. PullbackVerdict(depth2, far2, vr2, body2, trend, above, positive, supported, rising, up)
         = PullbackVerdict(depth, far, vr, body, trend, above, positive, supported, rising, up)
  BY <1>19, <1>21, <1>23, <1>27, PullbackVerdictScales
<1>37. depth \in Quotients /\ far \in Quotients /\ vr \in Quotients /\ body \in Quotients
  BY <1>19, <1>21, <1>23, <1>27 DEF SameRatio
<1>38. PICK a : a = PullbackVerdict(depth, far, vr, body, trend, above, positive, supported, rising, up)
  OBVIOUS
<1>39. a.score \in Int /\ (a.ok => AtLeast(depth, 3))
  BY <1>37, <1>38, PullbackVerdictIs
<1>40. depth = Div(Whole(Peak(PriorBars(s, PullbackLookback)) - Last(s).close),
                   Whole(Peak(PriorBars(s, PullbackLookback))))
  BY <1>4, <1>5, <1>9, <1>11, <1>12, <1>18, Zenon
<1> QED
  BY <1>1, <1>2, <1>34, <1>35, <1>36, <1>38, <1>39, <1>40

\* The last bars of a window, all of it when they are more.
LEMMA RangeScales ==
  ASSUME NEW w, NEW n, History(w, n), n > 0, NEW p \in Nat, p > 0, NEW v \in Nat, v > 0,
         NEW m \in Nat, m > 0
  PROVE  LET r == Suffix(w, m)
             q == Suffix(Scaled(w, p, v), m)
         IN /\ Highest(r) \in Int /\ Highest(q) = p * Highest(r)
            /\ Lowest(r) \in Int /\ Lowest(q) = p * Lowest(r)
<1>1. n \in Nat /\ Row(w, n)
  BY RowLength DEF History
<1>2. p \in Int /\ v \in Int
  OBVIOUS
<1>3. PICK u : u = Scaled(w, p, v)
  OBVIOUS
<1>4. Row(u, n)
  BY <1>2, <1>3, ScaledIs
<1>5. PICK k \in 1..n : Suffix(w, m) = Suffix(w, k) /\ Suffix(u, m) = Suffix(u, k)
  <2>1. CASE m <= n
    <3>1. m \in 1..n
      BY <1>1, <2>1
    <3> QED
      BY <3>1
  <2>2. CASE m >= n
    <3>1. Suffix(w, m) = Suffix(w, n) /\ Suffix(u, m) = Suffix(u, n)
      <4>1. m \in Int
        OBVIOUS
      <4>2. Suffix(w, m) = Suffix(w, n)
        BY <1>1, <2>2, <4>1, SuffixOfShort
      <4>3. Suffix(u, m) = Suffix(u, n)
        BY <1>4, <2>2, <4>1, SuffixOfShort
      <4> QED
        BY <4>2, <4>3
    <3>2. n \in 1..n
      BY <1>1
    <3> QED
      BY <3>1, <3>2
  <2> QED
    BY <1>1, <2>1, <2>2
<1>6. k \in 0..n /\ k \in Nat /\ k > 0
  BY <1>1, <1>5
<1>7. PICK r : r = Suffix(w, k)
  OBVIOUS
<1>8. History(r, k)
  BY <1>6, <1>7, HistoryOfSuffix
<1>9. Suffix(u, k) = Scaled(r, p, v)
  BY <1>2, <1>3, <1>6, <1>7, ScaledSuffix
<1>10. LET q == Scaled(r, p, v)
       IN /\ Highest(r) \in Int /\ Highest(q) = p * Highest(r)
          /\ Lowest(r) \in Int /\ Lowest(q) = p * Lowest(r)
  BY <1>6, <1>8, WindowScales, ZenonT(60)
<1> QED
  BY <1>3, <1>5, <1>7, <1>9, <1>10

\* The contraction is the same, and its score is a number.
LEMMA ContractionScales ==
  ASSUME NEW s, NEW l, History(s, l), NEW p \in Nat, p > 0, NEW v \in Nat, v > 0,
         LongLookback + 2 <= l
  PROVE  LET x == ContractionRead(s, Indicators(s))
         IN /\ ContractionRead(Scaled(s, p, v), Indicators(Scaled(s, p, v))) = x
            /\ x.score \in Int
<1>1. PICK t : t = Scaled(s, p, v)
  OBVIOUS
<1>2. PICK i, j : i = Indicators(s) /\ j = Indicators(t)
  OBVIOUS
<1>3. UpBy(p, i.sma20, j.sma20) /\ UpBy(p, i.sma60, j.sma60)
  BY <1>1, <1>2, IndicatorsScale
<1>4. PICK n \in Nat : n = LongLookback /\ n > 0
  BY LookbacksFit
<1>5. PICK w, u : w = PriorBars(s, n) /\ u = PriorBars(t, n)
  OBVIOUS
<1>6. l \in Nat /\ l \in 1..l /\ n + 1 <= l /\ n + 1 + 1 <= l
  <2>1. l \in Nat
    BY RowLength DEF History
  <2> QED
    BY <1>4, <2>1
<1>7. History(w, n) /\ u = Scaled(w, p, v)
  <2>1. p \in Int /\ v \in Int
    OBVIOUS
  <2> QED
    BY <1>1, <1>5, <1>6, <2>1, ScaledPrior
<1>8. /\ Len(w) = n /\ Len(u) = n
      /\ SumOf(Volumes(w)) \in Int /\ SumOf(Volumes(u)) = v * SumOf(Volumes(w))
  BY <1>4, <1>7, PeakScales
<1>9. PICK x, y : x = Last(s) /\ y = Last(t) /\ ScaledBar(x, y, p, v)
  BY <1>1, <1>6, LastScales
<1>10. PICK m \in Nat : m = RangeLookback /\ m > 0
  BY LookbacksFit
<1>11. PICK r, q : r = Suffix(w, m) /\ q = Suffix(u, m)
  OBVIOUS
<1>12. /\ Highest(r) \in Int /\ Highest(q) = p * Highest(r)
       /\ Lowest(r) \in Int /\ Lowest(q) = p * Lowest(r)
  BY <1>4, <1>7, <1>10, <1>11, RangeScales
<1>13. PICK hi \in Int, hi2 \in Int : hi = Highest(r) /\ hi2 = Highest(q) /\ hi2 = p * hi
  BY <1>12
<1>14. PICK lo \in Int, lo2 \in Int : lo = Lowest(r) /\ lo2 = Lowest(q) /\ lo2 = p * lo
  BY <1>12
<1>15. PICK c \in Int, c2 \in Int : c = x.close /\ c2 = y.close /\ c2 = p * c
  BY <1>9 DEF ScaledBar
<1>16. PICK o \in Int, o2 \in Int : o = x.open /\ o2 = y.open /\ o2 = p * o
  BY <1>9 DEF ScaledBar
<1>17. PICK k \in Int, k2 \in Int : k = x.volume /\ k2 = y.volume /\ k2 = v * k
  BY <1>9 DEF ScaledBar
<1>18. PICK z \in Int, z2 \in Int : z = SumOf(Volumes(w)) /\ z2 = SumOf(Volumes(u)) /\ z2 = v * z
  BY <1>8
<1>19. PICK h \in Nat : h = ShortLookback /\ h > 0 /\ h <= n
  BY <1>4, LookbacksFit
<1>20. PICK g \in Int, g2 \in Int : /\ g = SumOf(Volumes(Suffix(w, h)))
                                    /\ g2 = SumOf(Volumes(Suffix(u, h))) /\ g2 = v * g
  <2>1. SumOf(Volumes(Suffix(w, h))) \in Int /\ SumOf(Volumes(Suffix(u, h))) = v * SumOf(Volumes(Suffix(w, h)))
    BY <1>7, <1>19, RecentVolumeScales
  <2> QED
    BY <2>1
<1>21. PICK N \in Nat : N = n + 1
  OBVIOUS
<1>22. PICK a, b : a = PriorBars(s, N) /\ b = PriorBars(t, N)
  OBVIOUS
<1>23. History(a, N) /\ b = Scaled(a, p, v)
  <2>1. p \in Int /\ v \in Int /\ N + 1 <= l
    BY <1>6, <1>21
  <2> QED
    BY <1>1, <1>22, <2>1, ScaledPrior
<1>24. PICK f, f2 : f = RangesOf(a) /\ f2 = RangesOf(b)
  OBVIOUS
<1>25. ScaledRow(f, f2, n, p)
  <2>1. N > 0 /\ N - 1 = n
    BY <1>21
  <2>2. ScaledRow(f, f2, N - 1, p)
    BY <1>23, <1>24, <2>1, RangesScale
  <2> QED
    BY <2>1, <2>2
<1>26. Len(f) = n /\ Len(f2) = n
  BY <1>25, RowLength DEF ScaledRow
<1>27. p \in Int
  OBVIOUS
<1>28. PICK d \in Int, d2 \in Int : d = SumOf(f) /\ d2 = SumOf(f2) /\ d2 = p * d
  <2>1. SumOf(f) \in Int /\ SumOf(f2) = p * SumOf(f)
    BY <1>25, <1>27, PartSumScales
  <2> QED
    BY <2>1
<1>29. PICK e \in Int, e2 \in Int : e = SumOf(Suffix(f, h)) /\ e2 = SumOf(Suffix(f2, h)) /\ e2 = p * e
  <2>1. h \in 0..n
    BY <1>19
  <2>2. ScaledRow(Suffix(f, h), Suffix(f2, h), h, p)
    BY <1>25, <1>27, <2>1, SuffixScales
  <2>3. SumOf(Suffix(f, h)) \in Int /\ SumOf(Suffix(f2, h)) = p * SumOf(Suffix(f, h))
    BY <1>27, <2>2, PartSumScales
  <2> QED
    BY <2>3
<1>30. PICK width, width2 : /\ width = Div(Whole(hi - lo), Whole(hi))
                            /\ width2 = Div(Whole(hi2 - lo2), Whole(hi2))
  OBVIOUS
<1>31. SameRatio(width, width2)
  <2>1. PICK x0 \in Int, x2 \in Int : x0 = hi - lo /\ x2 = hi2 - lo2
    BY <1>13, <1>14
  <2>2. x2 = p * x0
    BY <1>13, <1>14, <2>1
  <2> QED
    BY <1>13, <1>30, <2>1, <2>2, WholesScale
<1>32. n \in Int /\ h \in Int
  OBVIOUS
<1>33. PICK rr, rr2 : rr = Div(<<e, h>>, <<d, n>>) /\ rr2 = Div(<<e2, h>>, <<d2, n>>)
  OBVIOUS
<1>34. SameRatio(rr, rr2)
  <2>1. SameRatio(Div(<<e, h>>, <<d, n>>), Div(<<e2, h>>, <<d2, n>>))
    BY <1>28, <1>29, <1>32, AveragesScale
  <2> QED
    BY <1>33, <2>1
<1>35. PICK vr, vr2 : vr = Div(<<g, h>>, <<z, n>>) /\ vr2 = Div(<<g2, h>>, <<z2, n>>)
  OBVIOUS
<1>36. SameRatio(vr, vr2)
  <2>1. SameRatio(Div(<<g, h>>, <<z, n>>), Div(<<g2, h>>, <<z2, n>>))
    BY <1>18, <1>20, <1>32, AveragesScale
  <2> QED
    BY <1>35, <2>1
<1>37. PICK br, br2 : br = Div(Whole(k), <<z, n>>) /\ br2 = Div(Whole(k2), <<z2, n>>)
  OBVIOUS
<1>38. SameRatio(br, br2)
  <2>1. 1 \in Int
    OBVIOUS
  <2>2. SameRatio(Div(<<k, 1>>, <<z, n>>), Div(<<k2, 1>>, <<z2, n>>))
    BY <1>17, <1>18, <1>32, <2>1, AveragesScale
  <2> QED
    BY <1>37, <2>2 DEF Whole
<1>39. PICK trend : trend = Trend(i) /\ trend = Trend(j)
  BY <1>3, TrendScales
<1>40. PICK above : above = Above(c, i.sma20) /\ above = Above(c2, j.sma20)
  BY <1>3, <1>15, AboveScales
<1>41. 0 \in Int /\ 0 = p * 0 /\ 0 = v * 0
  OBVIOUS
<1>42. PICK positive : positive = (hi > 0) /\ positive = (hi2 > 0)
  <2>1. (hi2 > 0) = (hi > 0)
    BY <1>13, <1>41, OrderScales
  <2> QED
    BY <2>1
<1>43. PICK moving : moving = (d > 0) /\ moving = (d2 > 0)
  <2>1. (d2 > 0) = (d > 0)
    BY <1>28, <1>41, OrderScales
  <2> QED
    BY <2>1
<1>44. PICK trading : trading = (z > 0) /\ trading = (z2 > 0)
  <2>1. (z2 > 0) = (z > 0)
    BY <1>18, <1>41, OrderScales
  <2> QED
    BY <2>1
<1>45. PICK reach : reach = (c >= hi) /\ reach = (c2 >= hi2)
  <2>1. (c2 >= hi2) = (c >= hi)
    BY <1>13, <1>15, OrderScales
  <2> QED
    BY <2>1
<1>46. PICK up : up = (c >= o) /\ up = (c2 >= o2)
  <2>1. (c2 >= o2) = (c >= o)
    BY <1>15, <1>16, OrderScales
  <2> QED
    BY <2>1
<1>47. <<d, n>>[1] = d /\ <<d2, n>>[1] = d2 /\ <<z, n>>[1] = z /\ <<z2, n>>[1] = z2
  OBVIOUS
<1>48. ContractionRead(s, i) =
         ContractionVerdict(width, rr, vr, br, trend, above, positive, moving, trading, reach, up)
  <2>1. ContractionRead(s, i) =
          ContractionVerdict(Div(Whole(Highest(r) - Lowest(r)), Whole(Highest(r))),
                             Div(<<SumOf(Suffix(f, ShortLookback)), ShortLookback>>, <<SumOf(f), Len(f)>>),
                             Div(<<SumOf(Volumes(Suffix(w, ShortLookback))), ShortLookback>>,
                                 <<SumOf(Volumes(w)), Len(w)>>),
                             Div(Whole(x.volume), <<SumOf(Volumes(w)), Len(w)>>),
                             Trend(i), Above(x.close, i.sma20), Highest(r) > 0,
                             <<SumOf(f), Len(f)>>[1] > 0, <<SumOf(Volumes(w)), Len(w)>>[1] > 0,
                             x.close >= Highest(r), x.close >= x.open)
    BY <1>4, <1>5, <1>9, <1>10, <1>11, <1>21, <1>22, <1>24, Zenon DEF ContractionRead
  <2> QED
    BY <1>8, <1>13, <1>14, <1>15, <1>16, <1>17, <1>18, <1>19, <1>20, <1>26, <1>28, <1>29, <1>30,
       <1>33, <1>35, <1>37, <1>39, <1>40, <1>42, <1>43, <1>44, <1>45, <1>46, <1>47, <2>1, Zenon
<1>49. ContractionRead(t, j) =
         ContractionVerdict(width2, rr2, vr2, br2, trend, above, positive, moving, trading, reach, up)
  <2>1. ContractionRead(t, j) =
          ContractionVerdict(Div(Whole(Highest(q) - Lowest(q)), Whole(Highest(q))),
                             Div(<<SumOf(Suffix(f2, ShortLookback)), ShortLookback>>, <<SumOf(f2), Len(f2)>>),
                             Div(<<SumOf(Volumes(Suffix(u, ShortLookback))), ShortLookback>>,
                                 <<SumOf(Volumes(u)), Len(u)>>),
                             Div(Whole(y.volume), <<SumOf(Volumes(u)), Len(u)>>),
                             Trend(j), Above(y.close, j.sma20), Highest(q) > 0,
                             <<SumOf(f2), Len(f2)>>[1] > 0, <<SumOf(Volumes(u)), Len(u)>>[1] > 0,
                             y.close >= Highest(q), y.close >= y.open)
    BY <1>4, <1>5, <1>9, <1>10, <1>11, <1>21, <1>22, <1>24, Zenon DEF ContractionRead
  <2> QED
    BY <1>8, <1>13, <1>14, <1>15, <1>16, <1>17, <1>18, <1>19, <1>20, <1>26, <1>28, <1>29, <1>30,
       <1>33, <1>35, <1>37, <1>39, <1>40, <1>42, <1>43, <1>44, <1>45, <1>46, <1>47, <2>1, Zenon
<1>50. ContractionVerdict(width2, rr2, vr2, br2, trend, above, positive, moving, trading, reach, up)
         = ContractionVerdict(width, rr, vr, br, trend, above, positive, moving, trading, reach, up)
  BY <1>31, <1>34, <1>36, <1>38, ContractionVerdictScales
<1>51. width \in Quotients /\ rr \in Quotients /\ vr \in Quotients /\ br \in Quotients
  BY <1>31, <1>34, <1>36, <1>38 DEF SameRatio
<1>52. ContractionVerdict(width, rr, vr, br, trend, above, positive, moving, trading, reach, up).score \in Int
  BY <1>51, ContractionVerdictIs
<1> QED
  BY <1>1, <1>2, <1>48, <1>49, <1>50, <1>52

\* Every setup of scaled bars is the same.
LEMMA SetupsScale ==
  ASSUME NEW s, NEW l, History(s, l), l > 0, NEW p \in Nat, p > 0, NEW v \in Nat, v > 0
  PROVE  Screened(Scaled(s, p, v)).setups = Screened(s).setups
<1>1. PICK t : t = Scaled(s, p, v)
  OBVIOUS
<1>2. PICK i, j : i = Indicators(s) /\ j = Indicators(t)
  OBVIOUS
<1>3. l \in Nat
  BY RowLength DEF History
<1>4. Len(s) = l /\ Len(t) = l
  <2>1. l \in 1..l
    BY <1>3
  <2> QED
    BY <1>1, <2>1, LastScales
<1>5. BoxLookback \in Nat /\ PullbackLookback \in Nat /\ LongLookback \in Nat
  BY LookbacksFit
<1>6. Box(t, j) = Box(s, i)
  <2>1. Box(s, i) = IF l < BoxLookback + 1 THEN NotEvaluated ELSE BoxRead(s, i)
    BY <1>4, SetupsRead
  <2>2. Box(t, j) = IF l < BoxLookback + 1 THEN NotEvaluated ELSE BoxRead(t, j)
    BY <1>4, SetupsRead
  <2>3. ~(l < BoxLookback + 1) => BoxRead(t, j) = BoxRead(s, i)
    <3> SUFFICES ASSUME ~(l < BoxLookback + 1) PROVE BoxRead(t, j) = BoxRead(s, i)
      OBVIOUS
    <3>1. BoxLookback + 1 <= l
      BY <1>3, <1>5
    <3> QED
      BY <1>1, <1>2, <3>1, BoxScales
  <2> QED
    BY <2>1, <2>2, <2>3
<1>7. Pullback(t, j) = Pullback(s, i)
  <2>1. Pullback(s, i) = IF l < PullbackLookback + 1 THEN NotEvaluated ELSE PullbackRead(s, i)
    BY <1>4, SetupsRead
  <2>2. Pullback(t, j) = IF l < PullbackLookback + 1 THEN NotEvaluated ELSE PullbackRead(t, j)
    BY <1>4, SetupsRead
  <2>3. ~(l < PullbackLookback + 1) => PullbackRead(t, j) = PullbackRead(s, i)
    <3> SUFFICES ASSUME ~(l < PullbackLookback + 1) PROVE PullbackRead(t, j) = PullbackRead(s, i)
      OBVIOUS
    <3>1. PullbackLookback + 1 <= l
      BY <1>3, <1>5
    <3> QED
      BY <1>1, <1>2, <3>1, PullbackScales
  <2> QED
    BY <2>1, <2>2, <2>3
<1>8. Contraction(t, j) = Contraction(s, i)
  <2>1. Contraction(s, i) = IF l < LongLookback + 2 THEN NotEvaluated ELSE ContractionRead(s, i)
    BY <1>4, SetupsRead
  <2>2. Contraction(t, j) = IF l < LongLookback + 2 THEN NotEvaluated ELSE ContractionRead(t, j)
    BY <1>4, SetupsRead
  <2>3. ~(l < LongLookback + 2) => ContractionRead(t, j) = ContractionRead(s, i)
    <3> SUFFICES ASSUME ~(l < LongLookback + 2) PROVE ContractionRead(t, j) = ContractionRead(s, i)
      OBVIOUS
    <3>1. LongLookback + 2 <= l
      BY <1>3, <1>5
    <3> QED
      BY <1>1, <1>2, <3>1, ContractionScales
  <2> QED
    BY <2>1, <2>2, <2>3
<1>9. Screened(s).setups = [box_breakout |-> Box(s, i), trend_pullback |-> Pullback(s, i),
                            volatility_contraction_breakout |-> Contraction(s, i)]
  BY <1>2, ScreenedIs
<1>10. Screened(t).setups = [box_breakout |-> Box(t, j), trend_pullback |-> Pullback(t, j),
                             volatility_contraction_breakout |-> Contraction(t, j)]
  BY <1>2, ScreenedIs
<1> QED
  BY <1>1, <1>6, <1>7, <1>8, <1>9, <1>10

(***************************************************************************)
(* Setups that exclude each other, and the primary one.                    *)
(***************************************************************************)

\* The best close of a window is one of its bars', and no bar of it is higher
\* than its highest.
LEMMA PeakAndHighest ==
  ASSUME NEW w, NEW n, History(w, n), n > 0
  PROVE  /\ Peak(w) \in Int /\ \E k \in 1..n : Peak(w) = w[k].close
         /\ Highest(w) \in Int /\ \A k \in 1..n : w[k].high <= Highest(w)
<1>1. n \in Nat /\ DOMAIN w = 1..n
  BY RowLength DEF History
<1>2. PICK T : T = 1..n
  OBVIOUS
<1>3. PICK f, g : f = [k \in T |-> w[k].close] /\ g = [k \in T |-> w[k].high]
  OBVIOUS
<1>4. \A k \in T : f[k] = w[k].close /\ g[k] = w[k].high /\ f[k] \in Int /\ g[k] \in Int
  BY <1>2, <1>3, BarNumbers
<1>5. PICK C, H : C = {f[k] : k \in T} /\ H = {g[k] : k \in T}
  OBVIOUS
<1>6. IsFiniteSet(T) /\ 1 \in T
  <2>1. IsFiniteSet(T)
    BY <1>1, <1>2, FS_Interval
  <2> QED
    BY <1>1, <1>2, <2>1
<1>7. IsFiniteSet(C) /\ IsFiniteSet(H)
  BY <1>3, <1>5, <1>6, FinitelyManyKeys
<1>8. C \subseteq Int /\ C # {} /\ H \subseteq Int /\ H # {}
  BY <1>4, <1>5, <1>6
<1>9. Max(C) \in C
  BY <1>7, <1>8, MaxOf
<1>10. Max(H) \in H /\ \A y \in H : Max(H) >= y
  BY <1>7, <1>8, MaxOf
<1>11. Peak(w) = Max(C)
  <2>1. {w[i].close : i \in DOMAIN w} = C
    BY <1>1, <1>2, <1>4, <1>5
  <2> QED
    BY <2>1 DEF Peak
<1>12. Highest(w) = Max(H)
  <2>1. {w[i].high : i \in DOMAIN w} = H
    BY <1>1, <1>2, <1>4, <1>5
  <2> QED
    BY <2>1 DEF Highest
<1>13. PICK m \in Int : m = Max(H)
  BY <1>8, <1>10
<1>14. \A k \in T : w[k].high <= m
  BY <1>4, <1>5, <1>10, <1>13
<1> QED
  BY <1>2, <1>4, <1>5, <1>8, <1>9, <1>11, <1>12, <1>13, <1>14

\* A bar cannot close above the box and well below the peak.
LEMMA BoxOrPullback ==
  ASSUME NEW s, NEW l, History(s, l), PullbackLookback <= BoxLookback
  PROVE  ~(Box(s, Indicators(s)).ok /\ Pullback(s, Indicators(s)).ok)
<1> SUFFICES ASSUME Box(s, Indicators(s)).ok, Pullback(s, Indicators(s)).ok PROVE FALSE
  OBVIOUS
<1>1. PICK i : i = Indicators(s)
  OBVIOUS
<1>2. l \in Nat /\ Len(s) = l /\ Row(s, l)
  BY RowLength DEF History
<1>3. PICK b \in Nat, n \in Nat : b = BoxLookback /\ n = PullbackLookback /\ b > 0 /\ n > 0 /\ n <= b
  BY LookbacksFit
<1>4. b + 1 <= l /\ n + 1 <= l
  <2>1. ~(l < b + 1)
    <3> SUFFICES ASSUME l < b + 1 PROVE FALSE
      OBVIOUS
    <3>1. Box(s, i) = NotEvaluated
      BY <1>2, <1>3, SetupsRead
    <3> QED
      BY <1>1, <3>1 DEF NotEvaluated
  <2> QED
    BY <1>2, <1>3, <2>1
<1>5. 1 \in Nat /\ 1 > 0 /\ 1 \in Int
  OBVIOUS
<1>6. PICK c \in Int : c = Last(s).close
  <2>1. l \in 1..l
    BY <1>2, <1>4
  <2>2. Last(s) = s[l]
    BY <1>5, <2>1, LastScales
  <2>3. s[l].close \in Int
    BY <2>1, BarNumbers
  <2> QED
    BY <2>2, <2>3
<1>7. PICK u, w : u = PriorBars(s, b) /\ w = PriorBars(s, n)
  OBVIOUS
<1>8. c >= Highest(u)
  <2>1. Box(s, i) = BoxRead(s, i)
    <3>1. ~(Len(s) < BoxLookback + 1)
      BY <1>2, <1>3, <1>4
    <3> QED
      BY <3>1, SetupsRead
  <2>2. BoxRead(s, i).ok => Last(s).close >= Highest(PriorBars(s, BoxLookback))
    <3>1. BoxLookback + 1 <= l
      BY <1>3, <1>4
    <3> QED
      BY <1>1, <1>5, <3>1, BoxScales
  <2> QED
    BY <1>1, <1>3, <1>6, <1>7, <2>1, <2>2
<1>9. AtLeast(Div(Whole(Peak(w) - c), Whole(Peak(w))), 3)
  <2>1. Pullback(s, i) = PullbackRead(s, i)
    <3>1. ~(Len(s) < PullbackLookback + 1)
      BY <1>2, <1>3, <1>4
    <3> QED
      BY <3>1, SetupsRead
  <2>2. PICK peak : peak = Peak(PriorBars(s, PullbackLookback))
    OBVIOUS
  <2>3. PullbackRead(s, i).ok => AtLeast(Div(Whole(peak - Last(s).close), Whole(peak)), 3)
    <3>1. PullbackLookback + 1 <= l
      BY <1>3, <1>4
    <3> QED
      BY <1>1, <1>5, <2>2, <3>1, PullbackScales
  <2> QED
    BY <1>1, <1>3, <1>6, <1>7, <2>1, <2>2, <2>3
<1>10. u = [k \in 1..b |-> s[l - 1 - b + k]] /\ w = [k \in 1..n |-> s[l - 1 - n + k]]
  BY <1>2, <1>4, <1>7, PriorBarsIs
<1>11. History(u, b) /\ History(w, n)
  BY <1>4, <1>5, <1>7, ScaledPrior
<1>12. PICK k \in 1..n : Peak(w) = w[k].close
  BY <1>3, <1>11, PeakAndHighest
<1>13. PICK j \in 1..b : w[k] = u[j]
  <2>1. b - n + k \in 1..b /\ l - 1 - b + (b - n + k) = l - 1 - n + k
    BY <1>2, <1>3, <1>12
  <2>2. w[k] = u[b - n + k]
    BY <1>10, <1>12, <2>1
  <2> QED
    BY <2>1, <2>2
<1>14. u[j] \in DayBar
  BY <1>11, <1>13 DEF History
<1>15. PICK hi \in Int : hi = Highest(u) /\ u[j].high <= hi
  BY <1>3, <1>11, <1>13, PeakAndHighest
<1>16. PICK peak \in Int : peak = Peak(w) /\ peak > 0 /\ peak <= hi
  <2>1. /\ u[j].close \in Int /\ u[j].high \in Int /\ u[j].low \in Int
        /\ 0 < u[j].low /\ u[j].low <= u[j].close /\ u[j].close <= u[j].high
    BY <1>14 DEF DayBar
  <2>2. 0 < u[j].close /\ u[j].close <= hi
    BY <1>15, <2>1
  <2> QED
    BY <1>12, <1>13, <2>1, <2>2
<1>17. Div(Whole(peak - c), Whole(peak)) = <<peak - c, peak>>
  BY <1>16 DEF Div, Whole
<1>18. 100 * (peak - c) >= 3 * peak
  BY <1>9, <1>16, <1>17 DEF AtLeast
<1> QED
  BY <1>8, <1>15, <1>16, <1>18

SetupNames == {"volatility_contraction_breakout", "box_breakout", "trend_pullback"}
InFrontOf == {p \in SetupNames \X SetupNames : PlaceOf(p[1]) < PlaceOf(p[2])}

\* SETUP_ORDER lists the setups by their places.
LEMMA SetupsListed == IsFiniteSet(SetupNames) /\ Lists(SetupOrder, InFrontOf, SetupNames)
<1>1. PICK a, b, c : /\ a = "volatility_contraction_breakout" /\ b = "box_breakout"
                     /\ c = "trend_pullback"
  OBVIOUS
<1>2. a # b /\ a # c /\ b # c
  BY <1>1
<1>3. SetupOrder = <<a, b, c>> /\ SetupNames = {a, b, c}
  BY <1>1 DEF SetupOrder, SetupNames
<1>4. IsFiniteSet(SetupNames) /\ Cardinality(SetupNames) = 3
  <2>1. IsFiniteSet({a}) /\ Cardinality({a}) = 1
    BY FS_Singleton
  <2>2. IsFiniteSet({a} \cup {b}) /\ Cardinality({a} \cup {b}) = 2
    BY <1>2, <2>1, FS_AddElement
  <2>3. PICK S : S = {a} \cup {b}
    OBVIOUS
  <2>4. IsFiniteSet(S \cup {c}) /\ Cardinality(S \cup {c}) = 3
    <3>1. c \notin S
      BY <1>2, <2>3
    <3> QED
      BY <2>2, <2>3, <3>1, FS_AddElement
  <2>5. S \cup {c} = {a, b, c}
    BY <2>3
  <2> QED
    BY <1>3, <2>4, <2>5
<1>5. DOMAIN SetupOrder = 1..3 /\ SetupOrder[1] = a /\ SetupOrder[2] = b /\ SetupOrder[3] = c
  BY <1>3
<1>6. ToSet(SetupOrder) = {a, b, c}
  BY <1>5 DEF ToSet
<1>7. ASSUME NEW k \in 1..3 PROVE PlaceOf(SetupOrder[k]) = k
  <2>1. PICK n : n = SetupOrder[k]
    OBVIOUS
  <2>2. n \in ToSet(SetupOrder)
    BY <1>5, <2>1 DEF ToSet
  <2>3. PICK x : x = CHOOSE i \in DOMAIN SetupOrder : SetupOrder[i] = n
    OBVIOUS
  <2>4. PlaceOf(n) = x
    BY <2>2, <2>3, Zenon DEF PlaceOf
  <2>5. x \in 1..3 /\ SetupOrder[x] = n
    <3>1. \E i \in DOMAIN SetupOrder : SetupOrder[i] = n
      BY <1>5, <2>1
    <3> QED
      BY <1>5, <2>3, <3>1
  <2>6. x = k
    BY <1>2, <1>5, <2>1, <2>5
  <2> QED
    BY <2>1, <2>4, <2>6
<1>8. SetupOrder \in [1..3 -> SetupNames]
  BY <1>3
<1>9. \A x \in SetupNames : \E i \in 1..3 : SetupOrder[i] = x
  BY <1>3, <1>5
<1>10. ASSUME NEW i \in 1..3, NEW j \in 1..3, i < j
       PROVE  <<SetupOrder[i], SetupOrder[j]>> \in InFrontOf /\ SetupOrder[i] # SetupOrder[j]
  <2>1. PICK x \in SetupNames, y \in SetupNames : x = SetupOrder[i] /\ y = SetupOrder[j]
    BY <1>8
  <2>2. PlaceOf(x) = i /\ PlaceOf(y) = j
    BY <1>7, <2>1
  <2>3. <<x, y>> \in InFrontOf
    BY <1>10, <2>2 DEF InFrontOf
  <2>4. x # y
    BY <1>10, <2>2
  <2> QED
    BY <2>1, <2>3, <2>4
<1> QED
  BY <1>4, <1>8, <1>9, <1>10 DEF Lists

\* The setups that match, and the primary one of them.
LEMMA PrimaryIsBest ==
  ASSUME NEW common, NEW setups, \A n \in SetupNames : setups[n].score \in Int
  PROVE  LET matched == Matched(common, setups)
             primary == Primary(setups, matched)
         IN /\ ToSet(matched) = {n \in SetupNames : setups[n].ok /\ common.ok}
            /\ \A n \in ToSet(matched) :
                 \/ setups[n].score < setups[primary].score
                 \/ setups[n].score = setups[primary].score /\ PlaceOf(primary) <= PlaceOf(n)
<1>1. PICK Q \in SUBSET SetupNames : Q = {n \in SetupNames : setups[n].ok /\ common.ok}
  OBVIOUS
<1>2. PICK matched : matched = Matched(common, setups)
  OBVIOUS
<1>3. matched = Kept(SetupOrder, Q)
  <2>1. \A i \in DOMAIN SetupOrder : SetupOrder[i] \in SetupNames
    BY SetupsListed DEF Lists
  <2>2. {i \in DOMAIN SetupOrder : setups[SetupOrder[i]].ok /\ common.ok}
          = {i \in DOMAIN SetupOrder : SetupOrder[i] \in Q}
    BY <1>1, <2>1
  <2> QED
    BY <1>2, <2>2 DEF Matched, Kept, KeepIf
<1>4. Lists(matched, InFrontOf, Q)
  BY <1>3, SetupsListed, KeptAreListed
<1>5. IsFiniteSet(Q)
  BY <1>1, SetupsListed, FS_Subset
<1>6. ToSet(matched) = Q
  BY <1>4 DEF Lists, ToSet
<1>7. ASSUME NEW n \in Q
      PROVE  LET primary == Primary(setups, matched)
             IN \/ setups[n].score < setups[primary].score
                \/ setups[n].score = setups[primary].score /\ PlaceOf(primary) <= PlaceOf(n)
  <2>1. PICK f : f = [m \in Q |-> setups[m].score]
    OBVIOUS
  <2>2. PICK S : S = {f[m] : m \in Q}
    OBVIOUS
  <2>3. IsFiniteSet(S) /\ S \subseteq Int /\ S # {}
    <3>1. IsFiniteSet(S)
      BY <1>5, <2>1, <2>2, FinitelyManyKeys
    <3> QED
      BY <1>1, <1>7, <2>1, <2>2, <3>1
  <2>4. PICK best \in Int : best = Max(S) /\ best \in S /\ \A y \in S : best >= y
    <3>1. Max(S) \in S /\ \A y \in S : Max(S) >= y
      BY <2>3, MaxOf
    <3> QED
      BY <2>3, <3>1
  <2>5. S = {setups[m].score : m \in ToSet(matched)}
    BY <1>6, <2>1, <2>2
  <2>6. PICK B \in SUBSET Q : B = {m \in Q : setups[m].score = best}
    OBVIOUS
  <2>7. PICK q : q = Kept(matched, B)
    OBVIOUS
  <2>8. Lists(q, InFrontOf, B)
    BY <1>4, <1>5, <2>6, <2>7, KeptAreListed
  <2>9. best = Max({setups[m].score : m \in ToSet(matched)})
    BY <2>4, <2>5
  <2>10. matched # <<>>
    BY <1>6, <1>7 DEF ToSet
  <2>11. Primary(setups, matched) = Head(q)
    <3>1. \A i \in DOMAIN matched : matched[i] \in Q
      BY <1>4 DEF Lists
    <3>2. PICK places : places = {i \in DOMAIN matched : matched[i] \in B}
      OBVIOUS
    <3>3. places = {i \in DOMAIN matched :
                      setups[matched[i]].score = Max({setups[m].score : m \in ToSet(matched)})}
      BY <2>6, <2>9, <3>1, <3>2
    <3>4. q = [i \in DOMAIN InOrder(places, <) |-> matched[InOrder(places, <)[i]]]
      BY <2>7, <3>2 DEF Kept, KeepIf
    <3>5. Primary(setups, matched)
            = Head([i \in DOMAIN InOrder(places, <) |-> matched[InOrder(places, <)[i]]])
      BY <2>10, <3>3 DEF Primary, KeepIf
    <3> QED
      BY <3>4, <3>5
  <2>12. IsFiniteSet(B) /\ Cardinality(B) \in Nat
    BY <1>5, <2>6, FS_Subset, FS_CardinalityType
  <2>13. PICK k \in Nat : k = Cardinality(B)
    BY <2>12
  <2>14. /\ q \in [1..k -> B] /\ \A x \in B : \E i \in 1..k : q[i] = x
         /\ \A i, j \in 1..k : i < j => <<q[i], q[j]>> \in InFrontOf
    BY <2>8, <2>13 DEF Lists
  <2>15. B # {}
    BY <2>1, <2>2, <2>4, <2>6
  <2>16. 1 \in 1..k /\ Head(q) = q[1]
    <3>1. PICK i \in 1..k : TRUE
      BY <2>14, <2>15
    <3> QED
      BY <2>14, <3>1
  <2>17. PICK x \in B : x = Primary(setups, matched) /\ x = q[1]
    BY <2>11, <2>14, <2>16
  <2>18. setups[x].score = best
    BY <2>6, <2>17
  <2>19. PICK y \in Int : y = setups[n].score /\ y <= best
    <3>1. f[n] \in S /\ f[n] = setups[n].score
      BY <1>7, <2>1, <2>2
    <3> QED
      BY <2>3, <2>4, <3>1
  <2>20. ASSUME y = best PROVE PlaceOf(x) <= PlaceOf(n)
    <3>1. PlaceOf(x) \in Int /\ PlaceOf(n) \in Int
      BY PlacesAreNumbers
    <3>2. PICK i \in 1..k : q[i] = n
      BY <1>7, <2>6, <2>14, <2>19, <2>20
    <3>3. CASE i = 1
      BY <2>17, <3>1, <3>2, <3>3
    <3>4. CASE 1 < i
      <4>1. <<x, n>> \in InFrontOf
        BY <2>14, <2>16, <2>17, <3>2, <3>4
      <4>2. PlaceOf(x) < PlaceOf(n)
        BY <4>1 DEF InFrontOf
      <4> QED
        BY <3>1, <4>2
    <3> QED
      BY <3>2, <3>3, <3>4
  <2> QED
    BY <2>17, <2>18, <2>19, <2>20
<1> QED
  BY <1>1, <1>2, <1>6, <1>7

\* An evaluation's setups: what matched, and the primary one.
LEMMA ScreenedConcludes ==
  ASSUME NEW s
  PROVE  LET e == Screened(s)
         IN e.matched = Matched(e.common, e.setups) /\ e.primary = Primary(e.setups, e.matched)
<1>1. PICK common : common = Common(s, Indicators(s))
  OBVIOUS
<1>2. PICK setups : setups = [box_breakout |-> Box(s, Indicators(s)),
                              trend_pullback |-> Pullback(s, Indicators(s)),
                              volatility_contraction_breakout |-> Contraction(s, Indicators(s))]
  OBVIOUS
<1>3. Screened(s) = Screening(common, setups, Matched(common, setups))
  BY <1>1, <1>2, Zenon DEF Screened, Evaluate, Conclude
<1>4. PICK m : m = Matched(common, setups)
  OBVIOUS
<1>5. PICK e : e = Screened(s)
  OBVIOUS
<1>6. e.common = common /\ e.setups = setups /\ e.matched = m /\ e.primary = Primary(setups, m)
  BY <1>3, <1>4, <1>5 DEF Screening
<1> QED
  BY <1>4, <1>5, <1>6

\* The setups of a history tell market phases apart.
LEMMA SetupsOfHistory ==
  ASSUME NEW s, NEW l, History(s, l)
  PROVE  LET e == Screened(s)
             matched == ToSet(e.matched)
         IN /\ PullbackLookback <= BoxLookback => ~({"box_breakout", "trend_pullback"} \subseteq matched)
            /\ \A n \in matched :
                 \/ e.setups[n].score < e.setups[e.primary].score
                 \/ e.setups[n].score = e.setups[e.primary].score /\ PlaceOf(e.primary) <= PlaceOf(n)
<1>1. PICK e : e = Screened(s)
  OBVIOUS
<1>2. PICK i : i = Indicators(s)
  OBVIOUS
<1>3. e.setups = [box_breakout |-> Box(s, i), trend_pullback |-> Pullback(s, i),
                  volatility_contraction_breakout |-> Contraction(s, i)]
  BY <1>1, <1>2, ScreenedIs
<1>4. e.matched = Matched(e.common, e.setups) /\ e.primary = Primary(e.setups, e.matched)
  BY <1>1, ScreenedConcludes
<1>5. l \in Nat /\ Len(s) = l
  BY RowLength DEF History
<1>6. BoxLookback \in Nat /\ PullbackLookback \in Nat /\ LongLookback \in Nat
  BY LookbacksFit
<1>7. 1 \in Nat /\ 1 > 0
  OBVIOUS
<1>8. NotEvaluated.score \in Int
  BY DEF NotEvaluated
<1>9. Box(s, i).score \in Int
  <2>1. CASE l < BoxLookback + 1
    <3>1. Box(s, i) = NotEvaluated
      BY <1>5, <2>1, SetupsRead
    <3> QED
      BY <1>8, <3>1
  <2>2. CASE ~(l < BoxLookback + 1)
    <3>1. Box(s, i) = BoxRead(s, i)
      BY <1>5, <2>2, SetupsRead
    <3>2. BoxLookback + 1 <= l
      BY <1>5, <1>6, <2>2
    <3>3. BoxRead(s, i).score \in Int
      BY <1>2, <1>7, <3>2, BoxScales
    <3> QED
      BY <3>1, <3>3
  <2> QED
    BY <2>1, <2>2
<1>10. Pullback(s, i).score \in Int
  <2>1. CASE l < PullbackLookback + 1
    <3>1. Pullback(s, i) = NotEvaluated
      BY <1>5, <2>1, SetupsRead
    <3> QED
      BY <1>8, <3>1
  <2>2. CASE ~(l < PullbackLookback + 1)
    <3>1. Pullback(s, i) = PullbackRead(s, i)
      BY <1>5, <2>2, SetupsRead
    <3>2. PullbackLookback + 1 <= l
      BY <1>5, <1>6, <2>2
    <3>3. PullbackRead(s, i).score \in Int
      BY <1>2, <1>7, <3>2, PullbackScales
    <3> QED
      BY <3>1, <3>3
  <2> QED
    BY <2>1, <2>2
<1>11. Contraction(s, i).score \in Int
  <2>1. CASE l < LongLookback + 2
    <3>1. Contraction(s, i) = NotEvaluated
      BY <1>5, <2>1, SetupsRead
    <3> QED
      BY <1>8, <3>1
  <2>2. CASE ~(l < LongLookback + 2)
    <3>1. Contraction(s, i) = ContractionRead(s, i)
      BY <1>5, <2>2, SetupsRead
    <3>2. LongLookback + 2 <= l
      BY <1>5, <1>6, <2>2
    <3>3. ContractionRead(s, i).score \in Int
      BY <1>2, <1>7, <3>2, ContractionScales
    <3> QED
      BY <3>1, <3>3
  <2> QED
    BY <2>1, <2>2
<1>12. \A n \in SetupNames : e.setups[n].score \in Int
  BY <1>3, <1>9, <1>10, <1>11 DEF SetupNames
<1>13. PICK common, setups, matched, primary :
         common = e.common /\ setups = e.setups /\ matched = e.matched /\ primary = e.primary
  OBVIOUS
<1>14. matched = Matched(common, setups) /\ primary = Primary(setups, matched)
  BY <1>4, <1>13
<1>15. /\ ToSet(matched) = {n \in SetupNames : setups[n].ok /\ common.ok}
       /\ \A n \in ToSet(matched) :
            \/ setups[n].score < setups[primary].score
            \/ setups[n].score = setups[primary].score /\ PlaceOf(primary) <= PlaceOf(n)
  BY <1>12, <1>13, <1>14, PrimaryIsBest
<1>16. ASSUME PullbackLookback <= BoxLookback, {"box_breakout", "trend_pullback"} \subseteq ToSet(matched)
       PROVE  FALSE
  <2>1. setups["box_breakout"].ok /\ setups["trend_pullback"].ok
    BY <1>15, <1>16
  <2>2. setups["box_breakout"] = Box(s, i) /\ setups["trend_pullback"] = Pullback(s, i)
    BY <1>3, <1>13
  <2> QED
    BY <1>2, <1>16, <2>1, <2>2, BoxOrPullback
<1> QED
  BY <1>1, <1>13, <1>15, <1>16

\* The invariant gives the three parts of the property.
LEMMA SetupsFromInv == ScreeningInv => SetupsAreSound
<1> SUFFICES ASSUME ScreeningInv PROVE SetupsAreSound
  OBVIOUS
<1>1. ASSUME algorithm = "screening"
      PROVE  \E l : History(bars, l)
  BY <1>1, BarsAreHistory
<1>2. SetupsAreDistinct
  <2> SUFFICES ASSUME algorithm = "screening" PROVE SetupsAreDistinct
    BY DEF SetupsAreDistinct
  <2>1. PICK l : History(bars, l)
    BY <1>1
  <2>2. PICK e : e = Screened(bars)
    OBVIOUS
  <2>3. /\ PullbackLookback <= BoxLookback => ~({"box_breakout", "trend_pullback"} \subseteq ToSet(e.matched))
        /\ \A n \in ToSet(e.matched) :
             \/ e.setups[n].score < e.setups[e.primary].score
             \/ e.setups[n].score = e.setups[e.primary].score /\ PlaceOf(e.primary) <= PlaceOf(n)
    BY <2>1, <2>2, SetupsOfHistory
  <2> QED
    BY <2>2, <2>3, Zenon DEF SetupsAreDistinct
<1>3. ScoresAreScaleFree
  <2> SUFFICES ASSUME algorithm = "screening" PROVE ScoresAreScaleFree
    BY DEF ScoresAreScaleFree
  <2>1. PICK l : History(bars, l)
    BY <1>1
  <2>2. l \in Nat /\ DOMAIN bars = 1..l /\ Row(bars, l)
    BY <2>1, RowLength DEF History
  <2>3. ASSUME NEW p \in Nat, p > 0, NEW v \in Nat, v > 0
        PROVE  Screened(Scaled(bars, p, v)).setups = Screened(bars).setups
    <3>1. CASE l > 0
      BY <2>1, <2>3, <3>1, SetupsScale
    <3>2. CASE l = 0
      <4>1. Scaled(bars, p, v) = bars
        <5>1. \A k \in 1..l : FALSE
          BY <3>2
        <5>2. bars = [k \in 1..l |-> bars[k]]
          BY <2>2 DEF Row
        <5>3. Scaled(bars, p, v) = [k \in 1..l |-> Bar(p * bars[k].open, p * bars[k].high, p * bars[k].low,
                                                       p * bars[k].close, v * bars[k].volume)]
          BY <2>2, Zenon DEF Scaled
        <5> QED
          BY <5>1, <5>2, <5>3
      <4> QED
        BY <4>1
    <3> QED
      BY <2>2, <3>1, <3>2
  <2>4. 1 \in Nat /\ 2 \in Nat /\ 3 \in Nat /\ 1 > 0 /\ 2 > 0 /\ 3 > 0
    OBVIOUS
  <2>5. Screened(Scaled(bars, 2, 1)).setups = Screened(bars).setups
    BY <2>3, <2>4
  <2>6. Screened(Scaled(bars, 1, 3)).setups = Screened(bars).setups
    BY <2>3, <2>4
  <2> QED
    BY <2>5, <2>6 DEF ScoresAreScaleFree
<1>4. AveragesAreBetween
  <2> SUFFICES ASSUME algorithm = "screening" PROVE AveragesAreBetween
    BY DEF AveragesAreBetween
  <2>1. PICK l : History(bars, l)
    BY <1>1
  <2> QED
    BY <2>1, AveragesBetween DEF AveragesAreBetween
<1> QED
  BY <1>2, <1>3, <1>4 DEF SetupsAreSound

\* However long the history of days that AddDay appends, the box and the pullback
\* of one window exclude each other, the primary setup is the best one, a split
\* or another unit of volume changes no rule and no score, and every average
\* lies between the closes it averages (swing.py, calculations.py).
THEOREM SetupsAlwaysSound == AlgorithmsSpec => []SetupsAreSound
<1>1. ScreeningInv => SetupsAreSound
  BY SetupsFromInv
<1> QED
  BY <1>1, ScreeningInitially, ScreeningInductive, PTL DEF AlgorithmsSpec

==============================================================================
