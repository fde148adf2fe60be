-------------------------- MODULE InstrumentProofs --------------------------
(***************************************************************************)
(* The analysis of one instrument, for any minutes and any days: the       *)
(* charts of the three timeframes, the levels on either side of the price, *)
(* the verdict and the daily baselines it is backed by.                    *)
(***************************************************************************)
EXTENDS AlgorithmsProofs

-----------------------------------------------------------------------------
(***************************************************************************)
(* Charts: bars with times of their own, listed by time.  A candle of a    *)
(* set of bars is described without reference to the list it was made of.  *)
(***************************************************************************)

\* What the aggregation reads of a bar.
IsMinute(b) == /\ b.t \in Int /\ b.open \in Int /\ b.high \in Int /\ b.low \in Int
               /\ b.close \in Int /\ b.volume \in Int
Timed(Q) == /\ IsFiniteSet(Q) /\ \A b \in Q : IsMinute(b)
            /\ \A b, c \in Q : b.t = c.t => b = c
InTime(Q) == {p \in Q \X Q : p[1].t < p[2].t}
Chart(s, Q) == Timed(Q) /\ Lists(s, InTime(Q), Q)

\* Times order the bars.
LEMMA TimesOrder ==
  ASSUME NEW Q, Timed(Q)
  PROVE  OrdersAll(InTime(Q), Q)
<1>1. \A b, c \in Q : <<b, c>> \in InTime(Q) <=> b.t < c.t
  BY DEF InTime
<1>2. \A b \in Q : b.t \in Int
  BY DEF Timed, IsMinute
<1>3. \A b, c \in Q : b.t = c.t => b = c
  BY DEF Timed
<1> QED
  BY <1>1, <1>2, <1>3 DEF OrdersAll

\* A chart by its places.
Placed(s, Q, n) ==
  /\ n \in Nat /\ n = Cardinality(Q) /\ Row(s, n) /\ DOMAIN s = 1..n /\ Len(s) = n
  /\ ToSet(s) = Q /\ \A i \in 1..n : s[i] \in Q
  /\ \A b \in Q : \E i \in 1..n : s[i] = b
  /\ \A i, j \in 1..n : i < j => s[i].t < s[j].t
  /\ (n = 0) = (Q = {})

\* Every chart has such places.
LEMMA ChartPlaces ==
  ASSUME NEW s, NEW Q, Chart(s, Q)
  PROVE  Placed(s, Q, Cardinality(Q))
<1>1. PICK n : n = Cardinality(Q)
  OBVIOUS
<1>2. IsFiniteSet(Q) /\ n \in Nat
  BY <1>1, FS_CardinalityType DEF Chart, Timed
<1>3. s \in [1..n -> Q] /\ \A b \in Q : \E i \in 1..n : s[i] = b
  BY <1>1 DEF Chart, Lists
<1>4. \A i, j \in 1..n : i < j => s[i].t < s[j].t
  <2>1. ASSUME NEW i \in 1..n, NEW j \in 1..n, i < j PROVE s[i].t < s[j].t
    <3>1. <<s[i], s[j]>> \in InTime(Q)
      BY <1>1, <2>1 DEF Chart, Lists
    <3> QED
      BY <3>1 DEF InTime
  <2> QED
    BY <2>1
<1>5. Row(s, n) /\ DOMAIN s = 1..n
  BY <1>2, <1>3 DEF Row
<1>6. Len(s) = n
  BY <1>5, RowLength
<1>7. ToSet(s) = Q
  BY <1>3, <1>5 DEF ToSet
<1>8. (n = 0) = (Q = {})
  <2>1. n = 0 => Q = {}
    BY <1>3
  <2>2. Q = {} => n = 0
    BY <1>1, FS_EmptySet
  <2> QED
    BY <2>1, <2>2
<1> QED
  BY <1>1, <1>2, <1>3, <1>4, <1>5, <1>6, <1>7, <1>8 DEF Placed

\* sorted() by time leaves a chart as it is.
LEMMA ChartSorted ==
  ASSUME NEW s, NEW Q, Chart(s, Q)
  PROVE  InOrder(Q, LAMBDA a, b : a.t < b.t) = s
<1> DEFINE A(x) == {y \in Q : y.t < x.t}
           P(x) == {y \in Q : <<y, x>> \in InTime(Q)}
           order == InOrder(Q, LAMBDA a, b : a.t < b.t)
<1>1. order = [i \in 1..Cardinality(Q) |-> CHOOSE x \in Q : Cardinality(A(x)) = i - 1]
  BY DEF InOrder
<1>2. Arranged(InTime(Q), Q) = [i \in 1..Cardinality(Q) |-> CHOOSE x \in Q : Cardinality(P(x)) = i - 1]
  BY DEF Arranged, InOrder
<1>3. \A x \in Q : A(x) = P(x)
  BY DEF InTime
<1>4. order = Arranged(InTime(Q), Q)
  <2> HIDE DEF order, A, P
  <2>1. ASSUME NEW i \in 1..Cardinality(Q)
        PROVE  (CHOOSE x \in Q : Cardinality(A(x)) = i - 1) = CHOOSE x \in Q : Cardinality(P(x)) = i - 1
    BY <1>3
  <2> QED
    BY <1>1, <1>2, <2>1
<1>5. IsFiniteSet(Q) /\ OrdersAll(InTime(Q), Q) /\ Lists(s, InTime(Q), Q)
  BY TimesOrder DEF Chart, Timed
<1>6. Lists(Arranged(InTime(Q), Q), InTime(Q), Q)
  BY <1>5, SortedLists
<1>7. Arranged(InTime(Q), Q) = s
  BY <1>5, <1>6, ListsAreOne
<1> QED
  BY <1>4, <1>7

\* A part of a timed set is timed.
LEMMA PartIsTimed ==
  ASSUME NEW Q, Timed(Q), NEW P \in SUBSET Q
  PROVE  Timed(P)
<1>1. IsFiniteSet(P)
  BY FS_Subset DEF Timed
<1> QED
  BY <1>1 DEF Timed

\* What is kept of a chart is a chart.
LEMMA KeptIsChart ==
  ASSUME NEW s, NEW Q, Chart(s, Q), NEW P \in SUBSET Q
  PROVE  Chart(Kept(s, P), P)
<1>1. IsFiniteSet(Q) /\ Lists(s, InTime(Q), Q)
  BY DEF Chart, Timed
<1>2. PICK u : u = Kept(s, P)
  OBVIOUS
<1>3. Lists(u, InTime(Q), P)
  BY <1>1, <1>2, KeptAreListed
<1>4. \A x, y \in P : <<x, y>> \in InTime(Q) => <<x, y>> \in InTime(P)
  BY DEF InTime
<1>5. Lists(u, InTime(P), P)
  <2>1. u \in [1..Cardinality(P) -> P] /\ \A x \in P : \E i \in 1..Cardinality(P) : u[i] = x
    BY <1>3 DEF Lists
  <2>2. ASSUME NEW i \in 1..Cardinality(P), NEW j \in 1..Cardinality(P), i < j
        PROVE  <<u[i], u[j]>> \in InTime(P) /\ u[i] # u[j]
    <3>1. u[i] \in P /\ u[j] \in P
      BY <2>1
    <3>2. <<u[i], u[j]>> \in InTime(Q) /\ u[i] # u[j]
      BY <1>3, <2>2 DEF Lists
    <3> QED
      BY <1>4, <3>1, <3>2
  <2> QED
    BY <2>1, <2>2 DEF Lists
<1>6. Timed(P)
  BY PartIsTimed DEF Chart
<1> QED
  BY <1>2, <1>5, <1>6 DEF Chart

\* The total of a function over a list is its total over the members.
LEMMA TotalOfList ==
  ASSUME NEW S, IsFiniteSet(S), NEW R, NEW s, Lists(s, R, S), NEW n \in Nat, n = Cardinality(S),
         NEW f \in [S -> Int]
  PROVE  Total([i \in 1..n |-> f[s[i]]], 1..n) = Total(f, S)
<1> DEFINE D == 1..n
           g == [i \in D |-> f[s[i]]]
           h == [x \in S |-> Total(g, {i \in D : s[i] = x})]
<1>1. s \in [D -> S] /\ \A x \in S : \E i \in D : s[i] = x
  BY DEF Lists
<1>2. \A i, j \in D : s[i] = s[j] => i = j
  <2>1. ASSUME NEW i \in D, NEW j \in D, s[i] = s[j], i # j PROVE FALSE
    <3>1. CASE i < j
      BY <2>1, <3>1 DEF Lists
    <3>2. CASE j < i
      BY <2>1, <3>2 DEF Lists
    <3> QED
      BY <2>1, <3>1, <3>2
  <2> QED
    BY <2>1
<1>3. IsFiniteSet(D)
  BY FS_Interval
<1>4. g \in [D -> Int]
  BY <1>1
<1>5. ASSUME NEW x \in S PROVE h[x] = f[x]
  <2>1. PICK a \in D : s[a] = x
    BY <1>1
  <2>2. {i \in D : s[i] = x} = {a}
    BY <1>2, <2>1
  <2>3. g[a] = f[x]
    BY <2>1
  <2> HIDE DEF g, D
  <2>4. Total(g, {a}) = g[a]
    BY <1>3, <1>4, <2>1, TotalSingle
  <2> QED
    BY <2>2, <2>3, <2>4
<1>6. Total(h, S) = Total(g, D)
  <2> HIDE DEF g, D
  <2> QED
    BY <1>1, <1>3, <1>4, TotalOfParts
<1>7. Total(h, S) = Total(f, S)
  <2> HIDE DEF h
  <2> QED
    BY <1>5, TotalSame
<1> QED
  BY <1>6, <1>7

\* c is a candle of the bars in Q.
VolumeOf(Q) == [b \in Q |-> b.volume]
Opens(c, Q) == \E b \in Q : (\A x \in Q : b.t <= x.t) /\ c.open = b.open /\ c.currency = b.currency
Closing(c, Q) == \E b \in Q : (\A x \in Q : x.t <= b.t) /\ c.close = b.close
Tops(c, Q) == (\E b \in Q : c.high = b.high) /\ \A b \in Q : b.high <= c.high
Bottoms(c, Q) == (\E b \in Q : c.low = b.low) /\ \A b \in Q : c.low <= b.low
Carries(c, Q) == c.volume = Total(VolumeOf(Q), Q)
IsSummary(c, Q) == Opens(c, Q) /\ Closing(c, Q) /\ Tops(c, Q) /\ Bottoms(c, Q) /\ Carries(c, Q)

\* The candle of a list is a candle of the bars in it.
LEMMA CandleSummarises ==
  ASSUME NEW s, NEW Q, Chart(s, Q), Q # {}, NEW k
  PROVE  /\ IsSummary(Candle(k, s), Q) /\ Candle(k, s).t = k
         /\ Head(s).open = Candle(k, s).open /\ Last(s).close = Candle(k, s).close
         /\ Highest(s) = Candle(k, s).high /\ Lowest(s) = Candle(k, s).low
         /\ SumOf(Volumes(s)) = Candle(k, s).volume
<1>0. PICK n : Placed(s, Q, n)
  BY ChartPlaces
<1>1. /\ n \in Nat /\ Row(s, n) /\ DOMAIN s = 1..n /\ Len(s) = n
      /\ \A i \in 1..n : s[i] \in Q
      /\ \A b \in Q : \E i \in 1..n : s[i] = b
      /\ \A i, j \in 1..n : i < j => s[i].t < s[j].t
      /\ n = Cardinality(Q) /\ (n = 0) = (Q = {})
  BY <1>0 DEF Placed
<1>2. n > 0 /\ 1 \in 1..n /\ n \in 1..n
  BY <1>1
<1>3. PICK c : c = Candle(k, s)
  OBVIOUS
<1>4. Head(s) = s[1] /\ Last(s) = s[n]
  BY <1>1, <1>2, RowLength DEF Last
<1>5. /\ c.t = k /\ c.open = s[1].open /\ c.high = Highest(s) /\ c.low = Lowest(s)
      /\ c.close = s[n].close /\ c.volume = SumOf(Volumes(s)) /\ c.currency = s[1].currency
  BY <1>3, <1>4 DEF Candle
<1>6. \A b \in Q : /\ b.t \in Int /\ b.open \in Int /\ b.high \in Int /\ b.low \in Int
                   /\ b.close \in Int /\ b.volume \in Int
  BY DEF Chart, Timed, IsMinute
<1>7. Opens(c, Q)
  <2>1. PICK b \in Q : b = s[1]
    BY <1>1, <1>2
  <2>2. ASSUME NEW x \in Q PROVE b.t <= x.t
    <3>1. PICK i \in 1..n : s[i] = x
      BY <1>1
    <3>2. CASE i = 1
      BY <1>6, <2>1, <3>1, <3>2
    <3>3. CASE i # 1
      <4>1. 1 < i
        BY <3>3
      <4>2. s[1].t < s[i].t
        BY <1>1, <1>2, <4>1
      <4> QED
        BY <1>6, <2>1, <3>1, <4>2
    <3> QED
      BY <3>2, <3>3
  <2> QED
    BY <1>5, <2>1, <2>2 DEF Opens
<1>8. Closing(c, Q)
  <2>1. PICK b \in Q : b = s[n]
    BY <1>1, <1>2
  <2>2. ASSUME NEW x \in Q PROVE x.t <= b.t
    <3>1. PICK i \in 1..n : s[i] = x
      BY <1>1
    <3>2. CASE i = n
      BY <1>6, <2>1, <3>1, <3>2
    <3>3. CASE i # n
      <4>1. i < n
        BY <1>1, <3>3
      <4>2. s[i].t < s[n].t
        BY <1>1, <1>2, <4>1
      <4> QED
        BY <1>6, <2>1, <3>1, <4>2
    <3> QED
      BY <3>2, <3>3
  <2> QED
    BY <1>5, <2>1, <2>2 DEF Closing
<1>9. IsFiniteSet(1..n)
  BY <1>1, FS_Interval
<1>10. Tops(c, Q)
  <2> DEFINE g == [i \in 1..n |-> s[i].high]
             H == {g[i] : i \in 1..n}
  <2>1. H \subseteq Int /\ s[1].high \in H
    BY <1>1, <1>2, <1>6
  <2>2. IsFiniteSet(H)
    <3>1. g \in [1..n -> H] /\ \A y \in H : \E i \in 1..n : g[i] = y
      OBVIOUS
    <3> HIDE DEF g
    <3>2. g \in Surjection(1..n, H)
      <4> HIDE DEF H
      <4> QED
        BY <3>1 DEF Surjection
    <3> HIDE DEF H
    <3> QED
      BY <1>9, <3>2, FS_Surjection
  <2>3. Highest(s) = Max(H)
    BY <1>1 DEF Highest
  <2>4. Max(H) \in H /\ \A y \in H : Max(H) >= y
    <3> HIDE DEF H
    <3> QED
      BY <2>1, <2>2, MaxOf
  <2>5. PICK i \in 1..n : Max(H) = s[i].high
    BY <2>4
  <2>6. ASSUME NEW b \in Q PROVE b.high <= c.high
    <3>1. PICK j \in 1..n : s[j] = b
      BY <1>1
    <3>2. b.high \in H
      BY <3>1
    <3> QED
      BY <1>1, <1>5, <1>6, <2>3, <2>4, <2>5, <3>2
  <2>7. \E b \in Q : c.high = b.high
    BY <1>1, <1>5, <2>3, <2>5
  <2> QED
    BY <2>6, <2>7 DEF Tops
<1>11. Bottoms(c, Q)
  <2> DEFINE g == [i \in 1..n |-> s[i].low]
             H == {g[i] : i \in 1..n}
  <2>1. H \subseteq Int /\ s[1].low \in H
    BY <1>1, <1>2, <1>6
  <2>2. IsFiniteSet(H)
    <3>1. g \in [1..n -> H] /\ \A y \in H : \E i \in 1..n : g[i] = y
      OBVIOUS
    <3> HIDE DEF g
    <3>2. g \in Surjection(1..n, H)
      <4> HIDE DEF H
      <4> QED
        BY <3>1 DEF Surjection
    <3> HIDE DEF H
    <3> QED
      BY <1>9, <3>2, FS_Surjection
  <2>3. Lowest(s) = Min(H)
    BY <1>1 DEF Lowest
  <2>4. Min(H) \in H /\ \A y \in H : Min(H) <= y
    <3> HIDE DEF H
    <3> QED
      BY <2>1, <2>2, MinOf
  <2>5. PICK i \in 1..n : Min(H) = s[i].low
    BY <2>4
  <2>6. ASSUME NEW b \in Q PROVE c.low <= b.low
    <3>1. PICK j \in 1..n : s[j] = b
      BY <1>1
    <3>2. b.low \in H
      BY <3>1
    <3> QED
      BY <1>1, <1>5, <1>6, <2>3, <2>4, <2>5, <3>2
  <2>7. \E b \in Q : c.low = b.low
    BY <1>1, <1>5, <2>3, <2>5
  <2> QED
    BY <2>6, <2>7 DEF Bottoms
<1>12. Carries(c, Q)
  <2>1. PICK f : f = VolumeOf(Q)
    OBVIOUS
  <2>2. f \in [Q -> Int]
    BY <1>6, <2>1 DEF VolumeOf
  <2>3. Volumes(s) = [i \in 1..n |-> f[s[i]]]
    BY <1>1, <2>1 DEF Volumes, VolumeOf
  <2>4. SumOf(Volumes(s)) = Total(Volumes(s), 1..n)
    <3>1. DOMAIN Volumes(s) = 1..n
      BY <1>1 DEF Volumes
    <3> QED
      BY <3>1 DEF SumOf, Total
  <2>5. Total([i \in 1..n |-> f[s[i]]], 1..n) = Total(f, Q)
    <3>1. IsFiniteSet(Q) /\ Lists(s, InTime(Q), Q)
      BY DEF Chart, Timed
    <3> QED
      BY <1>1, <2>2, <3>1, TotalOfList
  <2> QED
    BY <1>5, <2>1, <2>3, <2>4, <2>5 DEF Carries
<1>13. IsSummary(c, Q)
  BY <1>7, <1>8, <1>10, <1>11, <1>12 DEF IsSummary
<1> QED
  BY <1>3, <1>4, <1>5, <1>13

\* There is one candle of a set of bars.
LEMMA SummariesAgree ==
  ASSUME NEW Q, Timed(Q), NEW c, NEW d, IsSummary(c, Q), IsSummary(d, Q)
  PROVE  /\ c.open = d.open /\ c.high = d.high /\ c.low = d.low /\ c.close = d.close
         /\ c.volume = d.volume /\ c.currency = d.currency
<1>1. \A b \in Q : b.t \in Int /\ b.high \in Int /\ b.low \in Int
  BY DEF Timed, IsMinute
<1>2. \A b, x \in Q : b.t = x.t => b = x
  BY DEF Timed
<1>3. c.open = d.open /\ c.currency = d.currency
  <2>1. PICK b \in Q : (\A x \in Q : b.t <= x.t) /\ c.open = b.open /\ c.currency = b.currency
    BY DEF IsSummary, Opens
  <2>2. PICK e \in Q : (\A x \in Q : e.t <= x.t) /\ d.open = e.open /\ d.currency = e.currency
    BY DEF IsSummary, Opens
  <2>3. b.t = e.t
    BY <1>1, <2>1, <2>2
  <2> QED
    BY <1>2, <2>1, <2>2, <2>3
<1>4. c.close = d.close
  <2>1. PICK b \in Q : (\A x \in Q : x.t <= b.t) /\ c.close = b.close
    BY DEF IsSummary, Closing
  <2>2. PICK e \in Q : (\A x \in Q : x.t <= e.t) /\ d.close = e.close
    BY DEF IsSummary, Closing
  <2>3. b.t = e.t
    BY <1>1, <2>1, <2>2
  <2> QED
    BY <1>2, <2>1, <2>2, <2>3
<1>5. c.high = d.high
  <2>1. PICK b \in Q : c.high = b.high /\ \A x \in Q : x.high <= c.high
    BY DEF IsSummary, Tops
  <2>2. PICK e \in Q : d.high = e.high /\ \A x \in Q : x.high <= d.high
    BY DEF IsSummary, Tops
  <2> QED
    BY <1>1, <2>1, <2>2
<1>6. c.low = d.low
  <2>1. PICK b \in Q : c.low = b.low /\ \A x \in Q : c.low <= x.low
    BY DEF IsSummary, Bottoms
  <2>2. PICK e \in Q : d.low = e.low /\ \A x \in Q : d.low <= x.low
    BY DEF IsSummary, Bottoms
  <2> QED
    BY <1>1, <2>1, <2>2
<1> QED
  BY <1>3, <1>4, <1>5, <1>6 DEF IsSummary, Carries

\* C has one candle of each part of Q, and the parts follow one another as
\* their candles do.
Parts(C, part, Q) ==
  /\ Timed(C) /\ Timed(Q) /\ part \in [Q -> C]
  /\ \A c \in C : IsSummary(c, {b \in Q : part[b] = c})
  /\ \A b, x \in Q : part[b].t < part[x].t => b.t < x.t

\* A candle of candles is a candle of the bars.
LEMMA SummaryOfSummaries ==
  ASSUME NEW C, NEW Q, NEW part, Parts(C, part, Q), NEW d, IsSummary(d, C)
  PROVE  IsSummary(d, Q)
<1> DEFINE G(c) == {b \in Q : part[b] = c}
<1>1. \A b \in Q : part[b] \in C /\ b \in G(part[b]) /\ b.t \in Int /\ b.high \in Int /\ b.low \in Int
  BY DEF Parts, Timed, IsMinute
<1>2. \A c \in C : c.t \in Int /\ c.high \in Int /\ c.low \in Int
  BY DEF Parts, Timed, IsMinute
<1>3. \A c, e \in C : c.t = e.t => c = e
  BY DEF Parts, Timed
<1>4. \A c \in C : /\ IsSummary(c, G(c)) /\ G(c) \subseteq Q
                   /\ \A b \in G(c) : part[b] = c
  BY DEF Parts
<1>5. \A b, x \in Q : part[b].t < part[x].t => b.t < x.t
  BY DEF Parts
<1>6. Carries(d, Q)
  <2>1. PICK f : f = VolumeOf(Q)
    OBVIOUS
  <2>2. IsFiniteSet(Q) /\ IsFiniteSet(C) /\ f \in [Q -> Int] /\ part \in [Q -> C]
    BY <2>1 DEF Parts, Timed, IsMinute, VolumeOf
  <2>3. Total([c \in C |-> Total(f, {x \in Q : part[x] = c})], C) = Total(f, Q)
    BY <2>2, TotalOfParts
  <2>4. ASSUME NEW c \in C PROVE VolumeOf(C)[c] = [e \in C |-> Total(f, {x \in Q : part[x] = e})][c]
    <3>1. PICK P : P = G(c)
      OBVIOUS
    <3>2. c.volume = Total(VolumeOf(P), P)
      BY <1>4, <3>1 DEF IsSummary, Carries
    <3>3. \A x \in P : VolumeOf(P)[x] = f[x]
      BY <1>4, <2>1, <3>1 DEF VolumeOf
    <3>4. Total(VolumeOf(P), P) = Total(f, P)
      BY <3>3, TotalSame
    <3> QED
      BY <3>1, <3>2, <3>4 DEF VolumeOf
  <2>5. Total(VolumeOf(C), C) = Total([e \in C |-> Total(f, {x \in Q : part[x] = e})], C)
    BY <2>4, TotalSame
  <2>6. d.volume = Total(VolumeOf(C), C)
    BY DEF IsSummary, Carries
  <2> QED
    BY <2>1, <2>3, <2>5, <2>6 DEF Carries
<1> HIDE DEF G
<1>7. Opens(d, Q)
  <2>1. PICK c \in C : (\A x \in C : c.t <= x.t) /\ d.open = c.open /\ d.currency = c.currency
    BY DEF IsSummary, Opens
  <2>2. PICK b \in G(c) : (\A x \in G(c) : b.t <= x.t) /\ c.open = b.open /\ c.currency = b.currency
    BY <1>4 DEF IsSummary, Opens
  <2>3. b \in Q /\ part[b] = c
    BY <1>4, <2>2
  <2>4. ASSUME NEW x \in Q PROVE b.t <= x.t
    <3>1. CASE part[x] = c
      BY <1>1, <2>2, <3>1
    <3>2. CASE part[x] # c
      <4>1. c.t < part[x].t
        BY <1>1, <1>2, <1>3, <2>1, <3>2
      <4> QED
        BY <1>1, <1>5, <2>3, <4>1
    <3> QED
      BY <3>1, <3>2
  <2> QED
    BY <2>1, <2>2, <2>3, <2>4 DEF Opens
<1>8. Closing(d, Q)
  <2>1. PICK c \in C : (\A x \in C : x.t <= c.t) /\ d.close = c.close
    BY DEF IsSummary, Closing
  <2>2. PICK b \in G(c) : (\A x \in G(c) : x.t <= b.t) /\ c.close = b.close
    BY <1>4 DEF IsSummary, Closing
  <2>3. b \in Q /\ part[b] = c
    BY <1>4, <2>2
  <2>4. ASSUME NEW x \in Q PROVE x.t <= b.t
    <3>1. CASE part[x] = c
      BY <1>1, <2>2, <3>1
    <3>2. CASE part[x] # c
      <4>1. part[x].t < c.t
        BY <1>1, <1>2, <1>3, <2>1, <3>2
      <4> QED
        BY <1>1, <1>5, <2>3, <4>1
    <3> QED
      BY <3>1, <3>2
  <2> QED
    BY <2>1, <2>2, <2>3, <2>4 DEF Closing
<1>9. Tops(d, Q)
  <2>1. PICK c \in C : d.high = c.high /\ \A x \in C : x.high <= d.high
    BY DEF IsSummary, Tops
  <2>2. PICK b \in G(c) : c.high = b.high
    BY <1>4 DEF IsSummary, Tops
  <2>3. ASSUME NEW x \in Q PROVE x.high <= d.high
    <3>1. PICK e \in C : e = part[x] /\ x \in G(e)
      BY <1>1
    <3>2. x.high <= e.high
      BY <1>4, <3>1 DEF IsSummary, Tops
    <3> QED
      BY <1>1, <1>2, <2>1, <3>2
  <2> QED
    BY <1>4, <2>1, <2>2, <2>3 DEF Tops
<1>10. Bottoms(d, Q)
  <2>1. PICK c \in C : d.low = c.low /\ \A x \in C : d.low <= x.low
    BY DEF IsSummary, Bottoms
  <2>2. PICK b \in G(c) : c.low = b.low
    BY <1>4 DEF IsSummary, Bottoms
  <2>3. ASSUME NEW x \in Q PROVE d.low <= x.low
    <3>1. PICK e \in C : e = part[x] /\ x \in G(e)
      BY <1>1
    <3>2. e.low <= x.low
      BY <1>4, <3>1 DEF IsSummary, Bottoms
    <3> QED
      BY <1>1, <1>2, <2>1, <3>2
  <2> QED
    BY <1>4, <2>1, <2>2, <2>3 DEF Bottoms
<1> QED
  BY <1>6, <1>7, <1>8, <1>9, <1>10 DEF IsSummary

-----------------------------------------------------------------------------
(***************************************************************************)
(* Buckets: they keep the order of times, lie within an hour and so within *)
(* a day, and the wider ones are made of the narrower ones.                *)
(***************************************************************************)

\* Minute t is minute b of bucket a of hour h.
InHour(t, m, h, a, b) ==
  /\ h \in Int /\ a \in Int /\ b \in Int
  /\ t = 60 * h + (m * a + b) /\ 0 <= b /\ b < m /\ 0 <= a /\ m * a + b < 60
  /\ Bucket(t, m) = 60 * h + m * a

\* Every minute is.
LEMMA HoursDivide ==
  ASSUME NEW t \in Int, NEW m \in {5, 10}
  PROVE  \E h, a, b : InHour(t, m, h, a, b)
<1>1. PICK h, r : h = t \div 60 /\ r = t % 60
  OBVIOUS
<1>2. h \in Int /\ r \in Int /\ t = 60 * h + r /\ 0 <= r /\ r < 60
  BY <1>1
<1>3. CASE m = 5
  <2>1. PICK a, b : a = r \div 5 /\ b = r % 5
    OBVIOUS
  <2>2. a \in Int /\ b \in Int /\ r = 5 * a + b /\ 0 <= b /\ b < 5
    BY <1>2, <2>1
  <2>3. Bucket(t, m) = t - b
    BY <1>1, <1>3, <2>1 DEF Bucket
  <2>4. 0 <= a /\ 5 * a + b < 60 /\ Bucket(t, m) = 60 * h + 5 * a
    BY <1>2, <2>2, <2>3
  <2> QED
    BY <1>2, <1>3, <2>2, <2>4 DEF InHour
<1>4. CASE m = 10
  <2>1. PICK a, b : a = r \div 10 /\ b = r % 10
    OBVIOUS
  <2>2. a \in Int /\ b \in Int /\ r = 10 * a + b /\ 0 <= b /\ b < 10
    BY <1>2, <2>1
  <2>3. Bucket(t, m) = t - b
    BY <1>1, <1>4, <2>1 DEF Bucket
  <2>4. 0 <= a /\ 10 * a + b < 60 /\ Bucket(t, m) = 60 * h + 10 * a
    BY <1>2, <2>2, <2>3
  <2> QED
    BY <1>2, <1>4, <2>2, <2>4 DEF InHour
<1> QED
  BY <1>3, <1>4

\* A bucket starts at or before its minutes, and a later one after them.
LEMMA BucketsFollow ==
  ASSUME NEW t \in Int, NEW u \in Int, NEW m \in {5, 10}
  PROVE  /\ Bucket(t, m) \in Int /\ Bucket(t, m) <= t
         /\ Bucket(t, m) < Bucket(u, m) => t < u
<1>1. PICK h, a, b : InHour(t, m, h, a, b)
  BY HoursDivide
<1>2. PICK k, c, d : InHour(u, m, k, c, d)
  BY HoursDivide
<1>3. CASE m = 5
  BY <1>1, <1>2, <1>3 DEF InHour
<1>4. CASE m = 10
  BY <1>1, <1>2, <1>4 DEF InHour
<1> QED
  BY <1>3, <1>4

\* A ten-minute bucket is that of the five-minute one.
LEMMA BucketsNest ==
  ASSUME NEW t \in Int
  PROVE  Bucket(Bucket(t, 5), 10) = Bucket(t, 10)
<1>1. PICK h, a, b : InHour(t, 10, h, a, b)
  BY HoursDivide
<1>2. PICK k, c, d : InHour(t, 5, k, c, d)
  BY HoursDivide
<1>3. PICK u \in Int : u = Bucket(t, 5)
  BY <1>2 DEF InHour
<1>4. PICK l, e, f : InHour(u, 10, l, e, f)
  BY HoursDivide
<1> QED
  BY <1>1, <1>2, <1>3, <1>4 DEF InHour

\* A bucket does not leave the day.
LEMMA BucketsWithinDay ==
  ASSUME NEW t \in Int, NEW m \in {5, 10}
  PROVE  Bucket(t, m) \div 1440 = t \div 1440
<1>1. PICK h, a, b : InHour(t, m, h, a, b)
  BY HoursDivide
<1>2. PICK u \in Int, r \in Int, x \in Int : /\ u = 60 * h + x /\ t = 60 * h + r /\ Bucket(t, m) = u
                                             /\ 0 <= x /\ x <= r /\ r < 60
  <2>1. CASE m = 5
    BY <1>1, <2>1 DEF InHour
  <2>2. CASE m = 10
    BY <1>1, <2>2 DEF InHour
  <2> QED
    BY <2>1, <2>2
<1>3. PICK q \in Int, k \in Int : h = 24 * q + k /\ 0 <= k /\ k < 24
  <2>1. h \in Int
    BY <1>1 DEF InHour
  <2>2. h \div 24 \in Int /\ h % 24 \in Int /\ h = 24 * (h \div 24) + (h % 24) /\ 0 <= h % 24 /\ h % 24 < 24
    BY <2>1
  <2> QED
    BY <2>1, <2>2
<1>4. u \div 1440 = q /\ t \div 1440 = q
  <2>1. u = 1440 * q + (60 * k + x) /\ 0 <= 60 * k + x /\ 60 * k + x < 1440
    BY <1>2, <1>3
  <2>2. t = 1440 * q + (60 * k + r) /\ 0 <= 60 * k + r /\ 60 * k + r < 1440
    BY <1>2, <1>3
  <2> QED
    BY <2>1, <2>2
<1> QED
  BY <1>2, <1>4

-----------------------------------------------------------------------------
(***************************************************************************)
(* aggregate_minute_bars: one candle per bucket, in the order of time.     *)
(***************************************************************************)

BucketsOf(Q, m) == {Bucket(b.t, m) : b \in Q}
Within(Q, m, k) == {b \in Q : Bucket(b.t, m) = k}

\* The buckets of a chart, listed.
LEMMA BucketsListed ==
  ASSUME NEW Q, Timed(Q), NEW m \in {5, 10}
  PROVE  /\ IsFiniteSet(BucketsOf(Q, m)) /\ BucketsOf(Q, m) \subseteq Int
         /\ Lists(InOrder(BucketsOf(Q, m), <), {p \in BucketsOf(Q, m) \X BucketsOf(Q, m) : p[1] < p[2]},
                  BucketsOf(Q, m))
<1> DEFINE g == [b \in Q |-> Bucket(b.t, m)]
           K == BucketsOf(Q, m)
<1>1. K = {g[b] : b \in Q}
  BY DEF BucketsOf
<1>2. g \in [Q -> K] /\ \A k \in K : \E b \in Q : g[b] = k
  BY <1>1
<1>3. IsFiniteSet(K)
  <2> HIDE DEF g, K
  <2>1. g \in Surjection(Q, K)
    BY <1>2 DEF Surjection
  <2> QED
    BY <2>1, FS_Surjection DEF Timed
<1>4. K \subseteq Int
  <2>1. ASSUME NEW b \in Q PROVE Bucket(b.t, m) \in Int
    <3>1. b.t \in Int
      BY DEF Timed, IsMinute
    <3> QED
      BY <3>1, BucketsFollow
  <2> QED
    BY <2>1 DEF BucketsOf
<1> HIDE DEF K
<1>5. Lists(InOrder(K, <), {p \in K \X K : p[1] < p[2]}, K)
  BY <1>3, <1>4, NumbersInOrder
<1> QED
  BY <1>3, <1>4, <1>5 DEF K

\* The candles, each of the bars kept for its bucket.
CandleOf(s, Q, m, k) == Candle(k, Kept(s, Within(Q, m, k)))
CandlesOf(s, Q, m, ks) == [i \in DOMAIN ks |-> CandleOf(s, Q, m, ks[i])]

\* Aggregating a chart.
LEMMA AggregateIs ==
  ASSUME NEW s, NEW Q, Chart(s, Q), NEW m \in {5, 10}
  PROVE  Aggregate(s, m) = CandlesOf(s, Q, m, InOrder(BucketsOf(Q, m), <))
<1>1. PICK n : Placed(s, Q, n)
  BY ChartPlaces
<1>2. ToSet(s) = Q /\ DOMAIN s = 1..n /\ \A i \in 1..n : s[i] \in Q
  BY <1>1 DEF Placed
<1>3. InOrder(Q, LAMBDA a, b : a.t < b.t) = s
  BY ChartSorted
<1>4. m # 1
  OBVIOUS
<1> DEFINE sorted == InOrder(ToSet(s), LAMBDA a, b : a.t < b.t)
           ks == InOrder({Bucket(b.t, m) : b \in ToSet(s)}, <)
           Group(k) == KeepIf(sorted, LAMBDA b : Bucket(b.t, m) = k)
<1>5. Aggregate(s, m) = [i \in DOMAIN ks |-> Candle(ks[i], Group(ks[i]))]
  BY <1>4, Zenon DEF Aggregate
<1>6. sorted = s
  BY <1>2, <1>3, Zenon
<1>7. ks = InOrder(BucketsOf(Q, m), <)
  BY <1>2, Zenon DEF BucketsOf
<1> HIDE DEF sorted, ks
<1>8. ASSUME NEW k PROVE Group(k) = Kept(s, Within(Q, m, k))
  <2>1. {i \in DOMAIN s : Bucket(s[i].t, m) = k} = {i \in DOMAIN s : s[i] \in Within(Q, m, k)}
    BY <1>2 DEF Within
  <2> QED
    BY <1>6, <2>1, Zenon DEF Kept, KeepIf
<1> HIDE DEF Group
<1>9. Aggregate(s, m) = CandlesOf(s, Q, m, ks)
  BY <1>5, <1>8, Zenon DEF CandlesOf, CandleOf
<1> QED
  BY <1>7, <1>9

\* The candle of a bucket.
LEMMA CandleOfBucket ==
  ASSUME NEW s, NEW Q, Chart(s, Q), NEW m \in {5, 10}, NEW k \in BucketsOf(Q, m)
  PROVE  /\ IsSummary(CandleOf(s, Q, m, k), Within(Q, m, k)) /\ CandleOf(s, Q, m, k).t = k
         /\ IsMinute(CandleOf(s, Q, m, k))
<1>1. PICK P \in SUBSET Q : P = Within(Q, m, k)
  BY DEF Within
<1>2. P # {}
  BY <1>1 DEF BucketsOf, Within
<1>3. PICK u : u = Kept(s, P)
  OBVIOUS
<1>4. Chart(u, P)
  BY <1>3, KeptIsChart
<1>5. PICK c : c = Candle(k, u)
  OBVIOUS
<1>6. IsSummary(c, P) /\ c.t = k
  BY <1>2, <1>4, <1>5, CandleSummarises
<1>7. k \in Int
  BY BucketsListed DEF Chart
<1>8. \A b \in P : /\ b.t \in Int /\ b.open \in Int /\ b.high \in Int /\ b.low \in Int
                   /\ b.close \in Int /\ b.volume \in Int
  BY <1>4 DEF Chart, Timed, IsMinute
<1>9. c.volume \in Int
  <2>1. PICK f : f = VolumeOf(P)
    OBVIOUS
  <2>2. f \in [P -> Int] /\ IsFiniteSet(P)
    BY <1>4, <1>8, <2>1 DEF VolumeOf, Chart, Timed
  <2>3. Total(f, P) \in Int
    BY <2>2, TotalInt
  <2> QED
    BY <1>6, <2>1, <2>3 DEF IsSummary, Carries
<1>10. c.open \in Int /\ c.high \in Int /\ c.low \in Int /\ c.close \in Int
  BY <1>6, <1>8 DEF IsSummary, Opens, Closing, Tops, Bottoms
<1>11. IsMinute(c)
  BY <1>6, <1>7, <1>9, <1>10 DEF IsMinute
<1>12. CandleOf(s, Q, m, k) = c
  BY <1>1, <1>3, <1>5 DEF CandleOf
<1> QED
  BY <1>1, <1>6, <1>11, <1>12

\* C has a candle for every bucket of Q.
Aggregates(C, Q, m) ==
  /\ Timed(C) /\ \A c \in C : IsSummary(c, Within(Q, m, c.t)) /\ c.t \in BucketsOf(Q, m)
  /\ \A b \in Q : \E c \in C : c.t = Bucket(b.t, m)

\* So a chart is made into a chart.
LEMMA AggregateIsChart ==
  ASSUME NEW s, NEW Q, Chart(s, Q), NEW m \in {5, 10}
  PROVE  LET A == Aggregate(s, m)
         IN /\ Chart(A, ToSet(A)) /\ Aggregates(ToSet(A), Q, m) /\ (ToSet(A) = {}) = (Q = {})
<1>1. PICK K, ks : K = BucketsOf(Q, m) /\ ks = InOrder(BucketsOf(Q, m), <)
  OBVIOUS
<1>2. PICK A : A = Aggregate(s, m)
  OBVIOUS
<1>3. Timed(Q)
  BY DEF Chart
<1>4. IsFiniteSet(K) /\ K \subseteq Int /\ Lists(ks, {p \in K \X K : p[1] < p[2]}, K)
  BY <1>1, <1>3, BucketsListed
<1>5. PICK n : n = Cardinality(K)
  OBVIOUS
<1>6. n \in Nat
  BY <1>4, <1>5, FS_CardinalityType
<1>7. /\ ks \in [1..n -> K] /\ DOMAIN ks = 1..n /\ \A k \in K : \E i \in 1..n : ks[i] = k
      /\ \A i, j \in 1..n : i < j => ks[i] < ks[j]
  BY <1>4, <1>5 DEF Lists
<1>8. A = [i \in 1..n |-> CandleOf(s, Q, m, ks[i])]
  <2>1. Aggregate(s, m) = CandlesOf(s, Q, m, InOrder(BucketsOf(Q, m), <))
    BY AggregateIs
  <2>2. A = CandlesOf(s, Q, m, ks)
    BY <1>1, <1>2, <2>1
  <2> QED
    BY <1>7, <2>2 DEF CandlesOf
<1>9. DOMAIN A = 1..n
  BY <1>8
<1>10. ASSUME NEW i \in 1..n
       PROVE  /\ ks[i] \in K /\ A[i].t = ks[i] /\ IsMinute(A[i])
              /\ IsSummary(A[i], Within(Q, m, A[i].t))
  <2>1. PICK k \in K : k = ks[i]
    BY <1>7
  <2>2. A[i] = CandleOf(s, Q, m, k)
    BY <1>8, <2>1
  <2>3. k \in BucketsOf(Q, m)
    BY <1>1, <2>1
  <2>4. /\ IsSummary(CandleOf(s, Q, m, k), Within(Q, m, k)) /\ CandleOf(s, Q, m, k).t = k
        /\ IsMinute(CandleOf(s, Q, m, k))
    BY <2>3, CandleOfBucket
  <2> QED
    BY <2>1, <2>2, <2>4
<1>11. PICK C : C = ToSet(A)
  OBVIOUS
<1>12. C = {A[i] : i \in 1..n}
  BY <1>9, <1>11 DEF ToSet
<1>13. \A i, j \in 1..n : i < j => A[i].t < A[j].t
  BY <1>7, <1>10
<1>14. \A i, j \in 1..n : A[i].t = A[j].t => i = j
  <2>1. ASSUME NEW i \in 1..n, NEW j \in 1..n, A[i].t = A[j].t, i # j PROVE FALSE
    <3>1. A[i].t \in Int /\ A[j].t \in Int
      BY <1>10 DEF IsMinute
    <3>2. i < j \/ j < i
      BY <2>1
    <3> QED
      BY <1>13, <2>1, <3>1, <3>2
  <2> QED
    BY <2>1
<1>15. IsFiniteSet(C) /\ Cardinality(C) = n
  <2>1. A \in [1..n -> C] /\ \A c \in C : \E i \in 1..n : A[i] = c
    BY <1>8, <1>12
  <2>2. IsInjective(A)
    BY <1>9, <1>14 DEF IsInjective
  <2>3. A \in Bijection(1..n, C)
    BY <1>9, <2>1, <2>2 DEF Bijection, Injection, Surjection
  <2>4. IsFiniteSet(1..n) /\ Cardinality(1..n) = n
    <3>1. IsFiniteSet(1..n) /\ Cardinality(1..n) = IF 1 > n THEN 0 ELSE n - 1 + 1
      BY <1>6, FS_Interval
    <3> QED
      BY <1>6, <3>1
  <2> QED
    BY <2>3, <2>4, FS_Bijection DEF ExistsBijection
<1>16. Timed(C)
  BY <1>10, <1>12, <1>14, <1>15 DEF Timed
<1>17. Lists(A, InTime(C), C)
  <2>1. A \in [1..n -> C] /\ \A c \in C : \E i \in 1..n : A[i] = c
    BY <1>8, <1>12
  <2>2. ASSUME NEW i \in 1..n, NEW j \in 1..n, i < j PROVE <<A[i], A[j]>> \in InTime(C) /\ A[i] # A[j]
    <3>1. A[i] \in C /\ A[j] \in C /\ A[i].t < A[j].t /\ i # j
      BY <1>13, <2>1, <2>2
    <3> QED
      BY <1>14, <3>1 DEF InTime
  <2> QED
    BY <1>15, <2>1, <2>2 DEF Lists
<1>18. Aggregates(C, Q, m)
  <2>1. ASSUME NEW b \in Q PROVE \E c \in C : c.t = Bucket(b.t, m)
    <3>1. PICK k \in K : k = Bucket(b.t, m)
      BY <1>1 DEF BucketsOf
    <3>2. PICK i \in 1..n : ks[i] = k
      BY <1>7
    <3> QED
      BY <1>10, <1>12, <3>1, <3>2
  <2> QED
    BY <1>1, <1>10, <1>12, <1>16, <2>1 DEF Aggregates
<1>19. (C = {}) = (Q = {})
  BY <1>18 DEF Aggregates, BucketsOf
<1> QED
  BY <1>2, <1>11, <1>16, <1>17, <1>18, <1>19 DEF Chart

\* The candles of some buckets, and the bars in them.
Chosen(C, B) == {c \in C : c.t \in B}
Covered(Q, m, B) == {b \in Q : Bucket(b.t, m) \in B}

\* A candle of those candles is one of those bars.
LEMMA CandlesOfBuckets ==
  ASSUME NEW Q, Timed(Q), NEW m \in {5, 10}, NEW C, Aggregates(C, Q, m), NEW B,
         NEW d, IsSummary(d, Chosen(C, B))
  PROVE  IsSummary(d, Covered(Q, m, B))
<1>0. PICK E, P : E = Chosen(C, B) /\ P = Covered(Q, m, B)
  OBVIOUS
<1>1. E = {c \in C : c.t \in B} /\ P = {b \in Q : Bucket(b.t, m) \in B}
  BY <1>0 DEF Chosen, Covered
<1>2. Timed(E) /\ Timed(P)
  <2>1. E \in SUBSET C /\ P \in SUBSET Q
    BY <1>1
  <2> QED
    BY <2>1, PartIsTimed DEF Aggregates
<1> DEFINE part == [b \in P |-> CHOOSE c \in C : c.t = Bucket(b.t, m)]
<1>3. ASSUME NEW b \in P PROVE part[b] \in E /\ part[b].t = Bucket(b.t, m)
  <2>1. b \in Q /\ Bucket(b.t, m) \in B
    BY <1>1
  <2>2. \E c \in C : c.t = Bucket(b.t, m)
    BY <2>1 DEF Aggregates
  <2>3. part[b] \in C /\ part[b].t = Bucket(b.t, m)
    BY <2>2
  <2> QED
    BY <1>1, <2>1, <2>3
<1>4. part \in [P -> E]
  <2>1. part = [b \in P |-> part[b]]
    OBVIOUS
  <2> HIDE DEF part
  <2> QED
    BY <1>3, <2>1
<1> HIDE DEF part
<1>5. ASSUME NEW c \in E PROVE IsSummary(c, {b \in P : part[b] = c})
  <2>1. c \in C /\ c.t \in B
    BY <1>1
  <2>2. \A b \in P : (part[b] = c) = (Bucket(b.t, m) = c.t)
    <3>1. \A e \in E : e.t = c.t => e = c
      BY <1>2 DEF Timed
    <3> QED
      BY <1>3, <3>1
  <2>3. {b \in P : part[b] = c} = Within(Q, m, c.t)
    BY <1>1, <2>1, <2>2 DEF Within
  <2> QED
    BY <2>1, <2>3 DEF Aggregates
<1>6. ASSUME NEW b \in P, NEW x \in P, part[b].t < part[x].t PROVE b.t < x.t
  <2>1. b.t \in Int /\ x.t \in Int
    BY <1>2 DEF Timed, IsMinute
  <2>2. Bucket(b.t, m) < Bucket(x.t, m)
    BY <1>3, <1>6
  <2> QED
    BY <2>1, <2>2, BucketsFollow
<1>7. Parts(E, part, P)
  BY <1>2, <1>4, <1>5, <1>6 DEF Parts
<1>8. IsSummary(d, E)
  BY <1>0
<1>9. IsSummary(d, P)
  BY <1>7, <1>8, SummaryOfSummaries
<1> QED
  BY <1>0, <1>9

\* Two candles of one bucket are equal.
LEMMA CandlesAgree ==
  ASSUME NEW Q, Timed(Q), NEW k, NEW u, NEW v, IsSummary(Candle(k, u), Q), IsSummary(Candle(k, v), Q)
  PROVE  Candle(k, u) = Candle(k, v)
<1>1. PICK c, d : c = Candle(k, u) /\ d = Candle(k, v)
  OBVIOUS
<1>2. /\ c.open = d.open /\ c.high = d.high /\ c.low = d.low /\ c.close = d.close
      /\ c.volume = d.volume /\ c.currency = d.currency
  BY <1>1, SummariesAgree
<1>3. c = [t |-> k, open |-> c.open, high |-> c.high, low |-> c.low, close |-> c.close,
           volume |-> c.volume, currency |-> c.currency]
  BY <1>1 DEF Candle
<1>4. d = [t |-> k, open |-> d.open, high |-> d.high, low |-> d.low, close |-> d.close,
           volume |-> d.volume, currency |-> d.currency]
  BY <1>1 DEF Candle
<1> QED
  BY <1>1, <1>2, <1>3, <1>4

\* The ten-minute candles are those of the five-minute candles.
LEMMA TwoLevels ==
  ASSUME NEW s, NEW Q, Chart(s, Q)
  PROVE  Aggregate(Aggregate(s, 5), 10) = Aggregate(s, 10)
<1>1. PICK A, C : A = Aggregate(s, 5) /\ C = ToSet(A)
  OBVIOUS
<1>2. Chart(A, C) /\ Aggregates(C, Q, 5) /\ Timed(Q) /\ Timed(C)
  BY <1>1, AggregateIsChart DEF Chart
<1>3. BucketsOf(C, 10) = BucketsOf(Q, 10)
  <2>1. ASSUME NEW k \in BucketsOf(C, 10) PROVE k \in BucketsOf(Q, 10)
    <3>1. PICK c \in C : k = Bucket(c.t, 10)
      BY DEF BucketsOf
    <3>2. PICK b \in Q : c.t = Bucket(b.t, 5)
      BY <1>2 DEF Aggregates, BucketsOf
    <3>3. b.t \in Int
      BY <1>2 DEF Timed, IsMinute
    <3>4. k = Bucket(b.t, 10)
      BY <3>1, <3>2, <3>3, BucketsNest
    <3> QED
      BY <3>4 DEF BucketsOf
  <2>2. ASSUME NEW k \in BucketsOf(Q, 10) PROVE k \in BucketsOf(C, 10)
    <3>1. PICK b \in Q : k = Bucket(b.t, 10)
      BY DEF BucketsOf
    <3>2. PICK c \in C : c.t = Bucket(b.t, 5)
      BY <1>2 DEF Aggregates
    <3>3. b.t \in Int
      BY <1>2 DEF Timed, IsMinute
    <3>4. k = Bucket(c.t, 10)
      BY <3>1, <3>2, <3>3, BucketsNest
    <3> QED
      BY <3>4 DEF BucketsOf
  <2> QED
    BY <2>1, <2>2
<1>4. PICK ks : ks = InOrder(BucketsOf(Q, 10), <)
  OBVIOUS
<1>5. Aggregate(s, 10) = CandlesOf(s, Q, 10, ks)
  <2>1. Aggregate(s, 10) = CandlesOf(s, Q, 10, InOrder(BucketsOf(Q, 10), <))
    BY AggregateIs
  <2> QED
    BY <1>4, <2>1
<1>6. Aggregate(A, 10) = CandlesOf(A, C, 10, ks)
  <2>1. Aggregate(A, 10) = CandlesOf(A, C, 10, InOrder(BucketsOf(C, 10), <))
    BY <1>2, AggregateIs
  <2>2. InOrder(BucketsOf(C, 10), <) = InOrder(BucketsOf(Q, 10), <)
    BY <1>3, Zenon
  <2> QED
    BY <1>4, <2>1, <2>2
<1>7. ASSUME NEW i \in DOMAIN ks PROVE CandleOf(A, C, 10, ks[i]) = CandleOf(s, Q, 10, ks[i])
  <2>1. PICK k : k = ks[i]
    OBVIOUS
  <2>2. k \in BucketsOf(Q, 10)
    <3>1. Lists(InOrder(BucketsOf(Q, 10), <),
                {p \in BucketsOf(Q, 10) \X BucketsOf(Q, 10) : p[1] < p[2]}, BucketsOf(Q, 10))
      BY <1>2, BucketsListed
    <3>2. ks \in [1..Cardinality(BucketsOf(Q, 10)) -> BucketsOf(Q, 10)]
      BY <1>4, <3>1 DEF Lists
    <3> QED
      BY <2>1, <3>2
  <2>3. IsSummary(CandleOf(s, Q, 10, k), Within(Q, 10, k))
    BY <2>2, CandleOfBucket
  <2>4. IsSummary(CandleOf(A, C, 10, k), Within(C, 10, k))
    BY <1>2, <1>3, <2>2, CandleOfBucket
  <2>5. PICK B : B = {j \in Int : Bucket(j, 10) = k}
    OBVIOUS
  <2>6. Within(C, 10, k) = Chosen(C, B)
    <3>1. \A c \in C : c.t \in Int
      BY <1>2 DEF Timed, IsMinute
    <3> QED
      BY <2>5, <3>1 DEF Within, Chosen
  <2>7. Within(Q, 10, k) = Covered(Q, 5, B)
    <3>1. ASSUME NEW b \in Q PROVE (Bucket(b.t, 10) = k) = (Bucket(b.t, 5) \in B)
      <4>1. b.t \in Int
        BY <1>2 DEF Timed, IsMinute
      <4>2. Bucket(b.t, 5) \in Int /\ Bucket(Bucket(b.t, 5), 10) = Bucket(b.t, 10)
        BY <4>1, BucketsFollow, BucketsNest
      <4> QED
        BY <2>5, <4>2
    <3> QED
      BY <3>1 DEF Within, Covered
  <2>8. IsSummary(CandleOf(A, C, 10, k), Within(Q, 10, k))
    <3>1. PICK d : d = CandleOf(A, C, 10, k)
      OBVIOUS
    <3>2. IsSummary(d, Chosen(C, B))
      BY <2>4, <2>6, <3>1
    <3>3. IsSummary(d, Covered(Q, 5, B))
      BY <1>2, <3>2, CandlesOfBuckets
    <3> QED
      BY <2>7, <3>1, <3>3
  <2>9. Timed(Within(Q, 10, k))
    <3>1. Within(Q, 10, k) \in SUBSET Q
      BY DEF Within
    <3> QED
      BY <1>2, <3>1, PartIsTimed
  <2>10. PICK u, v : u = Kept(A, Within(C, 10, k)) /\ v = Kept(s, Within(Q, 10, k))
    OBVIOUS
  <2>11. CandleOf(A, C, 10, k) = Candle(k, u) /\ CandleOf(s, Q, 10, k) = Candle(k, v)
    BY <2>10 DEF CandleOf
  <2>12. Candle(k, u) = Candle(k, v)
    BY <2>3, <2>8, <2>9, <2>11, CandlesAgree
  <2> QED
    BY <2>1, <2>11, <2>12
<1> QED
  BY <1>1, <1>5, <1>6, <1>7 DEF CandlesOf

\* All three timeframes end at one close and carry one volume.
LEMMA FramesCarryAll ==
  ASSUME NEW s, NEW Q, Chart(s, Q), Q # {}, NEW m \in {5, 10}
  PROVE  LET A == Aggregate(s, m)
         IN Last(A).close = Last(s).close /\ SumOf(Volumes(A)) = SumOf(Volumes(s))
<1>1. PICK A, C : A = Aggregate(s, m) /\ C = ToSet(A)
  OBVIOUS
<1>2. Chart(A, C) /\ Aggregates(C, Q, m) /\ C # {} /\ Timed(Q)
  BY <1>1, AggregateIsChart DEF Chart
<1>3. PICK d, e : d = Candle(0, A) /\ e = Candle(0, s)
  OBVIOUS
<1>4. IsSummary(d, C) /\ Last(A).close = d.close /\ SumOf(Volumes(A)) = d.volume
  BY <1>2, <1>3, CandleSummarises
<1>5. IsSummary(e, Q) /\ Last(s).close = e.close /\ SumOf(Volumes(s)) = e.volume
  BY <1>3, CandleSummarises
<1>6. IsSummary(d, Q)
  <2>1. PICK B : B = BucketsOf(Q, m)
    OBVIOUS
  <2>2. Chosen(C, B) = C
    BY <1>2, <2>1 DEF Aggregates, Chosen
  <2>3. Covered(Q, m, B) = Q
    BY <2>1 DEF BucketsOf, Covered
  <2>4. IsSummary(d, Chosen(C, B))
    BY <1>4, <2>2
  <2>5. IsSummary(d, Covered(Q, m, B))
    BY <1>2, <2>4, CandlesOfBuckets
  <2> QED
    BY <2>3, <2>5
<1>7. d.close = e.close /\ d.volume = e.volume
  BY <1>2, <1>5, <1>6, SummariesAgree
<1> QED
  BY <1>1, <1>4, <1>5, <1>7

-----------------------------------------------------------------------------
(***************************************************************************)
(* The session is the bars of the last day.                                *)
(***************************************************************************)

OfDay(Q, d) == {b \in Q : Day(b) = d}

\* The last bar of a chart.
LEMMA LastOfChart ==
  ASSUME NEW s, NEW Q, Chart(s, Q), Q # {}
  PROVE  Last(s) \in Q /\ \A x \in Q : x.t <= Last(s).t
<1>1. PICK n : Placed(s, Q, n)
  BY ChartPlaces
<1>2. /\ n \in Nat /\ Len(s) = n /\ \A i \in 1..n : s[i] \in Q
      /\ \A b \in Q : \E i \in 1..n : s[i] = b
      /\ \A i, j \in 1..n : i < j => s[i].t < s[j].t
      /\ (n = 0) = (Q = {})
  BY <1>1 DEF Placed
<1>3. n \in 1..n
  BY <1>2
<1>4. Last(s) = s[n]
  BY <1>2 DEF Last
<1>5. \A b \in Q : b.t \in Int
  BY DEF Chart, Timed, IsMinute
<1>6. ASSUME NEW x \in Q PROVE x.t <= s[n].t
  <2>1. PICK i \in 1..n : s[i] = x
    BY <1>2
  <2>2. CASE i = n
    BY <1>5, <2>1, <2>2
  <2>3. CASE i # n
    <3>1. i < n
      BY <1>2, <2>3
    <3>2. s[i].t < s[n].t
      BY <1>2, <1>3, <3>1
    <3> QED
      BY <1>2, <1>3, <1>5, <2>1, <3>2
  <2> QED
    BY <2>2, <2>3
<1> QED
  BY <1>2, <1>3, <1>4, <1>6

\* The last candle is of the last day.
LEMMA LastDayIsOne ==
  ASSUME NEW s, NEW Q, Chart(s, Q), Q # {}, NEW m \in {5, 10}
  PROVE  Day(Last(Aggregate(s, m))) = Day(Last(s))
<1>1. PICK A, C : A = Aggregate(s, m) /\ C = ToSet(A)
  OBVIOUS
<1>2. Chart(A, C) /\ Aggregates(C, Q, m) /\ C # {} /\ Timed(Q)
  BY <1>1, AggregateIsChart DEF Chart
<1>3. PICK b, c : b = Last(s) /\ c = Last(A)
  OBVIOUS
<1>4. b \in Q /\ \A x \in Q : x.t <= b.t
  BY <1>3, LastOfChart
<1>5. c \in C /\ \A x \in C : x.t <= c.t
  BY <1>2, <1>3, LastOfChart
<1>6. PICK x \in Q : c.t = Bucket(x.t, m)
  BY <1>2, <1>5 DEF Aggregates, BucketsOf
<1>7. PICK e \in C : e.t = Bucket(b.t, m)
  BY <1>2, <1>4 DEF Aggregates
<1>8. x.t \in Int /\ b.t \in Int /\ c.t \in Int /\ e.t \in Int
  BY <1>2, <1>4, <1>5 DEF Chart, Timed, IsMinute
<1>9. ~(Bucket(b.t, m) < Bucket(x.t, m))
  <2>1. Bucket(b.t, m) < Bucket(x.t, m) => b.t < x.t
    BY <1>8, BucketsFollow
  <2> QED
    BY <1>4, <1>8, <2>1
<1>10. c.t = Bucket(b.t, m)
  BY <1>5, <1>6, <1>7, <1>8, <1>9
<1>11. Bucket(b.t, m) \div 1440 = b.t \div 1440
  BY <1>8, BucketsWithinDay
<1> QED
  BY <1>1, <1>3, <1>10, <1>11 DEF Day

\* What the summary of a timeframe says of the session.
LEMMA SessionIs ==
  ASSUME NEW s, NEW Q, Chart(s, Q), Q # {}, NEW price
  PROVE  LET i == IntradaySummary(s, price)
             e == Candle(0, Kept(s, OfDay(Q, Day(Last(s)))))
         IN /\ i.session_open = Whole(e.open) /\ i.session_high = Whole(e.high)
            /\ i.session_low = Whole(e.low) /\ i.change_from_open = Ratio(price, Whole(e.open))
            /\ IsSummary(e, OfDay(Q, Day(Last(s))))
<1>1. PICK P \in SUBSET Q : P = OfDay(Q, Day(Last(s)))
  BY DEF OfDay
<1>2. P # {}
  BY <1>1, LastOfChart DEF OfDay
<1>3. PICK session : session = Kept(s, P)
  OBVIOUS
<1>4. Chart(session, P)
  BY <1>3, KeptIsChart
<1>5. PICK e : e = Candle(0, session)
  OBVIOUS
<1>6. /\ IsSummary(e, P) /\ Head(session).open = e.open
      /\ Highest(session) = e.high /\ Lowest(session) = e.low
  BY <1>2, <1>4, <1>5, CandleSummarises
<1>7. PICK n : Placed(s, Q, n)
  BY ChartPlaces
<1>8. Row(s, n) /\ n # 0 /\ DOMAIN s = 1..n /\ \A i \in 1..n : s[i] \in Q
  BY <1>7 DEF Placed
<1>9. s # <<>>
  BY <1>8 DEF Row
<1>10. KeepIf(s, LAMBDA b : Day(b) = Day(Last(s))) = session
  <2>1. {i \in DOMAIN s : Day(s[i]) = Day(Last(s))} = {i \in DOMAIN s : s[i] \in P}
    BY <1>1, <1>8 DEF OfDay
  <2> QED
    BY <1>3, <2>1, Zenon DEF Kept, KeepIf
<1>11. PICK i : i = IntradaySummary(s, price)
  OBVIOUS
<1>12. /\ i.session_open = Whole(e.open) /\ i.session_high = Whole(e.high)
       /\ i.session_low = Whole(e.low) /\ i.change_from_open = Ratio(price, Whole(e.open))
  BY <1>6, <1>9, <1>10, <1>11 DEF IntradaySummary
<1> QED
  BY <1>1, <1>3, <1>5, <1>6, <1>11, <1>12

\* All three timeframes show one session.
LEMMA SessionsAgree ==
  ASSUME NEW s, NEW Q, Chart(s, Q), Q # {}, NEW m \in {5, 10}, NEW price
  PROVE  LET i == IntradaySummary(Aggregate(s, m), price)
             j == IntradaySummary(s, price)
         IN /\ i.session_open = j.session_open /\ i.session_high = j.session_high
            /\ i.session_low = j.session_low /\ i.change_from_open = j.change_from_open
<1>1. PICK A, C : A = Aggregate(s, m) /\ C = ToSet(A)
  OBVIOUS
<1>2. Chart(A, C) /\ Aggregates(C, Q, m) /\ C # {} /\ Timed(Q) /\ Timed(C)
  BY <1>1, AggregateIsChart DEF Chart
<1>3. PICK d : d = Day(Last(s)) /\ d = Day(Last(A))
  BY <1>1, LastDayIsOne
<1>4. PICK e, f : e = Candle(0, Kept(s, OfDay(Q, d))) /\ f = Candle(0, Kept(A, OfDay(C, d)))
  OBVIOUS
<1>5. PICK i, j : i = IntradaySummary(A, price) /\ j = IntradaySummary(s, price)
  OBVIOUS
<1>6. /\ j.session_open = Whole(e.open) /\ j.session_high = Whole(e.high)
      /\ j.session_low = Whole(e.low) /\ j.change_from_open = Ratio(price, Whole(e.open))
      /\ IsSummary(e, OfDay(Q, d))
  BY <1>3, <1>4, <1>5, SessionIs, ZenonT(60)
<1>7. /\ i.session_open = Whole(f.open) /\ i.session_high = Whole(f.high)
      /\ i.session_low = Whole(f.low) /\ i.change_from_open = Ratio(price, Whole(f.open))
      /\ IsSummary(f, OfDay(C, d))
  BY <1>2, <1>3, <1>4, <1>5, SessionIs
<1>8. PICK B : B = {t \in Int : t \div 1440 = d}
  OBVIOUS
<1>9. OfDay(C, d) = Chosen(C, B)
  <2>1. \A c \in C : c.t \in Int
    BY <1>2 DEF Timed, IsMinute
  <2> QED
    BY <1>8, <2>1 DEF OfDay, Day, Chosen
<1>10. OfDay(Q, d) = Covered(Q, m, B)
  <2>1. ASSUME NEW b \in Q PROVE (Day(b) = d) = (Bucket(b.t, m) \in B)
    <3>1. b.t \in Int
      BY <1>2 DEF Timed, IsMinute
    <3>2. Bucket(b.t, m) \in Int
      BY <3>1, BucketsFollow
    <3>3. Bucket(b.t, m) \div 1440 = b.t \div 1440
      BY <3>1, BucketsWithinDay
    <3> QED
      BY <1>8, <3>2, <3>3 DEF Day
  <2> QED
    BY <2>1 DEF OfDay, Covered
<1>11. IsSummary(f, OfDay(Q, d))
  <2>1. IsSummary(f, Chosen(C, B))
    BY <1>7, <1>9
  <2>2. IsSummary(f, Covered(Q, m, B))
    BY <1>2, <2>1, CandlesOfBuckets
  <2> QED
    BY <1>10, <2>2
<1>12. Timed(OfDay(Q, d))
  <2>1. OfDay(Q, d) \in SUBSET Q
    BY DEF OfDay
  <2> QED
    BY <1>2, <2>1, PartIsTimed
<1>13. e.open = f.open /\ e.high = f.high /\ e.low = f.low
  BY <1>6, <1>11, <1>12, SummariesAgree
<1> QED
  BY <1>1, <1>5, <1>6, <1>7, <1>13

-----------------------------------------------------------------------------
(***************************************************************************)
(* The analysis of an instrument, by its parts.                            *)
(***************************************************************************)

FramesOf(ms) == [m \in {1, 5, 10} |-> Aggregate(ms, m)]
IntradaysOf(price, ms) == [m \in {1, 5, 10} |-> IntradaySummary(FramesOf(ms)[m], price)]
DaysOf(q, ds) == DailySummary(ds, q.price, q.today, Indicators(ds))

\* What the answer consists of.
LEMMA AnalysisParts ==
  ASSUME NEW q, NEW ds, NEW ms
  PROVE  LET a == AnalyzeRealtime(q, ds, ms)
             i == IntradaysOf(q.price, ms)
             d == DaysOf(q, ds)
         IN /\ a.frames = FramesOf(ms) /\ a.intraday = i /\ a.daily = d
            /\ a.levels = Levels(q.price, d, i[5]) /\ a.verdict = Verdict(d, i[5])
            /\ a.flags = RiskFlags(q.price, d, i[5], q.warnings, q.delayed)
<1>1. PICK f : f = FramesOf(ms)
  OBVIOUS
<1>2. PICK i : i = IntradaysOf(q.price, ms)
  OBVIOUS
<1>3. PICK d : d = DaysOf(q, ds)
  OBVIOUS
<1>4. DOMAIN f = {1, 5, 10} /\ i = [m \in DOMAIN f |-> IntradaySummary(f[m], q.price)]
  BY <1>1, <1>2 DEF FramesOf, IntradaysOf
<1>5. AnalyzeRealtime(q, ds, ms) = WithSummaries(q, ds, f)
  BY <1>1, Zenon DEF AnalyzeRealtime, FramesOf
<1>6. WithSummaries(q, ds, f) = WithLevels(q, f, i, d)
  BY <1>3, <1>4, Zenon DEF WithSummaries, DaysOf
<1>7. WithLevels(q, f, i, d) = Answer(q, f, i, d, Levels(q.price, d, i[5]))
  BY Zenon DEF WithLevels
<1>8. PICK l, a : l = Levels(q.price, d, i[5]) /\ a = AnalyzeRealtime(q, ds, ms)
  OBVIOUS
<1>9. a = Answer(q, f, i, d, l)
  BY <1>5, <1>6, <1>7, <1>8
<1>10. /\ a.frames = f /\ a.intraday = i /\ a.daily = d /\ a.levels = l
       /\ a.verdict = Verdict(d, i[5])
       /\ a.flags = RiskFlags(q.price, d, i[5], q.warnings, q.delayed)
  BY <1>9 DEF Answer
<1> QED
  BY <1>1, <1>2, <1>3, <1>8, <1>10

\* The three timeframes of a chart are one chart.
LEMMA FramesOfChart ==
  ASSUME Chart(minutes, ToSet(minutes))
  PROVE  FramesAgree
<1> SUFFICES ASSUME NEW a \in Analyses
             PROVE  LET Session(i) == <<i.session_open, i.session_high, i.session_low, i.change_from_open>>
                    IN /\ Aggregate(a.frames[5], 10) = a.frames[10]
                       /\ \A m \in {5, 10} :
                            /\ SumOf(Volumes(a.frames[m])) = SumOf(Volumes(a.frames[1]))
                            /\ Session(a.intraday[m]) = Session(a.intraday[1])
                            /\ minutes # <<>> => Last(a.frames[m]).close = Last(minutes).close
  BY Zenon DEF FramesAgree
<1>1. a = AnalyzeRealtime(quote, bars, minutes)
  BY DEF Analyses
<1>2. PICK s, Q, price : s = minutes /\ Q = ToSet(minutes) /\ price = quote.price
  OBVIOUS
<1>3. Chart(s, Q)
  BY <1>2
<1>4. a.frames = FramesOf(s) /\ a.intraday = IntradaysOf(price, s)
  BY <1>1, <1>2, AnalysisParts
<1>5. a.frames[1] = s /\ a.frames[5] = Aggregate(s, 5) /\ a.frames[10] = Aggregate(s, 10)
  <2>1. Aggregate(s, 1) = s
    BY DEF Aggregate
  <2> QED
    BY <1>4, <2>1 DEF FramesOf
<1>6. \A m \in {1, 5, 10} : a.intraday[m] = IntradaySummary(a.frames[m], price)
  BY <1>4 DEF IntradaysOf
<1>7. Aggregate(a.frames[5], 10) = a.frames[10]
  BY <1>3, <1>5, TwoLevels
<1>8. ASSUME NEW m \in {5, 10}
      PROVE  /\ SumOf(Volumes(a.frames[m])) = SumOf(Volumes(a.frames[1]))
             /\ a.intraday[m].session_open = a.intraday[1].session_open
             /\ a.intraday[m].session_high = a.intraday[1].session_high
             /\ a.intraday[m].session_low = a.intraday[1].session_low
             /\ a.intraday[m].change_from_open = a.intraday[1].change_from_open
             /\ s # <<>> => Last(a.frames[m]).close = Last(s).close
  <2>1. PICK A : A = Aggregate(s, m) /\ A = a.frames[m]
    BY <1>5
  <2>2. a.intraday[m] = IntradaySummary(A, price) /\ a.intraday[1] = IntradaySummary(s, price)
    BY <1>5, <1>6, <2>1
  <2>3. CASE Q = {}
    <3>1. Placed(s, Q, Cardinality(Q)) /\ Chart(A, ToSet(A)) /\ ToSet(A) = {}
      BY <1>3, <2>1, <2>3, ChartPlaces, AggregateIsChart
    <3>2. Placed(A, ToSet(A), Cardinality(ToSet(A)))
      BY <3>1, ChartPlaces
    <3>3. s = <<>> /\ A = <<>>
      <4>1. Row(s, 0) /\ Row(A, 0)
        BY <2>3, <3>1, <3>2 DEF Placed
      <4> QED
        BY <4>1 DEF Row
    <3> QED
      BY <1>5, <2>1, <2>2, <3>3
  <2>4. CASE Q # {}
    <3>1. Last(A).close = Last(s).close /\ SumOf(Volumes(A)) = SumOf(Volumes(s))
      BY <1>3, <2>1, <2>4, FramesCarryAll
    <3>2. PICK i, j : i = IntradaySummary(A, price) /\ j = IntradaySummary(s, price)
      OBVIOUS
    <3>3. LET k == IntradaySummary(Aggregate(s, m), price)
              l == IntradaySummary(s, price)
          IN /\ k.session_open = l.session_open /\ k.session_high = l.session_high
             /\ k.session_low = l.session_low /\ k.change_from_open = l.change_from_open
      BY <1>3, <1>8, <2>4, SessionsAgree
    <3>4. /\ i.session_open = j.session_open /\ i.session_high = j.session_high
          /\ i.session_low = j.session_low /\ i.change_from_open = j.change_from_open
      BY <2>1, <3>2, <3>3
    <3> QED
      BY <1>5, <2>1, <2>2, <3>1, <3>2, <3>4
  <2> QED
    BY <2>3, <2>4
<1> QED
  BY <1>2, <1>7, <1>8

\* The minutes that the runs feed are a chart.
MinutesInv == algorithm = "chart" => Chart(minutes, ToSet(minutes))

\* A later bar may be appended to a chart.
LEMMA ChartGrows ==
  ASSUME NEW s, Chart(s, ToSet(s)), NEW b, IsMinute(b), \A i \in DOMAIN s : s[i].t < b.t
  PROVE  Chart(Append(s, b), ToSet(Append(s, b)))
<1>1. PICK Q : Q = ToSet(s)
  OBVIOUS
<1>2. Chart(s, Q)
  BY <1>1
<1>3. PICK n : Placed(s, Q, n)
  BY <1>2, ChartPlaces
<1>4. /\ n \in Nat /\ n = Cardinality(Q) /\ Row(s, n) /\ DOMAIN s = 1..n /\ Len(s) = n
      /\ \A i \in 1..n : s[i] \in Q
      /\ \A x \in Q : \E i \in 1..n : s[i] = x
      /\ \A i, j \in 1..n : i < j => s[i].t < s[j].t
  BY <1>3 DEF Placed
<1>5. PICK u, m : u = Append(s, b) /\ m = n + 1
  OBVIOUS
<1>6. /\ m \in Nat /\ DOMAIN u = 1..m /\ u[m] = b /\ \A i \in 1..n : u[i] = s[i]
      /\ u = [i \in 1..m |-> u[i]]
  <2>1. s \in Seq({s[i] : i \in 1..n})
    BY <1>4, RowLength
  <2>2. DOMAIN u = 1..m /\ u[m] = b /\ \A i \in 1..n : u[i] = s[i]
    BY <1>4, <1>5, <2>1
  <2>3. u = [i \in 1..m |-> u[i]]
    <3>1. PICK T : T = {s[i] : i \in 1..n} \cup {b}
      OBVIOUS
    <3>2. s \in Seq(T) /\ b \in T
      BY <2>1, <3>1
    <3>3. u \in Seq(T)
      BY <1>5, <3>2
    <3>4. DOMAIN u = 1..Len(u) /\ u = [i \in 1..Len(u) |-> u[i]]
      BY <3>3, SequencesAreFunctions
    <3>5. Len(u) = m
      BY <1>4, <1>5, <3>2
    <3> QED
      BY <3>4, <3>5
  <2>4. m \in Nat
    BY <1>4, <1>5
  <2> QED
    BY <2>2, <2>3, <2>4
<1>7. 1..m = (1..n) \cup {m} /\ m \notin 1..n
  BY <1>4, <1>5
<1>8. PICK P : P = ToSet(u)
  OBVIOUS
<1>9. P = Q \cup {b}
  <2>1. P = {u[i] : i \in 1..m}
    BY <1>6, <1>8 DEF ToSet
  <2>2. {u[i] : i \in 1..n} = Q
    <3>1. \A i \in 1..n : u[i] \in Q
      BY <1>4, <1>6
    <3>2. \A x \in Q : \E i \in 1..n : u[i] = x
      BY <1>4, <1>6
    <3> QED
      BY <3>1, <3>2
  <2> QED
    BY <1>6, <1>7, <2>1, <2>2
<1>10. Timed(Q) /\ \A x \in Q : x.t < b.t
  BY <1>2, <1>4 DEF Chart
<1>11. b \notin Q
  BY <1>10 DEF Timed, IsMinute
<1>12. IsFiniteSet(P) /\ Cardinality(P) = m
  BY <1>4, <1>5, <1>9, <1>10, <1>11, FS_AddElement DEF Timed
<1>13. Timed(P)
  BY <1>9, <1>10, <1>12 DEF Timed, IsMinute
<1>14. ASSUME NEW i \in 1..m, NEW j \in 1..m, i < j PROVE u[i].t < u[j].t
  <2>1. CASE j = m
    <3>1. i \in 1..n
      BY <1>7, <1>14, <2>1
    <3> QED
      BY <1>4, <1>6, <1>10, <2>1, <3>1
  <2>2. CASE j # m
    <3>1. i \in 1..n /\ j \in 1..n
      BY <1>4, <1>5, <1>14, <2>2
    <3> QED
      BY <1>4, <1>6, <1>14, <3>1
  <2> QED
    BY <2>1, <2>2
<1>15. Lists(u, InTime(P), P)
  <2>1. \A i \in 1..m : u[i] \in P
    BY <1>4, <1>6, <1>7, <1>9
  <2>2. u \in [1..m -> P]
    BY <1>6, <2>1
  <2>3. \A x \in P : \E i \in 1..m : u[i] = x
    BY <1>4, <1>6, <1>7, <1>9
  <2>4. ASSUME NEW i \in 1..m, NEW j \in 1..m, i < j PROVE <<u[i], u[j]>> \in InTime(P) /\ u[i] # u[j]
    <3>1. u[i] \in P /\ u[j] \in P /\ u[i].t < u[j].t
      BY <1>14, <2>1, <2>4
    <3>2. u[i].t \in Int
      BY <1>13, <3>1 DEF Timed, IsMinute
    <3> QED
      BY <3>1, <3>2 DEF InTime
  <2> QED
    BY <1>12, <2>2, <2>3, <2>4 DEF Lists
<1> QED
  BY <1>5, <1>8, <1>13, <1>15 DEF Chart

\* At first there are no minutes.
LEMMA MinutesInitially == AlgorithmsInit => MinutesInv
<1> SUFFICES ASSUME AlgorithmsInit PROVE Chart(minutes, ToSet(minutes))
  BY DEF MinutesInv
<1>1. minutes = <<>>
  BY DEF AlgorithmsInit
<1>2. ToSet(minutes) = {}
  BY <1>1 DEF ToSet
<1>3. IsFiniteSet({}) /\ Cardinality({}) = 0
  BY FS_EmptySet
<1>4. Timed({})
  BY <1>3 DEF Timed
<1>5. Lists(<<>>, InTime({}), {})
  BY <1>3 DEF Lists
<1> QED
  BY <1>1, <1>2, <1>4, <1>5 DEF Chart

\* Every step keeps them a chart.
LEMMA MinutesInductive == MinutesInv /\ [AlgorithmsNext]_algorithmVars => MinutesInv'
<1> SUFFICES ASSUME MinutesInv, [AlgorithmsNext]_algorithmVars PROVE MinutesInv'
  OBVIOUS
<1>1. algorithm' = algorithm /\ (minutes' = minutes \/ AddMinute)
  <2>1. CASE AddTrade
    BY <2>1 DEF AddTrade
  <2>2. CASE AddDay
    BY <2>2 DEF AddDay
  <2>3. CASE AddResult
    BY <2>3 DEF AddResult
  <2>4. CASE AddMinute
    BY <2>4 DEF AddMinute
  <2>5. CASE UNCHANGED algorithmVars
    BY <2>5 DEF algorithmVars
  <2> QED
    BY <2>1, <2>2, <2>3, <2>4, <2>5, Zenon DEF AlgorithmsNext
<1>2. CASE minutes' = minutes
  BY <1>1, <1>2 DEF MinutesInv
<1>3. CASE AddMinute
  <2>1. algorithm = "chart" /\ Chart(minutes, ToSet(minutes))
    BY <1>3 DEF AddMinute, MinutesInv
  <2>2. PICK t \in Times, b \in MinuteShapes, currency \in {"KRW", "USD"} :
          /\ \A i \in DOMAIN minutes : minutes[i].t < t
          /\ currency = "USD" => t = 1984
          /\ minutes' = Append(minutes, MinuteBar(t, currency, b))
    BY <1>3, Zenon DEF AddMinute
  <2>3. PICK x : x = MinuteBar(t, currency, b)
    OBVIOUS
  <2>4. t \in Int
    BY DEF Times
  <2>5. b \in [open : Int, high : Int, low : Int, close : Int, volume : Int]
    BY DEF MinuteShapes, Bar
  <2>6. x.t = t /\ IsMinute(x)
    BY <2>3, <2>4, <2>5 DEF IsMinute, MinuteBar
  <2>7. Chart(Append(minutes, x), ToSet(Append(minutes, x)))
    BY <2>1, <2>2, <2>6, ChartGrows
  <2> QED
    BY <2>2, <2>3, <2>7 DEF MinutesInv
<1> QED
  BY <1>1, <1>2, <1>3

\* The three timeframes are one chart, however many of its minutes AddMinute
\* appends (FramesAgree):
\* ten-minute candles are the same from the minutes and from the five-minute
\* candles, and all agree on the session, the last close and the volume.
THEOREM FramesAlwaysAgree == AlgorithmsSpec => []FramesAgree
<1>1. AlgorithmsInit => MinutesInv
  BY MinutesInitially
<1>2. MinutesInv /\ [AlgorithmsNext]_algorithmVars => MinutesInv'
  BY MinutesInductive
<1>3. MinutesInv => FramesAgree
  <2> SUFFICES ASSUME MinutesInv PROVE FramesAgree
    OBVIOUS
  <2>1. CASE algorithm = "chart"
    BY <2>1, FramesOfChart DEF MinutesInv
  <2>2. CASE algorithm # "chart"
    <3>1. Analyses = {}
      BY <2>2 DEF Analyses, Charted
    <3> QED
      BY <3>1, Zenon DEF FramesAgree
  <2> QED
    BY <2>1, <2>2
<1> QED
  BY <1>1, <1>2, <1>3, PTL DEF AlgorithmsSpec

------------------------------------------------------------------------------
(***************************************************************************)
(* Quotients of a positive divisor are ordered: NotLess is total and       *)
(* transitive, and two quotients are one value when neither is less.       *)
(***************************************************************************)

Fractions == {q \in Int \X Int : q[2] > 0}

\* NotLess is transitive.
LEMMA NotLessFollows ==
  ASSUME NEW a \in Fractions, NEW b \in Fractions, NEW c \in Fractions, NotLess(a, b), NotLess(b, c)
  PROVE  NotLess(a, c)
<1>1. PICK x \in Int, p \in Int, y \in Int, q \in Int, z \in Int, r \in Int :
        x = a[1] /\ p = a[2] /\ y = b[1] /\ q = b[2] /\ z = c[1] /\ r = c[2]
  BY DEF Fractions
<1>2. p > 0 /\ q > 0 /\ r > 0
  BY <1>1 DEF Fractions
<1>3. y * p <= x * q /\ z * q <= y * r
  BY <1>1 DEF NotLess, Less
<1>4. SUFFICES ASSUME x * r < z * p PROVE FALSE
  BY <1>1 DEF NotLess, Less
<1>5. r * (y * p) <= r * (x * q) /\ p * (z * q) <= p * (y * r)
  BY <1>1, <1>2, <1>3, TimesKeepsOrder
<1>6. PICK g \in Int, h \in Int : g = x * r /\ h = z * p
  BY <1>1
<1>7. q * (g + 1) <= q * h
  <2>1. g + 1 \in Int /\ g + 1 <= h /\ q \in Nat
    BY <1>2, <1>4, <1>6
  <2> QED
    BY <2>1, <1>6, TimesKeepsOrder
<1>8. q * (g + 1) = q * g + q
  BY <1>6
<1>9. r * (y * p) = p * (y * r)
  OBVIOUS
<1>10. r * (x * q) = q * g
  BY <1>6
<1>11. p * (z * q) = q * h
  BY <1>6
<1>12. PICK u \in Int, v \in Int, w \in Int : u = p * (y * r) /\ v = q * g /\ w = q * h
  BY <1>6
<1> QED
  BY <1>2, <1>5, <1>7, <1>8, <1>9, <1>10, <1>11, <1>12

\* The order is total, and agrees with Less and SameValue.
LEMMA FractionsOrder ==
  ASSUME NEW a \in Fractions, NEW b \in Fractions
  PROVE  /\ NotLess(a, b) \/ NotLess(b, a)
         /\ Less(a, b) = ~NotLess(a, b)
         /\ SameValue(a, b) = (NotLess(a, b) /\ NotLess(b, a))
<1>1. PICK x \in Int, y \in Int : x = a[1] * b[2] /\ y = b[1] * a[2]
  BY DEF Fractions
<1> QED
  BY <1>1 DEF NotLess, Less, SameValue

\* A quotient is there.
LEMMA FractionIsThere ==
  ASSUME NEW q \in Fractions
  PROVE  q # Missing
<1>1. DOMAIN q = {1, 2}
  BY DEF Fractions
<1>2. DOMAIN Missing = {}
  BY DEF Missing
<1> QED
  BY <1>1, <1>2

\* Integers as quotients.
LEMMA WholeIsFraction ==
  ASSUME NEW n \in Int
  PROVE  Whole(n) \in Fractions
BY DEF Whole, Fractions

\* An optional quotient.
Optional == Fractions \cup {Missing}

\* What the trends say of the averages.
TrendsAreBacked(price, d, i, ind) ==
  LET Over(v) == v = Missing \/ NotLess(price, v)
  IN /\ d.trend \in {"bullish", "pullback"} => Over(ind.sma60)
     /\ i.trend = "bullish" => Over(i.sma5) /\ Over(i.sma20) /\ Over(i.vwap)
     /\ i.trend = "bearish" => NotLess(i.sma20, price)
     /\ d.trend = "bearish" => NotLess(ind.sma20, price) /\ NotLess(ind.sma60, price)

\* The daily and the intraday trend (DailyTrend, IntradayTrend) say it.
LEMMA TrendsSay ==
  ASSUME NEW price \in Fractions, NEW d, NEW i, NEW ind,
         ind.sma20 \in Optional, ind.sma60 \in Optional, i.sma5 \in Optional, i.sma20 \in Optional,
         i.sma20 # Missing => i.sma5 # Missing,
         d.trend = DailyTrend(price, ind), i.trend = IntradayTrend(price, i.sma5, i.sma20, i.vwap)
  PROVE  TrendsAreBacked(price, d, i, ind)
<1> DEFINE sma20 == ind.sma20
           sma60 == ind.sma60
           i5 == i.sma5
           i20 == i.sma20
           vwap == i.vwap
<1> DEFINE Over(v) == v = Missing \/ NotLess(price, v)
<1>1. d.trend \in {"bullish", "pullback"} => Over(sma60)
  <2> SUFFICES ASSUME d.trend \in {"bullish", "pullback"}, sma60 # Missing PROVE NotLess(price, sma60)
    OBVIOUS
  <2>1. sma20 # Missing /\ sma60 # Missing /\ Less(sma60, sma20)
    BY DEF DailyTrend, Trend
  <2>2. sma20 \in Fractions /\ sma60 \in Fractions
    BY <2>1 DEF Optional
  <2>3. CASE NotLess(price, sma20)
    <3>1. NotLess(sma20, sma60)
      BY <2>1, <2>2, FractionsOrder
    <3> QED
      BY <2>2, <2>3, <3>1, NotLessFollows
  <2>4. CASE ~NotLess(price, sma20)
    BY <2>1, <2>4 DEF DailyTrend
  <2> QED
    BY <2>3, <2>4
<1>2. i.trend = "bullish" => Over(i5) /\ Over(i20) /\ Over(vwap)
  <2> SUFFICES ASSUME i.trend = "bullish" PROVE Over(i5) /\ Over(i20) /\ Over(vwap)
    OBVIOUS
  <2>1. i20 # Missing /\ NotLess(price, i5) /\ NotLess(i5, i20) /\ Over(vwap)
    BY DEF IntradayTrend
  <2>2. i5 \in Fractions /\ i20 \in Fractions
    BY <2>1 DEF Optional
  <2> QED
    BY <2>1, <2>2, NotLessFollows
<1>3. i.trend = "bearish" => NotLess(i20, price)
  <2> SUFFICES ASSUME i.trend = "bearish" PROVE NotLess(i20, price)
    OBVIOUS
  <2>1. i20 # Missing /\ NotLess(i5, price) /\ NotLess(i20, i5)
    BY DEF IntradayTrend
  <2>2. i5 \in Fractions /\ i20 \in Fractions
    BY <2>1 DEF Optional
  <2> QED
    BY <2>1, <2>2, NotLessFollows
<1>4. d.trend = "bearish" => NotLess(sma20, price) /\ NotLess(sma60, price)
  <2> SUFFICES ASSUME d.trend = "bearish" PROVE NotLess(sma20, price) /\ NotLess(sma60, price)
    OBVIOUS
  <2>1. sma20 # Missing /\ sma60 # Missing /\ Less(sma20, sma60) /\ NotLess(sma20, price)
    BY DEF DailyTrend
  <2>2. sma20 \in Fractions /\ sma60 \in Fractions
    BY <2>1 DEF Optional
  <2>3. NotLess(sma60, sma20)
    BY <2>1, <2>2, FractionsOrder
  <2> QED
    BY <2>1, <2>2, <2>3, NotLessFollows
<1> QED
  BY <1>1, <1>2, <1>3, <1>4 DEF TrendsAreBacked

(***************************************************************************)
(* What the summaries show of bars is a quotient or missing.               *)
(***************************************************************************)

\* A row of bars with numbers.
Numbers(b) == b.high \in Int /\ b.low \in Int /\ b.close \in Int /\ b.volume \in Int
Numbered(s, n) == Row(s, n) /\ \A i \in 1..n : Numbers(s[i])

\* A row of m bars of a row of l.
Window(t, m, s, l) ==
  m \in 0..l /\ Numbered(t, m) /\ \A i \in 1..m : \E j \in 1..l : t[i] = s[j]

\* Its last bars are such a row.
LEMMA SuffixIsNumbered ==
  ASSUME NEW s, NEW l, Numbered(s, l), NEW n \in Nat
  PROVE  \E m : Window(Suffix(s, n), m, s, l) /\ (m = 0) = (l = 0 \/ n = 0)
<1>1. Row(s, l) /\ l \in Nat /\ \A j \in 1..l : Numbers(s[j])
  BY RowLength DEF Numbered
<1>2. PICK m \in 0..l : m = IF n <= l THEN n ELSE l
  BY <1>1
<1>3. PICK t : t = Suffix(s, n)
  OBVIOUS
<1>4. t = Suffix(s, m)
  <2>1. CASE n <= l
    BY <1>2, <1>3, <2>1
  <2>2. CASE ~(n <= l)
    BY <1>1, <1>2, <1>3, <2>2, SuffixOfShort
  <2> QED
    BY <2>1, <2>2
<1>5. t = [i \in 1..m |-> s[l - m + i]] /\ Row(t, m)
  BY <1>1, <1>4, SuffixIs
<1>6. ASSUME NEW i \in 1..m PROVE \E j \in 1..l : t[i] = s[j]
  <2>1. l - m + i \in 1..l
    BY <1>1
  <2> QED
    BY <1>5, <2>1
<1>7. Numbered(t, m)
  BY <1>1, <1>5, <1>6 DEF Numbered
<1>8. (m = 0) = (l = 0 \/ n = 0)
  BY <1>1, <1>2
<1>9. Window(t, m, s, l)
  BY <1>2, <1>6, <1>7 DEF Window
<1> QED
  BY <1>3, <1>8, <1>9

\* Its bars but the last are one, too.
LEMMA FrontIsNumbered ==
  ASSUME NEW s, NEW l, Numbered(s, l), l > 0
  PROVE  Numbered(Front(s), l - 1) /\ \A i \in 1..(l - 1) : Front(s)[i] = s[i]
<1>1. Row(s, l) /\ l \in Nat /\ Len(s) = l /\ \A j \in 1..l : Numbers(s[j])
  BY RowLength DEF Numbered
<1>2. PICK k \in 0..l : k = l - 1
  BY <1>1
<1>3. PICK f : f = Front(s)
  OBVIOUS
<1>4. f = SubSeq(s, 1, k)
  BY <1>1, <1>2, <1>3 DEF Front
<1>5. SubSeq(s, 1, k) = [i \in 1..(k - 1 + 1) |-> s[1 + i - 1]]
  <2>1. 1 \in 1..(l + 1) /\ 1 <= k + 1
    BY <1>1, <1>2
  <2> QED
    BY <1>1, <2>1, PartOfRow
<1>6. f = [i \in 1..k |-> s[i]]
  <2>1. k - 1 + 1 = k /\ \A i \in 1..k : 1 + i - 1 = i
    BY <1>1, <1>2
  <2> QED
    BY <1>4, <1>5, <2>1
<1>7. Row(f, k) /\ \A i \in 1..k : f[i] = s[i] /\ i \in 1..l
  BY <1>1, <1>2, <1>6 DEF Row
<1> QED
  BY <1>1, <1>2, <1>3, <1>7 DEF Numbered

\* The highest and the lowest price of such a row.
LEMMA ExtremesAreNumbers ==
  ASSUME NEW s, NEW n, Numbered(s, n), n > 0
  PROVE  Highest(s) \in Int /\ Lowest(s) \in Int
<1>1. n \in Nat /\ DOMAIN s = 1..n /\ \A i \in 1..n : s[i].high \in Int /\ s[i].low \in Int
  BY RowLength DEF Numbered, Numbers
<1>2. PICK T : T = 1..n
  OBVIOUS
<1>3. PICK f, g : f = [k \in T |-> s[k].high] /\ g = [k \in T |-> s[k].low]
  OBVIOUS
<1>4. \A k \in T : f[k] = s[k].high /\ g[k] = s[k].low /\ f[k] \in Int /\ g[k] \in Int
  BY <1>1, <1>2, <1>3
<1>5. PICK H, L : H = {f[k] : k \in T} /\ L = {g[k] : k \in T}
  OBVIOUS
<1>6. IsFiniteSet(T) /\ 1 \in T
  <2>1. IsFiniteSet(T)
    BY <1>1, <1>2, FS_Interval
  <2> QED
    BY <1>1, <1>2, <2>1
<1>7. IsFiniteSet(H) /\ IsFiniteSet(L)
  BY <1>3, <1>5, <1>6, FinitelyManyKeys
<1>8. H \subseteq Int /\ H # {} /\ L \subseteq Int /\ L # {}
  BY <1>4, <1>5, <1>6
<1>9. Max(H) \in Int
  <2>1. Max(H) \in H
    BY <1>7, <1>8, MaxOf
  <2> QED
    BY <1>8, <2>1
<1>10. Min(L) \in Int
  <2>1. Min(L) \in L
    BY <1>7, <1>8, MinOf
  <2> QED
    BY <1>8, <2>1
<1>11. Highest(s) = Max(H)
  <2>1. {s[i].high : i \in DOMAIN s} = H
    BY <1>1, <1>2, <1>4, <1>5
  <2> QED
    BY <2>1 DEF Highest
<1>12. Lowest(s) = Min(L)
  <2>1. {s[i].low : i \in DOMAIN s} = L
    BY <1>1, <1>2, <1>4, <1>5
  <2> QED
    BY <2>1 DEF Lowest
<1> QED
  BY <1>9, <1>10, <1>11, <1>12

\* The sum of a row of integers.
LEMMA SumIsInteger ==
  ASSUME NEW v, NEW n, Row(v, n), \A k \in 1..n : v[k] \in Int
  PROVE  SumOf(v) \in Int
<1>1. n \in Nat /\ DOMAIN v = 1..n
  BY RowLength
<1>2. PICK S : S = 1..n
  OBVIOUS
<1>3. IsFiniteSet(S)
  BY <1>1, <1>2, FS_Interval
<1>4. v \in [S -> Int]
  BY <1>2 DEF Row
<1>5. SumOf(v) = Total(v, S)
  <2>1. DOMAIN v = S
    BY <1>1, <1>2
  <2> QED
    BY <2>1, Zenon DEF SumOf, Total
<1> QED
  BY <1>3, <1>4, <1>5, TotalInt

\* The mean of the last ones.
LEMMA MeanIsQuotient ==
  ASSUME NEW v, NEW l, Row(v, l), \A k \in 1..l : v[k] \in Int, NEW n \in Nat \ {0}
  PROVE  /\ Mean(Suffix(v, n)) \in Optional /\ (l > 0 => Mean(Suffix(v, n)) \in Fractions)
         /\ SimpleMovingAverage(v, n) \in Optional
<1>1. l \in Nat /\ Len(v) = l
  BY RowLength
<1>2. PICK m \in 0..l : m = IF n <= l THEN n ELSE l
  BY <1>1
<1>3. PICK t : t = Suffix(v, n)
  OBVIOUS
<1>4. t = Suffix(v, m)
  <2>1. CASE n <= l
    BY <1>2, <1>3, <2>1
  <2>2. CASE ~(n <= l)
    BY <1>1, <1>2, <1>3, <2>2, SuffixOfShort
  <2> QED
    BY <2>1, <2>2
<1>5. t = [i \in 1..m |-> v[l - m + i]] /\ Row(t, m)
  BY <1>1, <1>4, SuffixIs
<1>6. \A i \in 1..m : t[i] \in Int
  <2>1. \A i \in 1..m : l - m + i \in 1..l
    BY <1>1
  <2> QED
    BY <1>5, <2>1
<1>7. SumOf(t) \in Int /\ Len(t) = m
  BY <1>5, <1>6, SumIsInteger, RowLength
<1>8. m > 0 => Mean(t) \in Fractions
  <2> SUFFICES ASSUME m > 0 PROVE Mean(t) \in Fractions
    OBVIOUS
  <2>1. t # <<>>
    BY <1>7, <1>1
  <2>2. Mean(t) = <<SumOf(t), m>>
    BY <1>7, <2>1 DEF Mean
  <2> QED
    BY <1>1, <1>7, <2>2 DEF Fractions
<1>9. m = 0 => Mean(t) = Missing
  <2> SUFFICES ASSUME m = 0 PROVE Mean(t) = Missing
    OBVIOUS
  <2>1. t = <<>>
    BY <1>5
  <2> QED
    BY <2>1 DEF Mean
<1>10. SimpleMovingAverage(v, n) \in Optional
  <2>1. CASE l < n
    BY <1>1, <2>1 DEF SimpleMovingAverage, Optional
  <2>2. CASE ~(l < n)
    <3>1. SimpleMovingAverage(v, n) = <<SumOf(t), n>>
      BY <1>1, <1>3, <2>2, Zenon DEF SimpleMovingAverage
    <3> QED
      BY <1>7, <3>1 DEF Optional, Fractions
  <2> QED
    BY <2>1, <2>2
<1>11. m > 0 \/ m = 0
  BY <1>1
<1>12. l > 0 => m > 0
  BY <1>1, <1>2
<1> QED
  BY <1>3, <1>8, <1>9, <1>10, <1>11, <1>12 DEF Optional

\* The average price of the traded volume.
LEMMA VwapIsQuotient ==
  ASSUME NEW s, NEW n, Numbered(s, n)
  PROVE  Vwap(s) \in Optional
<1>1. n \in Nat /\ DOMAIN s = 1..n /\ \A i \in 1..n : Numbers(s[i])
  BY RowLength DEF Numbered
<1>2. PICK v, w : /\ v = Volumes(s)
                  /\ w = [i \in DOMAIN s |-> (s[i].high + s[i].low + s[i].close) * s[i].volume]
  OBVIOUS
<1>3. Row(v, n) /\ Row(w, n)
  BY <1>1, <1>2 DEF Volumes, Row
<1>4. ASSUME NEW i \in 1..n PROVE v[i] \in Int /\ w[i] \in Int
  <2>1. Numbers(s[i]) /\ v[i] = s[i].volume
        /\ w[i] = (s[i].high + s[i].low + s[i].close) * s[i].volume
    BY <1>1, <1>2 DEF Volumes
  <2>2. PICK a \in Int, b \in Int, c \in Int, d \in Int :
          a = s[i].high /\ b = s[i].low /\ c = s[i].close /\ d = s[i].volume
    BY <2>1 DEF Numbers
  <2>3. (a + b + c) * d \in Int
    OBVIOUS
  <2> QED
    BY <2>1, <2>2, <2>3
<1>5. SumOf(v) \in Int /\ SumOf(w) \in Int
  BY <1>3, <1>4, SumIsInteger
<1>6. CASE SumOf(v) <= 0
  BY <1>2, <1>6 DEF Vwap, Optional
<1>7. CASE ~(SumOf(v) <= 0)
  <2>1. Vwap(s) = <<SumOf(w), 3 * SumOf(v)>>
    BY <1>2, <1>7, Zenon DEF Vwap
  <2>2. 3 * SumOf(v) \in Int /\ 3 * SumOf(v) > 0
    BY <1>5, <1>7
  <2>3. <<SumOf(w), 3 * SumOf(v)>> \in Fractions
    BY <1>5, <2>2 DEF Fractions
  <2> QED
    BY <2>1, <2>3 DEF Optional
<1> QED
  BY <1>6, <1>7

\* A chart is a row of bars with numbers.
LEMMA ChartIsNumbered ==
  ASSUME NEW s, NEW Q, Chart(s, Q)
  PROVE  Numbered(s, Len(s)) /\ (Len(s) = 0) = (Q = {})
<1>1. PICK n : Placed(s, Q, n)
  BY ChartPlaces
<1>2. n \in Nat /\ Len(s) = n /\ Row(s, n) /\ (\A i \in 1..n : s[i] \in Q) /\ (n = 0) = (Q = {})
  BY <1>1 DEF Placed
<1>3. \A b \in Q : Numbers(b)
  BY DEF Chart, Timed, IsMinute, Numbers
<1> QED
  BY <1>2, <1>3 DEF Numbered

\* The closes of such a row.
LEMMA ClosesAreNumbers ==
  ASSUME NEW s, NEW n, Numbered(s, n)
  PROVE  Row(Closes(s), n) /\ \A k \in 1..n : Closes(s)[k] \in Int
<1>1. n \in Nat /\ DOMAIN s = 1..n /\ \A i \in 1..n : s[i].close \in Int
  BY RowLength DEF Numbered, Numbers
<1> QED
  BY <1>1 DEF Closes, Row

\* What the levels take of an intraday summary.
IntradayPrices(i) == {i.vwap, i.sma20, i.session_low, i.session_high, i.recent_low, i.recent_high}

\* The averages, the extremes and the trend of an intraday summary.
LEMMA IntradayValues ==
  ASSUME NEW s, NEW Q, Chart(s, Q), NEW price
  PROVE  LET i == IntradaySummary(s, price)
         IN /\ i.trend = IntradayTrend(price, i.sma5, i.sma20, i.vwap)
            /\ i.sma5 \in Optional /\ IntradayPrices(i) \subseteq Optional
            /\ i.sma20 # Missing => i.sma5 # Missing
<1>1. PICK n : n = Len(s)
  OBVIOUS
<1>2. Numbered(s, n) /\ n \in Nat /\ (n = 0) = (Q = {}) /\ Row(s, n)
  BY <1>1, ChartIsNumbered, RowLength DEF Numbered
<1>3. PICK P \in SUBSET Q : P = OfDay(Q, Day(Last(s)))
  BY DEF OfDay
<1>4. n > 0 => P # {}
  BY <1>2, <1>3, LastOfChart DEF OfDay
<1>5. PICK session : session = Kept(s, P)
  OBVIOUS
<1>6. KeepIf(s, LAMBDA b : Day(b) = Day(Last(s))) = session
  <2>1. DOMAIN s = 1..n /\ \A i \in 1..n : s[i] \in Q
    <3>1. PICK m : Placed(s, Q, m)
      BY ChartPlaces
    <3>2. Len(s) = m /\ DOMAIN s = 1..m /\ \A i \in 1..m : s[i] \in Q
      BY <3>1 DEF Placed
    <3> QED
      BY <1>1, <3>2
  <2>2. {i \in DOMAIN s : Day(s[i]) = Day(Last(s))} = {i \in DOMAIN s : s[i] \in P}
    BY <1>3, <2>1 DEF OfDay
  <2> QED
    BY <1>5, <2>2, Zenon DEF Kept, KeepIf
<1>7. Chart(session, P)
  BY <1>5, KeptIsChart
<1>8. PICK k : k = Len(session)
  OBVIOUS
<1>9. Numbered(session, k) /\ (k = 0) = (P = {}) /\ k \in Nat
  BY <1>7, <1>8, ChartIsNumbered, RowLength DEF Numbered
<1>10. Vwap(session) \in Optional
  BY <1>9, VwapIsQuotient
<1>11. Sma20 \in Nat \ {0} /\ Sma5 \in Nat \ {0}
  BY ScreeningAssumption, ChartAssumption
<1>12. PICK closes : closes = Closes(s)
  OBVIOUS
<1>13. Row(closes, n) /\ \A j \in 1..n : closes[j] \in Int
  BY <1>2, <1>12, ClosesAreNumbers
<1>14. PICK five, twenty : five = Mean(Suffix(closes, Sma5)) /\ twenty = Mean(Suffix(closes, Sma20))
  OBVIOUS
<1>15. /\ five \in Optional /\ (n > 0 => five \in Fractions) /\ twenty \in Optional
  BY <1>11, <1>13, <1>14, MeanIsQuotient
<1>16. PICK i : i = IntradaySummary(s, price)
  OBVIOUS
<1>17. i.sma5 = five /\ i.vwap = Vwap(session)
       /\ i.sma20 = IF Len(closes) >= Sma20 THEN twenty ELSE Missing
  BY <1>6, <1>12, <1>14, <1>16 DEF IntradaySummary
<1>18. i.trend = IntradayTrend(price, i.sma5, i.sma20, i.vwap)
  BY <1>16 DEF IntradaySummary
<1>19. i.sma20 \in Optional /\ (i.sma20 # Missing => i.sma5 # Missing)
  <2>1. Len(closes) = n
    BY <1>13, RowLength
  <2>2. i.sma20 \in Optional
    BY <1>15, <1>17 DEF Optional
  <2>3. i.sma20 # Missing => n > 0
    BY <1>2, <1>11, <1>17, <2>1
  <2>4. i.sma20 # Missing => i.sma5 \in Fractions
    BY <1>15, <1>17, <2>3
  <2> QED
    BY <2>2, <2>4, FractionIsThere
<1>20. {i.session_low, i.session_high, i.recent_low, i.recent_high} \subseteq Optional
  <2>1. CASE n = 0
    <3>1. s = <<>>
      BY <1>2, <2>1 DEF Row
    <3>2. i.session_low = Missing /\ i.session_high = Missing
          /\ i.recent_low = Missing /\ i.recent_high = Missing
      BY <1>16, <3>1 DEF IntradaySummary
    <3> QED
      BY <3>2 DEF Optional
  <2>2. CASE n # 0
    <3>1. s # <<>>
      BY <1>1, <2>2
    <3>2. k > 0
      BY <1>2, <1>4, <1>9, <2>2
    <3>3. PICK recent : recent = Suffix(s, Sma20)
      OBVIOUS
    <3>4. PICK m : Window(Suffix(s, Sma20), m, s, n) /\ (m = 0) = (n = 0 \/ Sma20 = 0)
      <4>1. Sma20 \in Nat
        BY <1>11
      <4> QED
        BY <1>2, <4>1, SuffixIsNumbered
    <3>5. m > 0 /\ Numbered(recent, m)
      BY <1>2, <1>11, <2>2, <3>3, <3>4 DEF Window
    <3>6. Highest(session) \in Int /\ Lowest(session) \in Int
      BY <1>9, <3>2, ExtremesAreNumbers
    <3>7. Highest(recent) \in Int /\ Lowest(recent) \in Int
      BY <3>5, ExtremesAreNumbers
    <3>8. i.session_low = Whole(Lowest(session)) /\ i.session_high = Whole(Highest(session))
          /\ i.recent_low = Whole(Lowest(recent)) /\ i.recent_high = Whole(Highest(recent))
      BY <1>6, <1>16, <3>1, <3>3 DEF IntradaySummary
    <3>9. /\ Whole(Lowest(session)) \in Fractions /\ Whole(Highest(session)) \in Fractions
          /\ Whole(Lowest(recent)) \in Fractions /\ Whole(Highest(recent)) \in Fractions
      BY <3>6, <3>7, WholeIsFraction
    <3> QED
      BY <3>8, <3>9 DEF Optional
  <2> QED
    BY <2>1, <2>2
<1>21. i.sma5 \in Optional /\ IntradayPrices(i) \subseteq Optional
  BY <1>10, <1>15, <1>17, <1>19, <1>20 DEF IntradayPrices
<1> QED
  BY <1>16, <1>18, <1>19, <1>21

\* What the levels take of the daily summary.
DailyPrices(d) == {d.sma20, d.recent_low, d.recent_high}

\* The averages, the range and the trend of the daily summary.
LEMMA DailyValues ==
  ASSUME NEW s, NEW n, Numbered(s, n), NEW q
  PROVE  LET d == DaysOf(q, s)
             ind == Indicators(s)
         IN /\ d.trend = DailyTrend(q.price, ind) /\ DailyPrices(d) \subseteq Optional
            /\ ind.sma20 \in Optional /\ ind.sma60 \in Optional
<1>1. Row(s, n) /\ n \in Nat /\ Len(s) = n
  BY RowLength DEF Numbered
<1>2. {Sma20, Sma60} \subseteq Nat \ {0}
  BY ScreeningAssumption
<1>3. PICK ind : ind = Indicators(s)
  OBVIOUS
<1>4. ind.sma20 \in Optional /\ ind.sma60 \in Optional
  <2>1. PICK closes : closes = Closes(s)
    OBVIOUS
  <2>2. Row(closes, n) /\ \A j \in 1..n : closes[j] \in Int
    BY <2>1, ClosesAreNumbers
  <2>3. SimpleMovingAverage(closes, Sma20) \in Optional /\ SimpleMovingAverage(closes, Sma60) \in Optional
    BY <1>2, <2>2, MeanIsQuotient
  <2>4. ind.sma20 = SimpleMovingAverage(closes, Sma20) /\ ind.sma60 = SimpleMovingAverage(closes, Sma60)
    BY <1>3, <2>1 DEF Indicators
  <2> QED
    BY <2>3, <2>4
<1>5. PICK screening, total : screening = Evaluate(s, ind) /\ total = TotalScore(screening)
  OBVIOUS
<1>6. PICK d : d = DaysOf(q, s)
  OBVIOUS
<1>7. d = SummaryOfDays(s, q.price, q.today, ind, screening, total)
  BY <1>3, <1>5, <1>6, Zenon DEF DaysOf, DailySummary, ScreenedSummary
<1>8. PICK range : range = RangeBars(s)
  OBVIOUS
<1>9. /\ d.trend = DailyTrend(q.price, ind) /\ d.sma20 = ind.sma20
      /\ d.recent_high = IF s = <<>> THEN Missing ELSE Whole(Highest(range))
      /\ d.recent_low = IF s = <<>> THEN Missing ELSE Whole(Lowest(range))
  BY <1>7, <1>8 DEF SummaryOfDays
<1>10. s # <<>> => Highest(range) \in Int /\ Lowest(range) \in Int
  <2> SUFFICES ASSUME s # <<>> PROVE Highest(range) \in Int /\ Lowest(range) \in Int
    OBVIOUS
  <2>1. n > 0
    <3>1. n = 0 => s = <<>>
      BY <1>1 DEF Row
    <3> QED
      BY <1>1, <3>1
  <2>2. CASE n >= 2
    <3>1. range = Suffix(Front(s), Sma20)
      BY <1>1, <1>8, <2>2 DEF RangeBars, PriorBars
    <3>2. PICK f : f = Front(s)
      OBVIOUS
    <3>3. Numbered(f, n - 1)
      BY <2>1, <3>2, FrontIsNumbered
    <3>4. Sma20 \in Nat /\ Sma20 # 0
      BY <1>2
    <3>5. PICK m : Window(Suffix(f, Sma20), m, f, n - 1) /\ (m = 0) = (n - 1 = 0 \/ Sma20 = 0)
      BY <3>3, <3>4, SuffixIsNumbered
    <3>6. m > 0 /\ Numbered(Suffix(f, Sma20), m)
      BY <1>1, <2>2, <3>4, <3>5 DEF Window
    <3> QED
      BY <3>1, <3>2, <3>6, ExtremesAreNumbers
  <2>3. CASE ~(n >= 2)
    <3>1. range = s
      BY <1>1, <1>8, <2>3 DEF RangeBars
    <3> QED
      BY <2>1, <3>1, ExtremesAreNumbers
  <2> QED
    BY <2>2, <2>3
<1>11. d.recent_high \in Optional /\ d.recent_low \in Optional
  BY <1>9, <1>10, WholeIsFraction DEF Optional
<1>12. DailyPrices(d) \subseteq Optional
  BY <1>4, <1>9, <1>11 DEF DailyPrices
<1> QED
  BY <1>3, <1>4, <1>6, <1>9, <1>12

(***************************************************************************)
(* The levels (_levels): equal prices are one level, the levels of a side  *)
(* are listed from the price outwards, and three of them are shown.        *)
(***************************************************************************)

\* The order of the supports and that of the resistances.
Nearer(down, a, b) == IF down THEN Less(b, a) ELSE Less(a, b)

\* It is a strict order of values.
LEMMA NearerOrders ==
  ASSUME NEW a \in Fractions, NEW b \in Fractions, NEW c \in Fractions, NEW down \in BOOLEAN
  PROVE  /\ ~(Nearer(down, a, b) /\ SameValue(a, b))
         /\ Nearer(down, a, b) \/ Nearer(down, b, a) \/ SameValue(a, b)
         /\ Nearer(down, a, b) /\ Nearer(down, b, c) => Nearer(down, a, c)
         /\ Nearer(down, a, b) /\ SameValue(b, c) => Nearer(down, a, c)
         /\ SameValue(a, a) /\ (SameValue(a, b) => SameValue(b, a))
         /\ SameValue(a, b) /\ SameValue(b, c) => SameValue(a, c)
<1>1. \A x, y \in {a, b, c} : /\ NotLess(x, y) \/ NotLess(y, x)
                              /\ Less(x, y) = ~NotLess(x, y)
                              /\ SameValue(x, y) = (NotLess(x, y) /\ NotLess(y, x))
  <2>1. ASSUME NEW x \in {a, b, c}, NEW y \in {a, b, c}
        PROVE  /\ NotLess(x, y) \/ NotLess(y, x)
               /\ Less(x, y) = ~NotLess(x, y)
               /\ SameValue(x, y) = (NotLess(x, y) /\ NotLess(y, x))
    <3>1. x \in Fractions /\ y \in Fractions
      OBVIOUS
    <3> QED
      BY <3>1, FractionsOrder
  <2> QED
    BY <2>1
<1>2. \A x, y, z \in {a, b, c} : NotLess(x, y) /\ NotLess(y, z) => NotLess(x, z)
  <2>1. ASSUME NEW x \in {a, b, c}, NEW y \in {a, b, c}, NEW z \in {a, b, c},
               NotLess(x, y), NotLess(y, z)
        PROVE  NotLess(x, z)
    <3>1. x \in Fractions /\ y \in Fractions /\ z \in Fractions
      OBVIOUS
    <3> QED
      BY <2>1, <3>1, NotLessFollows
  <2> QED
    BY <2>1
<1>3. ~(Nearer(down, a, b) /\ SameValue(a, b))
  BY <1>1 DEF Nearer
<1>4. Nearer(down, a, b) \/ Nearer(down, b, a) \/ SameValue(a, b)
  BY <1>1 DEF Nearer
<1>5. Nearer(down, a, b) /\ Nearer(down, b, c) => Nearer(down, a, c)
  BY <1>1, <1>2 DEF Nearer
<1>6. Nearer(down, a, b) /\ SameValue(b, c) => Nearer(down, a, c)
  BY <1>1, <1>2 DEF Nearer
<1>7. SameValue(a, a) /\ (SameValue(a, b) => SameValue(b, a))
  BY <1>1
<1>8. SameValue(a, b) /\ SameValue(b, c) => SameValue(a, c)
  BY <1>1, <1>2
<1> QED
  BY <1>3, <1>4, <1>5, <1>6, <1>7, <1>8

\* Known prices; the level of one, its price, and the levels of some of them.
Priced(K) == IsFiniteSet(K) /\ \A k \in K : k.price \in Fractions
LevelOf(K, l) == {k \in K : SameValue(k.price, l.price)}
PriceOf(level) == (CHOOSE k \in level : TRUE).price
LevelsOf(K, M) == {LevelOf(K, l) : l \in M}
Outwards(down, L) == {p \in L \X L : Nearer(down, PriceOf(p[1]), PriceOf(p[2]))}

\* The price of a level is that of its members.
LEMMA LevelHasPrice ==
  ASSUME NEW K, Priced(K), NEW l \in K
  PROVE  PriceOf(LevelOf(K, l)) \in Fractions /\ SameValue(PriceOf(LevelOf(K, l)), l.price)
<1>1. l.price \in Fractions
  BY DEF Priced
<1>2. SameValue(l.price, l.price)
  <2>1. TRUE \in BOOLEAN
    OBVIOUS
  <2> QED
    BY <1>1, <2>1, NearerOrders
<1>3. l \in LevelOf(K, l)
  BY <1>2 DEF LevelOf
<1>4. PICK k : k = CHOOSE x \in LevelOf(K, l) : TRUE
  OBVIOUS
<1>5. k \in LevelOf(K, l)
  BY <1>3, <1>4
<1>6. k \in K /\ SameValue(k.price, l.price) /\ PriceOf(LevelOf(K, l)) = k.price
  BY <1>4, <1>5 DEF LevelOf, PriceOf
<1> QED
  BY <1>6 DEF Priced

\* Levels of one price are one level.
LEMMA LevelsDiffer ==
  ASSUME NEW K, Priced(K), NEW l \in K, NEW m \in K,
         SameValue(PriceOf(LevelOf(K, l)), PriceOf(LevelOf(K, m)))
  PROVE  LevelOf(K, l) = LevelOf(K, m)
<1>1. PICK p \in Fractions, q \in Fractions : p = PriceOf(LevelOf(K, l)) /\ q = PriceOf(LevelOf(K, m))
  BY LevelHasPrice
<1>2. SameValue(p, l.price) /\ SameValue(q, m.price) /\ SameValue(p, q)
  BY <1>1, LevelHasPrice
<1>3. \A a, b, c \in Fractions : /\ SameValue(a, b) => SameValue(b, a)
                                 /\ SameValue(a, b) /\ SameValue(b, c) => SameValue(a, c)
  <2>1. TRUE \in BOOLEAN
    OBVIOUS
  <2> QED
    BY <2>1, NearerOrders
<1>4. l.price \in Fractions /\ m.price \in Fractions /\ \A k \in K : k.price \in Fractions
  BY DEF Priced
<1>5. SameValue(l.price, m.price) /\ SameValue(m.price, l.price)
  BY <1>1, <1>2, <1>3, <1>4
<1>6. \A k \in K : SameValue(k.price, l.price) = SameValue(k.price, m.price)
  <2>1. ASSUME NEW k \in K PROVE SameValue(k.price, l.price) => SameValue(k.price, m.price)
    BY <1>3, <1>4, <1>5
  <2>2. ASSUME NEW k \in K PROVE SameValue(k.price, m.price) => SameValue(k.price, l.price)
    BY <1>3, <1>4, <1>5
  <2>3. \A x, y : SameValue(x, y) \in BOOLEAN
    BY DEF SameValue
  <2> QED
    BY <2>1, <2>2, <2>3
<1> QED
  BY <1>6 DEF LevelOf

\* So the levels of a side are finitely many, and their prices order them.
LEMMA LevelsAreOrdered ==
  ASSUME NEW K, Priced(K), NEW M \in SUBSET K, NEW down \in BOOLEAN
  PROVE  IsFiniteSet(LevelsOf(K, M)) /\ OrdersAll(Outwards(down, LevelsOf(K, M)), LevelsOf(K, M))
<1>1. PICK L, R : L = LevelsOf(K, M) /\ R = Outwards(down, L)
  OBVIOUS
<1>2. IsFiniteSet(L)
  <2>1. PICK f : f = [l \in M |-> LevelOf(K, l)]
    OBVIOUS
  <2>2. IsFiniteSet(M) /\ DOMAIN f = M
    BY <2>1, FS_Subset DEF Priced
  <2>3. IsFiniteSet({f[l] : l \in M})
    BY <2>2, FinitelyManyKeys
  <2>4. {f[l] : l \in M} = L
    BY <1>1, <2>1 DEF LevelsOf
  <2> QED
    BY <2>3, <2>4
<1>3. \A x \in L : \E l \in K : x = LevelOf(K, l)
  BY <1>1 DEF LevelsOf
<1>4. \A x \in L : PriceOf(x) \in Fractions
  BY <1>3, LevelHasPrice
<1>5. \A x, y \in L : SameValue(PriceOf(x), PriceOf(y)) => x = y
  <2>1. ASSUME NEW x \in L, NEW y \in L, SameValue(PriceOf(x), PriceOf(y)) PROVE x = y
    <3>1. PICK l \in K, m \in K : x = LevelOf(K, l) /\ y = LevelOf(K, m)
      BY <1>3
    <3> QED
      BY <2>1, <3>1, LevelsDiffer
  <2> QED
    BY <2>1
<1>6. \A x, y \in L : <<x, y>> \in R <=> Nearer(down, PriceOf(x), PriceOf(y))
  BY <1>1 DEF Outwards
<1>7. \A x \in L : <<x, x>> \notin R
  <2>1. ASSUME NEW x \in L PROVE ~Nearer(down, PriceOf(x), PriceOf(x))
    BY <1>4, NearerOrders
  <2> QED
    BY <1>6, <2>1
<1>8. \A x, y, z \in L : <<x, y>> \in R /\ <<y, z>> \in R => <<x, z>> \in R
  <2>1. ASSUME NEW x \in L, NEW y \in L, NEW z \in L,
               Nearer(down, PriceOf(x), PriceOf(y)), Nearer(down, PriceOf(y), PriceOf(z))
        PROVE  Nearer(down, PriceOf(x), PriceOf(z))
    <3>1. PICK p \in Fractions, q \in Fractions, r \in Fractions :
            p = PriceOf(x) /\ q = PriceOf(y) /\ r = PriceOf(z)
      BY <1>4
    <3> QED
      BY <2>1, <3>1, NearerOrders
  <2> QED
    BY <1>6, <2>1
<1>9. \A x, y \in L : x # y => <<x, y>> \in R \/ <<y, x>> \in R
  <2>1. ASSUME NEW x \in L, NEW y \in L, x # y
        PROVE  Nearer(down, PriceOf(x), PriceOf(y)) \/ Nearer(down, PriceOf(y), PriceOf(x))
    <3>1. PICK p \in Fractions, q \in Fractions : p = PriceOf(x) /\ q = PriceOf(y)
      BY <1>4
    <3>2. ~SameValue(p, q)
      BY <1>5, <2>1, <3>1
    <3> QED
      BY <3>1, <3>2, NearerOrders
  <2> QED
    BY <1>6, <2>1
<1> QED
  BY <1>1, <1>2, <1>7, <1>8, <1>9, Zenon DEF OrdersAll

\* What a side shows of its levels in their order.
Shown(s) == [i \in DOMAIN Nearest(s) |-> [price |-> PriceOf(Nearest(s)[i]),
                                          basis |-> {l.basis : l \in Nearest(s)[i]}]]

\* A side shows prices of its own; one that it does not show comes after the
\* third that it shows.
ShowsNearest(down, t, K, M) ==
  /\ \A x \in ToSet(t) : x.price \in Fractions /\ \E l \in M : SameValue(x.price, l.price)
  /\ \A k \in M : \/ \E x \in ToSet(t) : SameValue(x.price, k.price)
                  \/ Len(t) = 3 /\ Nearer(down, Last(t).price, k.price)

\* The first three levels of a side are such.
LEMMA NearestAreShown ==
  ASSUME NEW K, Priced(K), NEW M \in SUBSET K, NEW down \in BOOLEAN, NEW s,
         Lists(s, Outwards(down, LevelsOf(K, M)), LevelsOf(K, M))
  PROVE  ShowsNearest(down, Shown(s), K, M)
<1>1. PICK L, n : L = LevelsOf(K, M) /\ n = Cardinality(L)
  OBVIOUS
<1>2. n \in Nat
  BY <1>1, LevelsAreOrdered, FS_CardinalityType
<1>3. s \in [1..n -> L] /\ \A x \in L : \E i \in 1..n : s[i] = x
  BY <1>1 DEF Lists
<1>4. \A i, j \in 1..n : i < j => <<s[i], s[j]>> \in Outwards(down, L)
  BY <1>1 DEF Lists
<1>5. Row(s, n)
  BY <1>2, <1>3 DEF Row
<1>6. Len(s) = n
  BY <1>5, RowLength
<1>7. PICK m \in 0..n : m = IF 3 <= n THEN 3 ELSE n
  BY <1>2
<1>8. Min({3, n}) = m
  BY <1>2, <1>7, MinOfTwo
<1>9. PICK u : u = Nearest(s)
  OBVIOUS
<1>10. u = SubSeq(s, 1, m)
  BY <1>6, <1>8, <1>9 DEF Nearest
<1>11. SubSeq(s, 1, m) = [i \in 1..(m - 1 + 1) |-> s[1 + i - 1]]
  <2>1. 1 \in 1..(n + 1) /\ 1 <= m + 1
    BY <1>2, <1>7
  <2> QED
    BY <1>5, <2>1, PartOfRow
<1>12. u = [i \in 1..m |-> s[i]]
  <2>1. m - 1 + 1 = m /\ \A i \in 1..m : 1 + i - 1 = i
    BY <1>2, <1>7
  <2> QED
    BY <1>10, <1>11, <2>1
<1>13. PICK t : t = Shown(s)
  OBVIOUS
<1>14. /\ DOMAIN u = 1..m
       /\ t = [i \in DOMAIN u |-> [price |-> PriceOf(u[i]), basis |-> {l.basis : l \in u[i]}]]
  BY <1>9, <1>12, <1>13 DEF Shown
<1>15. DOMAIN t = 1..m /\ \A i \in 1..m : t[i].price = PriceOf(s[i])
  BY <1>12, <1>14
<1>16. Row(t, m) /\ m \in Nat
  BY <1>2, <1>7, <1>14 DEF Row
<1>17. Len(t) = m
  BY <1>16, RowLength
<1>18. ToSet(t) = {t[i] : i \in 1..m}
  BY <1>15 DEF ToSet
<1>19. \A x \in L : \E l \in M : x = LevelOf(K, l)
  BY <1>1 DEF LevelsOf
<1>20. ASSUME NEW i \in 1..n
       PROVE  PriceOf(s[i]) \in Fractions /\ \E l \in M : SameValue(PriceOf(s[i]), l.price)
  <2>1. PICK l \in M : s[i] = LevelOf(K, l)
    BY <1>3, <1>19
  <2>2. l \in K
    OBVIOUS
  <2> QED
    BY <2>1, <2>2, LevelHasPrice
<1>21. ASSUME NEW x \in ToSet(t)
       PROVE  x.price \in Fractions /\ \E l \in M : SameValue(x.price, l.price)
  <2>1. PICK i \in 1..m : x = t[i]
    BY <1>18
  <2>2. i \in 1..n /\ x.price = PriceOf(s[i])
    BY <1>2, <1>7, <1>15, <2>1
  <2> QED
    BY <1>20, <2>2
<1>22. ASSUME NEW k \in M
       PROVE  \/ \E x \in ToSet(t) : SameValue(x.price, k.price)
              \/ Len(t) = 3 /\ Nearer(down, Last(t).price, k.price)
  <2>1. LevelOf(K, k) \in L
    BY <1>1 DEF LevelsOf
  <2>2. PICK j \in 1..n : s[j] = LevelOf(K, k)
    BY <1>3, <2>1
  <2>3. k \in K /\ k.price \in Fractions
    BY DEF Priced
  <2>4. PriceOf(s[j]) \in Fractions /\ SameValue(PriceOf(s[j]), k.price)
    BY <2>2, <2>3, LevelHasPrice
  <2>5. CASE j <= m
    <3>1. j \in 1..m
      BY <1>2, <1>7, <2>5
    <3>2. t[j] \in ToSet(t) /\ t[j].price = PriceOf(s[j])
      BY <1>15, <1>18, <3>1
    <3> QED
      BY <2>4, <3>2
  <2>6. CASE ~(j <= m)
    <3>1. m = 3 /\ 3 \in 1..n /\ 3 \in 1..m /\ 3 < j
      BY <1>2, <1>7, <2>6
    <3>2. Last(t) = t[3]
      BY <1>17, <3>1 DEF Last
    <3>3. Last(t).price = PriceOf(s[3])
      BY <1>15, <3>1, <3>2
    <3>4. Nearer(down, PriceOf(s[3]), PriceOf(s[j]))
      <4>1. <<s[3], s[j]>> \in Outwards(down, L)
        BY <1>4, <3>1
      <4> QED
        BY <4>1 DEF Outwards
    <3>5. PriceOf(s[3]) \in Fractions
      BY <1>20, <3>1
    <3>6. Nearer(down, PriceOf(s[3]), k.price)
      <4>1. PICK p \in Fractions, q \in Fractions, r \in Fractions :
              p = PriceOf(s[3]) /\ q = PriceOf(s[j]) /\ r = k.price
        BY <2>3, <2>4, <3>5
      <4>2. Nearer(down, p, q) /\ SameValue(q, r)
        BY <2>4, <3>4, <4>1
      <4>3. Nearer(down, p, r)
        BY <4>2, NearerOrders
      <4> QED
        BY <4>1, <4>3
    <3> QED
      BY <1>17, <3>1, <3>3, <3>6
  <2> QED
    BY <2>5, <2>6
<1> QED
  BY <1>13, <1>21, <1>22 DEF ShowsNearest

\* The known prices up to and from a price.
UpTo(K, price) == {k \in K : NotLess(price, k.price)}
From(K, price) == {k \in K : NotLess(k.price, price)}
SideOf(down, K, M) == Shown(Arranged(Outwards(down, LevelsOf(K, M)), LevelsOf(K, M)))

\* The levels by these words.
LEMMA LevelsAre ==
  ASSUME NEW price, NEW d, NEW i
  PROVE  /\ Levels(price, d, i).supports = SideOf(TRUE, Known(d, i), UpTo(Known(d, i), price))
         /\ Levels(price, d, i).resistances = SideOf(FALSE, Known(d, i), From(Known(d, i), price))
<1>0. PICK K : K = Known(d, i)
  OBVIOUS
<1>1. PICK B, A : B = LevelsOf(K, UpTo(K, price)) /\ A = LevelsOf(K, From(K, price))
  OBVIOUS
<1> DEFINE Down(a, b) == Less(PriceOf(b), PriceOf(a))
           Up(a, b) == Less(PriceOf(a), PriceOf(b))
<1>2. PICK down, up : down = InOrder(B, Down) /\ up = InOrder(A, Up)
  OBVIOUS
<1>3. PICK l : l = Levels(price, d, i)
  OBVIOUS
<1>4. l = [supports |-> Shown(down), resistances |-> Shown(up)]
  <2> DEFINE known == Known(d, i)
             Level(x) == {k \in known : SameValue(k.price, x.price)}
             Price(level) == (CHOOSE k \in level : TRUE).price
             below == InOrder({Level(x) : x \in {k \in known : NotLess(price, k.price)}},
                              LAMBDA a, b : Less(Price(b), Price(a)))
             above == InOrder({Level(x) : x \in {k \in known : NotLess(k.price, price)}},
                              LAMBDA a, b : Less(Price(a), Price(b)))
             Listed(s) == [j \in DOMAIN s |-> [price |-> Price(s[j]), basis |-> {x.basis : x \in s[j]}]]
  <2>1. l = [supports |-> Listed(Nearest(below)), resistances |-> Listed(Nearest(above))]
    BY <1>3, Zenon DEF Levels
  <2>2. below = down
    <3>1. {Level(x) : x \in {k \in known : NotLess(price, k.price)}} = B
      BY <1>0, <1>1, Zenon DEF LevelsOf, LevelOf, UpTo, From
    <3>2. below = InOrder(B, LAMBDA a, b : Less(Price(b), Price(a)))
      BY <3>1, Zenon
    <3>3. InOrder(B, LAMBDA a, b : Less(Price(b), Price(a))) = InOrder(B, Down)
      BY Zenon DEF PriceOf
    <3> QED
      BY <1>2, <3>2, <3>3, Zenon
  <2>3. above = up
    <3>1. {Level(x) : x \in {k \in known : NotLess(k.price, price)}} = A
      BY <1>0, <1>1, Zenon DEF LevelsOf, LevelOf, UpTo, From
    <3>2. above = InOrder(A, LAMBDA a, b : Less(Price(a), Price(b)))
      BY <3>1, Zenon
    <3>3. InOrder(A, LAMBDA a, b : Less(Price(a), Price(b))) = InOrder(A, Up)
      BY Zenon DEF PriceOf
    <3> QED
      BY <1>2, <3>2, <3>3, Zenon
  <2>4. Listed(Nearest(down)) = Shown(down) /\ Listed(Nearest(up)) = Shown(up)
    BY Zenon DEF Shown, PriceOf
  <2> HIDE DEF below, above, Listed
  <2> QED
    BY <2>1, <2>2, <2>3, <2>4
<1>5. down = Arranged(Outwards(TRUE, B), B)
  <2> DEFINE P(x) == {y \in B : Down(y, x)}
             Q(x) == {y \in B : <<y, x>> \in Outwards(TRUE, B)}
  <2>1. down = [j \in 1..Cardinality(B) |-> CHOOSE x \in B : Cardinality(P(x)) = j - 1]
    BY <1>2 DEF InOrder
  <2>2. Arranged(Outwards(TRUE, B), B) = [j \in 1..Cardinality(B) |-> CHOOSE x \in B : Cardinality(Q(x)) = j - 1]
    BY DEF Arranged, InOrder
  <2>3. \A x \in B : P(x) = Q(x)
    BY DEF Outwards, Nearer
  <2> HIDE DEF P, Q
  <2>4. ASSUME NEW j \in 1..Cardinality(B)
        PROVE  (CHOOSE x \in B : Cardinality(P(x)) = j - 1) = CHOOSE x \in B : Cardinality(Q(x)) = j - 1
    BY <2>3
  <2> QED
    BY <2>1, <2>2, <2>4
<1>6. up = Arranged(Outwards(FALSE, A), A)
  <2> DEFINE P(x) == {y \in A : Up(y, x)}
             Q(x) == {y \in A : <<y, x>> \in Outwards(FALSE, A)}
  <2>1. up = [j \in 1..Cardinality(A) |-> CHOOSE x \in A : Cardinality(P(x)) = j - 1]
    BY <1>2 DEF InOrder
  <2>2. Arranged(Outwards(FALSE, A), A) = [j \in 1..Cardinality(A) |-> CHOOSE x \in A : Cardinality(Q(x)) = j - 1]
    BY DEF Arranged, InOrder
  <2>3. \A x \in A : P(x) = Q(x)
    BY DEF Outwards, Nearer
  <2> HIDE DEF P, Q
  <2>4. ASSUME NEW j \in 1..Cardinality(A)
        PROVE  (CHOOSE x \in A : Cardinality(P(x)) = j - 1) = CHOOSE x \in A : Cardinality(Q(x)) = j - 1
    BY <2>3
  <2> QED
    BY <2>1, <2>2, <2>4
<1> QED
  BY <1>0, <1>1, <1>3, <1>4, <1>5, <1>6 DEF SideOf

\* Nine members are finitely many.
LEMMA NineAreFinite ==
  ASSUME NEW a, NEW b, NEW c, NEW d, NEW e, NEW f, NEW g, NEW h, NEW i
  PROVE  IsFiniteSet({a, b, c, d, e, f, g, h, i})
<1>1. ASSUME NEW x, NEW y, NEW z PROVE IsFiniteSet({x, y, z})
  <2>1. IsFiniteSet({x}) /\ IsFiniteSet({y}) /\ IsFiniteSet({z})
    BY FS_Singleton
  <2>2. IsFiniteSet({x} \cup {y})
    BY <2>1, FS_Union
  <2>3. IsFiniteSet(({x} \cup {y}) \cup {z})
    BY <2>1, <2>2, FS_Union
  <2>4. ({x} \cup {y}) \cup {z} = {x, y, z}
    OBVIOUS
  <2> QED
    BY <2>3, <2>4
<1>2. IsFiniteSet({a, b, c}) /\ IsFiniteSet({d, e, f}) /\ IsFiniteSet({g, h, i})
  BY <1>1
<1>3. IsFiniteSet({a, b, c} \cup {d, e, f})
  BY <1>2, FS_Union
<1>4. IsFiniteSet(({a, b, c} \cup {d, e, f}) \cup {g, h, i})
  BY <1>2, <1>3, FS_Union
<1>5. ({a, b, c} \cup {d, e, f}) \cup {g, h, i} = {a, b, c, d, e, f, g, h, i}
  OBVIOUS
<1> QED
  BY <1>4, <1>5

\* The known prices are finitely many quotients.
LEMMA KnownArePriced ==
  ASSUME NEW d, DailyPrices(d) \subseteq Optional, NEW i, IntradayPrices(i) \subseteq Optional
  PROVE  Priced(Known(d, i))
<1> DEFINE N == {[price |-> i.vwap, basis |-> "vwap"],
                 [price |-> i.sma20, basis |-> "intraday sma20"],
                 [price |-> i.session_low, basis |-> "session low"],
                 [price |-> i.session_high, basis |-> "session high"],
                 [price |-> i.recent_low, basis |-> "recent low"],
                 [price |-> i.recent_high, basis |-> "recent high"],
                 [price |-> d.sma20, basis |-> "daily sma20"],
                 [price |-> d.recent_low, basis |-> "daily low"],
                 [price |-> d.recent_high, basis |-> "daily high"]}
<1>1. Known(d, i) = {l \in N : l.price # Missing /\ l.price[1] >= 0}
  BY Zenon DEF Known
<1>2. IsFiniteSet(N)
  BY NineAreFinite, Zenon
<1>3. \A l \in N : l.price \in DailyPrices(d) \cup IntradayPrices(i)
  <2> DEFINE At(p, b) == [price |-> p, basis |-> b]
  <2>1. \A p, b : At(p, b).price = p
    OBVIOUS
  <2>2. N = {At(i.vwap, "vwap"), At(i.sma20, "intraday sma20"), At(i.session_low, "session low"),
             At(i.session_high, "session high"), At(i.recent_low, "recent low"),
             At(i.recent_high, "recent high"), At(d.sma20, "daily sma20"),
             At(d.recent_low, "daily low"), At(d.recent_high, "daily high")}
    BY Zenon
  <2> HIDE DEF At, N
  <2> QED
    BY <2>1, <2>2, ZenonT(60) DEF DailyPrices, IntradayPrices
<1> HIDE DEF N
<1>4. IsFiniteSet(Known(d, i))
  <2>1. Known(d, i) \subseteq N
    BY <1>1
  <2> QED
    BY <1>2, <2>1, FS_Subset
<1>5. ASSUME NEW k \in Known(d, i) PROVE k.price \in Fractions
  <2>1. k.price # Missing /\ k.price \in Optional
    BY <1>1, <1>3
  <2> QED
    BY <2>1 DEF Optional
<1> QED
  BY <1>4, <1>5 DEF Priced

\* The levels enclose the price, and none is skipped.
LEMMA LevelsEnclose ==
  ASSUME NEW a, NEW d, NEW i, a.daily = d, a.intraday[5] = i, quote.price \in Fractions,
         DailyPrices(d) \subseteq Optional, IntradayPrices(i) \subseteq Optional,
         a.levels = Levels(quote.price, d, i)
  PROVE  LevelsAreNearest(a)
<1>1. PICK price \in Fractions : price = quote.price
  OBVIOUS
<1>2. PICK K : K = Known(d, i)
  OBVIOUS
<1>3. Priced(K)
  BY <1>2, KnownArePriced
<1>4. PICK below \in SUBSET K, above \in SUBSET K :
        below = UpTo(K, price) /\ above = From(K, price)
  BY DEF UpTo, From
<1>5. PICK s, r : s = a.levels.supports /\ r = a.levels.resistances
  OBVIOUS
<1>6. s = SideOf(TRUE, K, below) /\ r = SideOf(FALSE, K, above)
  <2>1. /\ Levels(price, d, i).supports = SideOf(TRUE, Known(d, i), UpTo(Known(d, i), price))
        /\ Levels(price, d, i).resistances = SideOf(FALSE, Known(d, i), From(Known(d, i), price))
    BY LevelsAre, ZenonT(60)
  <2>2. a.levels = Levels(price, d, i)
    BY <1>1
  <2> QED
    BY <1>2, <1>4, <1>5, <2>1, <2>2
<1>7. ShowsNearest(TRUE, s, K, below)
  <2>1. PICK L, R : L = LevelsOf(K, below) /\ R = Outwards(TRUE, L)
    OBVIOUS
  <2>2. TRUE \in BOOLEAN
    OBVIOUS
  <2>3. IsFiniteSet(L) /\ OrdersAll(R, L)
    BY <1>3, <2>1, <2>2, LevelsAreOrdered
  <2>4. Lists(Arranged(R, L), R, L)
    BY <2>3, SortedLists
  <2> QED
    BY <1>3, <1>6, <2>1, <2>2, <2>4, NearestAreShown DEF SideOf
<1>8. ShowsNearest(FALSE, r, K, above)
  <2>1. PICK L, R : L = LevelsOf(K, above) /\ R = Outwards(FALSE, L)
    OBVIOUS
  <2>2. FALSE \in BOOLEAN
    OBVIOUS
  <2>3. IsFiniteSet(L) /\ OrdersAll(R, L)
    BY <1>3, <2>1, <2>2, LevelsAreOrdered
  <2>4. Lists(Arranged(R, L), R, L)
    BY <2>3, SortedLists
  <2> QED
    BY <1>3, <1>6, <2>1, <2>2, <2>4, NearestAreShown DEF SideOf
<1>9. \A k \in K : k.price \in Fractions
  BY <1>3 DEF Priced
<1>10. ASSUME NEW x \in ToSet(s) PROVE NotLess(price, x.price)
  <2>1. x.price \in Fractions
    BY <1>7 DEF ShowsNearest
  <2>2. PICK l \in below : SameValue(x.price, l.price)
    BY <1>7 DEF ShowsNearest
  <2>3. NotLess(price, l.price) /\ l.price \in Fractions
    BY <1>4, <1>9 DEF UpTo, From
  <2>4. NotLess(l.price, x.price)
    BY <2>1, <2>2, <2>3, FractionsOrder
  <2> QED
    BY <2>1, <2>3, <2>4, NotLessFollows
<1>11. ASSUME NEW x \in ToSet(r) PROVE NotLess(x.price, price)
  <2>1. x.price \in Fractions
    BY <1>8 DEF ShowsNearest
  <2>2. PICK l \in above : SameValue(x.price, l.price)
    BY <1>8 DEF ShowsNearest
  <2>3. NotLess(l.price, price) /\ l.price \in Fractions
    BY <1>4, <1>9 DEF UpTo, From
  <2>4. NotLess(x.price, l.price)
    BY <2>1, <2>2, <2>3, FractionsOrder
  <2> QED
    BY <2>1, <2>3, <2>4, NotLessFollows
<1> DEFINE listed == {x.price : x \in ToSet(s) \cup ToSet(r)}
<1>12. ASSUME NEW k \in K
       PROVE  \/ \E p \in listed : SameValue(p, k.price)
              \/ Len(s) = 3 /\ Less(k.price, Last(s).price)
              \/ Len(r) = 3 /\ Less(Last(r).price, k.price)
  <2>1. NotLess(price, k.price) \/ NotLess(k.price, price)
    BY <1>9, FractionsOrder
  <2>2. CASE NotLess(price, k.price)
    <3>1. k \in below
      BY <1>4, <2>2 DEF UpTo
    <3>2. \/ \E x \in ToSet(s) : SameValue(x.price, k.price)
          \/ Len(s) = 3 /\ Nearer(TRUE, Last(s).price, k.price)
      BY <1>7, <3>1 DEF ShowsNearest
    <3> QED
      BY <3>2 DEF Nearer
  <2>3. CASE NotLess(k.price, price)
    <3>1. k \in above
      BY <1>4, <2>3 DEF From
    <3>2. \/ \E x \in ToSet(r) : SameValue(x.price, k.price)
          \/ Len(r) = 3 /\ Nearer(FALSE, Last(r).price, k.price)
      BY <1>8, <3>1 DEF ShowsNearest
    <3> QED
      BY <3>2 DEF Nearer
  <2> QED
    BY <2>1, <2>2, <2>3
<1>13. K = Known(a.daily, a.intraday[5])
  BY <1>2
<1> QED
  BY <1>1, <1>5, <1>10, <1>11, <1>12, <1>13, Zenon DEF LevelsAreNearest

\* The verdict is backed by the averages beside it.
LEMMA VerdictBacked ==
  ASSUME NEW a, NEW d, NEW i, NEW ind, NEW price \in Fractions, price = quote.price,
         ind.sma20 \in Optional, ind.sma60 \in Optional,
         d.trend = DailyTrend(price, ind), i.trend = IntradayTrend(price, i.sma5, i.sma20, i.vwap),
         i.sma5 \in Optional, IntradayPrices(i) \subseteq Optional,
         i.sma20 # Missing => i.sma5 # Missing,
         a.verdict = Verdict(d, i),
         a.flags = RiskFlags(price, d, i, quote.warnings, quote.delayed)
  PROVE  VerdictIsBacked(a, i, ind)
<1>1. i.sma20 \in Optional
  BY DEF IntradayPrices
<1>2. TrendsAreBacked(price, d, i, ind)
  BY <1>1, TrendsSay
<1>3. /\ a.verdict = "both up" => d.trend \in {"bullish", "pullback"} /\ i.trend = "bullish"
      /\ a.verdict = "dip in uptrend" => d.trend \in {"bullish", "pullback"} /\ i.trend = "bearish"
      /\ (a.verdict = "down") = (d.trend = "bearish")
  BY DEF Verdict
<1>4. ("down" \in a.flags) = (d.trend = "bearish")
  <2> DEFINE high == IF i.vwap = Missing THEN Missing ELSE Ratio(price, i.vwap)
             P(f) == CASE f = "warning" -> quote.warnings
                       [] f = "delayed" -> quote.delayed
                       [] f = "down"    -> d.trend = "bearish"
                       [] f = "above vwap" -> high # Missing /\ AtLeast(high, 3)
                       [] f = "thin volume" -> i.volume_ratio # Missing /\ ~AtLeast(i.volume_ratio, 70)
             flags == {f \in {"warning", "delayed", "down", "above vwap", "thin volume"} : P(f)}
  <2>1. a.flags = IF flags = {} THEN {"none"} ELSE flags
    BY Zenon DEF RiskFlags
  <2>2. P("down") <=> d.trend = "bearish"
    OBVIOUS
  <2> HIDE DEF P
  <2>3. "down" \in flags <=> d.trend = "bearish"
    BY <2>2, Zenon
  <2> HIDE DEF flags
  <2>4. "down" \in a.flags <=> "down" \in flags
    BY <2>1
  <2> QED
    BY <2>3, <2>4
<1> QED
  BY <1>2, <1>3, <1>4 DEF VerdictIsBacked, TrendsAreBacked

(***************************************************************************)
(* The daily bars, oldest first, and a quote that is not older than they.  *)
(***************************************************************************)

DatedUpTo(s, n, today) ==
  /\ Numbered(s, n) /\ today \in Int
  /\ \A i \in 1..n : s[i].date \in Int /\ s[i].date <= today
  /\ \A i, j \in 1..n : i < j => s[i].date < s[j].date

DaysInv ==
  algorithm = "chart" => quote.price \in Fractions /\ \E n : DatedUpTo(bars, n, quote.today)

\* What an instrument's page is made of.
InstrumentInv == MinutesInv /\ DaysInv

\* The comparison looks back (PreviousBar, RangeBars).
LEMMA ComparesBack ==
  ASSUME NEW s, NEW n, NEW today, DatedUpTo(s, n, today), n >= 2
  PROVE  LET previous == PreviousBar(s, today)
         IN /\ s[previous].date < today
            /\ \A j \in DOMAIN s : s[j].date < today => j <= previous
            /\ \A b \in ToSet(RangeBars(s)) : b.date < today
<1>1. /\ n \in Nat /\ DOMAIN s = 1..n /\ Len(s) = n /\ Numbered(s, n) /\ today \in Int
      /\ \A i \in 1..n : s[i].date \in Int /\ s[i].date <= today
      /\ \A i, j \in 1..n : i < j => s[i].date < s[j].date
  BY RowLength DEF DatedUpTo, Numbered
<1>2. PICK k \in 1..n : k = n - 1
  BY <1>1
<1>3. n \in 1..n /\ s[k].date < s[n].date /\ s[n].date <= today /\ Last(s) = s[n]
  BY <1>1, <1>2 DEF Last
<1>4. PICK previous : previous = PreviousBar(s, today)
  OBVIOUS
<1>5. previous = IF s[n].date = today THEN k ELSE n
  BY <1>1, <1>2, <1>3, <1>4 DEF PreviousBar
<1>6. s[k].date \in Int /\ s[n].date \in Int
  BY <1>1, <1>2, <1>3
<1>7. s[previous].date < today
  BY <1>1, <1>3, <1>5, <1>6
<1>8. ASSUME NEW j \in DOMAIN s, s[j].date < today PROVE j <= previous
  <2>1. j \in 1..n
    BY <1>1
  <2>2. CASE s[n].date = today
    <3>1. j # n
      BY <1>6, <1>8, <2>2
    <3> QED
      BY <1>1, <1>2, <1>5, <2>1, <2>2, <3>1
  <2>3. CASE s[n].date # today
    BY <1>1, <1>5, <2>1, <2>3
  <2> QED
    BY <2>2, <2>3
<1>9. ASSUME NEW b \in ToSet(RangeBars(s)) PROVE b.date < today
  <2>1. PICK f : f = Front(s)
    OBVIOUS
  <2>2. Numbered(f, n - 1) /\ \A i \in 1..(n - 1) : f[i] = s[i]
    BY <1>1, <2>1, FrontIsNumbered
  <2>3. Sma20 \in Nat
    BY ScreeningAssumption
  <2>4. PICK t, m : t = Suffix(f, Sma20) /\ Window(Suffix(f, Sma20), m, f, n - 1)
    BY <2>2, <2>3, SuffixIsNumbered
  <2>5. RangeBars(s) = t
    BY <1>1, <2>1, <2>4 DEF RangeBars, PriorBars
  <2>6. DOMAIN t = 1..m
    BY <2>4, RowLength DEF Window, Numbered
  <2>7. PICK i \in 1..m : b = t[i]
    BY <2>5, <2>6 DEF ToSet
  <2>8. PICK j \in 1..(n - 1) : t[i] = f[j]
    BY <2>4 DEF Window
  <2>9. j \in 1..n /\ j < n /\ b = s[j]
    BY <1>1, <2>2, <2>7, <2>8
  <2>10. s[j].date < s[n].date /\ s[j].date \in Int
    BY <1>1, <1>3, <2>9
  <2> QED
    BY <1>1, <1>3, <1>6, <2>9, <2>10
<1> QED
  BY <1>4, <1>7, <1>8, <1>9

\* The page is backed by its numbers, when its bars are what they should be.
LEMMA PageIsBacked == InstrumentInv => AnalysisIsBacked
<1> SUFFICES ASSUME InstrumentInv PROVE AnalysisIsBacked
  OBVIOUS
<1>1. BaselinesArePast
  <2> SUFFICES ASSUME algorithm = "chart", Len(bars) >= 2 PROVE BaselinesArePast
    BY Zenon DEF BaselinesArePast
  <2>1. PICK n : DatedUpTo(bars, n, quote.today)
    BY DEF InstrumentInv, DaysInv
  <2>2. Len(bars) = n
    BY <2>1, RowLength DEF DatedUpTo, Numbered
  <2>3. n >= 2
    BY <2>2
  <2>4. LET previous == PreviousBar(bars, quote.today)
        IN /\ bars[previous].date < quote.today
           /\ \A j \in DOMAIN bars : bars[j].date < quote.today => j <= previous
           /\ \A b \in ToSet(RangeBars(bars)) : b.date < quote.today
    BY <2>1, <2>3, ComparesBack
  <2> QED
    BY <2>4, Zenon DEF BaselinesArePast
<1>2. ASSUME NEW a \in Analyses
      PROVE  VerdictIsBacked(a, a.intraday[5], Indicators(bars)) /\ LevelsAreNearest(a)
  <2>1. algorithm = "chart" /\ a = AnalyzeRealtime(quote, bars, minutes)
    BY DEF Analyses, Charted
  <2>2. Chart(minutes, ToSet(minutes)) /\ quote.price \in Fractions
    BY <2>1 DEF InstrumentInv, MinutesInv, DaysInv
  <2>3. PICK n : DatedUpTo(bars, n, quote.today)
    BY <2>1 DEF InstrumentInv, DaysInv
  <2>4. Numbered(bars, n)
    BY <2>3 DEF DatedUpTo
  <2>5. PICK price, A, i, d, ind :
          /\ price = quote.price /\ A = Aggregate(minutes, 5) /\ i = IntradaySummary(A, price)
          /\ d = DaysOf(quote, bars) /\ ind = Indicators(bars)
    OBVIOUS
  <2>6. IntradaysOf(quote.price, minutes)[5] = i
    BY <2>5 DEF IntradaysOf, FramesOf
  <2>7. /\ a.intraday = IntradaysOf(quote.price, minutes) /\ a.daily = d
        /\ a.levels = Levels(quote.price, d, IntradaysOf(quote.price, minutes)[5])
        /\ a.verdict = Verdict(d, IntradaysOf(quote.price, minutes)[5])
        /\ a.flags = RiskFlags(quote.price, d, IntradaysOf(quote.price, minutes)[5],
                               quote.warnings, quote.delayed)
    BY <2>1, <2>5, AnalysisParts
  <2>8. Chart(A, ToSet(A))
    BY <2>2, <2>5, AggregateIsChart
  <2>9. /\ i.trend = IntradayTrend(price, i.sma5, i.sma20, i.vwap)
        /\ i.sma5 \in Optional /\ IntradayPrices(i) \subseteq Optional
        /\ i.sma20 # Missing => i.sma5 # Missing
    BY <2>5, <2>8, IntradayValues
  <2>10. /\ d.trend = DailyTrend(price, ind) /\ DailyPrices(d) \subseteq Optional
         /\ ind.sma20 \in Optional /\ ind.sma60 \in Optional
    BY <2>4, <2>5, DailyValues
  <2>11. VerdictIsBacked(a, i, ind)
    <3>1. a.verdict = Verdict(d, i) /\ a.flags = RiskFlags(price, d, i, quote.warnings, quote.delayed)
      BY <2>5, <2>6, <2>7
    <3>2. price \in Fractions /\ price = quote.price
      BY <2>2, <2>5
    <3> QED
      BY <2>9, <2>10, <3>1, <3>2, VerdictBacked
  <2>12. LevelsAreNearest(a)
    <3>1. a.intraday[5] = i /\ a.levels = Levels(quote.price, d, i)
      BY <2>6, <2>7
    <3>2. a.daily = d
      BY <2>7
    <3> QED
      BY <2>2, <2>9, <2>10, <3>1, <3>2, LevelsEnclose
  <2> QED
    BY <2>5, <2>6, <2>7, <2>11, <2>12
<1> QED
  BY <1>1, <1>2, Zenon DEF AnalysisIsBacked

\* A chart of bars with numbers, dated by their places.
LEMMA DatedIs ==
  ASSUME NEW c, NEW n \in Nat, DOMAIN c = 1..n, \A i \in 1..n : Numbers(c[i]),
         NEW today \in Int, n <= today
  PROVE  DatedUpTo(Dated(c), n, today)
<1>1. PICK s : s = Dated(c)
  OBVIOUS
<1>2. /\ DOMAIN s = 1..n /\ Row(s, n)
      /\ \A i \in 1..n : /\ s[i].date = i /\ s[i].high = c[i].high /\ s[i].low = c[i].low
                         /\ s[i].close = c[i].close /\ s[i].volume = c[i].volume
  BY <1>1 DEF Dated, Row
<1>3. \A i \in 1..n : Numbers(s[i])
  BY <1>2 DEF Numbers
<1> QED
  BY <1>1, <1>2, <1>3 DEF DatedUpTo, Numbered

\* The charts of the runs have numbers.
LEMMA ChartsHaveNumbers ==
  ASSUME NEW c \in Charts
  PROVE  \E n \in 0..6 : DOMAIN c = 1..n /\ \A i \in 1..n : Numbers(c[i])
<1>1. \A o, h, l, x, v \in Int : Numbers(Bar(o, h, l, x, v))
  BY DEF Numbers, Bar
<1>2. ASSUME NEW a, NEW b, NEW d, NEW e, NEW f, NEW g,
             Numbers(a), Numbers(b), Numbers(d), Numbers(e), Numbers(f), Numbers(g),
             c = <<a, b, d, e, f, g>>
      PROVE  \E n \in 0..6 : DOMAIN c = 1..n /\ \A i \in 1..n : Numbers(c[i])
  <2>1. DOMAIN c = 1..6
    BY <1>2
  <2>2. \A i \in 1..6 : i = 1 \/ i = 2 \/ i = 3 \/ i = 4 \/ i = 5 \/ i = 6
    OBVIOUS
  <2>3. c[1] = a /\ c[2] = b /\ c[3] = d /\ c[4] = e /\ c[5] = f /\ c[6] = g
    BY <1>2
  <2>4. \A i \in 1..6 : Numbers(c[i])
    BY <1>2, <2>2, <2>3
  <2> QED
    BY <2>1, <2>4
<1>3. CASE c = <<>>
  <2>1. DOMAIN c = 1..0 /\ \A i \in 1..0 : Numbers(c[i])
    BY <1>3
  <2> QED
    BY <2>1
<1>4. CASE c = <<Bar(100, 103, 99, 102, 10)>>
  <2>1. PICK a : a = Bar(100, 103, 99, 102, 10)
    OBVIOUS
  <2>2. Numbers(a)
    BY <1>1, <2>1
  <2>3. DOMAIN c = 1..1 /\ \A i \in 1..1 : c[i] = a
    BY <1>4, <2>1
  <2> QED
    BY <2>2, <2>3
<1>5. CASE c = <<Bar(98, 100, 97, 99, 10), Bar(99, 101, 98, 100, 10), Bar(101, 104, 100, 104, 8),
                 Bar(104, 105, 104, 104, 3), Bar(104, 105, 104, 104, 3), Bar(105, 108, 104, 108, 30)>>
  <2>1. PICK a, b, d, e, f, g :
            /\ a = Bar(98, 100, 97, 99, 10) /\ b = Bar(99, 101, 98, 100, 10)
            /\ d = Bar(101, 104, 100, 104, 8) /\ e = Bar(104, 105, 104, 104, 3)
            /\ f = Bar(104, 105, 104, 104, 3) /\ g = Bar(105, 108, 104, 108, 30)
    OBVIOUS
  <2>2. Numbers(a) /\ Numbers(b) /\ Numbers(d)
    <3>1. Numbers(Bar(98, 100, 97, 99, 10)) /\ Numbers(Bar(99, 101, 98, 100, 10))
      BY <1>1
    <3>2. Numbers(Bar(101, 104, 100, 104, 8))
      BY <1>1
    <3> QED
      BY <2>1, <3>1, <3>2, Zenon
  <2>3. Numbers(e) /\ Numbers(f) /\ Numbers(g)
    <3>1. Numbers(Bar(104, 105, 104, 104, 3)) /\ Numbers(Bar(104, 105, 104, 104, 3))
      BY <1>1
    <3>2. Numbers(Bar(105, 108, 104, 108, 30))
      BY <1>1
    <3> QED
      BY <2>1, <3>1, <3>2, Zenon
  <2>4. c = <<a, b, d, e, f, g>>
    BY <1>5, <2>1
  <2> QED
    BY <1>2, <2>2, <2>3, <2>4
<1>6. CASE c = <<Bar(110, 112, 108, 110, 10), Bar(108, 109, 104, 105, 10), Bar(104, 105, 102, 103, 8),
                 Bar(103, 103, 100, 101, 3), Bar(101, 102, 99, 100, 3), Bar(100, 101, 98, 99, 30)>>
  <2>1. PICK a, b, d, e, f, g :
            /\ a = Bar(110, 112, 108, 110, 10) /\ b = Bar(108, 109, 104, 105, 10)
            /\ d = Bar(104, 105, 102, 103, 8) /\ e = Bar(103, 103, 100, 101, 3)
            /\ f = Bar(101, 102, 99, 100, 3) /\ g = Bar(100, 101, 98, 99, 30)
    OBVIOUS
  <2>2. Numbers(a) /\ Numbers(b) /\ Numbers(d)
    <3>1. Numbers(Bar(110, 112, 108, 110, 10)) /\ Numbers(Bar(108, 109, 104, 105, 10))
      BY <1>1
    <3>2. Numbers(Bar(104, 105, 102, 103, 8))
      BY <1>1
    <3> QED
      BY <2>1, <3>1, <3>2, Zenon
  <2>3. Numbers(e) /\ Numbers(f) /\ Numbers(g)
    <3>1. Numbers(Bar(103, 103, 100, 101, 3)) /\ Numbers(Bar(101, 102, 99, 100, 3))
      BY <1>1
    <3>2. Numbers(Bar(100, 101, 98, 99, 30))
      BY <1>1
    <3> QED
      BY <2>1, <3>1, <3>2, Zenon
  <2>4. c = <<a, b, d, e, f, g>>
    BY <1>6, <2>1
  <2> QED
    BY <1>2, <2>2, <2>3, <2>4
<1> QED
  BY <1>3, <1>4, <1>5, <1>6, ZenonT(60) DEF Charts

\* So the runs begin with such bars and quotes,
LEMMA DaysInitially == AlgorithmsInit => DaysInv
<1> SUFFICES ASSUME AlgorithmsInit, algorithm = "chart"
             PROVE  quote.price \in Fractions /\ \E n : DatedUpTo(bars, n, quote.today)
  BY Zenon DEF DaysInv
<1>1. bars \in {Dated(c) : c \in Charts} /\ quote \in Quotes
  BY DEF AlgorithmsInit
<1>2. PICK c \in Charts : bars = Dated(c)
  BY <1>1
<1>3. PICK p \in {97, 101, 106}, t \in {6, 7} : quote.price = Whole(p) /\ quote.today = t
  BY <1>1 DEF Quotes
<1>4. p \in Int /\ t \in Int /\ t >= 6
  BY <1>3
<1>5. PICK n \in 0..6 : DOMAIN c = 1..n /\ \A i \in 1..n : Numbers(c[i])
  BY ChartsHaveNumbers
<1>6. n \in Nat /\ n <= t
  BY <1>4, <1>5
<1>7. DatedUpTo(Dated(c), n, t)
  BY <1>4, <1>5, <1>6, DatedIs
<1> QED
  BY <1>2, <1>3, <1>4, <1>7, WholeIsFraction

\* and keep them.
LEMMA DaysInductive == DaysInv /\ [AlgorithmsNext]_algorithmVars => DaysInv'
<1> SUFFICES ASSUME DaysInv, [AlgorithmsNext]_algorithmVars PROVE DaysInv'
  OBVIOUS
<1>1. algorithm' = algorithm /\ quote' = quote /\ (bars' = bars \/ algorithm = "screening")
  <2>1. CASE AddTrade
    BY <2>1 DEF AddTrade
  <2>2. CASE AddDay
    BY <2>2 DEF AddDay
  <2>3. CASE AddResult
    BY <2>3 DEF AddResult
  <2>4. CASE AddMinute
    BY <2>4 DEF AddMinute
  <2>5. CASE UNCHANGED algorithmVars
    BY <2>5 DEF algorithmVars
  <2> QED
    BY <2>1, <2>2, <2>3, <2>4, <2>5, Zenon DEF AlgorithmsNext
<1> QED
  BY <1>1 DEF DaysInv

\* What the page says of an instrument is backed by the numbers it shows
\* (AnalysisIsBacked), however many minutes come: the verdict agrees with the
\* averages, the levels are the nearest ones on either side, and the baselines
\* of the day are of days before it.
THEOREM AnalysisAlwaysBacked == AlgorithmsSpec => []AnalysisIsBacked
<1>1. AlgorithmsInit => InstrumentInv
  BY MinutesInitially, DaysInitially DEF InstrumentInv
<1>2. InstrumentInv /\ [AlgorithmsNext]_algorithmVars => InstrumentInv'
  BY MinutesInductive, DaysInductive DEF InstrumentInv
<1>3. InstrumentInv => AnalysisIsBacked
  BY PageIsBacked
<1> QED
  BY <1>1, <1>2, <1>3, PTL DEF AlgorithmsSpec
=============================================================================
