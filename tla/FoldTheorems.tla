---------------------------- MODULE FoldTheorems ----------------------------
(***************************************************************************)
(* Facts about the sums, folds and orders that the models are built from.  *)
(* The inductions are by a smallest counterexample, since the induction    *)
(* theorems of the library take an operator as a parameter.                *)
(***************************************************************************)
EXTENDS Sequences, SequencesExt, FiniteSetsExt, Ordering,
        FiniteSetTheorems, WellFoundedInduction, TLAPS

\* A set of naturals has a smallest member.
LEMMA SmallestNat ==
  ASSUME NEW T, T \subseteq Nat, T # {}
  PROVE  \E x \in T : \A y \in T : x <= y
<1>1. PICK x \in T : \A y \in T : ~(<<y, x>> \in OpToRel(<, Nat))
  BY NatLessThanWellFounded, WFMin, Zenon
<1>2. \A y \in T : ~(y < x)
  BY <1>1 DEF OpToRel
<1> QED
  BY <1>2

(***************************************************************************)
(* Induction up to a number, and over the subsets of a finite set, with a  *)
(* set in the place of the property.                                       *)
(***************************************************************************)

\* What holds of zero, and of every number up to n whose predecessor has it,
\* holds up to n.
LEMMA UpToInduction ==
  ASSUME NEW n \in Nat, NEW G, 0 \in G, \A k \in 1..n : k - 1 \in G => k \in G
  PROVE  \A k \in 0..n : k \in G
<1> DEFINE bad == {k \in 0..n : k \notin G}
<1>1. ASSUME NEW k \in bad, \A m \in bad : k <= m PROVE FALSE
  <2>1. k \in 1..n /\ k - 1 \in 0..n
    BY <1>1
  <2>2. k - 1 \notin bad
    <3>1. ~(k <= k - 1)
      BY <2>1
    <3> HIDE DEF bad
    <3> QED
      BY <1>1, <3>1
  <2> QED
    BY <1>1, <2>1, <2>2
<1>2. bad = {}
  <2>1. bad \subseteq Nat
    OBVIOUS
  <2> HIDE DEF bad
  <2>2. bad # {} => \E k \in bad : \A m \in bad : k <= m
    BY <2>1, SmallestNat
  <2> QED
    BY <1>1, <2>2
<1> QED
  BY <1>2

\* What holds of the empty set, and of every subset that has it after the
\* removal of some member, holds of all subsets.
LEMMA SubsetInduction ==
  ASSUME NEW S, IsFiniteSet(S), NEW G, {} \in G,
         \A s \in SUBSET S : (\E a \in s : s \ {a} \in G) => s \in G
  PROVE  \A s \in SUBSET S : s \in G
<1> DEFINE bad == {k \in Nat : \E s \in SUBSET S : Cardinality(s) = k /\ s \notin G}
<1>1. ASSUME NEW k \in bad, \A m \in bad : k <= m PROVE FALSE
  <2>1. PICK s \in SUBSET S : Cardinality(s) = k /\ s \notin G
    BY <1>1
  <2>0. s # {}
    BY <2>1
  <2>2. PICK a \in s : TRUE
    BY <2>0
  <2>3. s \ {a} \in SUBSET S /\ Cardinality(s \ {a}) = k - 1 /\ k \in Nat /\ k - 1 \in Nat
    <3>1. IsFiniteSet(s)
      BY FS_Subset
    <3>2. IsFiniteSet(s \ {a}) /\ Cardinality(s \ {a}) = Cardinality(s) - 1
      BY <3>1, <2>2, FS_RemoveElement
    <3>3. Cardinality(s \ {a}) \in Nat /\ Cardinality(s) \in Nat
      BY <3>1, <3>2, FS_CardinalityType
    <3> QED
      BY <2>1, <3>2, <3>3
  <2>4. k - 1 \notin bad
    <3>1. ~(k <= k - 1)
      BY <2>3
    <3> HIDE DEF bad
    <3> QED
      BY <1>1, <3>1
  <2>5. s \ {a} \in G
    BY <2>3, <2>4
  <2> QED
    BY <2>1, <2>2, <2>5
<1>2. bad = {}
  <2>1. bad \subseteq Nat
    OBVIOUS
  <2> HIDE DEF bad
  <2>2. bad # {} => \E k \in bad : \A m \in bad : k <= m
    BY <2>1, SmallestNat
  <2> QED
    BY <1>1, <2>2
<1>3. \A s \in SUBSET S : Cardinality(s) \in Nat
  BY FS_Subset, FS_CardinalityType
<1> QED
  BY <1>2, <1>3

(***************************************************************************)
(* Sums over finite sets.  MapThenSumSet takes the members of a set one by *)
(* one in an order of its own; what it returns does not depend on it.  The *)
(* inductions are on the cardinality of a subset, by a smallest            *)
(* counterexample.                                                         *)
(***************************************************************************)
Pick(s) == CHOOSE x \in s : TRUE
NextSum(it, f, s) == IF s = {} THEN 0 ELSE f[Pick(s)] + it[s \ {Pick(s)}]

\* f gives the members of S integers, and it[s] is their sum over s, for every
\* subset s of S.
Recurs(it, f, S) == it = [s \in SUBSET S |-> NextSum(it, f, s)]
Adds(it, f, S)   == f \in [S -> Int] /\ it \in [SUBSET S -> Int] /\ Recurs(it, f, S)

Same(i, j, s)      == i[s] = j[s]
Takes(it, f, s, x) == it[s] = f[x] + it[s \ {x}]

\* The sum of f over S.
Total(f, S) == MapThenSumSet(LAMBDA x : f[x], S)

\* A finite set without one of its members.
LEMMA OneLess ==
  ASSUME NEW S, IsFiniteSet(S), NEW s \in SUBSET S
  PROVE  /\ IsFiniteSet(s) /\ Cardinality(s) \in Nat
         /\ s # {} => Pick(s) \in s
         /\ \A x \in s : /\ s \ {x} \in SUBSET S
                         /\ Cardinality(s \ {x}) \in Nat
                         /\ Cardinality(s \ {x}) = Cardinality(s) - 1
<1>1. IsFiniteSet(s) /\ Cardinality(s) \in Nat
  BY FS_Subset, FS_CardinalityType
<1>2. ASSUME NEW x \in s
      PROVE  /\ s \ {x} \in SUBSET S
             /\ Cardinality(s \ {x}) \in Nat
             /\ Cardinality(s \ {x}) = Cardinality(s) - 1
  BY <1>1, <1>2, FS_RemoveElement, FS_CardinalityType
<1>3. s # {} => Pick(s) \in s
  BY DEF Pick
<1> QED
  BY <1>1, <1>2, <1>3

\* The sums over all subsets exist.
LEMMA SumExists ==
  ASSUME NEW S, IsFiniteSet(S), NEW f \in [S -> Int]
  PROVE  \E it : Adds(it, f, S)
<1> DEFINE UpTo(it, n) == \A s \in SUBSET S : Cardinality(s) <= n => it[s] = NextSum(it, f, s)
           bad == {n \in Nat : ~\E it \in [SUBSET S -> Int] : UpTo(it, n)}
<1>1. ASSUME NEW n \in Nat, bad # {}, n \in bad, \A m \in bad : n <= m PROVE FALSE
  <2>1. CASE n = 0
    <3> DEFINE it == [s \in SUBSET S |-> 0]
    <3>1. it \in [SUBSET S -> Int]
      OBVIOUS
    <3>2. ASSUME NEW s \in SUBSET S, Cardinality(s) <= 0 PROVE it[s] = NextSum(it, f, s)
      <4>1. s = {}
        BY <3>2, OneLess, FS_EmptySet
      <4> QED
        BY <4>1 DEF NextSum
    <3>3. UpTo(it, n)
      BY <2>1, <3>2
    <3> QED
      BY <1>1, <3>1, <3>3
  <2>2. CASE n # 0
    <3>0. n - 1 \in Nat /\ ~(n <= n - 1)
      BY <1>1, <2>2
    <3>1. n - 1 \in Nat /\ n - 1 \notin bad
      <4> HIDE DEF bad
      <4> QED
        BY <1>1, <3>0
    <3>2. PICK i \in [SUBSET S -> Int] : UpTo(i, n - 1)
      BY <3>1
    <3> DEFINE it == [s \in SUBSET S |-> IF Cardinality(s) = n THEN NextSum(i, f, s) ELSE i[s]]
    <3>3. ASSUME NEW s \in SUBSET S PROVE NextSum(i, f, s) \in Int
      <4>1. CASE s = {}
        BY <4>1 DEF NextSum
      <4>2. CASE s # {}
        BY <3>2, <3>3, <4>2, OneLess DEF NextSum
      <4> QED
        BY <4>1, <4>2
    <3>4. it \in [SUBSET S -> Int]
      BY <3>2, <3>3
    <3>5. ASSUME NEW s \in SUBSET S, Cardinality(s) <= n PROVE it[s] = NextSum(it, f, s)
      <4>1. NextSum(it, f, s) = NextSum(i, f, s)
        <5>1. CASE s = {}
          BY <5>1 DEF NextSum
        <5>2. CASE s # {}
          <6>1. /\ s \ {Pick(s)} \in SUBSET S
                /\ Cardinality(s \ {Pick(s)}) # n
            BY <1>1, <3>5, <5>2, OneLess
          <6>2. it[s \ {Pick(s)}] = i[s \ {Pick(s)}]
            BY <6>1
          <6> HIDE DEF it
          <6> QED
            BY <5>2, <6>2 DEF NextSum
        <5> QED
          BY <5>1, <5>2
      <4>2. CASE Cardinality(s) = n
        BY <3>5, <4>1, <4>2
      <4>3. CASE Cardinality(s) # n
        <5>1. Cardinality(s) <= n - 1
          BY <1>1, <3>5, <4>3, OneLess
        <5>2. i[s] = NextSum(i, f, s)
          BY <3>2, <3>5, <5>1
        <5> QED
          BY <3>5, <4>1, <4>3, <5>2
      <4> QED
        BY <4>2, <4>3
    <3> HIDE DEF it
    <3>6. UpTo(it, n)
      BY <3>5
    <3> QED
      BY <1>1, <3>4, <3>6
  <2> QED
    BY <2>1, <2>2
<1>2. bad = {}
  <2>1. bad \subseteq Nat
    OBVIOUS
  <2> HIDE DEF bad
  <2>2. bad # {} => \E n \in bad : \A m \in bad : n <= m
    BY <2>1, SmallestNat
  <2> QED
    BY <1>1, <2>1, <2>2
<1>3. Cardinality(S) \in Nat
  BY FS_CardinalityType
<1>4. PICK it \in [SUBSET S -> Int] : UpTo(it, Cardinality(S))
  BY <1>2, <1>3
<1>5. \A s \in SUBSET S : it[s] = NextSum(it, f, s)
  BY <1>4, FS_Subset
<1> QED
  BY <1>4, <1>5 DEF Adds, Recurs

\* Where two functions agree, so do their sums.
LEMMA SumsAgree ==
  ASSUME NEW S, IsFiniteSet(S), NEW f, NEW g, NEW i, NEW j, NEW T \in SUBSET S,
         Recurs(i, f, S), Recurs(j, g, S), \A x \in T : Same(f, g, x)
  PROVE  Same(i, j, T)
<1> DEFINE bad == {n \in Nat : \E s \in SUBSET T : Cardinality(s) = n /\ i[s] # j[s]}
<1>1. ASSUME NEW n \in bad, \A m \in bad : n <= m PROVE FALSE
  <2>1. PICK s \in SUBSET T : Cardinality(s) = n /\ i[s] # j[s]
    BY <1>1
  <2>2. s \in SUBSET S
    OBVIOUS
  <2>3. i[s] = NextSum(i, f, s) /\ j[s] = NextSum(j, g, s)
    BY <2>2 DEF Recurs
  <2>4. s # {}
    BY <2>1, <2>3 DEF NextSum
  <2>5. /\ Pick(s) \in s /\ f[Pick(s)] = g[Pick(s)] /\ s \ {Pick(s)} \in SUBSET T
        /\ Cardinality(s \ {Pick(s)}) \in Nat /\ Cardinality(s \ {Pick(s)}) = n - 1
    BY <2>1, <2>2, <2>4, OneLess DEF Same
  <2>6. n \in Nat /\ n - 1 \notin bad
    BY <1>1, <2>5
  <2>7. i[s \ {Pick(s)}] = j[s \ {Pick(s)}]
    BY <2>5, <2>6
  <2> QED
    BY <2>1, <2>3, <2>4, <2>5, <2>7 DEF NextSum
<1>2. bad = {}
  <2>1. bad \subseteq Nat
    OBVIOUS
  <2> HIDE DEF bad
  <2>2. bad # {} => \E n \in bad : \A m \in bad : n <= m
    BY <2>1, SmallestNat
  <2> QED
    BY <1>1, <2>2
<1>3. Cardinality(T) \in Nat
  BY OneLess
<1> QED
  BY <1>2, <1>3 DEF Same

\* Any member can be taken first.
LEMMA SumTakes ==
  ASSUME NEW S, IsFiniteSet(S), NEW f, NEW it, Adds(it, f, S),
         NEW T \in SUBSET S, NEW a \in T
  PROVE  Takes(it, f, T, a)
<1> DEFINE bad == {n \in Nat : \E s \in SUBSET S : \E x \in s :
                     Cardinality(s) = n /\ it[s] # f[x] + it[s \ {x}]}
<1>1. ASSUME NEW n \in bad, \A m \in bad : n <= m PROVE FALSE
  <2>1. PICK s \in SUBSET S : \E x \in s : Cardinality(s) = n /\ it[s] # f[x] + it[s \ {x}]
    BY <1>1
  <2>0. PICK x \in s : Cardinality(s) = n /\ it[s] # f[x] + it[s \ {x}]
    BY <2>1
  <2>2. PICK c \in s : c = Pick(s)
    BY OneLess
  <2>3. it[s] = f[c] + it[s \ {c}]
    BY <2>2 DEF Adds, Recurs, NextSum
  <2>4. c # x /\ x \in s \ {c} /\ c \in s \ {x}
    BY <2>0, <2>3
  <2>5. \A y \in s : s \ {y} \in SUBSET S /\ Cardinality(s \ {y}) = n - 1 /\ n - 1 \in Nat
    <3>1. ASSUME NEW y \in s PROVE s \ {y} \in SUBSET S /\ Cardinality(s \ {y}) = n - 1 /\ n - 1 \in Nat
      BY <2>0, <2>1, <3>1, OneLess
    <3> QED
      BY <3>1
  <2>6. n \in Nat /\ n - 1 \notin bad
    <3>0. n \in Nat
      BY <1>1
    <3> HIDE DEF bad
    <3>1. n - 1 \in Nat
      BY <2>0, <2>5
    <3>2. ~(n <= n - 1)
      BY <3>0
    <3> QED
      BY <1>1, <3>0, <3>1, <3>2
  <2>7. /\ it[s \ {c}] = f[x] + it[(s \ {c}) \ {x}]
        /\ it[s \ {x}] = f[c] + it[(s \ {x}) \ {c}]
    BY <2>4, <2>5, <2>6
  <2>8. (s \ {c}) \ {x} = (s \ {x}) \ {c} /\ (s \ {c}) \ {x} \in SUBSET S
    OBVIOUS
  <2>9. f[c] \in Int /\ f[x] \in Int /\ it[(s \ {c}) \ {x}] \in Int
    BY <2>2, <2>0, <2>8 DEF Adds, Recurs
  <2>10. it[s \ {c}] = f[x] + it[(s \ {c}) \ {x}] /\ it[s \ {x}] = f[c] + it[(s \ {c}) \ {x}]
    BY <2>7, <2>8
  <2>11. f[c] + (f[x] + it[(s \ {c}) \ {x}]) = f[x] + (f[c] + it[(s \ {c}) \ {x}])
    BY <2>9
  <2> QED
    BY <2>0, <2>3, <2>10, <2>11
<1>2. bad = {}
  <2>0. bad \subseteq Nat
    OBVIOUS
  <2> HIDE DEF bad
  <2>2. bad # {} => \E n \in bad : \A m \in bad : n <= m
    BY <2>0, SmallestNat
  <2> QED
    BY <1>1, <2>2
<1>3. Cardinality(T) \in Nat
  BY OneLess
<1> QED
  BY <1>2, <1>3 DEF Takes

\* Any member of the whole set can be taken first.
LEMMA SumTakesFrom ==
  ASSUME NEW S, IsFiniteSet(S), NEW f, NEW it, Adds(it, f, S), NEW a \in S
  PROVE  Takes(it, f, S, a)
<1>1. S \in SUBSET S
  OBVIOUS
<1> QED
  BY <1>1, SumTakes, Zenon

\* Total is the sum over the whole set.
LEMMA TotalIs ==
  ASSUME NEW S, IsFiniteSet(S), NEW f \in [S -> Int]
  PROVE  \E it : Adds(it, f, S) /\ Total(f, S) = it[S]
<1>1. PICK it : Adds(it, f, S)
  BY SumExists
<1> DEFINE j == CHOOSE i : Recurs(i, f, S)
<1>2. Recurs(it, f, S) /\ Recurs(j, f, S)
  BY <1>1 DEF Adds
<1>3. Total(f, S) = j[S]
  BY DEF Total, MapThenSumSet, MapThenFoldSet, Recurs, NextSum, Pick
<1> HIDE DEF j
<1>4. j[S] = it[S]
  <2>1. S \in SUBSET S /\ \A x \in S : Same(f, f, x)
    BY DEF Same
  <2>2. Same(j, it, S)
    BY <1>1, <1>2, <2>1, SumsAgree, Zenon
  <2> QED
    BY <2>2 DEF Same
<1> QED
  BY <1>1, <1>3, <1>4

\* A total of integers is an integer.
LEMMA TotalInt ==
  ASSUME NEW S, IsFiniteSet(S), NEW f \in [S -> Int]
  PROVE  Total(f, S) \in Int
<1>1. PICK it : Adds(it, f, S) /\ Total(f, S) = it[S]
  BY TotalIs
<1> QED
  BY <1>1 DEF Adds, Recurs

\* The change of one value changes the total by as much.
LEMMA TotalChange ==
  ASSUME NEW S, IsFiniteSet(S), NEW f \in [S -> Int], NEW g \in [S -> Int], NEW a \in S,
         \A x \in S : x # a => g[x] = f[x]
  PROVE  Total(g, S) = Total(f, S) - f[a] + g[a]
<1>1. PICK i : Adds(i, f, S) /\ Total(f, S) = i[S]
  BY TotalIs
<1>2. PICK j : Adds(j, g, S) /\ Total(g, S) = j[S]
  BY TotalIs
<1>3. S \ {a} \in SUBSET S /\ S \in SUBSET S
  OBVIOUS
<1>4. Takes(i, f, S, a)
  BY <1>1, SumTakesFrom, Zenon
<1>5. Takes(j, g, S, a)
  BY <1>2, SumTakesFrom, Zenon
<1>6. Recurs(i, f, S) /\ Recurs(j, g, S)
  BY <1>1, <1>2 DEF Adds
<1>7. Same(i, j, S \ {a})
  <2>1. PICK T \in SUBSET S : T = S \ {a}
    OBVIOUS
  <2>2. \A x \in T : Same(f, g, x)
    BY <2>1 DEF Same
  <2>3. Same(i, j, T)
    BY <1>1, <1>2, <2>1, <2>2, <1>6, SumsAgree, Zenon
  <2> QED
    BY <2>1, <2>3
<1>8. i[S \ {a}] \in Int /\ f[a] \in Int
  BY <1>1, <1>3 DEF Adds, Recurs
<1> QED
  BY <1>1, <1>2, <1>4, <1>5, <1>7, <1>8 DEF Takes, Same

\* Nothing but zeros add up to zero.
LEMMA TotalZero ==
  ASSUME NEW S, IsFiniteSet(S), NEW f \in [S -> Int], \A x \in S : f[x] = 0
  PROVE  Total(f, S) = 0
<1>1. PICK i : Adds(i, f, S) /\ Total(f, S) = i[S]
  BY TotalIs
<1> DEFINE z == [s \in SUBSET S |-> 0]
<1>2. Recurs(i, f, S) /\ Recurs(z, f, S)
  <2>1. ASSUME NEW s \in SUBSET S PROVE NextSum(z, f, s) = 0
    <3>1. CASE s = {}
      BY <3>1 DEF NextSum
    <3>2. CASE s # {}
      <4>1. Pick(s) \in S /\ s \ {Pick(s)} \in SUBSET S
        BY <2>1, <3>2, OneLess
      <4> QED
        BY <3>2, <4>1 DEF NextSum
    <3> QED
      BY <3>1, <3>2
  <2> QED
    BY <1>1, <2>1 DEF Adds, Recurs
<1>3. z[S] = 0
  OBVIOUS
<1> HIDE DEF z
<1>4. i[S] = z[S]
  <2>1. S \in SUBSET S /\ \A x \in S : Same(f, f, x)
    BY DEF Same
  <2>2. Same(i, z, S)
    BY <1>1, <1>2, <2>1, SumsAgree, Zenon
  <2> QED
    BY <2>2 DEF Same
<1> QED
  BY <1>1, <1>3, <1>4

\* No part of a total of naturals exceeds it.
LEMMA TotalBounds ==
  ASSUME NEW S, IsFiniteSet(S), NEW f \in [S -> Nat], NEW a \in S
  PROVE  Total(f, S) \in Nat /\ f[a] <= Total(f, S)
<1>0. f \in [S -> Int]
  OBVIOUS
<1>1. PICK i : Adds(i, f, S) /\ Total(f, S) = i[S]
  BY <1>0, TotalIs
<1> DEFINE bad == {n \in Nat : \E s \in SUBSET S : Cardinality(s) = n /\ i[s] < 0}
<1>2. ASSUME NEW n \in bad, \A m \in bad : n <= m PROVE FALSE
  <2>1. PICK s \in SUBSET S : Cardinality(s) = n /\ i[s] < 0
    BY <1>2
  <2>2. i[s] = NextSum(i, f, s)
    BY <1>1 DEF Adds, Recurs
  <2>3. s # {}
    BY <2>1, <2>2 DEF NextSum
  <2>4. /\ Pick(s) \in s /\ s \ {Pick(s)} \in SUBSET S
        /\ Cardinality(s \ {Pick(s)}) \in Nat /\ Cardinality(s \ {Pick(s)}) = n - 1
    BY <2>1, <2>3, OneLess
  <2>5. n \in Nat /\ n - 1 \notin bad
    BY <1>2, <2>4
  <2>6. i[s \ {Pick(s)}] \in Int /\ ~(i[s \ {Pick(s)}] < 0)
    BY <1>1, <2>4, <2>5 DEF Adds, Recurs
  <2>7. f[Pick(s)] \in Nat
    BY <2>4
  <2> QED
    BY <2>1, <2>2, <2>3, <2>6, <2>7 DEF NextSum
<1>3. bad = {}
  <2>1. bad \subseteq Nat
    OBVIOUS
  <2> HIDE DEF bad
  <2>2. bad # {} => \E n \in bad : \A m \in bad : n <= m
    BY <2>1, SmallestNat
  <2> QED
    BY <1>2, <2>2
<1>4. \A s \in SUBSET S : Cardinality(s) \in Nat
  BY OneLess
<1>5. \A s \in SUBSET S : i[s] \in Int /\ i[s] >= 0
  BY <1>1, <1>3, <1>4 DEF Adds, Recurs
<1>6. S \in SUBSET S /\ S \ {a} \in SUBSET S
  OBVIOUS
<1>7. Takes(i, f, S, a)
  BY <1>1, SumTakesFrom, Zenon
<1>8. f[a] \in Nat
  OBVIOUS
<1> QED
  BY <1>1, <1>5, <1>6, <1>7, <1>8 DEF Takes

\* The total reads a function on the set alone.
LEMMA TotalSame ==
  ASSUME NEW S, NEW f, NEW g, \A x \in S : f[x] = g[x]
  PROVE  Total(f, S) = Total(g, S)
<1>1. ASSUME NEW it, NEW s \in SUBSET S PROVE NextSum(it, f, s) = NextSum(it, g, s)
  <2>1. s # {} => Pick(s) \in S
    BY DEF Pick
  <2> QED
    BY <2>1 DEF NextSum
<1>2. \A it : Recurs(it, f, S) <=> Recurs(it, g, S)
  BY <1>1 DEF Recurs
<1>3. (CHOOSE it : Recurs(it, f, S)) = (CHOOSE it : Recurs(it, g, S))
  BY <1>2
<1>4. Total(f, S) = (CHOOSE it : Recurs(it, f, S))[S]
  BY DEF Total, MapThenSumSet, MapThenFoldSet, Recurs, NextSum, Pick
<1>5. Total(g, S) = (CHOOSE it : Recurs(it, g, S))[S]
  BY DEF Total, MapThenSumSet, MapThenFoldSet, Recurs, NextSum, Pick
<1> QED
  BY <1>3, <1>4, <1>5

\* The sums over all subsets hold the total of each.
LEMMA TotalWithin ==
  ASSUME NEW S, IsFiniteSet(S), NEW f, NEW it, Adds(it, f, S), NEW T \in SUBSET S
  PROVE  Total(f, T) = it[T]
<1> DEFINE g == [x \in T |-> f[x]]
           i == [s \in SUBSET T |-> it[s]]
<1>0. IsFiniteSet(T)
  BY FS_Subset
<1>1. g \in [T -> Int]
  BY DEF Adds
<1>2. PICK j : Adds(j, g, T) /\ Total(g, T) = j[T]
  BY <1>0, <1>1, TotalIs
<1>3. Recurs(i, f, T)
  <2>1. ASSUME NEW s \in SUBSET T PROVE i[s] = NextSum(i, f, s)
    <3>1. it[s] = NextSum(it, f, s)
      BY DEF Adds, Recurs
    <3>2. s # {} => s \ {Pick(s)} \in SUBSET T
      OBVIOUS
    <3> QED
      BY <3>1, <3>2 DEF NextSum
  <2> QED
    BY <2>1 DEF Recurs
<1>4. Recurs(j, g, T)
  BY <1>2 DEF Adds
<1>5. i[T] = it[T]
  OBVIOUS
<1>6. \A x \in T : Same(f, g, x)
  BY DEF Same
<1>7. Total(f, T) = Total(g, T)
  <2>1. \A x \in T : f[x] = g[x]
    OBVIOUS
  <2> HIDE DEF g
  <2> QED
    BY <2>1, TotalSame
<1> HIDE DEF g, i
<1>8. T \in SUBSET T
  OBVIOUS
<1>9. Same(i, j, T)
  BY <1>0, <1>3, <1>4, <1>6, <1>8, SumsAgree, Zenon
<1> QED
  BY <1>2, <1>5, <1>7, <1>9 DEF Same

\* A member taken out of the set leaves the total of the rest.
LEMMA TotalTakes ==
  ASSUME NEW S, IsFiniteSet(S), NEW f \in [S -> Int], NEW T \in SUBSET S, NEW a \in T
  PROVE  Total(f, T) = f[a] + Total(f, T \ {a})
<1>1. PICK it : Adds(it, f, S)
  BY SumExists
<1>2. T \ {a} \in SUBSET S
  OBVIOUS
<1>3. Total(f, T) = it[T]
  BY <1>1, TotalWithin
<1>4. Total(f, T \ {a}) = it[T \ {a}]
  BY <1>1, <1>2, TotalWithin
<1>5. Takes(it, f, T, a)
  BY <1>1, SumTakes, Zenon
<1> QED
  BY <1>3, <1>4, <1>5 DEF Takes

\* The empty sum.
LEMMA TotalEmpty ==
  ASSUME NEW f
  PROVE  Total(f, {}) = 0
<1> DEFINE g == [x \in {} |-> 0]
<1>1. Total(g, {}) = 0
  <2>1. g \in [{} -> Int] /\ \A x \in {} : g[x] = 0
    OBVIOUS
  <2> HIDE DEF g
  <2> QED
    BY <2>1, FS_EmptySet, TotalZero
<1> HIDE DEF g
<1>2. \A x \in {} : f[x] = g[x]
  OBVIOUS
<1>3. Total(f, {}) = Total(g, {})
  BY <1>2, TotalSame
<1> QED
  BY <1>1, <1>3

\* A total of integers over a part is an integer.
LEMMA PartTotalInt ==
  ASSUME NEW S, IsFiniteSet(S), NEW f \in [S -> Int], NEW T \in SUBSET S
  PROVE  Total(f, T) \in Int
<1>1. PICK it : Adds(it, f, S)
  BY SumExists
<1>2. Total(f, T) = it[T]
  BY <1>1, TotalWithin
<1> QED
  BY <1>1, <1>2 DEF Adds

\* A factor keeps the order.
LEMMA TimesKeepsOrder ==
  ASSUME NEW x \in Int, NEW y \in Int, x <= y, NEW c \in Nat
  PROVE  c * x <= c * y
<1>1. PICK d \in Nat : y = x + d
  <2>1. y - x \in Nat /\ y = x + (y - x)
    OBVIOUS
  <2> QED
    BY <2>1
<1>2. PICK e \in Int, z \in Int : e = c * d /\ z = c * x
  OBVIOUS
<1>3. e >= 0
  BY <1>2
<1>4. c * y = z + e
  BY <1>1, <1>2
<1> QED
  BY <1>2, <1>3, <1>4

\* The total lies between as many smallest and as many largest values.
LEMMA TotalBetween ==
  ASSUME NEW S, IsFiniteSet(S), NEW f \in [S -> Int], NEW lo \in Int, NEW hi \in Int,
         \A x \in S : lo <= f[x] /\ f[x] <= hi
  PROVE  lo * Cardinality(S) <= Total(f, S) /\ Total(f, S) <= hi * Cardinality(S)
<1> DEFINE Fits(s) == lo * Cardinality(s) <= Total(f, s) /\ Total(f, s) <= hi * Cardinality(s)
           G == {s \in SUBSET S : Fits(s)}
<1>1. {} \in G
  <2>1. Total(f, {}) = 0 /\ Cardinality({}) = 0
    BY TotalEmpty, FS_EmptySet
  <2> QED
    BY <2>1
<1>2. ASSUME NEW s \in SUBSET S, NEW a \in s, s \ {a} \in G PROVE s \in G
  <2>1. IsFiniteSet(s) /\ IsFiniteSet(s \ {a}) /\ a \in S
    BY FS_Subset
  <2>2. PICK n \in Nat : n = Cardinality(s \ {a}) /\ Cardinality(s) = n + 1
    BY <2>1, OneLess
  <2>3. PICK t \in Int : t = Total(f, s \ {a})
    <3>1. Total(f, s \ {a}) \in Int
      BY <2>1, PartTotalInt
    <3> QED
      BY <3>1
  <2>4. Total(f, s) = f[a] + t
    BY <2>3, TotalTakes
  <2>5. lo * n <= t /\ t <= hi * n
    BY <1>2, <2>2, <2>3
  <2>6. lo <= f[a] /\ f[a] <= hi /\ f[a] \in Int
    BY <2>1
  <2>7. PICK u \in Int, v \in Int : u = lo * n /\ v = hi * n
    OBVIOUS
  <2>8. lo * (n + 1) = u + lo /\ hi * (n + 1) = v + hi
    BY <2>7
  <2>9. u + lo <= f[a] + t /\ f[a] + t <= v + hi
    BY <2>5, <2>6, <2>7
  <2> QED
    BY <2>2, <2>4, <2>8, <2>9
<1> HIDE DEF G
<1>3. S \in SUBSET S /\ \A s \in SUBSET S : s \in G
  BY <1>1, <1>2, SubsetInduction
<1> QED
  BY <1>3 DEF G

\* A common factor of the values is one of their total.
LEMMA TotalScales ==
  ASSUME NEW S, IsFiniteSet(S), NEW f \in [S -> Int], NEW g \in [S -> Int], NEW c \in Int,
         \A x \in S : g[x] = c * f[x]
  PROVE  Total(g, S) = c * Total(f, S)
<1> DEFINE G == {s \in SUBSET S : Total(g, s) = c * Total(f, s)}
<1>1. {} \in G
  <2>1. Total(f, {}) = 0 /\ Total(g, {}) = 0 /\ c * 0 = 0
    BY TotalEmpty
  <2> QED
    BY <2>1
<1>2. ASSUME NEW s \in SUBSET S, NEW a \in s, s \ {a} \in G PROVE s \in G
  <2>1. s \ {a} \in SUBSET S /\ a \in S
    OBVIOUS
  <2>2. PICK t \in Int : t = Total(f, s \ {a})
    <3>1. Total(f, s \ {a}) \in Int
      BY <2>1, PartTotalInt
    <3> QED
      BY <3>1
  <2>3. Total(f, s) = f[a] + t
    BY <2>2, TotalTakes
  <2>4. Total(g, s) = g[a] + Total(g, s \ {a})
    BY TotalTakes
  <2>5. Total(g, s \ {a}) = c * t
    BY <1>2, <2>2
  <2>6. PICK x \in Int : x = f[a] /\ g[a] = c * x
    BY <2>1
  <2>7. c * (x + t) = c * x + c * t
    OBVIOUS
  <2> QED
    BY <2>3, <2>4, <2>5, <2>6, <2>7
<1> HIDE DEF G
<1>3. S \in SUBSET S /\ \A s \in SUBSET S : s \in G
  BY <1>1, <1>2, SubsetInduction
<1> QED
  BY <1>3 DEF G

\* The sum of one value.
LEMMA TotalSingle ==
  ASSUME NEW S, IsFiniteSet(S), NEW f \in [S -> Int], NEW a \in S
  PROVE  Total(f, {a}) = f[a]
<1>1. PICK T \in SUBSET S : T = {a}
  OBVIOUS
<1>2. Total(f, T) = f[a] + Total(f, T \ {a})
  BY <1>1, TotalTakes
<1>3. T \ {a} = {} /\ Total(f, {}) = 0
  BY <1>1, TotalEmpty
<1>4. f[a] \in Int
  OBVIOUS
<1> QED
  BY <1>1, <1>2, <1>3, <1>4

\* The total over a part is that of the function made zero outside of it.
LEMMA TotalOfPart ==
  ASSUME NEW S, IsFiniteSet(S), NEW P, NEW f \in [S -> Int], NEW g \in [S -> Int],
         \A x \in S : g[x] = IF x \in P THEN f[x] ELSE 0
  PROVE  \A s \in SUBSET S : Total(g, s) = Total(f, s \cap P)
<1> DEFINE G == {s \in SUBSET S : Total(g, s) = Total(f, s \cap P)}
<1>1. {} \in G
  <2>1. {} \cap P = {}
    OBVIOUS
  <2> QED
    BY <2>1, TotalEmpty
<1>2. ASSUME NEW s \in SUBSET S, NEW a \in s, s \ {a} \in G PROVE s \in G
  <2>1. Total(g, s) = g[a] + Total(g, s \ {a})
    BY TotalTakes
  <2>2. CASE a \in P
    <3>1. (s \ {a}) \cap P = (s \cap P) \ {a} /\ s \cap P \in SUBSET S /\ a \in s \cap P
      BY <2>2
    <3>2. Total(f, s \cap P) = f[a] + Total(f, (s \cap P) \ {a})
      BY <3>1, TotalTakes
    <3> QED
      BY <1>2, <2>1, <2>2, <3>1, <3>2
  <2>3. CASE a \notin P
    <3>1. (s \ {a}) \cap P = s \cap P /\ g[a] = 0
      BY <2>3
    <3>2. Total(g, s \ {a}) \in Int
      BY PartTotalInt
    <3>3. Total(g, s \ {a}) = Total(f, s \cap P)
      BY <1>2, <3>1
    <3> QED
      BY <2>1, <3>1, <3>2, <3>3
  <2> QED
    BY <2>2, <2>3
<1> HIDE DEF G
<1>3. \A s \in SUBSET S : s \in G
  BY <1>1, <1>2, SubsetInduction
<1> QED
  BY <1>3 DEF G

\* A set has as many members as ones add up to.
LEMMA TotalCounts ==
  ASSUME NEW S, IsFiniteSet(S), NEW P, NEW f \in [S -> Int],
         \A x \in S : f[x] = IF x \in P THEN 1 ELSE 0
  PROVE  \A s \in SUBSET S : Total(f, s) = Cardinality(s \cap P)
<1> DEFINE G == {s \in SUBSET S : Total(f, s) = Cardinality(s \cap P)}
<1>1. {} \in G
  <2>1. {} \cap P = {}
    OBVIOUS
  <2> QED
    BY <2>1, TotalEmpty, FS_EmptySet
<1>2. ASSUME NEW s \in SUBSET S, NEW a \in s, s \ {a} \in G PROVE s \in G
  <2>1. Total(f, s) = f[a] + Total(f, s \ {a})
    BY TotalTakes
  <2>2. s \cap P \in SUBSET S /\ (s \ {a}) \cap P = (s \cap P) \ {a}
    OBVIOUS
  <2>3. IsFiniteSet(s \cap P)
    BY <2>2, FS_Subset
  <2>4. Cardinality((s \cap P) \ {a})
          = IF a \in s \cap P THEN Cardinality(s \cap P) - 1 ELSE Cardinality(s \cap P)
    BY <2>3, FS_RemoveElement
  <2>5. Cardinality(s \cap P) \in Nat
    BY <2>3, FS_CardinalityType
  <2>6. f[a] = IF a \in P THEN 1 ELSE 0
    OBVIOUS
  <2>7. Total(f, s \ {a}) = Cardinality((s \cap P) \ {a})
    BY <1>2, <2>2
  <2>8. Total(f, s) = Cardinality(s \cap P)
    BY <2>1, <2>4, <2>5, <2>6, <2>7
  <2> QED
    BY <2>8
<1> HIDE DEF G
<1>3. \A s \in SUBSET S : s \in G
  BY <1>1, <1>2, SubsetInduction
<1> QED
  BY <1>3 DEF G

\* A set that is divided over the members of another adds up part by part.
LEMMA TotalOfParts ==
  ASSUME NEW I, IsFiniteSet(I), NEW S, IsFiniteSet(S), NEW ix \in [S -> I],
         NEW f \in [S -> Int]
  PROVE  Total([i \in I |-> Total(f, {x \in S : ix[x] = i})], I) = Total(f, S)
<1> DEFINE Part(s, i) == {x \in s : ix[x] = i}
           Parts(s) == [i \in I |-> Total(f, Part(s, i))]
           G == {s \in SUBSET S : Total(Parts(s), I) = Total(f, s)}
<1>0. ASSUME NEW s \in SUBSET S PROVE Parts(s) \in [I -> Int]
  <2>1. ASSUME NEW i \in I PROVE Total(f, Part(s, i)) \in Int
    <3>1. Part(s, i) \in SUBSET S
      OBVIOUS
    <3> HIDE DEF Part
    <3> QED
      BY <3>1, PartTotalInt
  <2> QED
    BY <2>1
<1>1. {} \in G
  <2>1. \A i \in I : Part({}, i) = {}
    OBVIOUS
  <2>2. \A i \in I : Parts({})[i] = 0
    <3> HIDE DEF Part
    <3> QED
      BY <2>1, TotalEmpty
  <2>3. Parts({}) \in [I -> Int]
    BY <1>0
  <2>4. Total(Parts({}), I) = 0
    <3> HIDE DEF Parts
    <3> QED
      BY <2>2, <2>3, TotalZero
  <2> QED
    BY <2>4, TotalEmpty
<1>2. ASSUME NEW s \in SUBSET S, NEW a \in s, s \ {a} \in G PROVE s \in G
  <2>1. Total(f, s) = f[a] + Total(f, s \ {a})
    BY TotalTakes
  <2>2. PICK k \in I : k = ix[a]
    OBVIOUS
  <2>3. \A i \in I : i # k => Part(s, i) = Part(s \ {a}, i)
    BY <2>2
  <2>4. /\ a \in Part(s, k) /\ Part(s, k) \in SUBSET S
        /\ Part(s, k) \ {a} = Part(s \ {a}, k)
    BY <2>2
  <2>5. Total(f, Part(s, k)) = f[a] + Total(f, Part(s \ {a}, k))
    <3> HIDE DEF Part
    <3>1. Total(f, Part(s, k)) = f[a] + Total(f, Part(s, k) \ {a})
      BY <2>4, TotalTakes
    <3> QED
      BY <2>4, <3>1
  <2>6. /\ Parts(s) \in [I -> Int] /\ Parts(s \ {a}) \in [I -> Int]
        /\ \A i \in I : i # k => Parts(s)[i] = Parts(s \ {a})[i]
        /\ Parts(s)[k] = f[a] + Parts(s \ {a})[k]
    <3>1. Parts(s) \in [I -> Int] /\ Parts(s \ {a}) \in [I -> Int]
      <4> HIDE DEF Parts
      <4> QED
        BY <1>0
    <3> HIDE DEF Part
    <3> QED
      BY <3>1, <2>3, <2>5
  <2>7. Total(Parts(s), I) = Total(Parts(s \ {a}), I) - Parts(s \ {a})[k] + Parts(s)[k]
    <3> HIDE DEF Parts
    <3>1. PICK p \in [I -> Int] : p = Parts(s \ {a})
      BY <2>6
    <3>2. PICK q \in [I -> Int] : q = Parts(s)
      BY <2>6
    <3>3. \A i \in I : i # k => q[i] = p[i]
      BY <2>6, <3>1, <3>2
    <3>4. Total(q, I) = Total(p, I) - p[k] + q[k]
      BY <3>3, TotalChange
    <3> QED
      BY <3>1, <3>2, <3>4
  <2>8. Total(Parts(s \ {a}), I) \in Int /\ Parts(s \ {a})[k] \in Int /\ f[a] \in Int
    <3>1. Parts(s \ {a}) \in [I -> Int] /\ f[a] \in Int
      BY <1>0
    <3> HIDE DEF Parts
    <3> QED
      BY <3>1, TotalInt
  <2>9. Total(Parts(s \ {a}), I) = Total(f, s \ {a})
    BY <1>2
  <2> HIDE DEF Parts
  <2> QED
    BY <2>1, <2>6, <2>7, <2>8, <2>9 DEF G
<1> HIDE DEF G
<1>3. S \in SUBSET S /\ \A s \in SUBSET S : s \in G
  BY <1>1, <1>2, SubsetInduction
<1>4. Total(Parts(S), I) = Total(f, S)
  BY <1>3 DEF G
<1> QED
  BY <1>4

(***************************************************************************)
(* Orders.  A strict total order of a finite set numbers its members: the  *)
(* smaller of two has fewer members before it, so no two have as many, and *)
(* there are as many numbers as members.                                   *)
(***************************************************************************)

\* R, a set of pairs, orders the members of S.
OrdersAll(R, S) ==
  /\ \A x \in S : <<x, x>> \notin R
  /\ \A x, y, z \in S : <<x, y>> \in R /\ <<y, z>> \in R => <<x, z>> \in R
  /\ \A x, y \in S : x # y => <<x, y>> \in R \/ <<y, x>> \in R

\* s lists the members of S, each once and in the order of R.
Lists(s, R, S) ==
  /\ s \in [1..Cardinality(S) -> S]
  /\ \A x \in S : \E i \in 1..Cardinality(S) : s[i] = x
  /\ \A i, j \in 1..Cardinality(S) : i < j => <<s[i], s[j]>> \in R /\ s[i] # s[j]

Preceding(R, S, x) == {y \in S : <<y, x>> \in R}
Arranged(R, S) == InOrder(S, LAMBDA y, x : <<y, x>> \in R)

\* Sorting lists the members in their order.
LEMMA SortedLists ==
  ASSUME NEW S, IsFiniteSet(S), NEW R, OrdersAll(R, S)
  PROVE  Lists(Arranged(R, S), R, S)
<1> DEFINE n == Cardinality(S)
           rank == [x \in S |-> Cardinality(Preceding(R, S, x))]
<1>1. n \in Nat
  BY FS_CardinalityType
<1>2. ASSUME NEW x \in S PROVE rank[x] \in 0..(n - 1)
  <2>1. Preceding(R, S, x) \in SUBSET S
    BY DEF Preceding
  <2>2. x \notin Preceding(R, S, x)
    BY DEF Preceding, OrdersAll
  <2>3. /\ Cardinality(Preceding(R, S, x)) \in Nat
        /\ Cardinality(Preceding(R, S, x)) <= n
        /\ Cardinality(Preceding(R, S, x)) # n
    BY <2>1, <2>2, FS_Subset, FS_CardinalityType
  <2> QED
    BY <1>1, <2>3
<1>3. ASSUME NEW x \in S, NEW y \in S, <<x, y>> \in R PROVE rank[x] < rank[y]
  <2>1. Preceding(R, S, x) \in SUBSET Preceding(R, S, y)
    BY <1>3 DEF Preceding, OrdersAll
  <2>2. x \notin Preceding(R, S, x) /\ x \in Preceding(R, S, y)
    BY <1>3 DEF Preceding, OrdersAll
  <2>3. IsFiniteSet(Preceding(R, S, y))
    <3>1. Preceding(R, S, y) \in SUBSET S
      BY DEF Preceding
    <3> QED
      BY <3>1, FS_Subset
  <2>4. /\ Cardinality(Preceding(R, S, x)) <= Cardinality(Preceding(R, S, y))
        /\ Cardinality(Preceding(R, S, x)) # Cardinality(Preceding(R, S, y))
    BY <2>1, <2>2, <2>3, FS_Subset
  <2> QED
    BY <1>2, <2>4
<1> HIDE DEF rank
<1>4. ASSUME NEW x \in S, NEW y \in S, rank[x] = rank[y] PROVE x = y
  <2>1. rank[x] \in Int /\ ~(rank[x] < rank[y]) /\ ~(rank[y] < rank[x])
    BY <1>2, <1>4
  <2>2. <<x, y>> \notin R /\ <<y, x>> \notin R
    BY <1>3, <2>1
  <2> QED
    BY <2>2 DEF OrdersAll
<1>5. rank \in Injection(S, 0..(n - 1))
  <2>1. rank \in [S -> 0..(n - 1)]
    BY <1>2 DEF rank
  <2>2. IsInjective(rank)
    BY <1>4, <2>1 DEF IsInjective
  <2> QED
    BY <2>1, <2>2 DEF Injection
<1>6. IsFiniteSet(0..(n - 1)) /\ Cardinality(0..(n - 1)) = n
  <2>1. n - 1 \in Int /\ 0 \in Int
    BY <1>1
  <2>2. /\ IsFiniteSet(0..(n - 1))
        /\ Cardinality(0..(n - 1)) = IF 0 > n - 1 THEN 0 ELSE (n - 1) - 0 + 1
    BY <2>1, FS_Interval
  <2> QED
    BY <1>1, <2>2
<1>7. rank \in Surjection(S, 0..(n - 1))
  BY <1>5, <1>6, FS_Injection
<1> DEFINE s == Arranged(R, S)
<1>8. ASSUME NEW i \in 1..n PROVE s[i] \in S /\ rank[s[i]] = i - 1
  <2>1. i - 1 \in 0..(n - 1)
    BY <1>1
  <2>2. \E x \in S : rank[x] = i - 1
    BY <1>7, <2>1 DEF Surjection
  <2>3. s[i] = CHOOSE x \in S : Cardinality({y \in S : <<y, x>> \in R}) = i - 1
    BY DEF Arranged, InOrder
  <2>4. s[i] = CHOOSE x \in S : rank[x] = i - 1
    <3>1. \A x \in S : Cardinality({y \in S : <<y, x>> \in R}) = rank[x]
      BY DEF rank, Preceding
    <3> QED
      BY <2>3, <3>1
  <2> QED
    BY <2>2, <2>4
<1>9. s \in [1..n -> S]
  <2>1. \E g : s = [i \in 1..n |-> g[i]]
    <3> DEFINE g == [i \in 1..n |-> CHOOSE x \in S : Cardinality(Preceding(R, S, x)) = i - 1]
    <3>1. s = g
      BY DEF Arranged, InOrder, Preceding
    <3>2. g = [i \in 1..n |-> g[i]]
      OBVIOUS
    <3> HIDE DEF g, s
    <3> QED
      BY <3>1, <3>2
  <2> HIDE DEF s
  <2> QED
    BY <1>8, <2>1
<1> HIDE DEF s
<1>10. ASSUME NEW x \in S PROVE \E i \in 1..n : s[i] = x
  <2>1. rank[x] + 1 \in 1..n
    BY <1>1, <1>2
  <2>2. s[rank[x] + 1] \in S /\ rank[s[rank[x] + 1]] = rank[x]
    BY <1>2, <1>8, <2>1
  <2> QED
    BY <1>4, <2>1, <2>2
<1>11. ASSUME NEW i \in 1..n, NEW j \in 1..n, i < j PROVE <<s[i], s[j]>> \in R /\ s[i] # s[j]
  <2>1. rank[s[i]] < rank[s[j]] /\ s[i] \in S /\ s[j] \in S /\ s[i] # s[j]
    <3>1. rank[s[i]] = i - 1 /\ rank[s[j]] = j - 1
      BY <1>8
    <3> QED
      BY <1>8, <1>11, <3>1
  <2>2. ~(rank[s[j]] < rank[s[i]])
    BY <1>2, <2>1
  <2> QED
    BY <1>3, <2>1, <2>2 DEF OrdersAll
<1> QED
  BY <1>9, <1>10, <1>11 DEF Lists, s

\* Numbers in ascending order.
LEMMA NumbersInOrder ==
  ASSUME NEW S, IsFiniteSet(S), S \subseteq Int
  PROVE  Lists(InOrder(S, <), {p \in S \X S : p[1] < p[2]}, S)
<1> DEFINE R == {p \in S \X S : p[1] < p[2]}
           A(x) == {y \in S : y < x}
           P(x) == {y \in S : <<y, x>> \in R}
<1>1. OrdersAll(R, S)
  <2>1. \A x, y \in S : <<x, y>> \in R <=> x < y
    OBVIOUS
  <2>2. \A x \in S : x \in Int
    OBVIOUS
  <2> HIDE DEF R
  <2> QED
    BY <2>1, <2>2 DEF OrdersAll
<1>2. InOrder(S, <) = [i \in 1..Cardinality(S) |-> CHOOSE x \in S : Cardinality(A(x)) = i - 1]
  BY DEF InOrder
<1>3. Arranged(R, S) = [i \in 1..Cardinality(S) |-> CHOOSE x \in S : Cardinality(P(x)) = i - 1]
  BY DEF Arranged, InOrder
<1>4. \A x \in S : A(x) = P(x)
  OBVIOUS
<1> HIDE DEF A, P, R
<1>5. ASSUME NEW i \in 1..Cardinality(S)
      PROVE  (CHOOSE x \in S : Cardinality(A(x)) = i - 1) = CHOOSE x \in S : Cardinality(P(x)) = i - 1
  BY <1>4
<1>6. InOrder(S, <) = Arranged(R, S)
  BY <1>2, <1>3, <1>5
<1>7. Lists(InOrder(S, <), R, S)
  BY <1>1, <1>6, SortedLists
<1> QED
  BY <1>7 DEF R

\* In a list, the i-th member has i - 1 members before it.
LEMMA ListPlaces ==
  ASSUME NEW S, IsFiniteSet(S), NEW R, OrdersAll(R, S), NEW s, Lists(s, R, S),
         NEW i \in 1..Cardinality(S)
  PROVE  Cardinality(Preceding(R, S, s[i])) = i - 1
<1>1. Cardinality(S) \in Nat
  BY FS_CardinalityType
<1>2. PICK m \in Nat : m = i - 1
  BY <1>1
<1>3. PICK I : I = 1..m
  OBVIOUS
<1>4. IsFiniteSet(I) /\ Cardinality(I) = m
  <2>1. IsFiniteSet(1..m) /\ Cardinality(1..m) = IF 1 > m THEN 0 ELSE m - 1 + 1
    BY FS_Interval
  <2> QED
    BY <1>2, <1>3, <2>1
<1>5. \A j \in 1..Cardinality(S) : s[j] \in S
  BY DEF Lists
<1>6. \A j \in 1..Cardinality(S) : <<s[j], s[i]>> \in R <=> j < i
  <2>1. ASSUME NEW j \in 1..Cardinality(S) PROVE <<s[j], s[i]>> \in R <=> j < i
    <3>1. CASE j < i
      BY <3>1 DEF Lists
    <3>2. CASE j = i
      BY <1>5, <3>2 DEF OrdersAll
    <3>3. CASE i < j
      <4>1. <<s[i], s[j]>> \in R
        BY <3>3 DEF Lists
      <4>2. <<s[j], s[i]>> \in R => <<s[i], s[i]>> \in R
        BY <1>5, <4>1 DEF OrdersAll
      <4>3. <<s[i], s[i]>> \notin R
        BY <1>5 DEF OrdersAll
      <4> QED
        BY <1>1, <3>3, <4>2, <4>3
    <3> QED
      BY <1>1, <3>1, <3>2, <3>3
  <2> QED
    BY <2>1
<1> DEFINE f == [j \in I |-> s[j]]
           P == Preceding(R, S, s[i])
<1>7. f \in Bijection(I, P)
  <2>1. \A j \in I : j \in 1..Cardinality(S) /\ j < i
    BY <1>1, <1>2, <1>3
  <2>2. \A j \in I : s[j] \in P
    BY <1>5, <1>6, <2>1 DEF Preceding
  <2>3. \A j, k \in I : s[j] = s[k] => j = k
    <3>1. ASSUME NEW j \in I, NEW k \in I, s[j] = s[k] PROVE j = k
      <4>1. ~(j < k) /\ ~(k < j)
        BY <2>1, <3>1 DEF Lists
      <4> QED
        BY <1>3, <4>1
    <3> QED
      BY <3>1
  <2>4. \A x \in P : \E j \in I : s[j] = x
    <3>1. ASSUME NEW x \in P PROVE \E j \in I : s[j] = x
      <4>1. x \in S /\ <<x, s[i]>> \in R
        BY DEF Preceding
      <4>2. PICK j \in 1..Cardinality(S) : s[j] = x
        BY <4>1 DEF Lists
      <4>3. j < i
        BY <1>6, <4>1, <4>2
      <4>4. j \in I
        BY <1>1, <1>2, <1>3, <4>2, <4>3
      <4> QED
        BY <4>2, <4>4
    <3> QED
      BY <3>1
  <2> HIDE DEF P
  <2>5. f \in [I -> P]
    BY <2>2
  <2>6. IsInjective(f)
    BY <2>3 DEF IsInjective
  <2>7. \A x \in P : \E j \in I : f[j] = x
    BY <2>4
  <2> HIDE DEF f
  <2> QED
    BY <2>5, <2>6, <2>7 DEF Bijection, Injection, Surjection
<1>8. Cardinality(P) = Cardinality(I)
  <2> HIDE DEF f, P
  <2> QED
    BY <1>4, <1>7, FS_Bijection DEF ExistsBijection
<1> QED
  BY <1>2, <1>4, <1>8

\* There is only one list of a set in an order.
LEMMA ListsAreOne ==
  ASSUME NEW S, IsFiniteSet(S), NEW R, OrdersAll(R, S),
         NEW s, Lists(s, R, S), NEW t, Lists(t, R, S)
  PROVE  s = t
<1>1. ASSUME NEW i \in 1..Cardinality(S) PROVE s[i] = t[i]
  <2>1. s[i] \in S
    BY DEF Lists
  <2>2. PICK j \in 1..Cardinality(S) : t[j] = s[i]
    BY <2>1 DEF Lists
  <2>3. Cardinality(Preceding(R, S, s[i])) = i - 1
    BY ListPlaces
  <2>4. Cardinality(Preceding(R, S, t[j])) = j - 1
    BY ListPlaces
  <2>5. i = j
    BY <2>2, <2>3, <2>4
  <2> QED
    BY <2>2, <2>5
<1>2. DOMAIN s = 1..Cardinality(S) /\ DOMAIN t = 1..Cardinality(S)
      /\ s = [i \in 1..Cardinality(S) |-> s[i]] /\ t = [i \in 1..Cardinality(S) |-> t[i]]
  BY DEF Lists
<1> QED
  BY <1>1, <1>2

\* The first m members of a list are m members.
LEMMA ListMembers ==
  ASSUME NEW S, IsFiniteSet(S), NEW R, NEW s, Lists(s, R, S),
         NEW I \in SUBSET (1..Cardinality(S))
  PROVE  IsFiniteSet(I) /\ Cardinality({s[i] : i \in I}) = Cardinality(I)
<1> DEFINE f == [j \in I |-> s[j]]
           P == {s[i] : i \in I}
<1>1. Cardinality(S) \in Nat
  BY FS_CardinalityType
<1>2. IsFiniteSet(1..Cardinality(S))
  BY <1>1, FS_Interval
<1>3. IsFiniteSet(I)
  BY <1>2, FS_Subset
<1>4. \A j, k \in I : s[j] = s[k] => j = k
  <2>1. ASSUME NEW j \in I, NEW k \in I, s[j] = s[k] PROVE j = k
    <3>1. j \in 1..Cardinality(S) /\ k \in 1..Cardinality(S)
      OBVIOUS
    <3>2. ~(j < k) /\ ~(k < j)
      BY <2>1, <3>1 DEF Lists
    <3> QED
      BY <3>1, <3>2
  <2> QED
    BY <2>1
<1>5. f \in Bijection(I, P)
  <2>1. f \in [I -> P] /\ \A x \in P : \E j \in I : f[j] = x
    OBVIOUS
  <2>2. IsInjective(f)
    BY <1>4 DEF IsInjective
  <2> HIDE DEF f, P
  <2> QED
    BY <2>1, <2>2 DEF Bijection, Injection, Surjection
<1>6. Cardinality(P) = Cardinality(I)
  <2> HIDE DEF f, P
  <2> QED
    BY <1>3, <1>5, FS_Bijection DEF ExistsBijection
<1> QED
  BY <1>3, <1>6

Kept(s, Q) == KeepIf(s, LAMBDA x : x \in Q)

\* Filtering a list lists the members that are kept, in the same order.
LEMMA KeptAreListed ==
  ASSUME NEW S, IsFiniteSet(S), NEW R, NEW s, Lists(s, R, S), NEW Q \in SUBSET S
  PROVE  Lists(Kept(s, Q), R, Q)
<1> DEFINE n == Cardinality(S)
           I == {i \in DOMAIN s : s[i] \in Q}
           places == InOrder(I, <)
<1>1. n \in Nat /\ DOMAIN s = 1..n /\ I \in SUBSET (1..n)
  BY FS_CardinalityType DEF Lists
<1>2. {s[i] : i \in I} = Q
  <2>1. ASSUME NEW x \in Q PROVE \E i \in I : s[i] = x
    BY <1>1, <2>1 DEF Lists
  <2> QED
    BY <2>1
<1>3. Kept(s, Q) = [k \in DOMAIN places |-> s[places[k]]]
  BY DEF Kept, KeepIf
<1>4. \A i \in I : i \in 1..n /\ s[i] \in Q
  BY <1>1
<1> HIDE DEF I
<1>5. IsFiniteSet(I) /\ Cardinality(Q) = Cardinality(I)
  BY <1>1, <1>2, ListMembers DEF n
<1>6. I \subseteq Int
  BY <1>1
<1>7. Lists(places, {p \in I \X I : p[1] < p[2]}, I)
  BY <1>5, <1>6, NumbersInOrder
<1> HIDE DEF places
<1>8. Cardinality(I) \in Nat
  BY <1>5, FS_CardinalityType
<1> DEFINE m == Cardinality(Q)
<1>9. DOMAIN places = 1..m /\ \A k \in 1..m : places[k] \in I
  BY <1>5, <1>7 DEF Lists
<1>10. \A k, l \in 1..m : k < l => places[k] < places[l]
  BY <1>5, <1>7 DEF Lists
<1>11. \A i \in I : \E k \in 1..m : places[k] = i
  BY <1>5, <1>7 DEF Lists
<1> DEFINE q == [k \in 1..m |-> s[places[k]]]
<1>12. Kept(s, Q) = q
  BY <1>3, <1>9
<1>13. q \in [1..m -> Q]
  BY <1>4, <1>9
<1>14. \A x \in Q : \E k \in 1..m : q[k] = x
  <2>1. ASSUME NEW x \in Q PROVE \E k \in 1..m : q[k] = x
    <3>1. PICK i \in I : s[i] = x
      BY <1>2
    <3> QED
      BY <1>11, <3>1
  <2> QED
    BY <2>1
<1>15. \A k, l \in 1..m : k < l => <<q[k], q[l]>> \in R /\ q[k] # q[l]
  <2>1. ASSUME NEW k \in 1..m, NEW l \in 1..m, k < l
        PROVE  <<s[places[k]], s[places[l]]>> \in R /\ s[places[k]] # s[places[l]]
    <3>1. places[k] \in 1..n /\ places[l] \in 1..n /\ places[k] < places[l]
      BY <1>4, <1>9, <1>10, <2>1
    <3> QED
      BY <3>1 DEF Lists
  <2> QED
    BY <2>1
<1> HIDE DEF q
<1>16. Lists(q, R, Q)
  BY <1>13, <1>14, <1>15 DEF Lists
<1> QED
  BY <1>12, <1>16

(***************************************************************************)
(* Folds.  FoldLeft takes the largest place of a set of places first, so   *)
(* that its value for the places 1..k is one step after the one for        *)
(* 1..(k - 1): the turns of a loop.                                        *)
(***************************************************************************)

\* A finite set of integers has a largest member.
LEMMA MaxOf ==
  ASSUME NEW S, IsFiniteSet(S), S \subseteq Int, S # {}
  PROVE  Max(S) \in S /\ \A y \in S : Max(S) >= y
<1> DEFINE G == {s \in SUBSET S : s = {} \/ \E m \in s : \A y \in s : m >= y}
<1>1. {} \in G
  OBVIOUS
<1>2. ASSUME NEW s \in SUBSET S, NEW a \in s, s \ {a} \in G PROVE s \in G
  <2>1. CASE s \ {a} = {}
    <3>1. \A y \in s : a >= y
      BY <2>1
    <3> QED
      BY <3>1
  <2>2. CASE s \ {a} # {}
    <3>1. PICK m \in s \ {a} : \A y \in s \ {a} : m >= y
      BY <1>2, <2>2
    <3>2. CASE m >= a
      BY <3>1, <3>2
    <3>3. CASE ~(m >= a)
      <4>1. \A y \in s : a >= y
        BY <3>1, <3>3
      <4> QED
        BY <4>1
    <3> QED
      BY <3>2, <3>3
  <2> QED
    BY <2>1, <2>2
<1> HIDE DEF G
<1>3. S \in SUBSET S /\ \A s \in SUBSET S : s \in G
  BY <1>1, <1>2, SubsetInduction
<1>4. \E m \in S : \A y \in S : m >= y
  BY <1>3 DEF G
<1> QED
  BY <1>4 DEF Max

\* A member that no other exceeds is the largest.
LEMMA MaxIs ==
  ASSUME NEW S, S \subseteq Int, NEW m \in S, \A y \in S : m >= y
  PROVE  Max(S) = m
<1>1. Max(S) \in S /\ \A y \in S : Max(S) >= y
  BY DEF Max
<1>2. Max(S) >= m /\ m >= Max(S) /\ Max(S) \in Int /\ m \in Int
  BY <1>1
<1> QED
  BY <1>2

\* The larger of two.
LEMMA MaxOfTwo ==
  ASSUME NEW a \in Int, NEW b \in Int
  PROVE  Max({a, b}) = IF a >= b THEN a ELSE b
<1>1. CASE a >= b
  <2>1. \A y \in {a, b} : a >= y
    BY <1>1
  <2> QED
    BY <1>1, <2>1, MaxIs
<1>2. CASE ~(a >= b)
  <2>1. \A y \in {a, b} : b >= y
    BY <1>2
  <2> QED
    BY <1>2, <2>1, MaxIs
<1> QED
  BY <1>1, <1>2

\* A step makes a value and a member of S a value; c[s] is the member of s
\* that is taken first; the value of a fold over s, given those over its
\* subsets.
Steps(step, base, V, S) == base \in V /\ step \in [V \X S -> V]
TakenFirst(c, S)        == \A s \in SUBSET S : s # {} => c[s] \in s
NextFold(it, base, step, c, s) == IF s = {} THEN base ELSE step[<<it[s \ {c[s]}], c[s]>>]
FoldValues(it, base, step, c, V, S) ==
  it \in [SUBSET S -> V] /\ \A s \in SUBSET S : it[s] = NextFold(it, base, step, c, s)

\* The values of a fold over all subsets exist.
LEMMA FoldExists ==
  ASSUME NEW S, IsFiniteSet(S), NEW V, NEW base, NEW step, Steps(step, base, V, S),
         NEW c, TakenFirst(c, S)
  PROVE  \E it : FoldValues(it, base, step, c, V, S)
<1> DEFINE n == Cardinality(S)
           UpTo(it, k) == \A s \in SUBSET S :
                            Cardinality(s) <= k => it[s] = NextFold(it, base, step, c, s)
           G == {k \in 0..n : \E it \in [SUBSET S -> V] : UpTo(it, k)}
<1>1. n \in Nat
  BY FS_CardinalityType
<1>0. /\ base \in V /\ step \in [V \X S -> V]
      /\ \A s \in SUBSET S : s # {} => c[s] \in s
  BY DEF Steps, TakenFirst
<1>2. 0 \in G
  <2> DEFINE it == [s \in SUBSET S |-> base]
  <2>1. it \in [SUBSET S -> V]
    BY <1>0
  <2>2. ASSUME NEW s \in SUBSET S, Cardinality(s) <= 0 PROVE it[s] = NextFold(it, base, step, c, s)
    <3>1. s = {}
      BY <2>2, OneLess, FS_EmptySet
    <3> QED
      BY <3>1 DEF NextFold
  <2>3. UpTo(it, 0)
    BY <2>2
  <2> HIDE DEF it, UpTo
  <2> QED
    BY <1>1, <2>1, <2>3
<1>3. ASSUME NEW k \in 1..n, k - 1 \in G PROVE k \in G
  <2>1. PICK i \in [SUBSET S -> V] : UpTo(i, k - 1)
    BY <1>3
  <2> DEFINE it == [s \in SUBSET S |-> IF Cardinality(s) = k THEN NextFold(i, base, step, c, s) ELSE i[s]]
  <2>2. ASSUME NEW s \in SUBSET S PROVE NextFold(i, base, step, c, s) \in V
    <3>1. CASE s = {}
      BY <1>0, <3>1 DEF NextFold
    <3>2. CASE s # {}
      <4>1. c[s] \in S /\ i[s \ {c[s]}] \in V
        BY <1>0, <2>1, <3>2
      <4> QED
        BY <1>0, <3>2, <4>1 DEF NextFold
    <3> QED
      BY <3>1, <3>2
  <2>3. it \in [SUBSET S -> V]
    BY <2>1, <2>2
  <2>4. ASSUME NEW s \in SUBSET S, Cardinality(s) <= k PROVE it[s] = NextFold(it, base, step, c, s)
    <3>1. NextFold(it, base, step, c, s) = NextFold(i, base, step, c, s)
      <4>1. CASE s = {}
        BY <4>1 DEF NextFold
      <4>2. CASE s # {}
        <5>1. /\ s \ {c[s]} \in SUBSET S
              /\ Cardinality(s \ {c[s]}) # k
          <6>1. c[s] \in s
            BY <1>0, <4>2
          <6>2. /\ s \ {c[s]} \in SUBSET S
                /\ Cardinality(s) \in Nat
                /\ Cardinality(s \ {c[s]}) = Cardinality(s) - 1
            BY <6>1, OneLess
          <6> QED
            BY <2>4, <6>2
        <5>2. it[s \ {c[s]}] = i[s \ {c[s]}]
          BY <5>1
        <5> HIDE DEF it
        <5> QED
          BY <4>2, <5>2 DEF NextFold
      <4> QED
        BY <4>1, <4>2
    <3>2. CASE Cardinality(s) = k
      BY <2>4, <3>1, <3>2
    <3>3. CASE Cardinality(s) # k
      <4>1. Cardinality(s) <= k - 1
        BY <1>1, <2>4, <3>3, OneLess
      <4>2. i[s] = NextFold(i, base, step, c, s)
        BY <2>1, <2>4, <4>1
      <4> QED
        BY <2>4, <3>1, <3>3, <4>2
    <3> QED
      BY <3>2, <3>3
  <2> HIDE DEF it
  <2>5. UpTo(it, k)
    BY <2>4
  <2>6. k \in 0..n
    BY <1>1, <1>3
  <2> QED
    BY <2>3, <2>5, <2>6
<1>4. n \in G
  <2> HIDE DEF G
  <2>1. \A k \in 0..n : k \in G
    <3> HIDE DEF n
    <3> QED
      BY <1>1, <1>2, <1>3, UpToInduction
  <2> QED
    BY <1>1, <2>1
<1>5. PICK it \in [SUBSET S -> V] : UpTo(it, n)
  BY <1>4
<1>6. \A s \in SUBSET S : Cardinality(s) <= n
  BY FS_Subset
<1> QED
  BY <1>5, <1>6 DEF FoldValues

\* The first k places: the largest of them is k, and k - 1 are left.
LEMMA FirstPlaces ==
  ASSUME NEW k \in Nat
  PROVE  /\ k = 0 => 1..k = {}
         /\ k # 0 => 1..k # {} /\ Max(1..k) = k /\ (1..k) \ {k} = 1..(k - 1)
<1>1. k = 0 => 1..k = {}
  OBVIOUS
<1>2. ASSUME k # 0 PROVE 1..k # {} /\ Max(1..k) = k /\ (1..k) \ {k} = 1..(k - 1)
  <2>1. k \in 1..k /\ (1..k) \ {k} = 1..(k - 1)
    BY <1>2
  <2>2. 1..k \subseteq Int /\ \A y \in 1..k : k >= y
    OBVIOUS
  <2>3. Max(1..k) = k
    <3>1. PICK S : S = 1..k
      OBVIOUS
    <3> QED
      BY <2>1, <2>2, <3>1, MaxIs
  <2> QED
    BY <2>1, <2>3
<1> QED
  BY <1>1, <1>2

LeftFoldValues(it, base, step, V, n) ==
  /\ it \in [SUBSET (1..n) -> V]
  /\ \A s \in SUBSET (1..n) :
       it[s] = IF s = {} THEN base ELSE step[<<it[s \ {Max(s)}], Max(s)>>]

\* A fold from the left over n places has a value for every set of places.
LEMMA FoldLeftExists ==
  ASSUME NEW n \in Nat, NEW V, NEW base, NEW step, Steps(step, base, V, 1..n)
  PROVE  \E it : LeftFoldValues(it, base, step, V, n)
<1> DEFINE c == [s \in SUBSET (1..n) |-> Max(s)]
<1>1. IsFiniteSet(1..n)
  BY FS_Interval
<1>2. ASSUME NEW s \in SUBSET (1..n), s # {} PROVE c[s] \in s
  <2>1. IsFiniteSet(s)
    BY <1>1, FS_Subset
  <2>2. s \subseteq Int
    OBVIOUS
  <2>3. Max(s) \in s
    BY <1>2, <2>1, <2>2, MaxOf
  <2> QED
    BY <2>3
<1>3. \A s \in SUBSET (1..n) : c[s] = Max(s)
  OBVIOUS
<1> HIDE DEF c
<1>4. PICK it \in [SUBSET (1..n) -> V] :
        \A s \in SUBSET (1..n) : it[s] = NextFold(it, base, step, c, s)
  <2>1. PICK P : P = 1..n
    OBVIOUS
  <2>2. IsFiniteSet(P) /\ Steps(step, base, V, P) /\ TakenFirst(c, P)
    BY <1>1, <1>2, <2>1 DEF Steps, TakenFirst
  <2>3. \E it : FoldValues(it, base, step, c, V, P)
    BY <2>2, FoldExists, Zenon
  <2> QED
    BY <2>1, <2>3 DEF FoldValues
<1> QED
  BY <1>3, <1>4 DEF NextFold, LeftFoldValues
=============================================================================
