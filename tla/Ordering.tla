------------------------------ MODULE Ordering ------------------------------
(***************************************************************************)
(* Sorting and filtering as the language's library does them, defined so   *)
(* that they can be reasoned about (SortSeq and SelectSeq are built into   *)
(* the tools).                                                             *)
(***************************************************************************)
EXTENDS Integers, FiniteSets

\* sorted() by a strict total order: the i-th member has i - 1 before it.
InOrder(S, InFront(_, _)) ==
  [i \in 1..Cardinality(S) |-> CHOOSE x \in S : Cardinality({y \in S : InFront(y, x)}) = i - 1]

\* [x for x in s if Keep(x)].
KeepIf(s, Keep(_)) ==
  LET places == InOrder({i \in DOMAIN s : Keep(s[i])}, <)
  IN [i \in DOMAIN places |-> s[places[i]]]
=============================================================================
