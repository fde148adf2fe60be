------------------------ MODULE MCWatchlistPipeline ------------------------
(***************************************************************************)
(* Instances of WatchlistPipeline for TLC.  Requests and dates are model   *)
(* values; requests are interchangeable.                                   *)
(***************************************************************************)
EXTENDS WatchlistPipeline, TLC

RequestSymmetry == Permutations(Requests)
=============================================================================
