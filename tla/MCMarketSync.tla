---------------------------- MODULE MCMarketSync ----------------------------
(***************************************************************************)
(* Instances of MarketSync for TLC.  The second symbol has no bar on the   *)
(* second day.  Calls, and the replicas that serve them, are               *)
(* interchangeable.                                                        *)
(***************************************************************************)
EXTENDS MarketSync, TLC

MCSuspended  == {<<2, 2>>}
CallSymmetry == Permutations(Calls)
=============================================================================
