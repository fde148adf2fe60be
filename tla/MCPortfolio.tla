---------------------------- MODULE MCPortfolio -----------------------------
(***************************************************************************)
(* Instances of Portfolio for TLC.  With a slippage of 1/10 a share opened *)
(* at 10 costs 11, its stop is at 8.8 and its target at 13.2; a share      *)
(* opened at 14 costs 15.4 and its stop is at 12.32.  So, depending on the *)
(* entry, the bars stay within the limits and close low or high, open      *)
(* beyond the target, open beyond the stop, or cross it during the day.    *)
(* No signal is dated before the first day, so that no bar of that day is  *)
(* ever used.                                                              *)
(***************************************************************************)
EXTENDS Portfolio

Bar(o, h, l, c) == [open |-> o, high |-> h, low |-> l, close |-> c]
MCPrices == {Bar(10, 12, 9, 9), Bar(10, 12, 9, 12), Bar(14, 14, 12, 13)}
MCInit   == Init /\ present[1] = {}
MCSpec   == MCInit /\ [][Next]_vars
=============================================================================
