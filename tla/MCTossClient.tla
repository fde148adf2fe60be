---------------------------- MODULE MCTossClient ----------------------------
(***************************************************************************)
(* The instance of TossClient that TLC checks; toss.cfg gives the values.  *)
(***************************************************************************)
EXTENDS TossClient
=============================================================================
