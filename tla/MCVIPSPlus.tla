----------------------------- MODULE MCVIPSPlus -----------------------------
(***************************************************************************)
(* The controller with the code's own constants and every input at every   *)
(* tick.                                                                   *)
(***************************************************************************)
EXTENDS VIPSPlus

\* One waiting count per flow class, with both sides of each threshold.
MCCounts == {0, 1, 5, 6, 30, 31}
=============================================================================
