----------------------------- MODULE MCBuyOrder ------------------------------
(***************************************************************************)
(* Instances of BuyOrder: the price in one payment, more than it, or in    *)
(* two parts.                                                              *)
(***************************************************************************)
EXTENDS BuyOrder

MCAmounts == {1, 2}
=============================================================================
