------------------------------- MODULE MCPayment -------------------------------
(***************************************************************************)
(* A small instance of Payment: the checkout of one subscription.          *)
(***************************************************************************)
EXTENDS Payment, TLC

CONSTANTS basic

IntervalMC == basic :> 1
PriceMC == basic :> 1
=============================================================================
