------------------------------- MODULE MCBilling -------------------------------
(***************************************************************************)
(* Small instances of Billing.                                             *)
(***************************************************************************)
EXTENDS Billing, TLC

CONSTANTS basic, pro

IntervalMC == basic :> 1 @@ pro :> 2
PriceMC == basic :> 1 @@ pro :> 2

PodSymmetry == Permutations(Pods)
=============================================================================
