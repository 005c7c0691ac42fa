------------------------------ MODULE MCMultiSub ------------------------------
(***************************************************************************)
(* Small instances of MultiSub: what may happen, and how often.            *)
(***************************************************************************)
EXTENDS MultiSub, TLC

Nothing == [k \in Kinds |-> 0]
BudgetOnce == [k \in Kinds |-> 1]

\* Every call succeeds; the subscription is paused once.
BudgetPause == [Nothing EXCEPT !["pause"] = 1]

PodSymmetry == Permutations(Instances)
=============================================================================
