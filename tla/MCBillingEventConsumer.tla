------------------------ MODULE MCBillingEventConsumer ------------------------
(***************************************************************************)
(* Small instances of BillingEventConsumer: one subscription is activated  *)
(* and cancelled, on two subjects.                                         *)
(***************************************************************************)
EXTENDS BillingEventConsumer, TLC

MCEntityOf == [e \in Events |-> "sub"]
MCSubjectOf == [e \in Events |-> IF e = 1 THEN "activated" ELSE "cancelled"]
PodSymmetry == Permutations(Pods)
=============================================================================
