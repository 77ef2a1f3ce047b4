-------------------------- MODULE BillingDunningMC --------------------------
(***************************************************************************)
(* Finite instances of BillingDunning for TLC.                             *)
(***************************************************************************)
EXTENDS BillingDunning, TLC

RequestWorkerSymmetry == Permutations(Workers \ {Job})
=============================================================================
