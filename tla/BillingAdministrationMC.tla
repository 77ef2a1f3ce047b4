----------------------- MODULE BillingAdministrationMC -----------------------
(***************************************************************************)
(* Finite instances of BillingAdministration for TLC.                      *)
(***************************************************************************)
EXTENDS BillingAdministration, TLC

WorkerSymmetry == Permutations(Workers)
=============================================================================
