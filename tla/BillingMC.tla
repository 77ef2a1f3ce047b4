----------------------------- MODULE BillingMC -----------------------------
(***************************************************************************)
(* Finite instances of Billing for TLC.  Workers are interchangeable;      *)
(* orders are too, as long as none of them is a legacy order.              *)
(***************************************************************************)
EXTENDS Billing, TLC

WorkerSymmetry == Permutations(Workers)
WorkerAndOrderSymmetry == Permutations(Workers) \cup Permutations(Orders)
=============================================================================
