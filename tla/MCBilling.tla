----------------------------- MODULE MCBilling -----------------------------
(***************************************************************************)
(* Instances of Billing for TLC; processes and references are model        *)
(* values. Liveness is checked with the invariants, so without symmetry.   *)
(***************************************************************************)
EXTENDS Billing, TLC
=============================================================================
