----------------------------- MODULE MCDeposits -----------------------------
(***************************************************************************)
(* Instances of Deposits for TLC.                                          *)
(***************************************************************************)
EXTENDS Deposits
=============================================================================
