--------------------------- MODULE MCMeasurement ---------------------------
(***************************************************************************)
(* Instances of Measurement for TLC.                                       *)
(***************************************************************************)
EXTENDS Measurement
=============================================================================
