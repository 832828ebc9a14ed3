-------------------------- MODULE MCGenerationJob --------------------------
(***************************************************************************)
(* Instances of GenerationJob for TLC. Instances are model values; there   *)
(* is no symmetry among them: Min and CHOOSE pick one by its value.        *)
(***************************************************************************)
EXTENDS GenerationJob, TLC
=============================================================================
