------------------------ MODULE MCGenerationEffects ------------------------
(***************************************************************************)
(* Instances of GenerationEffects for TLC.                                 *)
(***************************************************************************)
EXTENDS GenerationEffects
=============================================================================
