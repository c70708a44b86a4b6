------------------------- MODULE MCDreaminaRuntime -------------------------
(***************************************************************************)
(* Instances of DreaminaRuntime for TLC.                                   *)
(***************************************************************************)
EXTENDS DreaminaRuntime, TLC

Symmetry == Permutations(Runtimes) \cup Permutations(Keys)
=============================================================================
