------------------------ MODULE MCDreaminaStateFile ------------------------
(***************************************************************************)
(* An instance of DreaminaStateFile for TLC.                               *)
(***************************************************************************)
EXTENDS DreaminaStateFile, TLC
=============================================================================
