-------------------------- MODULE MCCanvasDocument --------------------------
(***************************************************************************)
(* Instances of CanvasDocument for TLC.                                    *)
(***************************************************************************)
EXTENDS CanvasDocument
=============================================================================
