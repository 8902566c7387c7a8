------------------------- MODULE MCCapturePipeline --------------------------
(***************************************************************************)
(* The capture pipeline for TLC: see MCCapturePipeline.cfg.                *)
(***************************************************************************)
EXTENDS CapturePipeline
=============================================================================
