------------------------- MODULE MCDisplayPipeline --------------------------
(***************************************************************************)
(* Small instance of DisplayPipeline: the second generation has another    *)
(* picture size.                                                           *)
(***************************************************************************)
EXTENDS DisplayPipeline

MCSize == [g \in 0..MaxGeneration |-> IF g = 0 THEN 1 ELSE 2]
=============================================================================
