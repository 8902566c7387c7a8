-------------------------- MODULE MCBaselineTracker --------------------------
(* Small instance of BaselineTracker: a window of 2, so samples expire, and *)
(* three delays, so that the deque grows, collapses and loses its front.   *)
EXTENDS BaselineTracker

MCDelays == 0 .. 2

=============================================================================
