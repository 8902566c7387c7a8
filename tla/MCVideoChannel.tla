--------------------------- MODULE MCVideoChannel ----------------------------
(***************************************************************************)
(* Small instance of VideoChannel.  With SoftDelta 1 and HardDelta 2 the   *)
(* delays 0, 1 and 3 give deltas below, at and above both thresholds.      *)
(***************************************************************************)
EXTENDS VideoChannel

MCDelays == {0, 1, 3}

\* sardp-server passes app_send_queue_bytes = 0.
MCNoBytes == {FALSE}

MCBytes == BOOLEAN

=============================================================================
