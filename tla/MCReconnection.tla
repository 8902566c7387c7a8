--------------------------- MODULE MCReconnection ----------------------------
(***************************************************************************)
(* Small instance of Reconnection: connections and sessions are model      *)
(* values.  Symmetry is not used, because liveness is checked.             *)
(***************************************************************************)
EXTENDS Reconnection

=============================================================================
