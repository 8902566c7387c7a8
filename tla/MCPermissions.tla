---------------------------- MODULE MCPermissions ----------------------------
(***************************************************************************)
(* Small instance of Permissions: two sessions, and three bits so that a   *)
(* toggled bit, a bit the handshake granted and one it did not all exist.  *)
(***************************************************************************)
EXTENDS Permissions

MCMask == {"view"}

=============================================================================
