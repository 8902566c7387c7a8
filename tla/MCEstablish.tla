---------------------------- MODULE MCEstablish ----------------------------
(***************************************************************************)
(* Three starts of the client, two rounds of time synchronisation.         *)
(***************************************************************************)
EXTENDS Establish

MCOffset == -1
=============================================================================
