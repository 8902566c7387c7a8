---------------------------- MODULE ConnectionSm ----------------------------
(***************************************************************************)
(* The Connection state machine of connection_sm.rs: which control         *)
(* messages each state allows, and its transitions.  A transition that the *)
(* state does not allow is a ProtocolViolation.                            *)
(***************************************************************************)

State == {"Handshaking", "Authenticating", "Authenticated", "Active", "Suspended"}

Violation == "ProtocolViolation"

Hellos == {"CLIENT_HELLO", "SERVER_HELLO"}

check_message(state, type) ==
    CASE state = "Handshaking"    -> type \in Hellos
      [] state = "Authenticating" -> type = "AUTH_PUBKEY"
      [] state = "Authenticated"  -> TRUE
      [] state = "Active"         -> type \notin Hellos
      [] OTHER                    -> FALSE

Moves(state, from, to) == IF state = from THEN to ELSE Violation

complete_handshake(state) == Moves(state, "Handshaking", "Authenticating")

complete_authentication(state) == Moves(state, "Authenticating", "Authenticated")

on_channel_live(state) == Moves(state, "Authenticated", "Active")

suspend(state) == Moves(state, "Active", "Suspended")

resume(state) == Moves(state, "Suspended", "Active")
=============================================================================
