-------------------------- MODULE MCInputInjection --------------------------
(***************************************************************************)
(* Small instance of InputInjection: a modifier, a character key and a     *)
(* mouse button.  Three mode changes are needed for one of them to be      *)
(* replaced unused while the server is in the other mode; the constraint   *)
(* lets the client make more than one, back and forth, only within its     *)
(* first two events, while it uses the keyboard alone and no permission    *)
(* changes.                                                                *)
(***************************************************************************)
EXTENDS InputInjection

MCInput == {"keyboard", "mouse"}

ModesOrButtons ==
    \/ Len(flips) <= 1
    \/ /\ nextId <= 3
       /\ \A i \in DOMAIN flips : flips[i].mode = IF i % 2 = 1 THEN "remote" ELSE "client"
       /\ granted = HandshakeInput
       /\ (held \cup reported \cup pressed \cup desktop) \cap Buttons = {}
       /\ \A i \in DOMAIN wire : wire[i].kind \notin {"button", "pointer"}
       /\ \A i \in DOMAIN commands : commands[i].kind \notin {"button", "pointer"}

=============================================================================
