-------------------------- MODULE SessionLifecycle ---------------------------
(***************************************************************************)
(* What the server promises of a session, whatever connections carry it    *)
(* (docs/SARDP_NormativeSpec.md 4.1 and 4.6): a session is live on one     *)
(* connection, suspended, or gone for ever; the generations shown to the   *)
(* client only grow, across reconnections too; and a suspended session     *)
(* does not stay suspended.                                                *)
(***************************************************************************)
EXTENDS Integers

CONSTANT Sessions

VARIABLES
  status,  \* of each session
  shown    \* the last video generation opened for it, -1 before the first

vars == <<status, shown>>

Status == {"unknown", "live", "suspended", "gone"}

Init ==
  /\ status = [s \in Sessions |-> "unknown"]
  /\ shown = [s \in Sessions |-> -1]

Move(s, from, to) ==
  /\ status[s] = from
  /\ status' = [status EXCEPT ![s] = to]
  /\ UNCHANGED shown

Establish(s) == Move(s, "unknown", "live")

Suspend(s) == Move(s, "live", "suspended")

Resume(s) == Move(s, "suspended", "live")

Finish(s) == Move(s, "live", "gone")

Expire(s) == Move(s, "suspended", "gone")

Show(s) ==
  /\ status[s] = "live"
  /\ shown' = [shown EXCEPT ![s] = shown'[s]]
  /\ shown'[s] > shown[s]
  /\ UNCHANGED status

Next ==
  \E s \in Sessions :
    Establish(s) \/ Suspend(s) \/ Resume(s) \/ Finish(s) \/ Expire(s) \/ Show(s)

Fairness == \A s \in Sessions : WF_vars(Resume(s) \/ Expire(s))

Safety == Init /\ [][Next]_vars

Spec == Safety /\ Fairness

=============================================================================
