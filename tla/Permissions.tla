----------------------------- MODULE Permissions -----------------------------
(***************************************************************************)
(* Live permissions: the per-bit state machine of src/src/permission_sm.rs *)
(* and the way sardp-server.rs drives it.  The stdin reader pushes admin   *)
(* commands into one queue that all connection tasks share.  On its frame  *)
(* tick a task takes the queue's lock and drains it, awaiting the write of *)
(* a PermissionUpdate for every toggle while it holds the lock; the rest   *)
(* of its select loop does not run meanwhile, the other tasks do.          *)
(*                                                                         *)
(* A toggle is built from `granted_permissions', which run_active_session  *)
(* receives once, from the handshake (or, after a reconnection, from the   *)
(* suspended session, where the same value was kept) and never changes.    *)
(***************************************************************************)
EXTENDS Naturals, Sequences

CONSTANTS
  Clients,        \* sessions of the server
  Bits,           \* PermissionSet bits
  HandshakeMask,  \* granted_permissions of AuthResult
  Capture,        \* the bit AUDIO_CAPTURE
  ClipRead,       \* the bit CLIP_READ
  NoClient,       \* the queue's lock is free
  MaxCommands     \* bound on the commands typed

ASSUME PermissionsAssumption ==
  /\ HandshakeMask \subseteq Bits
  /\ Capture \in Bits
  /\ ClipRead \in Bits
  /\ NoClient \notin Clients
  /\ MaxCommands \in Nat

VARIABLES
  queue,      \* PermissionCommand: the commands not yet drained
  lock,       \* the task that holds the queue's mutex
  phase,      \* where each session is
  perm,       \* PermissionSm.states
  shown,      \* granted_permissions the client was told last
  capturing,  \* an audio_capture reader task runs
  announced,  \* a clipboard announce task runs
  typed,      \* the number of commands typed so far
  applied     \* history: the commands carried out, by any session

permissionVars == <<queue, lock, phase, perm, shown, capturing, announced, typed, applied>>

BitState == {"NotGranted", "Granted", "Draining"}

(* AdminCommand, numbered in the order of typing.                          *)
Command ==
  [id : 1 .. MaxCommands, kind : {"grant", "revoke"}, bit : Bits] \cup
  [id : 1 .. MaxCommands, kind : {"clipboard"}, bit : {ClipRead}]

(* PermissionSm::new.                                                      *)
NewStates(mask) ==
  [b \in Bits |-> IF b \in mask THEN "Granted" ELSE "NotGranted"]

GrantedBits(states) == {b \in Bits : states[b] = "Granted"}

BuildPermissionToggle(current, b, grant) ==
  [granted   |-> (current \ {b}) \cup (IF grant THEN {b} ELSE {}),
   immediate |-> IF grant THEN {} ELSE {b}]

(* Mutant: a bit that is Draining cannot be granted again.                 *)
ApplyUpdate_NoRegrant(states, update) ==
  [b \in Bits |->
     IF b \in update.granted /\ states[b] # "Draining" THEN "Granted"
     ELSE IF states[b] # "Granted" THEN states[b]
     ELSE IF b \in update.immediate THEN "NotGranted" ELSE "Draining"]

ApplyUpdate(states, update) ==
  [b \in Bits |->
     IF b \in update.granted THEN "Granted"
     ELSE IF states[b] # "Granted" THEN states[b]
     ELSE IF b \in update.immediate THEN "NotGranted" ELSE "Draining"]
-----------------------------------------------------------------------------
PermissionsInit ==
  /\ queue = << >>
  /\ lock = NoClient
  /\ phase = [c \in Clients |-> "off"]
  /\ perm = [c \in Clients |-> NewStates({})]
  /\ shown = [c \in Clients |-> {}]
  /\ capturing = [c \in Clients |-> FALSE]
  /\ announced = [c \in Clients |-> FALSE]
  /\ typed = 0
  /\ applied = << >>

(* The session becomes Active: AuthResult carried HandshakeMask, and       *)
(* handle_connection builds the PermissionSm from it.  After a             *)
(* reconnection both come from SuspendedSession.granted_permissions, the   *)
(* handshake's value again.                                                *)
Start(c) ==
  /\ phase[c] \in {"off", "suspended"}
  /\ phase' = [phase EXCEPT ![c] = "active"]
  /\ perm' = [perm EXCEPT ![c] = NewStates(HandshakeMask)]
  /\ shown' = [shown EXCEPT ![c] = HandshakeMask]
  /\ UNCHANGED <<queue, lock, capturing, announced, typed, applied>>

(* SessionClose, shutdown or an error: "off"; a lost transport: suspended. *)
Stop(c) ==
  /\ phase[c] = "active"
  /\ \E to \in {"off", "suspended"} : phase' = [phase EXCEPT ![c] = to]
  /\ UNCHANGED <<queue, lock, perm, shown, capturing, announced, typed,
                 applied>>

(* Mutant: a line parse_admin_command does not recognise is queued too.    *)
AdminTypes_QueuesUnknown(kind, b) ==
  /\ lock = NoClient
  /\ typed < MaxCommands
  /\ \E k \in {kind, "unknown"} :
       queue' = Append(queue, [id |-> typed + 1, kind |-> k, bit |-> b])
  /\ typed' = typed + 1
  /\ UNCHANGED <<lock, phase, perm, shown, capturing, announced, applied>>

(* The stdin reader pushes a parsed command.                               *)
AdminTypes(kind, b) ==
  /\ lock = NoClient
  /\ typed < MaxCommands
  /\ queue' = Append(queue, [id |-> typed + 1, kind |-> kind, bit |-> b])
  /\ typed' = typed + 1
  /\ UNCHANGED <<lock, phase, perm, shown, capturing, announced, applied>>

(* Mutant: the tick drains the queue without its lock.                     *)
FrameTick_NoLock(c) ==
  /\ phase[c] = "active"
  /\ phase' = [phase EXCEPT ![c] = "draining"]
  /\ UNCHANGED <<queue, lock, perm, shown, capturing, announced, typed, applied>>

(* The frame tick: lock().await.                                           *)
FrameTick(c) ==
  /\ phase[c] = "active"
  /\ lock = NoClient
  /\ lock' = c
  /\ phase' = [phase EXCEPT ![c] = "draining"]
  /\ UNCHANGED <<queue, perm, shown, capturing, announced, typed, applied>>

(* Mutant: the queue is iterated over, not drained.                        *)
Pop_Nothing ==
  /\ applied' = Append(applied, Head(queue).id)
  /\ queue' = queue

(* drain(..) hands out the next command.                                   *)
Pop ==
  /\ applied' = Append(applied, Head(queue).id)
  /\ queue' = Tail(queue)

(* The toggle's update is applied, then written to the client.             *)
Toggle(c) ==
  LET cmd    == Head(queue)
      update == BuildPermissionToggle(HandshakeMask, cmd.bit, cmd.kind = "grant")
  IN  /\ phase[c] = "draining"
      /\ queue # << >>
      /\ cmd.kind # "clipboard"
      /\ perm' = [perm EXCEPT ![c] = ApplyUpdate(perm[c], update)]
      /\ \/ /\ shown' = [shown EXCEPT ![c] = update.granted]
            /\ Pop
            /\ UNCHANGED <<lock, phase>>
         \* The write fails: the task returns and the session is suspended;
         \* the lock is released and the Drain drops the remaining commands.
         \/ /\ phase' = [phase EXCEPT ![c] = "suspended"]
            /\ lock' = NoClient
            /\ queue' = << >>
            /\ applied' = Append(applied, cmd.id)
            /\ UNCHANGED shown
      /\ UNCHANGED <<capturing, announced, typed>>

(* SendClipboard: check_gate(CLIP_READ), then spawn_clipboard_announce.    *)
SendClipboard(c) ==
  /\ phase[c] = "draining"
  /\ queue # << >>
  /\ Head(queue).kind = "clipboard"
  /\ announced' = [announced EXCEPT ![c] = @ \/ perm[c][ClipRead] = "Granted"]
  /\ Pop
  /\ UNCHANGED <<lock, phase, perm, shown, capturing, typed>>

(* The queue is empty: drop(commands), and the loop goes on.               *)
Drained(c) ==
  /\ phase[c] = "draining"
  /\ queue = << >>
  /\ lock' = NoClient
  /\ phase' = [phase EXCEPT ![c] = "active"]
  /\ UNCHANGED <<queue, perm, shown, capturing, announced, typed, applied>>

(* A client-initiated audio_capture stream: accepted and handed to a task  *)
(* of its own, which never looks at the permissions again, or refused.     *)
AcceptCapture(c) ==
  /\ phase[c] = "active"
  /\ capturing' = [capturing EXCEPT ![c] = @ \/ perm[c][Capture] = "Granted"]
  /\ UNCHANGED <<queue, lock, phase, perm, shown, announced, typed, applied>>

(* The tasks end with their streams.                                       *)
CaptureEnds(c) ==
  /\ capturing[c]
  /\ capturing' = [capturing EXCEPT ![c] = FALSE]
  /\ UNCHANGED <<queue, lock, phase, perm, shown, announced, typed, applied>>

AnnounceEnds(c) ==
  /\ announced[c]
  /\ announced' = [announced EXCEPT ![c] = FALSE]
  /\ UNCHANGED <<queue, lock, phase, perm, shown, capturing, typed, applied>>

PermissionsNext ==
  \/ \E b \in Bits, kind \in {"grant", "revoke"} : AdminTypes(kind, b)
  \/ AdminTypes("clipboard", ClipRead)
  \/ \E c \in Clients :
       \/ Start(c)
       \/ Stop(c)
       \/ FrameTick(c)
       \/ Toggle(c)
       \/ SendClipboard(c)
       \/ Drained(c)
       \/ AcceptCapture(c)
       \/ CaptureEnds(c)
       \/ AnnounceEnds(c)

PermissionsSpec == PermissionsInit /\ [][PermissionsNext]_permissionVars

-----------------------------------------------------------------------------
PermissionsTypeOK ==
  /\ queue \in Seq(Command)
  /\ lock \in Clients \cup {NoClient}
  /\ phase \in [Clients -> {"off", "active", "draining", "suspended"}]
  /\ perm \in [Clients -> [Bits -> BitState]]
  /\ shown \in [Clients -> SUBSET Bits]
  /\ capturing \in [Clients -> BOOLEAN]
  /\ announced \in [Clients -> BOOLEAN]
  /\ typed \in 0 .. MaxCommands
  /\ applied \in Seq(1 .. MaxCommands)

Running(c) == phase[c] \in {"active", "draining"}

(* What the client was told last is what the server enforces: the Granted  *)
(* bits of a running session are those of its last AuthResult or           *)
(* PermissionUpdate (NormativeSpec 2.5: granted_permissions "always        *)
(* represents the current effective permission state"), through failed     *)
(* writes and reconnections.                                               *)
ClientAgrees ==
  \A c \in Clients : Running(c) => shown[c] = GrantedBits(perm[c])

(* The queue is shared, but every command is carried out at most once and  *)
(* in the order of typing, whichever sessions drain it and whenever they   *)
(* fail; and a command still queued comes after all those carried out.     *)
CommandsInOrder ==
  /\ \A i, j \in 1 .. Len(applied) : i < j => applied[i] < applied[j]
  /\ \A i, j \in 1 .. Len(queue) : i < j => queue[i].id < queue[j].id
  /\ \A i \in 1 .. Len(applied), j \in 1 .. Len(queue) :
       applied[i] < queue[j].id

(* One drain at a time: the mutex is held exactly by the task whose loop   *)
(* is inside the drain, so a failed or suspended task never keeps it.      *)
LockHeldByDrainer ==
  \A c \in Clients : phase[c] = "draining" <=> lock = c

-----------------------------------------------------------------------------
(* The strengthening the proofs need: numbers are not reused.              *)
NumbersTyped ==
  /\ \A i \in 1 .. Len(applied) : applied[i] <= typed
  /\ \A i \in 1 .. Len(queue) : queue[i].id <= typed

(* The inductive invariant of the proofs; checked by TLC as well.          *)
PermissionsInv ==
  /\ PermissionsTypeOK
  /\ ClientAgrees
  /\ CommandsInOrder
  /\ LockHeldByDrainer
  /\ NumbersTyped

=============================================================================
