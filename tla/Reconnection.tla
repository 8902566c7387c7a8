---------------------------- MODULE Reconnection -----------------------------
(***************************************************************************)
(* Suspension and resumption of sessions: the SessionStore shared by all   *)
(* connection tasks (src/src/session_store.rs), the reconnection protocol  *)
(* (reconnection.rs), the Connection state machine's last three states     *)
(* (connection_sm.rs) and the skeleton of handle_connection and            *)
(* run_active_session (sardp-server.rs) around them.                       *)
(*                                                                         *)
(* Each connection task runs concurrently with the others and with the     *)
(* expiry tasks that suspend_and_schedule_expiry spawns; an await is a     *)
(* step boundary.  A client may present any token it ever saw, at any      *)
(* time and on several connections at once (two processes can read the     *)
(* same --session-file), or a wrong one.  Tokens are 32 random bytes: they *)
(* are modelled as a counter, so that no two are equal.                    *)
(***************************************************************************)
EXTENDS Integers, FiniteSets

CONSTANTS
  Conns,          \* QUIC connections accepted during a run
  Sessions,       \* session ids fresh handshakes may draw
  NoSession,      \* a task that has no session yet
  Grace,          \* RECONNECT_GRACE_PERIOD
  MaxTokens,      \* bound on the reconnect tokens issued
  MaxTime,        \* bound on the time of the last suspension
  MaxGeneration   \* bound on the generations of backpressure reopens

ASSUME ReconnectionAssumption ==
  /\ NoSession \notin Sessions
  /\ Grace \in Nat \ {0}
  /\ MaxTokens \in Nat
  /\ MaxTime \in Nat
  /\ MaxGeneration \in Nat

VARIABLES
  now,
  pc,          \* where each connection task is
  sess,        \* ConnectionContext.session_id
  token,       \* ConnectionContext.reconnect_token
  gen,         \* VideoChannel.generation of the task
  sm,          \* ConnectionContext.connection_sm
  store,       \* SessionStore.sessions
  timers,      \* the expiry tasks that are asleep
  issued,      \* the number of tokens drawn so far
  known,       \* the session ids drawn so far
  answer,      \* history: the AuthResult the task tried to send
  lastOpened,  \* history: the last generation opened for a session
  uses         \* history: how often a token resumed a session

task == <<pc, sess, token, gen, sm>>

history == <<answer, lastOpened, uses>>

vars == <<now, task, store, timers, issued, known, history>>

None == -1

Token == 0 .. MaxTokens - 1

(* Tasks that hold a session no other task and no store entry may hold.    *)
Owning == {"resuming", "setup", "ready", "active", "reopening"}

Owns(c, s) == pc[c] \in Owning /\ sess[c] = s

NoEntry == [tok |-> None, gen |-> 0, sm |-> "none", since |-> 0]

(* SuspendedSession; since is history.                                     *)
Entry == [tok : Token, gen : Nat, sm : {"Suspended", "Active"}, since : Nat]

Suspended(s) == store[s] # NoEntry

-----------------------------------------------------------------------------
Init ==
  /\ now = 0
  /\ pc = [c \in Conns |-> "idle"]
  /\ sess = [c \in Conns |-> NoSession]
  /\ token = [c \in Conns |-> None]
  /\ gen = [c \in Conns |-> 0]
  /\ sm = [c \in Conns |-> "Handshaking"]
  /\ store = [s \in Sessions |-> NoEntry]
  /\ timers = {}
  /\ issued = 0
  /\ known = {}
  /\ answer = [c \in Conns |-> "none"]
  /\ lastOpened = [s \in Sessions |-> None]
  /\ uses = [t \in Token |-> 0]

Tick ==
  /\ now < MaxTime + Grace
  /\ now' = now + 1
  /\ UNCHANGED <<task, store, timers, issued, known, history>>

(* A fresh ClientHello handshake succeeds: AuthResult{OK} carries a new    *)
(* session id and token, and the state machine is Authenticated.           *)
Handshake(c, s) ==
  /\ pc[c] = "idle"
  /\ s \notin known
  /\ issued < MaxTokens
  /\ pc' = [pc EXCEPT ![c] = "setup"]
  /\ sess' = [sess EXCEPT ![c] = s]
  /\ token' = [token EXCEPT ![c] = issued]
  /\ sm' = [sm EXCEPT ![c] = "Authenticated"]
  /\ issued' = issued + 1
  /\ known' = known \cup {s}
  /\ answer' = [answer EXCEPT ![c] = "OK"]
  /\ UNCHANGED <<now, gen, store, timers, lastOpened, uses>>

(* Mutant: try_reconnect reads the entry instead of removing it.           *)
ReconnectMatch_KeepsEntry(c, s) ==
  /\ pc[c] = "idle"
  /\ Suspended(s)
  /\ issued < MaxTokens
  /\ store' = store
  /\ uses' = [uses EXCEPT ![store[s].tok] = @ + 1]
  /\ sess' = [sess EXCEPT ![c] = s]
  /\ pc' = [pc EXCEPT ![c] = "resuming"]
  /\ sm' = [sm EXCEPT ![c] = "Active"]
  /\ token' = [token EXCEPT ![c] = issued]
  /\ gen' = [gen EXCEPT ![c] = store[s].gen + 1]
  /\ issued' = issued + 1
  /\ answer' = [answer EXCEPT ![c] = "OK"]
  /\ UNCHANGED <<now, timers, known, lastOpened>>

(* Mutant: the resumed session starts at the generation it was left at.    *)
ReconnectMatch_SameGeneration(c, s) ==
  /\ pc[c] = "idle"
  /\ Suspended(s)
  /\ issued < MaxTokens
  /\ store' = [store EXCEPT ![s] = NoEntry]
  /\ uses' = [uses EXCEPT ![store[s].tok] = @ + 1]
  /\ sess' = [sess EXCEPT ![c] = s]
  /\ pc' = [pc EXCEPT ![c] = "resuming"]
  /\ sm' = [sm EXCEPT ![c] = "Active"]
  /\ token' = [token EXCEPT ![c] = issued]
  /\ gen' = [gen EXCEPT ![c] = store[s].gen]
  /\ issued' = issued + 1
  /\ answer' = [answer EXCEPT ![c] = "OK"]
  /\ UNCHANGED <<now, timers, known, lastOpened>>

(* server_complete_reconnect with the token of the entry: try_reconnect    *)
(* removes it under the lock, resume() makes the state machine Active, a   *)
(* new token is drawn, and the task awaits the write of AuthResult{OK}.    *)
(* A state machine that is not Suspended is the Violation arm.             *)
ReconnectMatch(c, s) ==
  /\ pc[c] = "idle"
  /\ Suspended(s)
  /\ issued < MaxTokens
  /\ store' = [store EXCEPT ![s] = NoEntry]
  /\ uses' = [uses EXCEPT ![store[s].tok] = @ + 1]
  /\ sess' = [sess EXCEPT ![c] = s]
  /\ IF store[s].sm = "Suspended"
     THEN /\ pc' = [pc EXCEPT ![c] = "resuming"]
          /\ sm' = [sm EXCEPT ![c] = "Active"]
          /\ token' = [token EXCEPT ![c] = issued]
          /\ gen' = [gen EXCEPT ![c] = store[s].gen + 1]
          /\ issued' = issued + 1
          /\ answer' = [answer EXCEPT ![c] = "OK"]
     ELSE /\ pc' = [pc EXCEPT ![c] = "violation"]
          /\ UNCHANGED <<sm, token, gen, issued, answer>>
  /\ UNCHANGED <<now, timers, known, lastOpened>>

(* No entry, or another token: the store is left as it was and the task    *)
(* tries to send AuthResult{DENIED}.                                       *)
ReconnectMismatch(c, s, t) ==
  /\ pc[c] = "idle"
  /\ store[s].tok # t
  /\ pc' = [pc EXCEPT ![c] = "rejected"]
  /\ answer' = [answer EXCEPT ![c] = "DENIED"]
  /\ UNCHANGED <<now, sess, token, gen, sm, store, timers, issued, known,
                 lastOpened, uses>>

Reconnect(c, s, t) ==
  \/ t = store[s].tok /\ ReconnectMatch(c, s)
  \/ ReconnectMismatch(c, s, t)

Goto(c, from, to) ==
  /\ pc[c] = from
  /\ pc' = [pc EXCEPT ![c] = to]
  /\ UNCHANGED <<now, sess, token, gen, sm, store, timers, issued, known,
                 history>>

ResumeWritten(c) == Goto(c, "resuming", "setup")

(* The write fails: ReconnectServerError::Write, which establish_connection *)
(* turns into ReconnectRejected.                                           *)
ResumeWriteFails(c) == Goto(c, "resuming", "rejected")

(* The first Instance is open; on_channel_live makes a fresh session       *)
(* Active, a resumed one already is.  Next the feedback stream is awaited. *)
Opened(c) ==
  /\ pc[c] = "setup"
  /\ lastOpened' = [lastOpened EXCEPT ![sess[c]] = gen[c]]
  /\ pc' = [pc EXCEPT ![c] = "ready"]
  /\ sm' = [sm EXCEPT ![c] = "Active"]
  /\ UNCHANGED <<now, sess, token, gen, store, timers, issued, known, answer,
                 uses>>

FeedbackAccepted(c) == Goto(c, "ready", "active")

(* A `?' before run_active_session: TimeSync, capture, opening the first   *)
(* Instance, accepting the feedback stream.  The task returns; nothing is  *)
(* suspended.  "lost" when the transport failed, else "ended".             *)
SetupFails(c) ==
  \E from \in {"setup", "ready"}, to \in {"lost", "ended"} : Goto(c, from, to)

(* A backpressure reset or an honoured KeyframeRequest: prepare_reopen.    *)
Reopen(c) ==
  /\ pc[c] = "active"
  /\ gen[c] < MaxGeneration
  /\ pc' = [pc EXCEPT ![c] = "reopening"]
  /\ gen' = [gen EXCEPT ![c] = @ + 1]
  /\ UNCHANGED <<now, sess, token, sm, store, timers, issued, known, history>>

Reopened(c) ==
  /\ pc[c] = "reopening"
  /\ pc' = [pc EXCEPT ![c] = "active"]
  /\ lastOpened' = [lastOpened EXCEPT ![sess[c]] = gen[c]]
  /\ UNCHANGED <<now, sess, token, gen, sm, store, timers, issued, known,
                 answer, uses>>

(* SessionClose, shutdown, or an error is_transport_disconnect rejects.    *)
SessionEnds(c) ==
  \E from \in {"active", "reopening"} : Goto(c, from, "ended")

(* Mutant: the state machine is stored before suspend() was called on it.  *)
SessionLost_StoresActive(c) ==
  /\ pc[c] \in {"active", "reopening"}
  /\ now <= MaxTime
  /\ pc' = [pc EXCEPT ![c] = "lost"]
  /\ sm' = [sm EXCEPT ![c] = "Suspended"]
  /\ store' = [store EXCEPT ![sess[c]] =
                 [tok |-> token[c], gen |-> gen[c], sm |-> "Active", since |-> now]]
  /\ timers' = timers \cup
                 {[sid |-> sess[c], tok |-> token[c], due |-> now + Grace]}
  /\ UNCHANGED <<now, sess, token, gen, issued, known, history>>

(* Mutant: suspend stores the session but schedules no expiry.             *)
SessionLost_NoTimer(c) ==
  /\ pc[c] \in {"active", "reopening"}
  /\ now <= MaxTime
  /\ pc' = [pc EXCEPT ![c] = "lost"]
  /\ sm' = [sm EXCEPT ![c] = "Suspended"]
  /\ store' = [store EXCEPT ![sess[c]] =
                 [tok |-> token[c], gen |-> gen[c], sm |-> "Suspended", since |-> now]]
  /\ timers' = timers
  /\ UNCHANGED <<now, sess, token, gen, issued, known, history>>

(* Mutant: the entry is stored without its token.                          *)
SessionLost_NoToken(c) ==
  /\ pc[c] \in {"active", "reopening"}
  /\ now <= MaxTime
  /\ pc' = [pc EXCEPT ![c] = "lost"]
  /\ sm' = [sm EXCEPT ![c] = "Suspended"]
  /\ store' = [store EXCEPT ![sess[c]] =
                 [tok |-> None, gen |-> gen[c], sm |-> "Suspended", since |-> now]]
  /\ timers' = timers \cup
                 {[sid |-> sess[c], tok |-> token[c], due |-> now + Grace]}
  /\ UNCHANGED <<now, sess, token, gen, issued, known, history>>

(* IdleTimeout or a transport error in run_active_session:                 *)
(* suspend_and_schedule_expiry, in one step without an await.              *)
SessionLost(c) ==
  /\ pc[c] \in {"active", "reopening"}
  /\ now <= MaxTime
  /\ IF sm[c] = "Active"
     THEN /\ pc' = [pc EXCEPT ![c] = "lost"]
          /\ sm' = [sm EXCEPT ![c] = "Suspended"]
          /\ store' = [store EXCEPT ![sess[c]] =
                         [tok |-> token[c], gen |-> gen[c],
                          sm |-> "Suspended", since |-> now]]
          /\ timers' = timers \cup
                         {[sid |-> sess[c], tok |-> token[c], due |-> now + Grace]}
     ELSE /\ pc' = [pc EXCEPT ![c] = "violation"]
          /\ UNCHANGED <<sm, store, timers>>
  /\ UNCHANGED <<now, sess, token, gen, issued, known, history>>

(* Mutant: expire, which removes whatever entry the session has.           *)
ExpireIfTokenMatches_AnyToken(s, t) == store' = [store EXCEPT ![s] = NoEntry]

(* expire_if_token_matches.                                                *)
ExpireIfTokenMatches(s, t) ==
  store' = IF store[s].tok = t THEN [store EXCEPT ![s] = NoEntry] ELSE store

(* An expiry task wakes up, at its time or later.                          *)
TimerFires(s, t) ==
  \E tm \in timers :
    /\ tm.sid = s /\ tm.tok = t
    /\ now >= tm.due
    /\ timers' = timers \ {tm}
    /\ ExpireIfTokenMatches(s, t)
    /\ UNCHANGED <<now, task, issued, known, history>>

ConnStep(c) ==
  \/ \E s \in Sessions : Handshake(c, s)
  \/ \E s \in Sessions, t \in (0 .. issued - 1) \cup {MaxTokens} : Reconnect(c, s, t)
  \/ ResumeWritten(c)
  \/ ResumeWriteFails(c)
  \/ Opened(c)
  \/ FeedbackAccepted(c)
  \/ SetupFails(c)
  \/ Reopen(c)
  \/ Reopened(c)
  \/ SessionEnds(c)
  \/ SessionLost(c)

Next ==
  \/ Tick
  \/ \E c \in Conns : ConnStep(c)
  \/ \E s \in Sessions, t \in Token : TimerFires(s, t)

(* The runtime's clock runs and wakes the tasks whose sleep is over.       *)
Fairness ==
  /\ WF_vars(Tick)
  /\ \A s \in Sessions, t \in Token : WF_vars(TimerFires(s, t))

Spec == Init /\ [][Next]_vars /\ Fairness

-----------------------------------------------------------------------------
PcState == {"idle", "lost", "ended", "rejected", "violation"} \cup Owning

Timer == [sid : Sessions, tok : Token, due : Nat]

TypeOK ==
  /\ now \in Nat
  /\ pc \in [Conns -> PcState]
  /\ sess \in [Conns -> Sessions \cup {NoSession}]
  /\ token \in [Conns -> Token \cup {None}]
  /\ gen \in [Conns -> Nat]
  /\ sm \in [Conns -> {"Handshaking", "Authenticated", "Active", "Suspended"}]
  /\ store \in [Sessions -> Entry \cup {NoEntry}]
  /\ timers \subseteq Timer
  /\ issued \in 0 .. MaxTokens
  /\ known \subseteq Sessions
  /\ answer \in [Conns -> {"none", "OK", "DENIED"}]
  /\ lastOpened \in [Sessions -> Nat \cup {None}]
  /\ uses \in [Token -> Nat]

(* A session is in one place: on one connection task or in the store.  So  *)
(* suspend never replaces an entry (session_store.rs:59, "there should     *)
(* never be one") and no two desktops are driven by one session.           *)
OneOwner ==
  \A s \in Sessions :
    /\ \A c, d \in Conns : Owns(c, s) /\ Owns(d, s) => c = d
    /\ Suspended(s) => \A c \in Conns : ~Owns(c, s)

(* A token resumes a session at most once (session_store.rs:2,             *)
(* "preventing a stolen or replayed token from being used twice"), however *)
(* many connections present it and whatever happens after it was consumed. *)
TokenSingleUse == \A t \in Token : uses[t] <= 1

(* resume() and suspend() are only called in the state they require: no    *)
(* session is dropped because its state machine refuses.                   *)
NoProtocolViolation == \A c \in Conns : pc[c] # "violation"

(* DR-026: the generation about to be opened is higher than any opened     *)
(* for the session before, on this connection or an earlier one.           *)
GenerationsGrow ==
  \A c \in Conns :
    pc[c] \in {"resuming", "setup", "reopening"} =>
      gen[c] > lastOpened[sess[c]]

(* A suspended session disappears before its own grace period is over only *)
(* because a reconnection took it: the timer of an earlier episode never   *)
(* removes a later one (KNOWN_ISSUES.md:13, session_store.rs:113).         *)
ExpiryNeedsGrace ==
  [][ \A s \in Sessions :
        Suspended(s) /\ ~Suspended(s)' =>
          \/ now >= store[s].since + Grace
          \/ \E c \in Conns : pc[c] = "idle" /\ Owns(c, s)' ]_vars

(* Every suspended session is resumed or expires: nothing is leaked.       *)
SuspensionEnds ==
  \A s \in Sessions : Suspended(s) ~> ~Suspended(s)

-----------------------------------------------------------------------------
(* The session each task, store entry and connection adds up to.           *)
StatusOf(s) ==
  IF s \notin known THEN "unknown"
  ELSE IF Suspended(s) THEN "suspended"
  ELSE IF \E c \in Conns : Owns(c, s) THEN "live" ELSE "gone"

SessionStatus == [s \in Sessions |-> StatusOf(s)]

Lifecycle == INSTANCE SessionLifecycle WITH
  status <- SessionStatus,
  shown <- lastOpened

(* The server implements the session life cycle of the specification: the  *)
(* connections, store and timers together behave as one session each.      *)
ImplementsLifecycle == Lifecycle!Spec
-----------------------------------------------------------------------------
(* The strengthening the proofs need.  A token in somebody's hands is      *)
(* unused, and no two holders (tasks, store entries) have the same one.    *)
TokensUnspent ==
  /\ \A c \in Conns : pc[c] \in Owning =>
       /\ token[c] \in Token /\ token[c] < issued /\ uses[token[c]] = 0
       /\ sess[c] \in known
  /\ \A s \in Sessions : Suspended(s) =>
       /\ store[s].tok < issued /\ uses[store[s].tok] = 0
       /\ s \in known
  /\ \A t \in Token : t >= issued => uses[t] = 0

TokensDistinct ==
  /\ \A c, d \in Conns :
       pc[c] \in Owning /\ pc[d] \in Owning /\ c # d => token[c] # token[d]
  /\ \A c \in Conns, s \in Sessions :
       pc[c] \in Owning /\ Suspended(s) => token[c] # store[s].tok
  /\ \A s, r \in Sessions :
       Suspended(s) /\ Suspended(r) /\ s # r => store[s].tok # store[r].tok

(* A timer belongs to one episode: the one its token names.                *)
TimersOfEpisodes ==
  \A tm \in timers :
    /\ tm.tok < issued
    /\ \A c \in Conns : pc[c] \in Owning => token[c] # tm.tok
    /\ store[tm.sid].tok = tm.tok => tm.due = store[tm.sid].since + Grace

MachinesFollow ==
  /\ \A c \in Conns :
       pc[c] \in {"resuming", "ready", "active", "reopening"} => sm[c] = "Active"
  /\ \A s \in Sessions : Suspended(s) => store[s].sm = "Suspended"

GenerationsFollow ==
  /\ \A c \in Conns :
       pc[c] \in {"ready", "active"} => gen[c] >= lastOpened[sess[c]]
  /\ \A s \in Sessions :
       /\ Suspended(s) => store[s].gen >= lastOpened[s]
       /\ s \notin known => lastOpened[s] = None
  /\ \A c \in Conns : pc[c] = "idle" => gen[c] = 0

(* The inductive invariant of the proofs; checked by TLC as well.          *)
ReconnectionInv ==
  /\ TypeOK
  /\ OneOwner
  /\ TokenSingleUse
  /\ NoProtocolViolation
  /\ GenerationsGrow
  /\ TokensUnspent
  /\ TokensDistinct
  /\ TimersOfEpisodes
  /\ MachinesFollow
  /\ GenerationsFollow

=============================================================================
