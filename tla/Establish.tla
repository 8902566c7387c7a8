------------------------------ MODULE Establish ------------------------------
(***************************************************************************)
(* How a session comes about, from the start of the client process to the  *)
(* two main loops: the handshake (handshake.rs, auth.rs) or the            *)
(* reconnection (reconnection.rs), the session file (session_file.rs),     *)
(* time synchronisation (timesync.rs), the first video Instance and the    *)
(* feedback stream, as run() of sardp-client and handle_connection of      *)
(* sardp-server go through them.                                           *)
(*                                                                         *)
(* One client process runs at a time, each run on a connection of its own; *)
(* it may crash between any two awaits, and is started again with the same *)
(* --session-file.  The server task of an earlier connection may still be  *)
(* running: it notices a lost connection some time later.  A control       *)
(* stream is a queue of messages in each direction.  Timers fire whenever  *)
(* the await they bound is waiting.                                        *)
(***************************************************************************)
EXTENDS ConnectionSm, TimeSync, FiniteSets

CONSTANTS Rounds,       \* DEFAULT_TIME_SYNC_ROUNDS
          ClockOffset,  \* the server's clock minus the client's
          Delays,       \* one-way delays of a TimeSync message
          Processing,   \* what the server's clock advances between t2 and t3
          MaxRuns,      \* bound: starts of the client
          Keys,         \* signing keys a client may be started with
          Trusted       \* --trusted-pubkey

ASSUME EstablishAssumption ==
    /\ Rounds \in Nat \ {0} /\ MaxRuns \in Nat
    /\ ClockOffset \in Int /\ Delays \subseteq Nat /\ Processing \subseteq Nat
    /\ Trusted \in Keys

VARIABLES client,    \* the running process: see Off
          file,      \* the session file's contents, or NoFile
          server,    \* the task of each connection
          store,     \* SessionStore: the suspended sessions
          up, down,  \* the control stream of each connection
          instance,  \* generation of the video Instance opened, or None
          feedback,  \* whether the client has opened the feedback stream
          open,      \* whether the connection is up
          runs, issued,  \* connections so far, tokens drawn so far
          failed     \* history: tokens whose write to the file failed

wire == <<up, down, instance, feedback, open>>
vars == <<client, file, server, store, wire, runs, issued, failed>>

None == -1
Conns == 1..MaxRuns
NoFile == [id |-> None, tok |-> None]

Off == [pc |-> "off", conn |-> 0, key |-> Trusted, sm |-> "Handshaking",
        id |-> None, tok |-> None, resumed |-> FALSE, gen |-> None, rounds |-> <<>>]

NoTask == [pc |-> "none", sm |-> "Handshaking", id |-> None, tok |-> None,
           gen |-> 0, resumed |-> FALSE]

-----------------------------------------------------------------------------
(* Messages.  A hash stands for what it is computed from, a signature for  *)
(* the key and the exporter it was made with, an exporter for the          *)
(* connection and the context.                                             *)

Prologue == [type |-> "PROLOGUE", kind |-> "Control"]
ClientHello == [type |-> "CLIENT_HELLO", auth_methods |-> {"PublicKey"}]
ServerHello(challenge) == [type |-> "SERVER_HELLO", auth_challenge |-> challenge]
AuthPubkey(key, signature) ==
    [type |-> "AUTH_PUBKEY", public_key |-> key, signature |-> signature]
AuthResult(status, id, tok) ==
    [type |-> "AUTH_RESULT", status |-> status, session_id |-> id, reconnect_token |-> tok]
SessionReauthenticate(id, tok) ==
    [type |-> "SESSION_REAUTHENTICATE", prior_session_id |-> id, reconnect_token |-> tok]
TimeSyncRequest == [type |-> "TIME_SYNC_REQUEST", t1 |-> 0]
TimeSyncResponse(t2, t3) == [type |-> "TIME_SYNC_RESPONSE", t1 |-> 0, t2 |-> t2, t3 |-> t3]
SessionClose == [type |-> "SESSION_CLOSE"]

channel_binding_context(hello, answer) == <<hello, answer, answer.auth_challenge>>
compute_exporter(c, context) == <<c, context>>
sign_exporter(key, exporter) == <<key, exporter>>
verify_exporter(key, exporter, signature) == signature = sign_exporter(key, exporter)

Writes(queue, c, messages) == [queue EXCEPT ![c] = IF open[c] THEN @ \o messages ELSE @]
Reads(queue, c) == [queue EXCEPT ![c] = Tail(@)]

-----------------------------------------------------------------------------
(* The client process *)

here == client.conn
clientOnly == <<server, store, instance, runs, issued>>

\* The process ends, by an error, a timeout's panic or a crash.  What it has
\* written may still arrive.
Exits ==
    /\ client' = Off
    /\ open' = [open EXCEPT ![here] = FALSE]
    /\ UNCHANGED <<up, down, feedback, file, failed>>

\* A saved session is resumed by a state machine replayed up to Suspended;
\* without one, or when it does not parse, there is a fresh handshake.
Starts(key) ==
    /\ client.pc = "off" /\ runs < MaxRuns
    /\ runs' = runs + 1
    /\ open' = [open EXCEPT ![runs'] = TRUE]
    /\ server' = [server EXCEPT ![runs'].pc = "control"]
    /\ client' = IF file = NoFile
                 THEN [Off EXCEPT !.pc = "greet", !.conn = runs', !.key = key]
                 ELSE [Off EXCEPT !.pc = "reauthenticate", !.conn = runs', !.key = key,
                                  !.id = file.id, !.tok = file.tok, !.resumed = TRUE,
                                  !.sm = suspend(on_channel_live(complete_authentication(
                                             complete_handshake("Handshaking"))))]
    /\ UNCHANGED <<file, store, up, down, instance, feedback, issued, failed>>

Sends(from, messages, to) ==
    /\ client.pc = from /\ open[here]
    /\ up' = Writes(up, here, messages)
    /\ client' = [client EXCEPT !.pc = to]
    /\ UNCHANGED <<file, down, feedback, open, failed, clientOnly>>

SendsClientHello == Sends("greet", <<Prologue, ClientHello>>, "hello")

SendsReauthenticate ==
    Sends("reauthenticate", <<Prologue, SessionReauthenticate(client.id, client.tok)>>, "resuming")

Answer == Head(down[here])

\* ServerHello: its type is checked, the exporter signed and AuthPubkey sent.
GetsServerHello ==
    /\ client.pc = "hello" /\ down[here] # <<>>
    /\ IF ~check_message(client.sm, Answer.type) THEN Exits
       ELSE LET exporter == compute_exporter(here, channel_binding_context(ClientHello, Answer))
            IN /\ client' = [client EXCEPT !.pc = "auth", !.sm = complete_handshake(@)]
               /\ up' = Writes(up, here, <<AuthPubkey(client.key, sign_exporter(client.key, exporter))>>)
               /\ down' = Reads(down, here)
               /\ UNCHANGED <<file, feedback, open, failed>>
    /\ UNCHANGED clientOnly

\* AuthResult: anything but Ok ends the client; otherwise its token, the
\* session's id and the state machine's next state are kept.
TakesResult(from, id, sm) ==
    /\ client.pc = from /\ down[here] # <<>>
    /\ IF Answer.type # "AUTH_RESULT" \/ Answer.status # "Ok" THEN Exits
       ELSE /\ client' = [client EXCEPT !.pc = "save", !.tok = Answer.reconnect_token,
                                        !.id = id, !.sm = sm]
            /\ down' = Reads(down, here)
            /\ UNCHANGED <<file, up, feedback, open, failed>>
    /\ UNCHANGED clientOnly

GetsAuthResult ==
    TakesResult("auth", Answer.session_id, complete_authentication(client.sm))

\* A resumed session keeps the id it asked for.
GetsResumeResult == TakesResult("resuming", client.id, resume(client.sm))

\* std::fs::write empties the file first; a failure is only logged.
TruncatesFile ==
    /\ client.pc = "save"
    /\ file' = NoFile
    /\ client' = [client EXCEPT !.pc = "write"]
    /\ UNCHANGED <<up, down, feedback, open, failed, clientOnly>>

WritesFile ==
    /\ client.pc = "write"
    /\ file' = [id |-> client.id, tok |-> client.tok]
    /\ client' = [client EXCEPT !.pc = "request"]
    /\ UNCHANGED <<up, down, feedback, open, failed, clientOnly>>

WriteFails ==
    /\ client.pc \in {"save", "write"}
    /\ failed' = failed \cup {client.tok}
    /\ client' = [client EXCEPT !.pc = "request"]
    /\ UNCHANGED <<file, up, down, feedback, open, clientOnly>>

SendsTimeSync == Sends("request", <<TimeSyncRequest>>, "response")

\* t4 is the client's own clock when the response arrives.
GetsTimeSync ==
    /\ client.pc = "response" /\ down[here] # <<>>
    /\ IF Answer.type # "TIME_SYNC_RESPONSE" THEN Exits
       ELSE /\ \E delay \in Delays :
                 LET t4 == Answer.t3 - ClockOffset + delay
                     rounds == Append(client.rounds, compute(Answer.t1, Answer.t2, Answer.t3, t4))
                 IN client' = [client EXCEPT
                        !.rounds = rounds,
                        !.pc = IF Len(rounds) < Rounds THEN "request" ELSE "instance"]
            /\ down' = Reads(down, here)
            /\ UNCHANGED <<file, up, feedback, open, failed>>
    /\ UNCHANGED clientOnly

\* The Instance is there; the feedback stream is opened next.
AcceptsInstance ==
    /\ client.pc = "instance" /\ instance[here] # None
    /\ client' = [client EXCEPT !.pc = "active", !.gen = instance[here],
                                !.sm = IF client.resumed THEN @ ELSE on_channel_live(@)]
    /\ feedback' = [feedback EXCEPT ![here] = open[here]]
    /\ UNCHANGED <<file, up, down, open, failed, clientOnly>>

\* HANDSHAKE_TIMEOUT, AUTH_TIMEOUT and SESSION_SETUP_TIMEOUT.  Nothing bounds
\* the reconnection or the TimeSync rounds.
Bounded == {"hello", "auth", "instance"}

ClientFails ==
    /\ client.pc # "off"
    /\ client.pc \in Bounded \/ ~open[here]
    /\ Exits /\ UNCHANGED clientOnly

Crashes == client.pc # "off" /\ Exits /\ UNCHANGED clientOnly

\* close_gracefully: the connection is closed whether or not SessionClose
\* has been read.
ClosesGracefully ==
    /\ client.pc = "active"
    /\ up' = Writes(up, here, <<SessionClose>>)
    /\ client' = Off
    /\ open' = [open EXCEPT ![here] = FALSE]
    /\ UNCHANGED <<file, down, feedback, failed, clientOnly>>

-----------------------------------------------------------------------------
(* The server's connection tasks *)

serverOnly == <<client, file, feedback, runs, failed>>

First(c) == Head(up[c])

\* The task returns and drops the connection.
Over(c) ==
    /\ server' = [server EXCEPT ![c].pc = "over"]
    /\ open' = [open EXCEPT ![c] = FALSE]

EndsTask(c) == Over(c) /\ UNCHANGED <<store, up, down, instance, issued>>

\* accept_control_prologue, which has no deadline.
AcceptsControl(c) ==
    /\ server[c].pc = "control" /\ up[c] # <<>>
    /\ up' = Reads(up, c)
    /\ server' = [server EXCEPT ![c].pc = "first"]
    /\ UNCHANGED <<store, down, instance, open, issued, serverOnly>>

\* read_first_control_message finds ClientHello; ServerHello follows within
\* the same deadline.
GetsClientHello(c) ==
    /\ server[c].pc = "first" /\ up[c] # <<>> /\ First(c).type = "CLIENT_HELLO"
    /\ up' = Reads(up, c)
    /\ down' = Writes(down, c, <<ServerHello(c)>>)
    /\ server' = [server EXCEPT ![c].pc = "auth", ![c].sm = complete_handshake(@)]
    /\ UNCHANGED <<store, instance, open, issued, serverOnly>>

\* AuthPubkey is verified against the trusted key and this connection's
\* exporter.
GetsAuthPubkey(c) ==
    LET exporter == compute_exporter(c, channel_binding_context(ClientHello, ServerHello(c)))
    IN
    /\ server[c].pc = "auth" /\ up[c] # <<>>
    /\ IF ~check_message(server[c].sm, First(c).type) THEN EndsTask(c)
       ELSE /\ up' = Reads(up, c)
            /\ IF First(c).public_key = Trusted
                  /\ verify_exporter(First(c).public_key, exporter, First(c).signature)
               THEN /\ down' = Writes(down, c, <<AuthResult("Ok", c, issued)>>)
                    /\ server' = [server EXCEPT ![c].pc = "sync", ![c].id = c, ![c].tok = issued,
                                                ![c].sm = complete_authentication(@)]
                    /\ issued' = issued + 1
                    /\ UNCHANGED open
               ELSE /\ down' = Writes(down, c, <<AuthResult("Denied", None, None)>>)
                    /\ Over(c)
                    /\ UNCHANGED issued
            /\ UNCHANGED <<store, instance>>
    /\ UNCHANGED serverOnly

(* Mutant: the AuthResult repeats the token just consumed.                 *)
ResumeResult_OldToken(entry, fresh) == AuthResult("Ok", entry.id, entry.tok)

\* AuthResult of a reconnection: the session's id and a new token.
ResumeResult(entry, fresh) == AuthResult("Ok", entry.id, fresh)

\* server_complete_reconnect.
GetsReauthenticate(c) ==
    LET match == {e \in store : e.id = First(c).prior_session_id
                                /\ e.tok = First(c).reconnect_token}
    IN
    /\ server[c].pc = "first" /\ up[c] # <<>> /\ First(c).type = "SESSION_REAUTHENTICATE"
    /\ up' = Reads(up, c)
    /\ IF match = {}
       THEN /\ down' = Writes(down, c, <<AuthResult("Denied", None, None)>>)
            /\ Over(c)
            /\ UNCHANGED <<store, issued>>
       ELSE \E e \in match :
            /\ store' = store \ {e}
            /\ down' = Writes(down, c, <<ResumeResult(e, issued)>>)
            /\ server' = [server EXCEPT ![c] = [pc |-> "sync", sm |-> resume(e.sm), id |-> e.id,
                              tok |-> issued, gen |-> e.gen + 1, resumed |-> TRUE]]
            /\ issued' = issued + 1
            /\ UNCHANGED open
    /\ UNCHANGED <<instance, serverOnly>>

\* server_respond_time_sync_burst, and the main loop, answer a request: t2 is
\* read when the request is in hand and t3 when it has been decoded.
AnswersTimeSync(c) ==
    /\ server[c].pc \in {"sync", "gap", "active"} /\ up[c] # <<>>
    /\ First(c).type = "TIME_SYNC_REQUEST"
    /\ \E delay \in Delays, took \in Processing :
           LET t2 == delay + ClockOffset
           IN down' = Writes(down, c, <<TimeSyncResponse(t2, t2 + took)>>)
    /\ up' = Reads(up, c)
    /\ server' = [server EXCEPT ![c].pc = IF @ = "active" THEN "active" ELSE "gap"]
    /\ UNCHANGED <<store, instance, open, issued, serverOnly>>

\* No further request within follow_up_gap of the last answer.
GapElapses(c) ==
    /\ server[c].pc = "gap"
    /\ server' = [server EXCEPT ![c].pc = "opening"]
    /\ UNCHANGED <<store, wire, issued, serverOnly>>

\* Capture starts and the first Instance is opened.
OpensInstance(c) ==
    /\ server[c].pc = "opening"
    /\ instance' = [instance EXCEPT ![c] = IF open[c] THEN server[c].gen ELSE None]
    /\ server' = [server EXCEPT ![c].pc = "feedback",
                                ![c].sm = IF server[c].resumed THEN @ ELSE on_channel_live(@)]
    /\ UNCHANGED <<store, up, down, open, issued, serverOnly>>

\* FeedbackReceiver::accept, which has no deadline either.
AcceptsFeedback(c) ==
    /\ server[c].pc = "feedback" /\ feedback[c]
    /\ server' = [server EXCEPT ![c].pc = "active"]
    /\ UNCHANGED <<store, wire, issued, serverOnly>>

\* A deadline or an error of the set-up, or an error of the main loop that
\* is not the loss of the connection: nothing is suspended.
ServerFails(c) ==
    /\ server[c].pc \in {"first", "auth", "opening", "active"}
    /\ EndsTask(c) /\ UNCHANGED serverOnly

GetsSessionClose(c) ==
    /\ server[c].pc = "active" /\ up[c] # <<>> /\ First(c).type = "SESSION_CLOSE"
    /\ EndsTask(c) /\ UNCHANGED serverOnly

(* Mutant: a connection lost while it is set up suspends its session too.  *)
SuspendsFrom_Setup == {"sync", "gap", "opening", "feedback", "active"}

\* Only run_active_session's errors lead to suspend_and_store.
SuspendsFrom == {"active"}

NoticesLoss(c) ==
    /\ ~open[c] /\ server[c].pc \notin {"none", "over"}
    /\ server' = [server EXCEPT ![c].pc = "over"]
    /\ store' = IF server[c].pc \in SuspendsFrom
                THEN store \cup {[id |-> server[c].id, tok |-> server[c].tok,
                                  gen |-> server[c].gen, sm |-> suspend(server[c].sm)]}
                ELSE store
    /\ UNCHANGED <<wire, issued, serverOnly>>

Expires ==
    /\ \E e \in store : store' = store \ {e}
    /\ UNCHANGED <<server, wire, issued, serverOnly>>

-----------------------------------------------------------------------------
\* Both ends wait for the other, and neither has a timer running.
Stalled ==
    /\ client.pc \in {"resuming", "response", "active"} /\ open[here]
    /\ client.pc # "active" => down[here] = <<>>
    /\ \/ server[here].pc \in {"control", "sync"} /\ up[here] = <<>>
       \/ server[here].pc = "feedback" /\ ~feedback[here]

\* The network fails; QUIC's own idle timeout ends a stall the same way.
ConnectionLost ==
    /\ client.pc # "off" /\ open[here]
    /\ open' = [open EXCEPT ![here] = FALSE]
    /\ UNCHANGED <<client, file, server, store, up, down, instance, feedback, runs, issued, failed>>

Init ==
    /\ client = Off /\ file = NoFile
    /\ server = [c \in Conns |-> NoTask]
    /\ store = {} /\ failed = {}
    /\ up = [c \in Conns |-> <<>>] /\ down = [c \in Conns |-> <<>>]
    /\ instance = [c \in Conns |-> None]
    /\ feedback = [c \in Conns |-> FALSE] /\ open = [c \in Conns |-> FALSE]
    /\ runs = 0 /\ issued = 0

ClientStep ==
    \/ SendsClientHello \/ SendsReauthenticate
    \/ GetsServerHello \/ GetsAuthResult \/ GetsResumeResult
    \/ TruncatesFile \/ WritesFile \/ WriteFails
    \/ SendsTimeSync \/ GetsTimeSync
    \/ AcceptsInstance \/ ClientFails

ServerStep(c) ==
    \/ AcceptsControl(c) \/ GetsClientHello(c) \/ GetsAuthPubkey(c) \/ GetsReauthenticate(c)
    \/ AnswersTimeSync(c) \/ GapElapses(c) \/ OpensInstance(c) \/ AcceptsFeedback(c)
    \/ ServerFails(c) \/ GetsSessionClose(c) \/ NoticesLoss(c)

Next ==
    \/ \E key \in Keys : Starts(key)
    \/ ClientStep \/ Crashes \/ ClosesGracefully
    \/ \E c \in Conns : ServerStep(c)
    \/ Expires \/ ConnectionLost

Spec == Init /\ [][Next]_vars

-----------------------------------------------------------------------------
(* The states the system can be in, and the inductive invariant *)

ClientPc == {"off", "greet", "hello", "auth", "reauthenticate", "resuming", "save", "write",
             "request", "response", "instance", "active"}
ServerPc == {"none", "control", "first", "auth", "sync", "gap", "opening", "feedback", "active",
             "over"}
Round == [offset_us : Int, rtt_us : Nat]
SavedSession == [id : Int, tok : Int]
Process == [pc : ClientPc, conn : Nat, key : Keys, sm : State, id : Int, tok : Int,
            resumed : BOOLEAN, gen : Int, rounds : Seq(Round)]
Task == [pc : ServerPc, sm : State, id : Int, tok : Int, gen : Int, resumed : BOOLEAN]
Suspended == [id : Int, tok : Nat, gen : Int, sm : {"Suspended"}]

(* Every variable keeps its type; the queues have an invariant of their own. *)
TypeOK ==
    /\ client \in Process
    /\ file \in SavedSession
    /\ server \in [Conns -> Task]
    /\ store \subseteq Suspended
    /\ DOMAIN up = Conns /\ DOMAIN down = Conns
    /\ instance \in [Conns -> Int]
    /\ feedback \in [Conns -> BOOLEAN] /\ open \in [Conns -> BOOLEAN]
    /\ runs \in 0..MaxRuns /\ issued \in Nat
    /\ failed \subseteq Int

\* The client has a session of this connection, with its token.
HasResult == {"save", "write", "request", "response", "instance", "active"}

\* A task before it has a session, and with one.
Early == {"none", "control", "first", "auth"}
Live == {"sync", "gap", "opening", "feedback", "active"}

ClientSm(pc, resumed) ==
    CASE pc = "auth"                             -> "Authenticating"
      [] pc \in {"reauthenticate", "resuming"}   -> "Suspended"
      [] pc = "active"                           -> "Active"
      [] pc \in HasResult \ {"active"}           -> IF resumed THEN "Active" ELSE "Authenticated"
      [] OTHER                                   -> "Handshaking"

\* A process that runs is on the latest connection.  It resumes what the
\* session file holds, and what it got is in that file unless a write failed.
ClientPhases ==
    /\ client.conn = IF client.pc = "off" THEN 0 ELSE runs
    /\ client.pc # "off" => runs \in Conns
    /\ client.sm = ClientSm(client.pc, client.resumed)
    /\ client.pc \in {"greet", "hello", "auth"} => ~client.resumed /\ file = NoFile
    /\ client.pc \in {"reauthenticate", "resuming"}
       => client.resumed /\ file = [id |-> client.id, tok |-> client.tok]
    /\ client.pc \in {"request", "response", "instance", "active"}
       => client.tok \in failed \/ file = [id |-> client.id, tok |-> client.tok]

ServerSm(pc, resumed) ==
    CASE pc = "auth"                      -> "Authenticating"
      [] pc \in {"feedback", "active"}    -> "Active"
      [] pc \in {"sync", "gap", "opening"} -> IF resumed THEN "Active" ELSE "Authenticated"
      [] OTHER                            -> "Handshaking"

\* A task has a session once it has authenticated its peer; then come, in
\* this order, its Instance, the client's feedback stream and the main loop.
ServerPhases ==
    \A c \in Conns :
        /\ server[c].pc # "over" => server[c].sm = ServerSm(server[c].pc, server[c].resumed)
        /\ server[c].pc \in Early => server[c].id = None /\ ~server[c].resumed
        /\ server[c].pc \in Live => server[c].id # None
        /\ instance[c] # None => /\ server[c].pc \in {"feedback", "active", "over"}
                                 /\ instance[c] = server[c].gen
        /\ feedback[c] => instance[c] # None /\ server[c].id # None
        /\ server[c].pc = "active" => feedback[c]
        /\ c > runs => server[c].pc = "none" /\ up[c] = <<>>

\* What both ends of the client's connection know of each other.
Agreement ==
    client.pc # "off" =>
        /\ server[here].id # None
           => /\ server[here].resumed = client.resumed
              /\ client.resumed => server[here].id = client.id
        /\ client.pc \in HasResult
           => /\ server[here].id # None
              /\ client.id = server[here].id /\ client.tok = server[here].tok
        /\ client.pc = "active" => instance[here] # None /\ client.gen = instance[here]
        /\ feedback[here] => client.pc = "active"

\* What a client may have written: the latest one only what its own way of
\* starting sends.
Signed(key, c) ==
    AuthPubkey(key, sign_exporter(key,
        compute_exporter(c, channel_binding_context(ClientHello, ServerHello(c)))))
FreshMessages(c) == {ClientHello} \cup {Signed(key, c) : key \in Keys}
ResumeMessages == {SessionReauthenticate(id, tok) : id \in Int, tok \in Int}
OwnResume ==
    {m \in ResumeMessages :
        /\ m.prior_session_id = client.id
        /\ client.pc \in {"reauthenticate", "resuming"} => m.reconnect_token = client.tok}

FromClient(c) ==
    {Prologue, TimeSyncRequest, SessionClose}
    \cup (IF c = here /\ client.resumed THEN {} ELSE FreshMessages(c))
    \cup (IF c # here THEN ResumeMessages ELSE IF client.resumed THEN OwnResume ELSE {})

Responses == {TimeSyncResponse(delay + ClockOffset, delay + ClockOffset + took) :
                 delay \in Delays, took \in Processing}

FromServer(c) ==
    {ServerHello(c), AuthResult("Denied", None, None)}
    \cup Responses
    \cup (IF server[c].id = None THEN {} ELSE {AuthResult("Ok", server[c].id, server[c].tok)})

Queues == \A c \in Conns : up[c] \in Seq(FromClient(c)) /\ down[c] \in Seq(FromServer(c))

\* No two sessions that are live or suspended have the same token.
Tokens ==
    /\ \A c \in Conns : server[c].id # None => server[c].tok \in Nat /\ server[c].tok < issued
    /\ \A e \in store : e.id # None /\ e.tok < issued
    /\ \A c, d \in Conns : c # d /\ server[c].pc \in Live /\ server[d].pc \in Live
                           => server[c].tok # server[d].tok
    /\ \A c \in Conns, e \in store : server[c].pc \in Live => server[c].tok # e.tok
    /\ \A e, f \in store : e.tok = f.tok => e = f

\* The sessions a client has been told of and that are suspended, or will be
\* when their connection is lost.
Owed ==
    store \cup {server[c] : c \in {d \in Conns : server[d].pc \in {"feedback", "active"} /\ feedback[d]}}

\* They are in the file; and before a client touches the file, there is none.
Saved ==
    /\ \A e \in Owed : e.tok \notin failed => file = [id |-> e.id, tok |-> e.tok]
    /\ \/ client.pc \in {"save", "write"}
       \/ client.pc \in {"reauthenticate", "resuming"} /\ server[here].id # None
       => \A e \in Owed : e.tok \in failed

\* A round is off by at most half of its own round trip.
Near(r) == 2 * Abs(r.offset_us - ClockOffset) <= r.rtt_us + 1

RoundsNear == \A i \in DOMAIN client.rounds : Near(client.rounds[i])

EstablishInv ==
    /\ TypeOK
    /\ ClientPhases
    /\ ServerPhases
    /\ Agreement
    /\ Queues
    /\ Tokens
    /\ Saved
    /\ RoundsNear

-----------------------------------------------------------------------------
(* Properties *)

\* When both ends have reached their main loops they hold the same session:
\* its id, the token that would resume it, the generation of its Instance,
\* and both state machines are Active.
SetupAgrees ==
    client.pc = "active" /\ server[here].pc = "active"
    => /\ <<client.id, client.tok, client.gen, client.resumed>>
          = <<server[here].id, server[here].tok, server[here].gen, server[here].resumed>>
       /\ client.sm = "Active" /\ server[here].sm = "Active"

\* A suspended session can be resumed by the next start of the client: its
\* token is the one in the session file, wherever the client crashed, unless
\* that write failed.
SuspendedIsSaved ==
    \A e \in store : e.tok \notin failed => file = [id |-> e.id, tok |-> e.tok]

\* The chosen round is off by at most half of the shortest round trip (and a
\* unit of rounding), however the delays of the two directions differ.
OffsetIsBest ==
    client.rounds # <<>>
    => \A i \in DOMAIN client.rounds :
           2 * Abs(best_of(client.rounds).offset_us - ClockOffset) <= client.rounds[i].rtt_us + 1

\* The set-up always moves on: while the connection is up the two ends never
\* wait for each other without a timer.
SetupNeverStalls == ~Stalled
=============================================================================
