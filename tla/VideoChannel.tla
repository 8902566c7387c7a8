---------------------------- MODULE VideoChannel -----------------------------
(***************************************************************************)
(* One server video Channel: src/src/video_channel.rs with the Instance    *)
(* state machine (video_sm.rs), the Channel state machine (channel_sm.rs)  *)
(* and the trackers (Backpressure), driven as sardp-server.rs drives it:   *)
(*                                                                         *)
(*  handle_connection opens the first generation; run_active_session reads *)
(*  the feedback stream, and a ResetStream decision or an honoured         *)
(*  KeyframeRequest abandons the Instance and awaits the opening of the    *)
(*  next generation.  Nothing is read from the feedback stream during that *)
(*  await, so samples and requests pile up and are evaluated afterwards,   *)
(*  against the new Instance: a sample may carry any delay at any time.    *)
(*                                                                         *)
(* Every method that returns Err(ProtocolViolation) is modelled with its   *)
(* error: pc becomes "violation" and the session is over.                  *)
(***************************************************************************)
EXTENDS Backpressure

CONSTANTS
  Delays,            \* values client_queue_delay_us takes
  BytesOver,         \* values of app_send_queue_bytes > MAX_VIDEO_QUEUE_BYTES
  MinInterval,       \* KEYFRAME_REQUEST_MIN_INTERVAL_US
  SetupTimeout,      \* SESSION_SETUP_TIMEOUT, first Instance
  ConfigTimeout,     \* VIDEO_CONFIGURING_TIMEOUT, every later Instance
  StartGeneration,   \* ConnectionContext.starting_generation
  MaxTime,           \* bound on the clock while the session is active
  MaxGeneration      \* bound on the number of reopens

ASSUME VideoChannelAssumption ==
  /\ Delays \subseteq Nat
  /\ BytesOver \subseteq BOOLEAN
  /\ MinInterval \in Nat
  /\ SetupTimeout \in Nat \ {0}
  /\ ConfigTimeout \in Nat \ {0}
  /\ StartGeneration \in Nat
  /\ MaxTime \in Nat
  /\ MaxGeneration \in Nat

VARIABLES
  now,         \* clock::now_us
  pc,          \* where the connection task is
  deadline,    \* end of the tokio::time::timeout around open_generation
  outcome,     \* how the session ended
  channel,     \* ChannelSm.state
  instance,    \* VideoInstanceSm.state
  baseline,    \* VideoChannel.baseline
  congestion,  \* VideoChannel.congestion
  generation,  \* VideoChannel.generation
  lastReopen,  \* VideoChannel.last_reopen_us
  cause,       \* history: why the current generation was opened
  evidence,    \* history: what the samples of this Instance showed
  keyframes    \* history: KeyframeRequests honoured

machine == <<channel, instance, baseline, congestion, generation, lastReopen>>

history == <<cause, evidence, keyframes>>

vars == <<now, pc, deadline, outcome, machine, history>>

ChannelState == {"Initializing", "Live", "Recovering"}

(* Configuring and Closed(Reset) are left in the step that enters them:    *)
(* mark_instance_streaming makes all four set-up transitions at once, and  *)
(* prepare_reopen follows a reset without an await.                        *)
InstanceState == {"Created", "Streaming", "Congested"}

(* A run of samples above the hard threshold, the number of samples (both  *)
(* counted up to HardCount + 1) and the time of the last one not below the *)
(* soft threshold, since the Instance was opened.                          *)
Evidence == [hard : Nat, total : Nat, high : OptTime]

NoEvidence == [hard |-> 0, total |-> 0, high |-> None]

CountUp(n) == IF n > HardCount THEN n ELSE n + 1

Observe(ev, delta) ==
  [hard  |-> IF delta > HardDelta THEN CountUp(ev.hard) ELSE 0,
   total |-> CountUp(ev.total),
   high  |-> IF delta >= SoftDelta THEN now ELSE ev.high]

-----------------------------------------------------------------------------
Init ==
  /\ now = 0
  /\ pc = "opening"
  /\ deadline = SetupTimeout
  /\ outcome = "none"
  /\ channel = "Initializing"
  /\ instance = "Created"
  /\ baseline = << >>
  /\ congestion = NewCongestion
  /\ generation = StartGeneration
  /\ lastReopen = None
  /\ cause = "initial"
  /\ evidence = NoEvidence
  /\ keyframes = 0

(* Time passes; a pending timeout is never overslept.                      *)
Tick ==
  /\ \/ pc = "active" /\ now < MaxTime
     \/ pc = "opening" /\ now < deadline
  /\ now' = now + 1
  /\ UNCHANGED <<pc, deadline, outcome, machine, history>>

End(how) ==
  /\ pc' = "ended"
  /\ outcome' = how
  /\ UNCHANGED <<now, deadline, machine, history>>

(* A `?' on Err(ProtocolViolation): the task returns.                      *)
Violation ==
  /\ pc' = "violation"
  /\ outcome' = "violation"
  /\ UNCHANGED <<now, deadline, generation, lastReopen, history>>

(* open_generation returned in time: mark_instance_streaming.              *)
Opened ==
  /\ pc = "opening"
  /\ \/ /\ instance = "Created"
        /\ pc' = "active"
        /\ instance' = "Streaming"
        /\ channel' = "Live"
        /\ evidence' = NoEvidence
        /\ UNCHANGED <<now, deadline, outcome, baseline, congestion,
                       generation, lastReopen, cause, keyframes>>
     \/ /\ instance # "Created"
        /\ Violation
        /\ UNCHANGED <<channel, instance, baseline, congestion>>

(* Mutant: only the first opening is wrapped in a timeout.                 *)
OpenTimedOut_FirstOnly ==
  /\ pc = "opening"
  /\ cause = "initial"
  /\ now = deadline
  /\ End("timedOut")

(* The timeout around open_generation fires: ConnError::Violation with     *)
(* PROTOCOL_SESSION_SETUP_TIMEOUT or PROTOCOL_VIDEO_CONFIGURING_TIMEOUT.   *)
OpenTimedOut ==
  /\ pc = "opening"
  /\ now = deadline
  /\ End("timedOut")

(* Mutant: prepare_reopen keeps the old CongestionTracker.                 *)
Reopen_KeepsTracker(why) ==
  /\ generation < MaxGeneration
  /\ pc' = "opening"
  /\ deadline' = now + ConfigTimeout
  /\ channel' = "Recovering"
  /\ instance' = "Created"
  /\ congestion' = congestion
  /\ generation' = generation + 1
  /\ lastReopen' = now
  /\ cause' = why
  /\ UNCHANGED <<now, outcome>>

(* Mutant: last_reopen_us is stamped by the first reopen only.             *)
Reopen_StampsOnce(why) ==
  /\ generation < MaxGeneration
  /\ pc' = "opening"
  /\ deadline' = now + ConfigTimeout
  /\ channel' = "Recovering"
  /\ instance' = "Created"
  /\ congestion' = NewCongestion
  /\ generation' = generation + 1
  /\ lastReopen' = IF lastReopen = None THEN now ELSE lastReopen
  /\ cause' = why
  /\ UNCHANGED <<now, outcome>>

(* The old stream is RESET, prepare_reopen installs a fresh Instance and   *)
(* tracker, and the task awaits the opening of the next generation.        *)
Reopen(why) ==
  /\ generation < MaxGeneration
  /\ pc' = "opening"
  /\ deadline' = now + ConfigTimeout
  /\ channel' = "Recovering"
  /\ instance' = "Created"
  /\ congestion' = NewCongestion
  /\ generation' = generation + 1
  /\ lastReopen' = now
  /\ cause' = why
  /\ UNCHANGED <<now, outcome>>

(* The Instance state on_congested, on_recovered and on_reset require.     *)
Requires(decision) ==
  IF decision = "EnterCongested" THEN "Streaming" ELSE "Congested"

(* on_feedback and what the server does with its decision.                 *)
Feedback(us, over) ==
  LET samples  == Record(baseline, now, us)
      delta    == SaturatingSub(us, BaselineUs(samples, us))
      decision == Decide(congestion, now, delta, over)
      tracker  == Evaluated(congestion, now, delta, over)
  IN  /\ pc = "active"
      /\ baseline' = samples
      /\ \/ /\ decision = "Continue"
            /\ congestion' = tracker
            /\ evidence' = Observe(evidence, delta)
            /\ UNCHANGED <<now, pc, deadline, outcome, channel, instance,
                           generation, lastReopen, cause, keyframes>>
         \/ /\ decision \in {"EnterCongested", "ExitCongested"}
            /\ instance = Requires(decision)
            /\ instance' = IF decision = "EnterCongested"
                           THEN "Congested" ELSE "Streaming"
            /\ congestion' = tracker
            /\ evidence' = Observe(evidence, delta)
            /\ UNCHANGED <<now, pc, deadline, outcome, channel,
                           generation, lastReopen, cause, keyframes>>
         \/ /\ decision = "ResetStream"
            /\ instance = Requires(decision)
            /\ Reopen("backpressure")
            /\ evidence' = Observe(evidence, delta)
            /\ UNCHANGED keyframes
         \/ /\ decision # "Continue"
            /\ instance # Requires(decision)
            /\ Violation
            /\ congestion' = tracker
            /\ UNCHANGED <<channel, instance>>

RateLimited == lastReopen # None /\ now < lastReopen + MinInterval

(* on_keyframe_request: rate limit first, then the Instance state.         *)
KeyframeRequest ==
  /\ pc = "active"
  /\ \/ /\ ~RateLimited
        /\ instance \in {"Streaming", "Congested"}
        /\ Reopen("keyframe")
        /\ keyframes' = keyframes + 1
        /\ UNCHANGED <<baseline, evidence>>
     \/ /\ RateLimited \/ instance \notin {"Streaming", "Congested"}
        /\ UNCHANGED vars

(* Shutdown, SessionClose, a transport or idle loss, a capture or encoder  *)
(* error: any of them ends the task, in the loop or while it opens.        *)
SessionEnds ==
  /\ pc \in {"opening", "active"}
  /\ \E how \in {"closed", "lost", "failed"} :
       /\ how = "closed" => pc = "active"
       /\ End(how)

Next ==
  \/ Tick
  \/ Opened
  \/ OpenTimedOut
  \/ \E us \in Delays, over \in BytesOver : Feedback(us, over)
  \/ KeyframeRequest
  \/ SessionEnds

(* The runtime's clock runs and an expired timeout is delivered.  Nothing  *)
(* is assumed of the client or the network: opening may never succeed.     *)
Fairness == WF_vars(Tick) /\ WF_vars(OpenTimedOut)

Spec == Init /\ [][Next]_vars /\ Fairness

-----------------------------------------------------------------------------
TypeOK ==
  /\ now \in Nat
  /\ pc \in {"opening", "active", "ended", "violation"}
  /\ deadline \in Nat
  /\ outcome \in {"none", "closed", "lost", "failed", "timedOut", "violation"}
  /\ channel \in ChannelState
  /\ instance \in InstanceState
  /\ baseline \in Seq(Sample)
  /\ congestion \in Congestion
  /\ generation \in Nat
  /\ lastReopen \in OptTime
  /\ cause \in {"initial", "backpressure", "keyframe"}
  /\ evidence \in Evidence
  /\ keyframes \in Nat

(* The tracker and the two state machines are three copies of one state    *)
(* (video_channel.rs:122): while the session is active the Channel is Live *)
(* and the tracker and the Instance agree on Congested; while the next     *)
(* Instance opens all three are fresh.                                     *)
MachinesAgree ==
  /\ pc = "active" =>
       /\ channel = "Live"
       /\ instance = IF congestion.congested THEN "Congested" ELSE "Streaming"
  /\ pc = "opening" =>
       /\ channel = IF cause = "initial" THEN "Initializing" ELSE "Recovering"
       /\ instance = "Created"
       /\ congestion = NewCongestion

(* No interleaving of samples, requests and reopens makes a state machine  *)
(* reject what the server asks of it: the `?' after on_feedback and        *)
(* mark_instance_streaming (sardp-server.rs:1120, 1746) never ends a       *)
(* session.                                                                *)
NoProtocolViolation == pc # "violation"

(* A healthy Instance is not thrown away: a backpressure reset was asked   *)
(* for by HardCount consecutive samples above the hard threshold, all read *)
(* after this Instance started, one more sample having entered Congested.  *)
(* (With the supplementary byte signal one sample in Congested suffices.)  *)
ResetNeedsEvidence ==
  pc = "opening" /\ cause = "backpressure" =>
    \/ evidence.hard >= HardCount /\ evidence.total > HardCount
    \/ TRUE \in BytesOver /\ evidence.total > 1

(* A Congested Instance returns to Streaming only when no sample at or     *)
(* above the soft threshold was read for the whole hysteresis period.      *)
RecoveryNeedsQuiet ==
  [][ instance = "Congested" /\ instance' = "Streaming" =>
        evidence.high # None /\ now - evidence.high >= Hysteresis ]_vars

(* However often the client asks, keyframe requests cost at most one IDR   *)
(* per interval (video_channel.rs:181): the n-th honoured request comes at *)
(* least n - 1 whole intervals after the session began.                    *)
KeyframeBudget ==
  keyframes > 0 => (keyframes - 1) * MinInterval <= now

(* Feedback is read again or the session is over, whatever the network     *)
(* does: the await of open_generation (sardp-server.rs:755, 1740) ends.    *)
OpeningResolves == pc = "opening" ~> pc # "opening"

-----------------------------------------------------------------------------
(* The strengthening the proofs need.  In Congested the tracker's counter  *)
(* and timer never run ahead of what this Instance's samples showed.       *)
TrackerFollowsEvidence ==
  /\ evidence.high <= now
  /\ congestion.congested =>
       /\ evidence.hard >= congestion.hard
       /\ evidence.total >= congestion.hard + 1
       /\ congestion.hard < HardCount
       /\ evidence.high # None
  /\ congestion.since # None =>
       /\ congestion.congested
       /\ evidence.high <= congestion.since
       /\ congestion.since <= now

(* Honoured requests are paid for up to the last reopen of either kind.    *)
BudgetAtLastReopen ==
  /\ lastReopen <= now
  /\ keyframes > 0 =>
       lastReopen # None /\ (keyframes - 1) * MinInterval <= lastReopen

(* The inductive invariant of the proofs; checked by TLC as well.          *)
VideoInv ==
  /\ TypeOK
  /\ MachinesAgree
  /\ NoProtocolViolation
  /\ ResetNeedsEvidence
  /\ pc = "active" => TrackerFollowsEvidence
  /\ BudgetAtLastReopen

=============================================================================
