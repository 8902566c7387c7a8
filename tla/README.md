# A TLA+ verification project for SARDP

SARDP is a remote-desktop protocol over QUIC: a server that captures, encodes
and sends a desktop, a client that shows it and sends input back. The
implementation is a Rust library (`src/src/`) of state machines and stream
helpers, two programs (`src/sardp-cli/src/bin/`) that drive them from one tokio
task per connection, and two platform crates (`src/sardp-win`,
`src/sardp-mac`) with threads of their own. This directory models the parts
whose correctness depends on order, time and concurrency, checks them with TLC,
and proves the main properties with TLAPS for every value of the constants.

## The system

| part | state | operations | interacts with |
|------|-------|------------|----------------|
| Backpressure trackers (`backpressure.rs`) | a monotonic deque of (time, delay); congested flag, hard-violation count, recovery timer | `record`, `baseline_us`, `evaluate` | owned by the video Channel |
| Video Channel (`video_channel.rs`, `video_sm.rs`, `channel_sm.rs`) | Channel state, Instance state, generation, time of the last reopen, the trackers | `mark_instance_streaming`, `on_feedback`, `on_keyframe_request`, `prepare_reopen` | driven by the session loop from feedback messages |
| Session store and reconnection (`session_store.rs`, `reconnection.rs`) | suspended sessions by id, one sleeping expiry task per suspension | `suspend_and_schedule_expiry`, `try_reconnect`, `expire_if_token_matches`, `server_complete_reconnect` | shared by all connection tasks behind a mutex |
| Handshake, authentication, Connection state machine (`handshake.rs`, `auth.rs`, `connection_sm.rs`) | transcript binding, deadlines, state of both ends | the exchange of hellos, `AuthPubkey`, `AuthResult`; `complete_*`, `on_channel_live`, `suspend`, `resume` | produces the connection context |
| Time synchronisation (`timesync.rs`) | the rounds measured so far | request, answer, the gap after which the server stops answering | between authentication and the first video Instance |
| Permissions (`permission_sm.rs`) | one state per permission bit | `apply_update`, `check_gate`; `build_permission_toggle` | the admin queue, filled by stdin and drained by any session |
| Connection task (`sardp-server.rs`) | one `select!` loop: shutdown, idle timeout, control, keepalive, frame tick, desktop frames, feedback, audio, incoming streams, input, clipboard | the arms | everything above |
| File transfer (`file_handle_store.rs`, `file_transfer_session.rs`) | issued handles with expiry, received ranges of a file | `try_issue`, `validate`, `sweep_expired`, `apply_chunk`, `is_complete`, ... | one spawned task per transfer, a reaper task; the accept queue is shared with the session loop |
| Input (`input_state.rs`, `input_session.rs`, `InputInjection` in `sardp-server.rs`, `InputForwarder` in `sardp-client.rs`, `display.rs`, `inject.rs`, `worker_handle.rs`) | IME mode with a pending boundary, pressed keys and buttons at both ends, the injector thread's queue | window messages, `forward`, `handle`, `release_all`, `perform` | permissions; the OS |
| Client display (`sardp-client.rs`, `display.rs`, `queue_circuit_breaker.rs`) | the list of submitted frames, the breaker, the thread's queue, the channel of reports | `process_frame`, `on_window_timing`, `tick_circuit_breaker`, `decode_and_present`, drop | the video and feedback streams; a thread |
| CLI client and session file (`sardp-client.rs`, `session_file.rs`) | the saved session | start, save, resume, close | the server, the file system |
| Streams (`envelope.rs`, `varint.rs`, `prologue.rs`, `stream_kind.rs`, `*_session.rs`) | the buffer of an incremental reader, a parked frame header | encode, decode, the accept functions and `next` | every stream, inside `select!` |
| Capture and encoding (`frame_source.rs`, `h264.rs`, `desktop_h264.rs` of both platforms) | the bounded frame channel, encoder permissions and time stamps, cached parameter sets, stop flag | `encode_frame`, `take_one_output`, `pump`, `request_idr`, `next_idr_frame`, drop | a thread, the OS encoder, the session loop |
| Monitors (`monitor_manager.rs`) | one video Channel per monitor | `add_channel`, `set_active_monitor` | tests only |

What is hard here is not a single function but their order: the task of one
connection stops reading while it awaits, so feedback about an old generation
is evaluated against a new one; several connections and sleeping expiry tasks
compete for one suspended session; a token is spent before the answer that
replaces it is written; transfer tasks and the session loop accept each other's
streams; a reading future is dropped whenever another arm of its `select!` is
ready; threads, bounded channels and joins wait for each other. `PROJECT.json`
lists these hazards with their lines.

## Modules

| module | models | checked by |
|--------|--------|------------|
| `Backpressure` | both trackers as operators on values | through its users |
| `BaselineTracker` | the baseline deque on a running clock, with the set of all recorded samples as history | `MCBaselineTracker` |
| `VideoChannel` | the server's video Channel and the part of the session loop that drives it; extends `Backpressure` | `MCVideoChannel` |
| `SessionLifecycle` | abstract: what becomes of a session, whatever connections carry it | refined by `Reconnection` |
| `Reconnection` | session store, reconnection, expiry tasks, skeleton of every connection task | `MCReconnection` |
| `ConnectionSm`, `TimeSync` | the Connection state machine and the clock arithmetic as operators | through `Establish` |
| `Establish` | both ends from the start of the client to the main loops: handshake or reconnection, session file, time synchronisation, first Instance, feedback stream; extends both | `MCEstablish` |
| `Permissions` | permission bits, the shared admin queue and its drain, streams accepted under a permission | `MCPermissions` |
| `InputInjection` | the client's window and `InputForwarder`, the `input` stream, the server's `InputInjection` and the injector thread | `MCInputInjection` |
| `FileTransfer` | handle store, reaper, transfer tasks, reassembly, the shared accept queue | `MCFileTransfer` |
| `DisplayPipeline` | the client's loop, its display thread, the channels between them, the circuit breaker | `MCDisplayPipeline` |
| `WireFormat`, `StreamProtocols` | varint, prologue and envelope byte by byte; what each stream kind carries and in which order it is accepted | through `StreamReader` |
| `StreamReader` | one incoming stream: fragments, the incremental reader, the reading future and its cancellation; extends both | `MCStreamReader` |
| `H264` | access units as sequences of NAL types, the parameter-set cache | through `CapturePipeline` |
| `CapturePipeline` | the capture thread of either platform, the encoder, the frame channel, the session that consumes it | `MCCapturePipeline` |
| `*Proofs` | theorems about the module of the same name (`BackpressureProofs`: about `Backpressure`, `BaselineTracker` and `VideoChannel`; `SessionProofs`: about `Reconnection` and `Permissions`) | tlapm |

How state and actions correspond to the code:

* `VideoChannel`: `channel`, `instance`, `baseline`, `congestion`,
  `generation` and `lastReopen` are the fields of `VideoChannel` (Rust) with
  its two state machines; `pc` says whether the connection task is in its
  `select!` loop (`active`) or awaits `open_generation` (`opening`), `deadline`
  is the timeout around that await. `Feedback` is `on_feedback` with what the
  server does with each decision, `KeyframeRequest` is `on_keyframe_request`,
  `Reopen` is `reopen_video_generation` up to its await, `Opened` and
  `OpenTimedOut` are the two ends of the await. A method that returns
  `Err(ProtocolViolation)` sets `pc` to `violation`. `evidence`, `cause` and
  `keyframes` are history.
* `Reconnection`: a task is `idle`, then `setup` after a fresh handshake or
  `resuming` while `AuthResult{OK}` is being written; `setup` opens the first
  Instance, `ready` awaits the feedback stream, `active` and `reopening` are
  inside `run_active_session`. `lost`, `ended`, `rejected` and `violation` are
  ways to return. `store` is `SessionStore`, `timers` the sleeping expiry
  tasks. Tokens are numbers in the order they are drawn, standing for 32 random
  bytes that never repeat.
* `Establish`: `client` is the running process and where it is in `run()`,
  `file` the contents of `--session-file`, `server[c]` the task of connection
  `c` and where it is in `handle_connection`, `up` and `down` the two directions
  of a control stream. An action is what an end does between two awaits. The
  file is truncated and written in two steps, and the process may crash at any
  point. A signature is the pair of key and transcript it was made over. Tokens
  are numbers, as above. The server reads its clock twice per round, at the
  request (`t2`) and at the answer (`t3`), `Processing` apart.
* `Permissions`: `queue` and `lock` are the `Arc<Mutex<Vec<AdminCommand>>>`,
  `perm` the `PermissionSm` of each session. The drain is one step per command
  because the task awaits a write between two of them, with the lock held.
* `InputInjection`: `held` is what the user holds, `reported` and `pressed` are
  the `PressedInputs` of client and server, `ime` is `ImeModeSm`, `commands` is
  the channel of `WorkerHandle` and `desktop` what the platform has down. The
  client's actions are the window messages together with their forwarding;
  `Handle...` are the branches of `InputInjection::handle`; `StreamEnds`,
  `SessionEnds` and `RefuseText` are the ways in which reading stops, each with
  `release_all`; `Inject` is one turn of the thread, `Joined` the return of
  `WorkerHandle::drop`. No client of the repository sends `ImeModeChange`;
  `AnnounceMode` stands for one that does, and `under` records in each message
  the mode it meant. Of the modifiers only "CTRL, ALT or META" is kept.
  Assumed: a platform call that injects a key succeeds (the code logs a failure
  and goes on), and every reported key has a scan code at the server.
* `FileTransfer`: `handles` is `FileHandleStore`, `task` the spawned transfers
  with their `FileReassembly`, `incoming` the unidirectional streams of each
  connection not yet accepted. `FileTransferRequest` is the control arm,
  `LoopAccepts` the loop's own accept arm, the actions of `TaskStep` the awaits
  of `run_file_transfer`. `issued` is history. What a stream carries is chosen
  when it is read, so every chunk a sender can cut is covered. The file of
  handle `h` has bytes that depend on `h`; a checksum is taken to determine its
  input. A download is one step: its sender has no state others see.
* `DisplayPipeline`: `pending`, `tripped`, `current` and `stats` are the fields
  of `VideoSink`, `ClientDisplay` and `FrameStats`; `queue`, `newest`, `closed`
  and `timings` what window and thread share; `worker` and `decoder` the
  thread. The decoder may hold back pictures and return several for one input.
  Ages stand for clock differences and stop counting above the trip threshold.
  Between its look at `closed` and the next one the thread is `receiving`: one
  more frame may be decoded after the flag was set.
* `StreamReader`: `stream` is what the sender wrote, `filled` how much has
  arrived, `start` how much the reader has parsed; `local` is what the reading
  future holds in local variables, `parked` what `VideoFrameReader` keeps across
  a cancellation. A stream's bytes are those of `WireFormat`; a body keeps the
  fields that receivers compare. `least` is the shortest form a sender uses for
  its lengths: 1 in the repository's own senders, while `varint::decode` accepts
  the longer forms of other peers as well.
* `CapturePipeline`: `encoder` is the code's view of the encoder (permissions to
  feed it, capture times of its inputs, parameter sets), `mft` the operating
  system's encoder behind it (external, from how the code uses it), `handoff`
  the channel of the macOS callbacks, `channel` the `FrameSender`'s channel,
  `owner` the session that opens Instances and writes frames. `lost` is history.
  A forced IDR is a wish: `force_next_idr` may do nothing, and then the input is
  encoded like any other. An output may be announced and have no sample, and
  every call of the encoder may fail, which ends the thread. Assumed of the
  Windows encoder, as the code does (`desktop_h264.rs:528`): each input gives one
  output. On an encoder that swallowed an input the capture times behind it would
  shift, and `OwnTimestamp` says nothing of that.

## Runs

| run | shows | instance |
|-----|-------|----------|
| `baseline` | the deque's front is the window's minimum | 3 delays, window 2, 5 instants, any number of samples per instant |
| `video` | the state machines never refuse; a reset and a recovery are earned; the keyframe budget; an opening always ends | deltas below, at and above both thresholds; 2 hard samples; up to 3 reopens; time 5 |
| `reconnection` | one owner per session, tokens used once, generations grow, no early expiry, no refused transition; refines `SessionLifecycle`; suspensions end | 3 connections, 2 sessions, 4 tokens, times to 2 |
| `establish` | in the main loops both ends hold the same session, a suspended session is the one in the client's file wherever the client crashed, the clock offset is the best of the rounds | 3 starts of the client, 2 rounds, delays 0 and 3, processing time 2, server clock behind by 1, a trusted and another key |
| `establish_stall` | violated: both ends wait for each other after a late request | as `establish` |
| `permissions` | client and server agree; commands once and in order | 2 sessions, 3 bits, 3 commands |
| `input` | the server's pressed set is exact and agrees with the client's; after every end the desktop is cleaned up; events of an orderly client are read in their mode and every character arrives once | a modifier, a character key, a button; 3 events; 3 mode changes up to one event ahead |
| `files` | handles serve their owner, a done upload is the whole file, handles leave for a cause and always leave | 2 sessions, 3 requests for 2 slots, 2 streams, files of 1 and 2 bytes, up to 2 chunks of any kind, time to live 1, time 3 |
| `display` | the breaker watches the real backlog, asks once for it and does ask; the decoder misses no reference; one feedback per frame, in order | 2 generations of 3 frames and different sizes, timing channel of 1, thresholds 1 and 2 |
| `display_drop` | violated: the drop of the window waits for a thread that waits for its reader, even though every decoding returns (`DropSpec`) | 1 generation of 3 frames |
| `streams` | the application gets a prefix of what was sent, once and in order; no reader buffers more than its limit | 23 streams of all kinds and faults, two of them with lengths in longer forms than needed, pieces of 1, 2 and 40 bytes, 2 cancellations |
| `capture` | every IDR decodes on its own, frames carry their own capture time, no permission is lost, an Instance starts at an IDR and its chain breaks only by losses, a join of the thread returns | both platforms, channel of 2, encoder of depth 2, 4 pictures, 1 output without a sample, 2 Instances |

Bounds. Constants named `Max...` cap counters in guards. They are large enough
for the cases in question: a sample can expire and a newer one replace it; a
Channel can be reset, reopen, become congested and be reset again; a session can
be suspended, resumed and suspended again while the first timer still sleeps,
with another connection replaying the first token; a client can crash between
any two steps of a set-up, of the reconnection after it, and of the one after
that; a drain can carry out a grant, a revoke and another toggle, and fail at
each; a shortcut can be pressed, lose its permission or its window and be
released, and an event can lie before, at and behind the boundary of a mode; two
transfers of one session can cross their streams, and a third party's stream can
name either; the handle store can be full while another request waits; chunks can meet, overlap, leave a gap or exceed the file; a
generation can be replaced with frames of the old one still queued, and the
timing channel can be full; a payload's length can be just below and above the
one-byte form and every limit, a file handle can need the longest form and a
length can be written in one; a frame channel can fill between two IDRs. In the
`input` run a state constraint (`ModesOrButtons`) separates two dimensions:
more than one mode change is explored only within the first two events, with the
keyboard alone. In the `files` run another one (`LimitOrChunks`) lets a third
request meet a full store only with files of one byte, one stream and one chunk.
The theorems remove the bounds from the safety properties they
name. The bounded runs may stop (`CHECK_DEADLOCK FALSE`): sessions end and
clocks reach their cap.

Fairness, each justified by the runtime's timers or by waits that are bounded:

* `VideoChannel`: the clock advances and an expired `tokio::time::timeout` is
  delivered; nothing of the network, so an opening may fail to complete.
* `Reconnection`: the clock advances and a task whose sleep is over runs.
* `InputInjection`: the injector thread, which only ever waits for its channel,
  carries out its commands, and a drop whose `join` can return does.
* `FileTransfer`: the clock and the reaper's interval.
* `DisplayPipeline`: the breaker's interval fires, the loop reads reports, the
  thread sends when there is room and looks at its flag, a closing session ends
  and its window is dropped. Nothing obliges a frame to arrive, the user to act
  or the decoder to return. The client's `select!` is biased, so fairness of the
  interval idealises mildly: the arms above it, which could starve it, sample the
  breaker themselves. `DropSpec`, used by `display_drop` alone, also lets every
  decoding return, so that the counterexample does not rest on a stuck decoder.
* `CapturePipeline`: the worker thread runs once it is set up (each of its waits
  has a timeout), the encoder handles what it was given (macOS flushes it), a
  join returns when its thread has ended. Its set-up is not fair: it may be stuck
  in a call of the operating system, for which reason a spawn that timed out
  detaches the thread instead of joining it (`frame_source.rs:262`). `StopEnds`
  accordingly speaks of a drop that joins.
* `Establish` and `StreamReader` assume nothing and have only safety properties.

## What disagrees with the documentation

Two statements of the repository are refuted by what the code does (runs with
`expect: violation`, quoted in `PROJECT.json`):

* `display_drop`: `worker_handle.rs` says that a worker with another shutdown
  signal exits all the same when its channel closes. The display thread reports
  with `blocking_send`, and the window joins it before it drops the receiver:
  with the channel full the drop never returns.
* `establish_stall`: `timesync.rs` says the responder answers the whole burst.
  It stops 200 ms after its last answer; on a slower link the server then waits
  for the feedback stream and the client for its answer, until QUIC's idle
  timeout.

Further places where the models show behaviour that a comment or the normative
specification does not lead one to expect. The models contain it; no run
asserts the contrary:

* A reopen that times out is not retried: the server ends the session
  (`sardp-server.rs:1745`), where `channel_sm.rs:100` describes retries.
* A connection lost between the first Instance and the session loop drops the
  session although its state machine is Active (`sardp-server.rs:769`,
  `connection_sm.rs:206`).
* `ReconnectRejected` is also returned when `AuthResult{OK}` could not be
  written (`reconnection.rs:190`), not only after DENIED (`reconnection.rs:121`).
* A toggle "flips only `bit`" (`permission_sm.rs:130`), but the mask it preserves
  the other bits from is the handshake's for the whole session
  (`sardp-server.rs:1026`). The second toggle therefore sets the bit of the first
  one back: one granted before goes to Draining, one revoked before is granted
  again. Both ends follow this mask alike, so `ClientAgrees` holds. A suspended
  session keeps the handshake's mask too (`sardp-server.rs:816`), so a
  reconnection undoes all toggles.
* An immediate revoke leaves a running capture stream alone
  (`sardp-server.rs:1164`).
* The ups of a lost focus carry no modifiers, so in CLIENT_SIDE mode the up of a
  character key pressed as part of a shortcut is skipped (`sardp-client.rs:1582`).
* The window drops every key message during a composition, where the
  specification (4.4.1) wants unrelated keys reported: a modifier released then
  stays down until the focus changes (`ComposingKey`).
* `ImeModeSm` keeps one pending change: a client that announces a second one
  before the first takes effect loses the first, which is why `ModeAsAnnounced`
  and `CharactersOnce` speak of an `Orderly` client.
* A P-frame dropped at a full channel (`frame_source.rs:130`) or without VIEW
  (`sardp-server.rs:1059`) leaves the written chain broken until the next
  generation or the encoder's own IDR; `ChainBreaksOnlyByDrops` states exactly
  this much. A requested IDR may itself be dropped, and `next_idr_frame` then
  gives up after its limit.
* On macOS `on_stopped` is lost when the handoff channel is full.
* The answer to a clipboard request is not compared with the `request_id` asked
  for.
* An `audio_playback` header read inside the client's `select!` is lost when
  another arm wins (`audio_session.rs:226`; the video reader parks its header).
  The reader then refuses the payload. On a stream that has a second header in
  that place, which is a fault of the sender, it goes on, and delivers frames that
  a receiver of the whole stream would not; `MessagesAsSent` says what still
  holds.

Hazards seen and not covered by a property, beyond those `PROJECT.json` lists
with a note: `notify_waiters` wakes only waiting tasks, so a session inside an
arm's body misses the shutdown (`sardp-server.rs:510`) and ends like one whose
connection was lost, because the endpoint is closed right after; accepting the
control stream lies outside the handshake deadline (`reconnection.rs:80`), so
only QUIC's idle timeout bounds it; a chunk of length zero restarts the stall
timer of a transfer, and a file stream's prologue is read without a timeout;
`SessionClose` may not have been read when the connection closes; AltGr reads as
CTRL and ALT together (`display.rs:1084`).

## Proofs

All constants are arbitrary, subject to the `ASSUME`s of the modules
(`BackpressureAssumption`, `BaselineAssumption`, `VideoChannelAssumption`,
`ReconnectionAssumption`, `PermissionsAssumption`, `InputAssumption`,
`FileConstants`, `DisplayConstants`, `CaptureConstants`, `EstablishAssumption`,
`ReaderAssumption`): naturals, non-zero where the code divides a behaviour by
them, thresholds in their order, and distinct sentinels. `ReaderAssumption` lets
a peer write any bytes as bodies, any types in any order, any magic and any kind,
and any length in any of the four forms that can hold it; it asks that the
messages whose fields are compared have them, that a limit is at least 4 (the
code's are 1 KiB to 16 MiB), and that there is a longest fragment.

* `BackpressureProofs`: what the two loops of the deque compute. `KeptBefore`
  and `FirstLive` are `CHOOSE`s of the index at which a loop stops; the lemmas
  show such an index exists (least-element argument over the naturals) and
  describe `Record`. `EvaluateCases` describes the tracker after `evaluate`.
  `BaselineIsWindowMinimum` is not inductive, because it only speaks of the
  front. `BaselineInv` adds `DequeDominates`: every recorded sample of the
  window is dominated by a deque entry that is at least as young and no larger,
  so dropping a sample never loses a future minimum. `VideoInv` adds
  `TrackerFollowsEvidence` (the tracker's counter and timer never run ahead of
  what this Instance's samples showed) and `BudgetAtLastReopen` (honoured
  requests are paid for up to the last reopen) to the checked properties.
* `SessionProofs`: `ReconnectionInv` adds that a token held by anybody is
  unspent, that no two holders have the same token, that a timer belongs to the
  episode its token names, and that stored state machines are Suspended. From
  it follow the action property `ExpiryNeedsGrace` and, step by step, the
  refinement of `SessionLifecycle` (safety part). `PermissionsInv` adds that
  command numbers are not reused. Agreement rests on the lemma that an update
  leaves exactly the bits it names granted.
* `InputInjectionProofs`: "nothing stays down" is not inductive; `InputInv`
  says of every moment what will be down once a queue is worked off.
  `DownAfter(S, q)` is what is down after the messages or commands of `q`, and
  the lemmas show how it behaves when `q` is extended, consumed, concatenated
  or followed by releases of everything in a set (`Listing` really lists the
  set, by finite-set theorems). With them each handler extends the commands
  exactly as it changes `pressed`, and each client action extends the wire
  exactly as it changes `reported`. The modes have an invariant of their own,
  `ModesInv`: ids rise along the wire, the latest announcement is on the wire,
  pending or current at the server (`LatestMode`), and `ReadIn` says of every
  event on the wire, and of every event not yet sent, in which mode the server
  will read it when its turn comes (`ModesFollow`). The second half is what
  makes it inductive: an announcement speaks of events that do not exist yet.
  `CharactersKept` counts: characters typed are those injected and those of the
  messages still on the wire. `ModeAsAnnounced` and `CharactersOnce` are the
  case of the message at the head.
* `FileTransferProofs`: that a task serves its own session is known only through
  the store, so `FileInv` says that the store holds what was issued and that no
  handle is issued twice; accepted chunks fit and do not overlap. `Good(t)`
  collects what the invariant says of one task, and one lemma covers all steps
  that change one task. `OnlyOwnerServed` and `HandlesLeaveForCause` follow for
  any number of sessions, tasks and streams. `CompletedIsWhole` further needs
  that `is_complete` misses no gap (`CompleteCovers`). `is_complete` is written
  with the order in which the ranges are sorted and the maximum of the ends so
  far, which is what the loop's `covered` holds, so no induction over the
  ranges is needed: for a byte `o`, take the first range in sorted order that
  ends behind `o`; all before it end at or before `o`, so what they cover does,
  and a range that starts no later than that contains `o`.
* `DisplayPipelineProofs`: `DisplayInv` orders the frames in the list, the
  queue, the decoder and the reports (`Ordered`), so a report never takes a
  queued frame off the list; `BreakerCounts` ties a tripped breaker to the age
  that keeps it tripped; `Chained` says that the frames of the newest generation
  link up from the decoder to the stream, which skipping stale frames cannot
  break; `ClosedBy` says who can have set the flag the thread sees. All four safety properties of the `display` run follow.
* `CapturePipelineProofs`: the properties speak of the frame channel;
  `CaptureInv` follows a frame through every stage before it. `SetsKnown` says
  that parameter sets which come only in the stream have been cached or are with
  the next output, so `FramesGood` holds wherever a frame is: an IDR carries its
  sets and every frame its own capture time. `PendingAligned` pairs the queue of
  capture times with the outputs not taken and the inputs not encoded, which is
  why a frame gets its own time back; `PlacesKept` adds the encoder's free
  places, offers under way, permissions held and pictures inside to its depth.
  For the chain, that an Instance starts at an IDR is `next_idr_frame`'s doing, and
  from there on `Ordered` has the encoder's numbers rise from the frame written
  last through every stage back to the encoder, and `GapsAreLost` says that a
  number between two of them is on its way itself or in `lost`. All four safety
  properties of the `capture` run follow, for both platforms.
* `EstablishProofs`: `SetupAgrees` speaks of two ends that have arrived; the
  invariant must say how each got there. `ClientPhases` and `ServerPhases` give
  what an end knows in each phase, `Agreement` relates the two ends of the
  connection in use, `Queues` says which messages may be on a control stream, so
  that an end can trust what it reads, `Tokens` that no two tasks or suspended
  sessions hold a token in common, and `Saved` that the session file holds every
  session that is suspended, or will be when its connection is lost, unless its
  write failed. Tasks of earlier connections stay in the invariant, because they
  may still suspend their session after the client has started again.
  `RoundsNear` bounds the error of one round by half of its round trip;
  `best_of` is a `CHOOSE` of the last fastest round, where the code's fold ends;
  the proof shows that it exists.

* `StreamReaderProofs`: a stream is a function of the number of its envelopes
  (`Written`), and so is what a receiver makes of it that has all of it at once
  (`Reading`). Both are recursive functions, and so is the loop of
  `varint::decode`; `Recursion` shows once, by induction stated with sets
  (`Induction`), that such a function satisfies its equation, and `WrittenGrows`
  and `ReadingGoesOn` that a longer stream extends a shorter one and that a
  receiver that stopped stays as it is. `VarintForm` and `VarintDecodes` show
  that `decode` inverts `encode` on all four forms and answers `Incomplete` on
  every proper prefix; on these rest the same facts about the envelope
  (`EnvelopeParses`: the length, the limit, the type and the body) and the
  prologue (`PrologueParses`). A reader at the end of the n-th envelope therefore
  finds the next one or waits for it (`NextEnvelope`), never with more than a
  whole allowed envelope before it. `MessagesAsSent` is not inductive: `ReaderInv`
  says where an open reader stands and what it holds (`InStep`), where a header
  may wait and who can lose one (`HeadersHeld`: only an `audio_playback` reader,
  `WhoLosesAHeader`), and, for that reader, between which envelopes the delivered
  frames lie (`PlacedUpTo`). After a loss it may only stop, unless the stream
  itself has a fault (`LostHeader`). The proofs never open `LengthsAgree` and
  `RequestIdsAgree`, so they hold for whatever fields these compare.

Only model-checked:

* Liveness (`OpeningResolves`, `SuspensionEnds`, `DesktopSettles`,
  `StoreDrains`, `BacklogReported`, `StopEnds`, the fairness part of
  `ImplementsLifecycle`), which is out of the prover's reach.

## Not modelled

* `monitor_manager.rs`, the `Paused` state and the retry backoff of
  `channel_sm.rs`, `finish_draining`, `record_auth_failure` and
  `server_handshake`: only tests call them.
* All arms of the session loop in one module: each arm is in the module of its
  component, and their product is out of TLC's reach. Shutdown is an end of a
  session; its notification is not modelled, nor is QUIC's flow control, so a
  client that does not read its control stream while the admin queue's lock is
  held is only listed as a hazard.
* The field-by-field layout of the messages (`messages.rs` is covered for the
  fields receivers compare), cryptographic computations, H.264 payloads, colour
  conversion, Direct3D, platform calls, key maps, coordinates: data without a
  state the properties could be about. An error of theirs is a failing end of
  the step that calls them.
* The macOS injector, the scripted client, the log and dump display modes, the
  network emulator, certificates, argument parsing, measurement and the proofs
  of concept under `tools`.
