-------------------------- MODULE CapturePipeline ---------------------------
(***************************************************************************)
(* The server's desktop video source: OS capture and a hardware encoder on *)
(* a worker thread, the bounded frame channel that drops when its consumer *)
(* is behind, and the session that opens video Instances from it.          *)
(*                                                                         *)
(* On Windows the thread pulls a picture, feeds the encoder when it asks   *)
(* for input and waits a bounded time for the output.  On macOS the system *)
(* pushes pictures into the encoder and encoded frames into a second       *)
(* bounded channel, and the thread only forwards.  Pointer-only, empty and *)
(* paced-out pictures change nothing and are left out, as are the colour   *)
(* conversion and the counters.                                            *)
(***************************************************************************)
EXTENDS Integers, Sequences, FiniteSets, H264

CONSTANTS Platforms,        \* subset of {"windows", "mac"}
          Capacity,         \* DEFAULT_CHANNEL_CAPACITY of the frame channel
          HandoffCapacity,  \* capacity of the macOS callbacks' channel
          Depth,            \* inputs the encoder accepts before an output
          AllIdr,           \* DesktopH264Config.all_idr
          MaxCaptures,      \* bound: pictures captured
          MaxEmpty,         \* bound: outputs announced without a sample
          MaxSkip,          \* MAX_FRAMES_TO_SKIP_FOR_IDR
          MaxInstances      \* bound: video Instances opened

ASSUME CaptureConstants ==
    /\ Platforms \subseteq {"windows", "mac"}
    /\ {Capacity, HandoffCapacity, Depth, MaxSkip, MaxInstances} \subseteq Nat \ {0}
    /\ {MaxCaptures, MaxEmpty} \subseteq Nat
    /\ AllIdr \in BOOLEAN

VARIABLES os,         \* the platform of this server
          force_idr,  \* DesktopH264Source.force_idr
          stop,       \* FrameWorker.stop
          ready,      \* the ready channel: "open", "info", "error" or "closed"
          thread,     \* the worker: pc, frames to send, Ok or Err, pictures captured
          encoder,    \* Encoder, Forwarder: need_input_credits, pending_capture_ts, sets
          mft,        \* the operating system's encoder (external)
          handoff,    \* macOS: events from the callbacks to the worker
          channel,    \* the frame channel
          owner,      \* the session: pc, frames skipped, Instances, last frame written
          view,       \* the VIEW permission
          lost        \* frames that were encoded and dropped before the wire

sourceVars == <<force_idr, ready, thread, encoder, mft, handoff>>
vars == <<os, stop, sourceVars, channel, owner, view, lost>>

\* Encoder::new, with no permission to feed it yet and no parameter sets.
NewEncoder == [credits |-> 0, pending |-> <<>>, sets |-> NoSets]

Init ==
    /\ os \in Platforms
    /\ force_idr = FALSE
    /\ stop = FALSE
    /\ ready = "open"
    /\ thread = [pc |-> "setup", outputs |-> <<>>, result |-> "ok", captured |-> 0]
    /\ encoder = NewEncoder
    /\ mft \in [header : {NoSets, ParameterSets}, events : {<<>>}, inflight : {<<>>},
                done : {<<>>}, free : {Depth}, empty : {MaxEmpty}, forced : {FALSE}, n : {0}]
    /\ os = "mac" => mft.header # NoSets
    /\ handoff = <<>>
    /\ channel = <<>>
    /\ owner = [pc |-> "spawning", skipped |-> 0, instances |-> 0, last |-> 0]
    /\ view = TRUE
    /\ lost = {}

-----------------------------------------------------------------------------
(* FrameSender and FrameWorker *)

\* The receiver lives in the FrameWorker, past the join of its thread; a
\* spawn that failed has dropped it.
ReceiverGone == owner.pc \in {"failed", "gone"}

(* Mutant: a full channel makes the producer wait.                         *)
send_Blocks(f) ==
    /\ Len(channel) < Capacity
    /\ channel' = Append(channel, f)
    /\ lost' = lost

\* FrameSender::send never blocks: a full channel loses the new frame.
send(f) ==
    IF Len(channel) < Capacity
    THEN channel' = Append(channel, f) /\ lost' = lost
    ELSE channel' = channel /\ lost' = lost \cup {f.n}

\* report_ready: only the first call counts.
ReadyAfterReport == IF ready = "open" THEN "info" ELSE ready

To(pc) == [thread EXCEPT !.pc = pc]
Returns(result) == [thread EXCEPT !.pc = "finishing", !.result = result, !.outputs = <<>>]

\* The body has returned.  A failure before readiness goes to the spawner,
\* a later one is logged; the frame channel closes with the context.  On
\* macOS the encoder has been flushed; the Windows drain is bounded.
ThreadExits ==
    /\ thread.pc = "finishing"
    /\ os = "mac" => mft.inflight = <<>>
    /\ thread' = To("exited")
    /\ ready' = IF ready # "open" THEN ready
                ELSE IF thread.result = "err" THEN "error" ELSE "closed"
    /\ UNCHANGED <<os, force_idr, stop, encoder, mft, handoff, channel, owner, view, lost>>

\* Windows: the device, the output and its duplication.
SetsUp ==
    /\ os = "windows" /\ thread.pc = "setup"
    /\ thread' \in {To("polling"), Returns("err")}
    /\ UNCHANGED <<os, force_idr, stop, ready, encoder, mft, handoff, channel, owner, view, lost>>

\* macOS: the recording permission, the display, the encoder and the capture
\* session whose callbacks start at once.
StartsCapture ==
    /\ os = "mac" /\ thread.pc = "setup"
    /\ thread' \in {To("polling"), Returns("err")}
    /\ UNCHANGED <<os, force_idr, stop, ready, encoder, mft, handoff, channel, owner, view, lost>>

\* The head of the loop: the stop flag is read before a bounded wait for the
\* next picture (AcquireNextFrame) or event (recv_timeout), never during it.
PollsStop ==
    /\ thread.pc = "polling"
    /\ thread' = IF stop THEN Returns("ok") ELSE To("waiting")
    /\ UNCHANGED <<os, force_idr, stop, ready, encoder, mft, handoff, channel, owner, view, lost>>

WaitTimesOut ==
    /\ thread.pc = "waiting"
    /\ os = "mac" => handoff = <<>>
    /\ thread' = To("polling")
    /\ UNCHANGED <<os, force_idr, stop, ready, encoder, mft, handoff, channel, owner, view, lost>>

-----------------------------------------------------------------------------
(* The access unit the encoder hands out, and the frame made of it *)

\* set_fallback and observe, in the order of each platform: VideoToolbox
\* gives the sets with its keyframes, Media Foundation on its output type.
SetsAfter(out) ==
    IF os = "mac"
    THEN observe(IF out.key THEN set_fallback(encoder.sets, mft.header) ELSE encoder.sets, out.au)
    ELSE LET seen == observe(encoder.sets, out.au)
         IN IF seen = NoSets THEN set_fallback(seen, mft.header) ELSE seen

\* An EncodedFrame: is_idr, capture_ts and annex_b, with its place in the
\* encoder's output (a P-frame refers to the one before it) and the picture
\* it really shows.
Completed(out, ts) ==
    LET is_idr == is_idr_access_unit(out.au, out.flag)
    IN [n |-> out.n, is_idr |-> is_idr, capture_ts |-> ts, picture |-> out.picture,
        annex_b |-> IF is_idr THEN complete_idr(SetsAfter(out), out.au) ELSE out.au]

\* Windows: pop_front, and the time of an output no input is pending for
\* (encode_done_ts, which is no picture's).
oldest_pending == IF encoder.pending = <<>> THEN 0 ELSE Head(encoder.pending)
without_oldest == IF encoder.pending = <<>> THEN <<>> ELSE Tail(encoder.pending)

(* Mutant: the output is stamped with the input of the call that takes it. *)
take_one_output_CurrentTs(e) ==
    IF e.done = <<>> THEN mft' = e /\ UNCHANGED <<thread, encoder>>
    ELSE LET out == Head(e.done)
         IN /\ thread' = [thread EXCEPT !.outputs = Append(@, Completed(out, thread.captured))]
            /\ encoder' = [encoder EXCEPT !.pending = without_oldest, !.sets = SetsAfter(out)]
            /\ mft' = [e EXCEPT !.done = Tail(@)]

\* Windows: the oldest output gets the oldest pending capture_ts.  An event
\* with no sample behind it (NEED_MORE_INPUT, or none in the buffer) gives
\* no frame; an error is a CaptureFails.
take_one_output(e) ==
    IF e.done = <<>> THEN mft' = e /\ UNCHANGED <<thread, encoder>>
    ELSE LET out == Head(e.done)
         IN /\ thread' = [thread EXCEPT !.outputs = Append(@, Completed(out, oldest_pending))]
            /\ encoder' = [encoder EXCEPT !.pending = without_oldest, !.sets = SetsAfter(out)]
            /\ mft' = [e EXCEPT !.done = Tail(@)]

-----------------------------------------------------------------------------
(* The Windows thread: run_worker and Encoder::encode_frame *)

\* force_next_idr: without ICodecAPI, or when the encoder rejects the value,
\* nothing is forced and the loop goes on.
force_next_idr(e) == {e, [e EXCEPT !.forced = TRUE]}

\* A desktop picture: the first one creates the encoder and reports
\* readiness; a pending IDR request is passed on.
AcquiresFrame ==
    /\ os = "windows"
    /\ thread.pc = "waiting"
    /\ thread.captured < MaxCaptures
    /\ thread' = [thread EXCEPT !.pc = "feeding", !.captured = @ + 1]
    /\ ready' = ReadyAfterReport
    /\ force_idr' = FALSE
    /\ mft' \in IF force_idr THEN force_next_idr(mft) ELSE {mft}
    /\ UNCHANGED <<os, stop, encoder, handoff, channel, owner, view, lost>>

\* The duplication was lost or a device call failed, while waiting for the
\* picture or anywhere in encode_frame: its wait for an event is over, or
\* GetType, ProcessInput or take_one_output returned an error.  The outputs
\* of this call are lost with it.
CaptureFails ==
    /\ os = "windows"
    /\ thread.pc \in {"waiting", "feeding", "collecting"}
    /\ thread' = Returns("err")
    /\ UNCHANGED <<os, force_idr, stop, ready, encoder, mft, handoff, channel, owner, view, lost>>

\* ProcessInput with a banked permission or the one just received.
ProcessInput(e, credits) ==
    /\ \E f \in IF AllIdr THEN force_next_idr(e) ELSE {e} :
          mft' = [e EXCEPT !.inflight = Append(@, [picture |-> thread.captured,
                                                    forced |-> f.forced]),
                           !.forced = FALSE]
    /\ encoder' = [encoder EXCEPT !.credits = credits, !.pending = Append(@, thread.captured)]
    /\ thread' = To("collecting")

Received == [mft EXCEPT !.events = Tail(@)]
EventIs(type) == mft.events # <<>> /\ Head(mft.events) = type

Feeds ==
    /\ thread.pc = "feeding"
    /\ \/ encoder.credits > 0 /\ ProcessInput(mft, encoder.credits - 1)
       \/ encoder.credits = 0 /\ EventIs("NeedInput") /\ ProcessInput(Received, 0)
       \/ encoder.credits = 0 /\ EventIs("HaveOutput") /\ take_one_output(Received)
    /\ UNCHANGED <<os, force_idr, stop, ready, handoff, channel, owner, view, lost>>

(* Mutant: a NeedInput seen while waiting for the output is dropped.       *)
BankedCredits_None == encoder.credits

BankedCredits == encoder.credits + 1

\* The bounded wait for this input's own output.
Collects ==
    /\ thread.pc = "collecting"
    /\ \/ EventIs("HaveOutput") /\ take_one_output(Received)
       \/ /\ EventIs("NeedInput")
          /\ encoder' = [encoder EXCEPT !.credits = BankedCredits]
          /\ mft' = Received
          /\ thread' = thread
       \/ /\ mft.events = <<>>
          /\ thread' = To("sending")
          /\ UNCHANGED <<encoder, mft>>
    /\ UNCHANGED <<os, force_idr, stop, ready, handoff, channel, owner, view, lost>>

\* The outputs in order; a closed channel ends the body.
SendsOutputs ==
    /\ thread.pc = "sending"
    /\ IF thread.outputs = <<>> THEN thread' = To("polling") /\ UNCHANGED <<channel, lost>>
       ELSE IF ReceiverGone THEN thread' = Returns("ok") /\ UNCHANGED <<channel, lost>>
       ELSE /\ send(Head(thread.outputs))
            /\ thread' = [thread EXCEPT !.outputs = Tail(@)]
    /\ UNCHANGED <<os, force_idr, stop, ready, encoder, mft, handoff, owner, view>>

-----------------------------------------------------------------------------
(* The macOS callbacks and the pump *)

\* CaptureSink::on_frame, while the capture session runs.  The request is
\* taken before the encoder can refuse the picture.
on_frame ==
    /\ os = "mac"
    /\ thread.pc \in {"polling", "waiting"}
    /\ thread.captured < MaxCaptures
    /\ Len(mft.inflight) < Depth
    /\ thread' = [thread EXCEPT !.captured = @ + 1]
    /\ force_idr' = FALSE
    /\ mft' \in {mft, [mft EXCEPT !.inflight = Append(@, [picture |-> thread.captured + 1,
                                                          forced |-> AllIdr \/ force_idr])]}
    /\ UNCHANGED <<os, stop, ready, encoder, handoff, channel, owner, view, lost>>

\* CaptureSink::on_stopped: the message is lost when the channel is full.
on_stopped ==
    /\ os = "mac"
    /\ thread.pc \in {"polling", "waiting"}
    /\ Len(handoff) < HandoffCapacity
    /\ handoff' = Append(handoff, <<>>)
    /\ UNCHANGED <<os, force_idr, stop, ready, thread, encoder, mft, channel, owner, view, lost>>

\* Forwarder::on_encoded, on an encoder thread, until the flush is over.
on_encoded ==
    /\ os = "mac"
    /\ mft.done # <<>>
    /\ LET out == Head(mft.done)
           frame == Completed(out, out.picture)
       IN /\ encoder' = [encoder EXCEPT !.sets = SetsAfter(out)]
          /\ IF Len(handoff) < HandoffCapacity
             THEN handoff' = Append(handoff, <<frame>>) /\ lost' = lost
             ELSE handoff' = handoff /\ lost' = lost \cup {frame.n}
    /\ mft' = [mft EXCEPT !.done = Tail(@)]
    /\ UNCHANGED <<os, force_idr, stop, ready, thread, channel, owner, view>>

\* pump: forwards a frame, or returns when the stream was stopped.
pump ==
    /\ os = "mac"
    /\ thread.pc = "waiting"
    /\ handoff # <<>>
    /\ handoff' = Tail(handoff)
    /\ IF Head(handoff) = <<>>
       THEN thread' = Returns("err") /\ UNCHANGED <<ready, channel, lost>>
       ELSE /\ ready' = ReadyAfterReport
            /\ IF ReceiverGone
               THEN thread' = Returns("ok") /\ UNCHANGED <<channel, lost>>
               ELSE send(Head(handoff)[1]) /\ thread' = To("polling")
    /\ UNCHANGED <<os, force_idr, stop, encoder, mft, owner, view>>

-----------------------------------------------------------------------------
(* The system's encoder: in order, without B-frames; a forced input or the *)
(* first one gives an IDR, and so may any other (the safety-net GOP).  On  *)
(* Windows every input gives one output: the source relies on it (the      *)
(* comment on pending_capture_ts), as does the capture time of a frame     *)

AsksForInput ==
    /\ os = "windows"
    /\ thread.pc \in {"feeding", "collecting"}
    /\ mft.free > 0
    /\ mft' = [mft EXCEPT !.free = @ - 1, !.events = Append(@, "NeedInput")]
    /\ UNCHANGED <<os, force_idr, stop, ready, thread, encoder, handoff, channel, owner, view, lost>>

\* An output announced with no sample to take.
AnnouncesNothing ==
    /\ os = "windows"
    /\ thread.pc \in {"feeding", "collecting"}
    /\ mft.empty > 0
    /\ mft' = [mft EXCEPT !.empty = @ - 1, !.events = Append(@, "HaveOutput")]
    /\ UNCHANGED <<os, force_idr, stop, ready, thread, encoder, handoff, channel, owner, view, lost>>

Encodes ==
    /\ mft.inflight # <<>>
    /\ thread.pc # "exited"
    /\ \E idr \in BOOLEAN :
          LET input == Head(mft.inflight)
              key == mft.n = 0 \/ input.forced \/ idr
              inBand == mft.n = 0 /\ mft.header = NoSets
              out == [n |-> mft.n + 1, picture |-> input.picture, key |-> key, flag |-> mft.n = 0,
                      au |-> IF ~key THEN <<"slice">>
                             ELSE IF inBand THEN <<"sps", "pps", "idr">> ELSE <<"idr">>]
          IN mft' = [mft EXCEPT !.inflight = Tail(@), !.done = Append(@, out), !.n = @ + 1,
                                !.free = IF os = "windows" THEN @ + 1 ELSE @,
                                !.events = IF os = "windows" THEN Append(@, "HaveOutput") ELSE @]
    /\ UNCHANGED <<os, force_idr, stop, ready, thread, encoder, handoff, channel, owner, view, lost>>

\* VideoToolbox may drop an input: no output, and no frame refers to it.
EncoderDrops ==
    /\ os = "mac"
    /\ mft.inflight # <<>>
    /\ mft' = [mft EXCEPT !.inflight = Tail(@)]
    /\ UNCHANGED <<os, force_idr, stop, ready, thread, encoder, handoff, channel, owner, view, lost>>

-----------------------------------------------------------------------------
(* The session: FrameWorker::spawn, next_idr_frame, the desktop arm, Drop *)

Session(pc) == owner' = [owner EXCEPT !.pc = pc, !.skipped = 0]

\* spawn: ready, failed (after joining the thread), or not ready in time
\* (the thread is left on its own with the stop flag).
SpawnReturns ==
    /\ owner.pc = "spawning"
    /\ \/ ready = "info" /\ Session("idle") /\ stop' = stop
       \/ ready \in {"error", "closed"} /\ thread.pc = "exited" /\ Session("failed") /\ stop' = TRUE
       \/ ready = "open" /\ thread.pc # "exited" /\ Session("failed") /\ stop' = TRUE
    /\ UNCHANGED <<os, sourceVars, channel, view, lost>>

\* open_generation, first and after a reset: next_idr_frame asks for an IDR.
RequestsIdr ==
    /\ owner.pc \in {"idle", "streaming"}
    /\ owner.instances < MaxInstances
    /\ owner' = [owner EXCEPT !.pc = "opening", !.skipped = 0, !.instances = @ + 1, !.last = 0]
    /\ force_idr' = TRUE
    /\ UNCHANGED <<os, stop, ready, thread, encoder, mft, handoff, channel, view, lost>>

(* Mutant: the first frame that arrives opens the Instance.                *)
OpensInstance_AnyFrame(f) == TRUE

OpensInstance(f) == f.is_idr

\* One turn of next_idr_frame: the IDR opens the Instance, other frames are
\* skipped up to a bound whose excess ends the session.
next_idr_frame ==
    /\ owner.pc = "opening"
    /\ channel # <<>>
    /\ channel' = Tail(channel)
    /\ IF OpensInstance(Head(channel))
       THEN owner' = [owner EXCEPT !.pc = "streaming", !.skipped = 0, !.last = Head(channel).n] /\ stop' = stop
       ELSE IF owner.skipped + 1 < MaxSkip
       THEN owner' = [owner EXCEPT !.skipped = @ + 1] /\ stop' = stop
       ELSE Session("joining") /\ stop' = TRUE
    /\ UNCHANGED <<os, sourceVars, view, lost>>

\* The desktop arm: written with VIEW, dropped without it.
WritesFrame ==
    /\ owner.pc = "streaming"
    /\ channel # <<>>
    /\ channel' = Tail(channel)
    /\ owner' = [owner EXCEPT !.last = IF view THEN Head(channel).n ELSE @]
    /\ lost' = IF view THEN lost ELSE lost \cup {Head(channel).n}
    /\ UNCHANGED <<os, stop, sourceVars, view>>

\* A revocation or a grant, at the tick.
VIEWChanges ==
    /\ owner.pc = "streaming"
    /\ view' = ~view
    /\ UNCHANGED <<os, stop, sourceVars, channel, owner, lost>>

\* The session ends, by itself, by its set-up timeout or because the capture
\* stopped: dropping the source stops its thread and joins it.
DropsSource ==
    /\ owner.pc \in {"idle", "opening", "streaming"}
    /\ Session("joining")
    /\ stop' = TRUE
    /\ UNCHANGED <<os, sourceVars, channel, view, lost>>

Joins ==
    /\ owner.pc = "joining"
    /\ thread.pc = "exited"
    /\ Session("gone")
    /\ UNCHANGED <<os, stop, sourceVars, channel, view, lost>>

-----------------------------------------------------------------------------
WorkerStep == PollsStop \/ WaitTimesOut \/ AcquiresFrame \/ CaptureFails
                \/ Feeds \/ Collects \/ SendsOutputs \/ pump \/ ThreadExits

Next ==
    \/ SetsUp \/ StartsCapture \/ WorkerStep
    \/ on_frame \/ on_stopped \/ on_encoded
    \/ AsksForInput \/ AnnouncesNothing \/ Encodes \/ EncoderDrops
    \/ SpawnReturns \/ RequestsIdr \/ next_idr_frame \/ WritesFrame \/ VIEWChanges
    \/ DropsSource \/ Joins

\* The thread runs: each of its waits is bounded (the capture timeout, 5 s
\* for an event, one interval for an output, 2 s for the drain).  Its set-up
\* is not: it may be stuck in a call of the operating system, which is why a
\* spawn that timed out does not join.  The macOS flush returns once the
\* encoder has handled every input, and a join once its thread has ended.
Fairness ==
    /\ WF_vars(WorkerStep)
    /\ WF_vars(Encodes \/ EncoderDrops)
    /\ WF_vars(Joins)

Spec == Init /\ [][Next]_vars /\ Fairness

-----------------------------------------------------------------------------
(* The states the program can be in, and the inductive invariant *)

ThreadPc == {"setup", "polling", "waiting", "feeding", "collecting", "sending", "finishing",
             "exited"}
OwnerPc == {"spawning", "idle", "opening", "streaming", "joining", "gone", "failed"}
AccessUnits == {<<"slice">>, <<"idr">>, <<"sps", "pps", "idr">>}
Frame == [n : Nat, is_idr : BOOLEAN, capture_ts : Nat, picture : Nat, annex_b : Seq(NalTypes)]
Output == [n : Nat, picture : Nat, key : BOOLEAN, flag : BOOLEAN, au : AccessUnits]

ThreadType == [pc : ThreadPc, outputs : Seq(Frame), result : {"ok", "err"}, captured : Nat]
EncoderType == [credits : Nat, pending : Seq(Nat), sets : {NoSets, ParameterSets}]
Input == [picture : Nat, forced : BOOLEAN]
MftType == [header : {NoSets, ParameterSets}, events : Seq({"NeedInput", "HaveOutput"}),
            inflight : Seq(Input), done : Seq(Output), free : Nat, empty : Nat, forced : BOOLEAN, n : Nat]
OwnerType == [pc : OwnerPc, skipped : Nat, instances : Nat, last : Nat]
\* A frame of the callbacks, or the end of their stream.
HandoffEvent == {<<>>} \cup {<<f>> : f \in Frame}

(* Every variable keeps its type.                                          *)
TypeOK ==
    /\ os \in {"windows", "mac"}
    /\ force_idr \in BOOLEAN /\ stop \in BOOLEAN /\ view \in BOOLEAN
    /\ ready \in {"open", "info", "error", "closed"}
    /\ thread \in ThreadType
    /\ encoder \in EncoderType
    /\ mft \in MftType
    /\ handoff \in Seq(HandoffEvent)
    /\ channel \in Seq(Frame)
    /\ owner \in OwnerType
    /\ lost \subseteq Nat

\* Each platform uses its own half, and a frame was written to every Instance
\* that is open.
Phases ==
    /\ os = "windows" => handoff = <<>>
    /\ os = "mac" => /\ thread.pc \notin {"feeding", "collecting", "sending"}
                    /\ thread.outputs = <<>> /\ mft.header # NoSets
    /\ thread.pc \in {"finishing", "exited"} => thread.outputs = <<>>
    /\ owner.pc = "streaming" => owner.last > 0
    /\ owner.pc = "opening" => owner.last = 0

\* An output is an IDR exactly if it was marked as one.
Marked(out) ==
    /\ out.key = (out.au # <<"slice">>)
    /\ out.flag => out.key

\* Sets that come only in the stream are with the first output: either it
\* has been taken, or it is next.
SetsKnown ==
    /\ \A i \in DOMAIN mft.done : Marked(mft.done[i])
    /\ mft.header = NoSets /\ encoder.sets = NoSets
       => IF mft.done = <<>> THEN mft.n = 0 ELSE mft.done[1].au = <<"sps", "pps", "idr">>

Good(f) ==
    /\ f.is_idr => is_self_contained_idr(f.annex_b)
    /\ f.capture_ts = f.picture

FramesGood ==
    /\ \A i \in DOMAIN thread.outputs : Good(thread.outputs[i])
    /\ \A i \in DOMAIN handoff : handoff[i] # <<>> => Good(handoff[i][1])
    /\ \A i \in DOMAIN channel : Good(channel[i])

\* Windows: the pending capture times are those of the outputs not taken and
\* of the inputs not encoded, in this order.
Aligned(pending, done, inflight) ==
    /\ Len(pending) = Len(done) + Len(inflight)
    /\ \A i \in DOMAIN done : pending[i] = done[i].picture
    /\ \A i \in DOMAIN inflight : pending[Len(done) + i] = inflight[i].picture

PendingAligned == os = "windows" => Aligned(encoder.pending, mft.done, mft.inflight)

\* Windows: every output is announced, and every one of the encoder's Depth
\* places is free, offered, banked or taken.
Count(s, e) == Cardinality({i \in DOMAIN s : s[i] = e})

Places(events, done, inflight, free, credits) ==
    /\ Len(done) <= Count(events, "HaveOutput")
    /\ free + Count(events, "NeedInput") + credits + Len(inflight) = Depth

PlacesKept ==
    os = "windows" => Places(mft.events, mft.done, mft.inflight, mft.free, encoder.credits)

\* The numbers of the frames between encoder and session.
Numbers(q) == {q[i].n : i \in DOMAIN q}
HandedOver(h) == {h[i][1].n : i \in {j \in DOMAIN h : h[j] # <<>>}}
OnTheWay == Numbers(thread.outputs) \cup HandedOver(handoff)

Increasing(q) == \A i, j \in DOMAIN q : i < j => q[i].n < q[j].n
InTurn(h) == \A i, j \in DOMAIN h : i < j /\ h[i] # <<>> /\ h[j] # <<>> => h[i][1].n < h[j][1].n
Before(A, B) == \A a \in A, b \in B : a < b

\* The frame written last, those in the channel, those on their way to it
\* and those not taken from the encoder: in the encoder's order.
Staged(last, sent, away, done, n) ==
    /\ Before({0, last}, sent \cup away \cup done)
    /\ Before(sent, away \cup done)
    /\ Before(away, done)
    /\ Before({last} \cup sent \cup away \cup done, {n + 1})

\* The stages hold frames in the encoder's order.
Ordered ==
    /\ Increasing(channel) /\ Increasing(thread.outputs) /\ Increasing(mft.done)
    /\ InTurn(handoff)
    /\ Staged(owner.last, Numbers(channel), OnTheWay, Numbers(mft.done), mft.n)

\* Between two numbers that were written, may still be or will come next, a
\* number is itself on its way, or was lost.
Covered(coming, marks, gone) ==
    \A a, b \in marks : \A k \in (a + 1)..(b - 1) : k \in coming \cup gone

\* What may still reach the session: a thread that has returned sends nothing.
Running == thread.pc \notin {"finishing", "exited"}
Coming(sent, away, done, running) == sent \cup IF running THEN away \cup done ELSE {}
Marks(last, sent, away, done, n, running) ==
    Coming(sent, away, done, running) \cup ({last} \ {0}) \cup IF running THEN {n + 1} ELSE {}

GapsAreLost ==
    Covered(Coming(Numbers(channel), OnTheWay, Numbers(mft.done), Running),
            Marks(owner.last, Numbers(channel), OnTheWay, Numbers(mft.done), mft.n, Running),
            lost)

CaptureInv ==
    /\ TypeOK
    /\ Phases
    /\ SetsKnown
    /\ FramesGood
    /\ PendingAligned
    /\ PlacesKept
    /\ Ordered
    /\ GapsAreLost

-----------------------------------------------------------------------------
(* Properties *)

\* Every IDR on its way to the client carries its parameter sets before its
\* slice, also when the encoder gave them once, with the first output only,
\* or never in the stream (take_one_output, on_encoded).
IdrSelfContained ==
    \A f \in Range(channel) : f.is_idr => is_self_contained_idr(f.annex_b)

\* A frame carries the capture time of the picture it shows, however many
\* inputs the encoder holds back when its output is taken.
OwnTimestamp ==
    \A f \in Range(channel) : f.capture_ts = f.picture

\* encode_frame is never left waiting for an input permission that the
\* encoder has already given: while it waits, an event is queued or the
\* encoder still has one to send.
PermissionsKept ==
    (thread.pc = "feeding" /\ encoder.credits = 0 /\ mft.events = <<>>)
        => (mft.inflight # <<>> \/ mft.free > 0)

\* An Instance starts at an IDR, whatever was dropped before it.  A later
\* frame is written to it only if it is an IDR, or the frame it refers to
\* was written to the same Instance, or that frame was dropped on the way:
\* by a full channel or without VIEW.  Nothing else (a reopening, a skipped
\* frame, the order of the sends) breaks the chain.
ChainBreaksOnlyByDrops ==
    [][owner'.last \notin {0, owner.last} =>
          LET f == Head(channel)
          IN \/ f.is_idr
             \/ owner.last # 0 /\ (f.n = owner.last + 1 \/ f.n - 1 \in lost)]_vars

\* The join in Drop returns: the stop flag reaches the thread wherever it is,
\* waiting for a picture, for the encoder or with outputs to send to a full
\* channel.  (A spawn that timed out does not join, and promises nothing.)
StopEnds == owner.pc = "joining" ~> owner.pc = "gone"
=============================================================================
