-------------------------- MODULE DisplayPipeline ---------------------------
(***************************************************************************)
(* The client's video path in window mode: the session loop that receives  *)
(* frames, the display thread that decodes and presents them, the queue    *)
(* between the two, the bounded channel of timing reports on the way back, *)
(* and the circuit breaker that watches the backlog.                       *)
(*                                                                         *)
(* The loop keeps a list of submitted frames whose report has not come     *)
(* back (pending) and uses the age of its first entry for the age of the   *)
(* thread's queue.  The thread reports nothing for a frame it skips or for *)
(* which the decoder gave no picture.  Ages stand for clock differences    *)
(* and are counted up to the first value above the trip threshold.         *)
(***************************************************************************)
EXTENDS Integers, Sequences, SequencesExt

CONSTANTS MaxGeneration,    \* bound: generations the server opens
          MaxFrameId,       \* bound: frame ids of one generation
          Size,             \* the picture size of each generation
          TimingCapacity,   \* capacity of the timing channel
          TripThreshold,    \* TRIP_THRESHOLD_US
          RearmThreshold    \* REARM_THRESHOLD_US

ASSUME DisplayConstants ==
    /\ {MaxGeneration, MaxFrameId, RearmThreshold, TripThreshold} \subseteq Nat
    /\ TimingCapacity \in Nat \ {0}
    /\ RearmThreshold < TripThreshold
    /\ DOMAIN Size = 0..MaxGeneration

VARIABLES phase,      \* where run() is: see Phases
          next,       \* the frame the video stream delivers next
          current,    \* ClientDisplay: generation on display, -1 before the first
          pending,    \* submitted frames without a report, with their ages
          tripped,    \* the breaker's state
          requests,   \* KeyframeRequests sent
          stats,      \* the counters of FrameStats
          reported,   \* the frame of the last TransportFeedback
          queue,      \* frames on their way to the display thread
          newest,     \* Shared.newest_generation
          closed,     \* Shared.closed
          timings,    \* reports in the timing channel
          worker,     \* the display thread: pc, and reports it still has to send
          decoder     \* picture size, inputs without output, last input

clientVars == <<phase, next, current, pending, tripped, requests, stats, reported>>
windowVars == <<queue, newest, closed, timings, worker, decoder>>
vars == <<clientVars, windowVars>>

\* running: in the select loop; waiting: in accept_next_generation; closing:
\* in close_gracefully; dropping: run() has returned; joining: the window's
\* WorkerHandle waits for its thread; done: the thread has been joined.
Phases == {"running", "waiting", "closing", "dropping", "joining", "done"}

Frame == [generation : 0..MaxGeneration, frame_id : 0..MaxFrameId]
NoFrame == [generation |-> -1, frame_id |-> -1]
NextAfter(f) == [f EXCEPT !.frame_id = @ + 1]
Before(f, g) ==
    \/ f.generation < g.generation
    \/ f.generation = g.generation /\ f.frame_id < g.frame_id

-----------------------------------------------------------------------------
(* The client's loop *)

\* Frames of a generation older than the one on display are discarded.
would_display(f) == f.generation >= current

(* Mutant: the breaker re-sends while it stays tripped.                    *)
observe_Resends(queued) ==
    LET age == IF queued = <<>> THEN 0 ELSE Head(queued).age
    IN /\ tripped' = (age > TripThreshold)
       /\ requests' = IF age > TripThreshold THEN requests + 1 ELSE requests

\* The breaker sees the age of the oldest frame of the list, or 0.  It asks
\* for a keyframe when it trips and stays silent until the age is low again.
observe(queued) ==
    LET age == IF queued = <<>> THEN 0 ELSE Head(queued).age
        trips == ~tripped /\ age > TripThreshold
    IN /\ tripped' = (trips \/ (tripped /\ age >= RearmThreshold))
       /\ requests' = IF trips THEN requests + 1 ELSE requests

(* Mutant: a full queue drops the frame instead of growing.                *)
submit_Bounded(f) ==
    /\ newest' = IF f.generation > newest THEN f.generation ELSE newest
    /\ queue' = IF Len(queue) < 2 THEN Append(queue, f) ELSE queue

\* H264DisplayWindow::submit of a window whose thread still receives.
submit(f) ==
    /\ newest' = IF f.generation > newest THEN f.generation ELSE newest
    /\ queue' = Append(queue, f)

Counted(field) == [stats EXCEPT !.received = @ + 1, ![field] = @ + 1]

\* process_frame: a stale frame is only counted (the Instances of this server
\* grow, so none arrives); a closed window is left to the timing arm; a
\* thread that is gone but has not set its flag yet makes submit fail, which
\* ends the session with an error.
process_frame(f) ==
    IF ~would_display(f) \/ closed
    THEN /\ stats' = Counted(IF would_display(f) THEN "unshown" ELSE "stale_generation")
         /\ phase' = "running"
         /\ UNCHANGED <<current, pending, tripped, requests, queue, newest>>
    ELSE IF worker.pc = "returned"
    THEN /\ stats' = Counted("unshown")
         /\ phase' = "dropping"
         /\ newest' = IF f.generation > newest THEN f.generation ELSE newest
         /\ UNCHANGED <<current, pending, tripped, requests, queue>>
    ELSE /\ submit(f)
         /\ current' = f.generation
         /\ pending' = Append(pending, [frame |-> f, age |-> 0])
         /\ observe(pending')
         /\ stats' = [stats EXCEPT !.received = @ + 1]
         /\ phase' = "running"

\* The frame arm: the next frame of the stream the loop reads.
FrameArrives ==
    /\ phase = "running"
    /\ next.frame_id <= MaxFrameId
    /\ process_frame(next)
    /\ next' = NextAfter(next)
    /\ UNCHANGED <<reported, closed, timings, worker, decoder>>

\* The frame arm: the server reset the stream.
StreamReset ==
    /\ phase = "running"
    /\ next.generation < MaxGeneration
    /\ phase' = "waiting"
    /\ UNCHANGED <<next, current, pending, tripped, requests, stats, reported, windowVars>>

\* accept_next_generation: an Instance that is reset before its intro has
\* been read is skipped, so any later generation may be the one accepted.
\* Its first frame is processed at once.
accept_next_generation ==
    /\ phase = "waiting"
    /\ \E g \in next.generation + 1..MaxGeneration :
           LET first == [generation |-> g, frame_id |-> 0]
           IN process_frame(first) /\ next' = NextAfter(first)
    /\ UNCHANGED <<reported, closed, timings, worker, decoder>>

(* Mutant: the entries ahead of the reported frame stay in the list.       *)
on_window_timing_KeepsSkipped(t) ==
    LET known == {i \in DOMAIN pending : pending[i].frame = t}
    IN \/ /\ known = {}
          /\ UNCHANGED <<pending, tripped, requests, stats, reported>>
       \/ \E i \in known :
             /\ pending' = RemoveAt(pending, i)
             /\ stats' = [stats EXCEPT !.displayed = @ + 1, !.no_output = @ + (i - 1)]
             /\ reported' = t
             /\ observe(pending')

(* Mutant: the drain includes the reported entry, so the pop takes one more. *)
on_window_timing_DrainsInclusive(t) ==
    LET known == {i \in DOMAIN pending : pending[i].frame = t}
    IN \/ /\ known = {}
          /\ UNCHANGED <<pending, tripped, requests, stats, reported>>
       \/ \E i \in known :
             /\ pending' = SubSeq(pending, i + 2, Len(pending))
             /\ stats' = [stats EXCEPT !.displayed = @ + 1, !.no_output = @ + i]
             /\ reported' = t
             /\ observe(pending')

\* on_window_timing: a report for a frame that is not in the list is
\* ignored; otherwise the entries ahead of it are given up, its own is
\* taken, and the feedback is sent.
on_window_timing(t) ==
    LET known == {i \in DOMAIN pending : pending[i].frame = t}
    IN \/ /\ known = {}
          /\ UNCHANGED <<pending, tripped, requests, stats, reported>>
       \/ \E i \in known :
             /\ pending' = SubSeq(pending, i + 1, Len(pending))
             /\ stats' = [stats EXCEPT !.displayed = @ + 1, !.no_output = @ + (i - 1)]
             /\ reported' = t
             /\ observe(pending')

TimingArrives ==
    /\ phase = "running"
    /\ timings # <<>>
    /\ on_window_timing(Head(timings))
    /\ timings' = Tail(timings)
    /\ UNCHANGED <<phase, next, current, queue, newest, closed, worker, decoder>>

\* The channel is empty and the thread is gone: the user closed the window.
WindowGone ==
    /\ phase = "running"
    /\ timings = <<>> /\ worker.pc \in {"returned", "exited"}
    /\ phase' = "closing"
    /\ UNCHANGED <<next, current, pending, tripped, requests, stats, reported, windowVars>>

(* Mutant: the interval's arm does nothing, as on other platforms.         *)
tick_circuit_breaker_NoOp ==
    /\ phase = "running"
    /\ UNCHANGED vars

tick_circuit_breaker ==
    /\ phase = "running"
    /\ observe(pending)
    /\ UNCHANGED <<phase, next, current, pending, stats, reported, windowVars>>

\* Ctrl-C or the idle timeout in the loop.
CloseGracefully ==
    /\ phase = "running"
    /\ phase' = "closing"
    /\ UNCHANGED <<next, current, pending, tripped, requests, stats, reported, windowVars>>

\* SessionClose, an error of any stream, no new Instance in time, or the end
\* of the closing grace period: run() returns.
Returns ==
    /\ phase \in {"running", "waiting", "closing"}
    /\ phase' = "dropping"
    /\ UNCHANGED <<next, current, pending, tripped, requests, stats, reported, windowVars>>

\* Drop of the window: the flag is set, then the handle's channel closes
\* and the thread is joined, before the timing receiver is dropped.
DropWindow ==
    /\ phase = "dropping"
    /\ phase' = "joining"
    /\ closed' = TRUE
    /\ UNCHANGED <<next, current, pending, tripped, requests, stats, reported,
                   queue, newest, timings, worker, decoder>>

Join ==
    /\ phase = "joining" /\ worker.pc = "exited"
    /\ phase' = "done"
    /\ UNCHANGED <<next, current, pending, tripped, requests, stats, reported, windowVars>>

-----------------------------------------------------------------------------
(* The display thread *)

\* A decoder for another picture size replaces the old one, with whatever
\* that still held.
create_decoder(f) ==
    IF decoder.size = Size[f.generation] THEN decoder
    ELSE [size |-> Size[f.generation], held |-> 0, last |-> decoder.last]

\* Leftovers of a generation the server has reset.
Stale(f) == f.generation < newest

\* The top of the loop: a flag found set ends the thread, otherwise it waits
\* in recv_timeout and takes one frame more even if the flag is set now.
SeesClosed ==
    /\ worker.pc = "idle"
    /\ worker' = [worker EXCEPT !.pc = IF closed THEN "returned" ELSE "receiving"]
    /\ UNCHANGED <<clientVars, queue, newest, closed, timings, decoder>>

\* recv_timeout gives no frame: its 10 ms are over, or the handle is gone.
ReceiveTimesOut ==
    /\ worker.pc = "receiving" /\ queue = <<>>
    /\ worker' = [worker EXCEPT !.pc = IF phase = "joining" THEN "returned" ELSE "idle"]
    /\ UNCHANGED <<clientVars, queue, newest, closed, timings, decoder>>

SkipsStale ==
    /\ worker.pc = "receiving"
    /\ queue # <<>> /\ Stale(Head(queue))
    /\ queue' = Tail(queue)
    /\ worker' = [worker EXCEPT !.pc = "idle"]
    /\ UNCHANGED <<clientVars, newest, closed, timings, decoder>>

\* The decoder takes the frame and gives back as many pictures as it will
\* of those it holds; each is reported under the frame just taken.
decode_and_present ==
    /\ worker.pc = "receiving"
    /\ queue # <<>> /\ ~Stale(Head(queue))
    /\ LET f == Head(queue)
           d == create_decoder(f)
       IN \E k \in 0..d.held + 1 :
             /\ decoder' = [d EXCEPT !.held = d.held + 1 - k, !.last = f]
             /\ worker' = [pc |-> IF k = 0 THEN "idle" ELSE "sending",
                           unsent |-> [i \in 1..k |-> f]]
    /\ queue' = Tail(queue)
    /\ UNCHANGED <<clientVars, newest, closed, timings>>

\* An error of the decoder or of the swap chain ends the thread.
DecodeFails ==
    /\ worker.pc = "receiving"
    /\ queue # <<>> /\ ~Stale(Head(queue))
    /\ queue' = Tail(queue)
    /\ worker' = [worker EXCEPT !.pc = "returned"]
    /\ UNCHANGED <<clientVars, newest, closed, timings, decoder>>

\* blocking_send: waits for room in the channel.
SendsTiming ==
    /\ worker.pc = "sending"
    /\ Len(timings) < TimingCapacity
    /\ timings' = Append(timings, Head(worker.unsent))
    /\ worker' = [pc |-> IF Len(worker.unsent) = 1 THEN "idle" ELSE "sending",
                  unsent |-> Tail(worker.unsent)]
    /\ UNCHANGED <<clientVars, queue, newest, closed, decoder>>

\* WM_QUIT.
UserCloses ==
    /\ worker.pc = "idle"
    /\ worker' = [worker EXCEPT !.pc = "returned"]
    /\ UNCHANGED <<clientVars, queue, newest, closed, timings, decoder>>

\* worker_main after run_worker: the channels are gone already.
WorkerExits ==
    /\ worker.pc = "returned"
    /\ worker' = [worker EXCEPT !.pc = "exited"]
    /\ closed' = TRUE
    /\ UNCHANGED <<clientVars, queue, newest, timings, decoder>>

\* Time passes for the frames of the list while somebody looks at it.
Tick ==
    /\ phase = "running"
    /\ \E i \in DOMAIN pending : pending[i].age <= TripThreshold
    /\ pending' = [i \in DOMAIN pending |->
           [pending[i] EXCEPT !.age = IF @ <= TripThreshold THEN @ + 1 ELSE @]]
    /\ UNCHANGED <<phase, next, current, tripped, requests, stats, reported, windowVars>>

-----------------------------------------------------------------------------
\* A breaker that has not tripped.
NewBreaker == tripped = FALSE /\ requests = 0

\* VideoSink::open: a window, nothing pending, a fresh breaker.
SinkOpens == pending = <<>> /\ NewBreaker

\* The window has just opened; the intro's frame is the first to arrive.
Init ==
    /\ phase = "running"
    /\ next = [generation |-> 0, frame_id |-> 0]
    /\ current = -1
    /\ SinkOpens
    /\ stats = [received |-> 0, displayed |-> 0, stale_generation |-> 0,
                no_output |-> 0, unshown |-> 0]
    /\ reported = NoFrame
    /\ queue = <<>> /\ newest = 0 /\ closed = FALSE
    /\ timings = <<>>
    /\ worker = [pc |-> "idle", unsent |-> <<>>]
    /\ decoder = [size |-> 0, held |-> 0, last |-> NoFrame]

WorkerStep ==
    \/ SeesClosed \/ ReceiveTimesOut
    \/ SkipsStale \/ decode_and_present \/ SendsTiming
    \/ WorkerExits

Next ==
    \/ FrameArrives \/ StreamReset \/ accept_next_generation
    \/ TimingArrives \/ WindowGone \/ tick_circuit_breaker
    \/ CloseGracefully \/ Returns \/ DropWindow \/ Join
    \/ WorkerStep \/ DecodeFails \/ UserCloses
    \/ Tick

\* The interval of the breaker fires, the loop reads what has been reported,
\* the thread looks at its flag and reports while it is scheduled, a closing
\* session ends and its window is dropped.  Nothing obliges frames to arrive,
\* the user to act, or a call into the decoder to return.
Spec ==
    /\ Init /\ [][Next]_vars
    /\ WF_vars(tick_circuit_breaker) /\ WF_vars(TimingArrives) /\ WF_vars(WindowGone)
    /\ WF_vars(SendsTiming) /\ WF_vars(SeesClosed) /\ WF_vars(ReceiveTimesOut)
    /\ WF_vars(WorkerExits)
    /\ WF_vars(phase # "running" /\ Returns) /\ WF_vars(DropWindow) /\ WF_vars(Join)

\* The same with a decoder that always returns: what still blocks is not its
\* doing.
DropSpec == Spec /\ WF_vars(SkipsStale \/ decode_and_present \/ DecodeFails)
-----------------------------------------------------------------------------
(* Properties *)

\* What waits for the display thread is the newest part of the list the
\* breaker watches, in the same order: a backlog of the thread cannot hide
\* behind reports that came back, came back twice or never came.
QueueIsWatched ==
    /\ Len(queue) <= Len(pending)
    /\ \A i \in DOMAIN queue : pending[Len(pending) - Len(queue) + i].frame = queue[i]

\* The decoder never misses a reference: each frame it gets is the first of
\* a generation or the successor of the one before, whatever was skipped.
ReferenceChain ==
    [][decoder'.last # decoder.last =>
          \/ decoder'.last.frame_id = 0 /\ decoder'.last.generation > decoder.last.generation
          \/ decoder'.last = NextAfter(decoder.last)]_vars

\* One feedback per frame at most, in the order of the frames, although the
\* decoder may give several pictures for one input and none for another; and
\* every frame the client counted is accounted for.
FeedbackOncePerFrame ==
    [][/\ stats'.displayed # stats.displayed =>
             /\ stats'.displayed = stats.displayed + 1
             /\ Before(reported, reported')
             /\ ~Before(decoder.last, reported')
       /\ LET s == stats' IN
          s.received = s.displayed + s.stale_generation + s.no_output + s.unshown + Len(pending')]_vars

\* One KeyframeRequest per backlog: before the next one some frame was
\* reported, so the server's minimum interval is not used up by repeats.
OneRequestPerBacklog == requests <= stats.displayed + 1

\* A frame that has waited for the display thread longer than the threshold
\* makes the breaker trip, unless the thread gets to it first.
Overdue ==
    /\ phase = "running" /\ queue # <<>>
    /\ \E i \in DOMAIN pending : pending[i].frame = Head(queue) /\ pending[i].age > TripThreshold
BacklogReported == Overdue ~> (tripped \/ ~Overdue)

\* "exits its loop the same way either kind of worker does"
\* (worker_handle.rs): dropping the window ends its thread.
DropJoins == phase = "joining" ~> phase = "done"
-----------------------------------------------------------------------------
(* The inductive invariant of the proofs *)

Entry == [frame : Frame, age : Nat]
Counters == [received : Nat, displayed : Nat, stale_generation : Nat, no_output : Nat,
             unshown : Nat]
Worker == [pc : {"idle", "receiving", "sending", "returned", "exited"}, unsent : Seq(Frame)]
Decoder == [size : {0} \cup {Size[g] : g \in 0..MaxGeneration}, held : Nat,
            last : Frame \cup {NoFrame}]

\* The types of loop, window and thread.
TypeOK ==
    /\ phase \in Phases
    /\ next \in [generation : 0..MaxGeneration, frame_id : 0..MaxFrameId + 1]
    /\ current \in Int /\ newest \in Int
    /\ pending \in Seq(Entry)
    /\ tripped \in BOOLEAN /\ requests \in Nat
    /\ stats \in Counters
    /\ reported \in Frame \cup {NoFrame}
    /\ queue \in Seq(Frame) /\ timings \in Seq(Frame)
    /\ closed \in BOOLEAN
    /\ worker \in Worker
    /\ decoder \in Decoder

\* Frames move through list, queue and reports in their order: what has been
\* reported lies before what is pending and that before what is still to
\* come, what has been decoded before what is queued, and no report is ahead
\* of the decoder.
Ordered ==
    /\ \A i, j \in DOMAIN pending : i < j => Before(pending[i].frame, pending[j].frame)
    /\ \A i \in DOMAIN pending :
           Before(reported, pending[i].frame) /\ Before(pending[i].frame, next)
    /\ \A j \in DOMAIN queue : Before(decoder.last, queue[j])
    /\ \A j \in DOMAIN timings : ~Before(decoder.last, timings[j])
    /\ \A j \in DOMAIN worker.unsent : ~Before(decoder.last, worker.unsent[j])
    /\ worker.pc = "sending" => worker.unsent # <<>>
    /\ Before(decoder.last, next) /\ Before(reported, next)

HeadAge == IF pending = <<>> THEN 0 ELSE Head(pending).age

\* A breaker that is tripped has sent its request and has a reason to stay
\* tripped; each earlier request was answered by a displayed frame.
BreakerCounts ==
    /\ tripped => HeadAge >= RearmThreshold /\ requests <= stats.displayed + 1
    /\ ~tripped => requests <= stats.displayed

\* Every received frame has one fate.
Accounted ==
    stats.received = stats.displayed + stats.stale_generation + stats.no_output
                     + stats.unshown + Len(pending)

\* f may be decoded after p.
Link(p, f) ==
    \/ f.frame_id = 0 /\ p.generation < f.generation
    \/ f = NextAfter(p)

\* What the next submitted frame follows.
Latest == IF queue = <<>> THEN decoder.last ELSE queue[Len(queue)]

\* The flag is set by a thread that is gone or by the drop of the window.
ClosedBy == closed => worker.pc = "exited" \/ phase \in {"joining", "done"}

\* As long as the thread decodes, the frames of the newest generation form a
\* chain from the decoder through the queue to the stream.
Chained ==
    worker.pc \in {"idle", "receiving", "sending"} =>
        /\ \A j \in DOMAIN queue :
               /\ queue[j].generation <= newest
               /\ queue[j].generation = newest =>
                      Link(IF j = 1 THEN decoder.last ELSE queue[j - 1], queue[j])
        /\ queue # <<>> => queue[Len(queue)].generation = newest
        /\ phase \in {"running", "waiting"} => newest <= next.generation /\ Link(Latest, next)

DisplayInv ==
    /\ TypeOK
    /\ Ordered
    /\ QueueIsWatched
    /\ BreakerCounts
    /\ Accounted
    /\ ClosedBy
    /\ Chained
    /\ current <= next.generation
=============================================================================
