------------------------ MODULE DisplayPipelineProofs ------------------------
(***************************************************************************)
(* Proofs about DisplayPipeline, for any number of generations and frames, *)
(* any capacity of the timing channel and any thresholds: the list the     *)
(* breaker watches covers the thread's queue, the breaker asks once per    *)
(* backlog, the decoder gets unbroken chains of frames, and feedback goes  *)
(* out once per frame and in order.                                        *)
(*                                                                         *)
(* QueueIsWatched is not inductive: a report takes a prefix off the list,  *)
(* and that the prefix ends before the queue begins follows from the order *)
(* of the frames (Ordered).  ReferenceChain rests on Chained: skipping a   *)
(* stale frame breaks the chain of its own generation only.                *)
(***************************************************************************)
EXTENDS DisplayPipeline, TLAPS

-----------------------------------------------------------------------------
(* Frames *)

FrameId == [generation : Int, frame_id : Int]

LEMMA FrameTypes ==
  /\ Frame \subseteq FrameId /\ NoFrame \in FrameId /\ NoFrame \notin Frame
  /\ [generation : 0..MaxGeneration, frame_id : 0..MaxFrameId + 1] \subseteq FrameId
<1>1. \A n \in Nat : 0..n \subseteq Int
  OBVIOUS
<1> QED
  BY <1>1, DisplayConstants DEF Frame, NoFrame, FrameId

LEMMA BeforeTransitive ==
  ASSUME NEW a \in FrameId, NEW b \in FrameId, NEW c \in FrameId, Before(a, b), Before(b, c)
  PROVE  Before(a, c)
  BY DEF Before, FrameId

LEMMA BeforeNotSelf ==
  ASSUME NEW a \in FrameId, NEW b \in FrameId, Before(a, b)
  PROVE  a # b /\ ~Before(b, a)
  BY DEF Before, FrameId

LEMMA NextAfterIsLater ==
  ASSUME NEW a \in FrameId
  PROVE  /\ NextAfter(a) \in FrameId /\ Before(a, NextAfter(a))
         /\ NextAfter(a).generation = a.generation
         /\ NextAfter(a).frame_id = a.frame_id + 1
  BY DEF Before, FrameId, NextAfter

(* What the type invariant says of the frames.                             *)
LEMMA Typed ==
  ASSUME TypeOK
  PROVE  /\ next \in FrameId /\ decoder.last \in FrameId /\ reported \in FrameId
         /\ \A i \in DOMAIN pending : /\ pending[i] \in Entry /\ pending[i].frame \in Frame
                                      /\ pending[i].frame \in FrameId /\ pending[i].age \in Nat
         /\ \A j \in DOMAIN queue : queue[j] \in Frame /\ queue[j] \in FrameId
         /\ \A j \in DOMAIN timings : timings[j] \in Frame /\ timings[j] \in FrameId
         /\ worker.unsent \in Seq(Frame)
         /\ \A j \in DOMAIN worker.unsent : worker.unsent[j] \in Frame /\ worker.unsent[j] \in FrameId
<1>1. /\ \A i \in DOMAIN pending : pending[i] \in Entry
      /\ \A j \in DOMAIN queue : queue[j] \in Frame
      /\ \A j \in DOMAIN timings : timings[j] \in Frame
  BY DEF TypeOK
<1>2. worker.unsent \in Seq(Frame) /\ decoder.last \in Frame \cup {NoFrame}
  BY DEF TypeOK, Worker, Decoder
<1>3. \A j \in DOMAIN worker.unsent : worker.unsent[j] \in Frame
  BY <1>2
<1>4. \A i \in DOMAIN pending : pending[i].frame \in Frame /\ pending[i].age \in Nat
  BY <1>1 DEF Entry
<1> QED
  BY <1>1, <1>2, <1>3, <1>4, FrameTypes DEF TypeOK

-----------------------------------------------------------------------------
(* The breaker *)

LEMMA ObserveKeeps ==
  ASSUME TypeOK, BreakerCounts, pending' \in Seq(Entry), observe(pending'),
         stats'.displayed \in Nat,
         \/ /\ stats'.displayed = stats.displayed
            /\ \/ pending' = pending
               \/ \E e \in Entry : e.age = 0 /\ pending' = Append(pending, e)
         \/ stats'.displayed = stats.displayed + 1
  PROVE  BreakerCounts' /\ tripped' \in BOOLEAN /\ requests' \in Nat
<1> DEFINE age == IF pending' = <<>> THEN 0 ELSE Head(pending').age
<1>1. /\ tripped' = ((~tripped /\ age > TripThreshold) \/ (tripped /\ age >= RearmThreshold))
      /\ requests' = IF ~tripped /\ age > TripThreshold THEN requests + 1 ELSE requests
  BY DEF observe
<1>2. age \in Nat /\ HeadAge' = age
  <2>1. pending' # <<>> => Head(pending') \in Entry
    OBVIOUS
  <2>2. pending' # <<>> => Head(pending').age \in Nat
    BY <2>1 DEF Entry
  <2>3. HeadAge' = age
    BY DEF HeadAge
  <2>4. age \in Nat
    BY <2>2
  <2> QED
    BY <2>3, <2>4
<1>3. /\ stats.displayed \in Nat /\ requests \in Nat /\ tripped \in BOOLEAN /\ pending \in Seq(Entry)
      /\ RearmThreshold \in Nat /\ TripThreshold \in Nat /\ RearmThreshold < TripThreshold
  BY DisplayConstants DEF TypeOK, Counters
<1>4. /\ tripped' \in BOOLEAN
      /\ tripped' => age >= RearmThreshold
      /\ ~tripped /\ ~tripped' => requests' = requests
      /\ ~tripped /\ tripped' => requests' = requests + 1
      /\ tripped => requests' = requests
      /\ tripped /\ ~tripped' => age < RearmThreshold
  <2> HIDE DEF age
  <2>1. age > TripThreshold => age >= RearmThreshold
    BY <1>2, <1>3
  <2>2. ~(age >= RearmThreshold) => age < RearmThreshold
    BY <1>2, <1>3
  <2> QED
    BY <1>1, <1>3, <2>1, <2>2, Zenon
<1>5. requests' \in Nat
  BY <1>1, <1>3
<1>6. CASE stats'.displayed = stats.displayed + 1
  <2>1. requests' <= stats'.displayed
    <3>1. CASE tripped
      BY <1>3, <1>4, <1>6, <3>1 DEF BreakerCounts
    <3>2. CASE ~tripped
      <4>1. requests <= stats.displayed
        BY <3>2 DEF BreakerCounts
      <4>2. requests' = requests \/ requests' = requests + 1
        BY <1>1
      <4> QED
        BY <1>3, <1>6, <4>1, <4>2
    <3> QED
      BY <3>1, <3>2
  <2>2. requests' <= stats'.displayed + 1
    BY <1>5, <2>1
  <2> HIDE DEF age
  <2> QED
    BY <1>2, <1>4, <1>5, <2>1, <2>2 DEF BreakerCounts
<1>7. CASE /\ stats'.displayed = stats.displayed
           /\ \/ pending' = pending
              \/ \E e \in Entry : e.age = 0 /\ pending' = Append(pending, e)
  <2>1. age = HeadAge
    <3>1. CASE pending' = pending
      BY <3>1 DEF HeadAge
    <3>2. ASSUME NEW e \in Entry, e.age = 0, pending' = Append(pending, e)
          PROVE  age = HeadAge
      <4>1. CASE pending = <<>>
        BY <3>2, <4>1 DEF HeadAge
      <4>2. CASE pending # <<>>
        <5>1. pending' # <<>> /\ Head(pending') = Head(pending)
          BY <1>3, <3>2, <4>2
        <5> QED
          BY <4>2, <5>1 DEF HeadAge
      <4> QED
        BY <4>1, <4>2
    <3> HIDE DEF age
    <3> QED
      BY <1>7, <3>1, <3>2
  <2> HIDE DEF age
  <2>2. tripped => tripped'
    BY <1>2, <1>3, <1>4, <2>1 DEF BreakerCounts
  <2>3. tripped' => requests' <= stats'.displayed + 1
    <3>1. tripped => requests <= stats.displayed + 1
      BY DEF BreakerCounts
    <3>2. ~tripped => requests <= stats.displayed
      BY DEF BreakerCounts
    <3>3. requests' = requests \/ (~tripped /\ requests' = requests + 1)
      BY <1>1
    <3> QED
      BY <1>3, <1>7, <3>1, <3>2, <3>3
  <2>4. ~tripped' => requests' <= stats'.displayed
    <3>1. ~tripped' => requests <= stats.displayed
      BY <2>2 DEF BreakerCounts
    <3> QED
      BY <1>4, <1>7, <2>2, <3>1
  <2> QED
    BY <1>2, <1>4, <1>5, <2>3, <2>4 DEF BreakerCounts
<1> QED
  BY <1>6, <1>7

-----------------------------------------------------------------------------
(* A frame arrives *)

(* f is the frame the stream delivers, or the first one of a later         *)
(* generation.                                                             *)
Follows(f) == f = next \/ (f.frame_id = 0 /\ f.generation > next.generation)

LEMMA FollowsFacts ==
  ASSUME TypeOK, NEW f \in Frame, Follows(f), next' = NextAfter(f)
  PROVE  /\ f \in FrameId /\ next' \in FrameId
         /\ next' \in [generation : 0..MaxGeneration, frame_id : 0..MaxFrameId + 1]
         /\ f.generation >= next.generation /\ f.generation \in Int
         /\ next'.generation = f.generation
         /\ Before(f, next')
         /\ \A x \in FrameId : Before(x, next) => Before(x, f) /\ Before(x, next')
<1>1. f \in FrameId /\ next \in FrameId
  BY FrameTypes, Typed
<1>2. next' \in FrameId /\ Before(f, next') /\ next'.generation = f.generation
  BY <1>1, NextAfterIsLater
<1>3. f = next \/ Before(next, f)
  BY <1>1 DEF Follows, Before, FrameId
<1>4. f.generation >= next.generation /\ f.generation \in Int
  BY <1>1 DEF Follows, FrameId
<1>5. \A x \in FrameId : Before(x, next) => Before(x, f)
  BY <1>1, <1>3, BeforeTransitive
<1>6. \A x \in FrameId : Before(x, next) => Before(x, next')
  BY <1>1, <1>2, <1>5, BeforeTransitive
<1>7. next' \in [generation : 0..MaxGeneration, frame_id : 0..MaxFrameId + 1]
  BY DisplayConstants DEF Frame, NextAfter
<1> QED
  BY <1>1, <1>2, <1>4, <1>5, <1>6, <1>7

(* The frames with a fate; the counters after a frame without display,     *)
(* after a submitted one, and after a displayed one for which k entries of *)
(* the list were given up.                                                 *)
Fates(s) == s.displayed + s.stale_generation + s.no_output + s.unshown
Unshown(s) == [s EXCEPT !.received = @ + 1, !.unshown = @ + 1]
Submitted(s) == [s EXCEPT !.received = @ + 1]
Displayed(s, k) == [s EXCEPT !.displayed = @ + 1, !.no_output = @ + k]

LEMMA CountersFields ==
  ASSUME NEW s \in Counters
  PROVE  /\ s.received \in Nat /\ s.displayed \in Nat /\ s.stale_generation \in Nat
         /\ s.no_output \in Nat /\ s.unshown \in Nat
  BY DEF Counters

LEMMA CountersUnshown ==
  ASSUME NEW s \in Counters
  PROVE  /\ Unshown(s) \in Counters /\ Unshown(s).received = s.received + 1
         /\ Unshown(s).displayed = s.displayed /\ Fates(Unshown(s)) = Fates(s) + 1
<1> DEFINE r == s.received + 1
           u == s.unshown + 1
           t == [s EXCEPT !.received = r, !.unshown = u]
<1>1. r \in Nat /\ u \in Nat
  BY CountersFields
<1>2. Unshown(s) = t
  BY DEF Unshown
<1> HIDE DEF r, u
<1>3. /\ t \in Counters /\ t.received = r /\ t.unshown = u
      /\ t.displayed = s.displayed /\ t.no_output = s.no_output
      /\ t.stale_generation = s.stale_generation
  BY <1>1 DEF Counters
<1> HIDE DEF t
<1>4. Fates(t) = Fates(s) + 1
  BY <1>3, CountersFields DEF Fates, u
<1> QED
  BY <1>2, <1>3, <1>4 DEF r

LEMMA CountersSubmitted ==
  ASSUME NEW s \in Counters
  PROVE  /\ Submitted(s) \in Counters /\ Submitted(s).received = s.received + 1
         /\ Submitted(s).displayed = s.displayed /\ Fates(Submitted(s)) = Fates(s)
<1> DEFINE r == s.received + 1
           t == [s EXCEPT !.received = r]
<1>1. r \in Nat
  BY CountersFields
<1>2. Submitted(s) = t
  BY DEF Submitted
<1> HIDE DEF r
<1>3. /\ t \in Counters /\ t.received = r /\ t.unshown = s.unshown
      /\ t.displayed = s.displayed /\ t.no_output = s.no_output
      /\ t.stale_generation = s.stale_generation
  BY <1>1 DEF Counters
<1> HIDE DEF t
<1> QED
  BY <1>2, <1>3 DEF r, Fates

LEMMA CountersDisplayed ==
  ASSUME NEW s \in Counters, NEW k \in Nat
  PROVE  /\ Displayed(s, k) \in Counters /\ Displayed(s, k).displayed = s.displayed + 1
         /\ Displayed(s, k).received = s.received
         /\ Fates(Displayed(s, k)) = Fates(s) + k + 1
<1> DEFINE d == s.displayed + 1
           o == s.no_output + k
           t == [s EXCEPT !.displayed = d, !.no_output = o]
<1>1. d \in Nat /\ o \in Nat
  BY CountersFields
<1>2. Displayed(s, k) = t
  BY DEF Displayed
<1> HIDE DEF d, o
<1>3. /\ t \in Counters /\ t.received = s.received /\ t.unshown = s.unshown
      /\ t.displayed = d /\ t.no_output = o
      /\ t.stale_generation = s.stale_generation
  BY <1>1 DEF Counters
<1> HIDE DEF t
<1>4. Fates(t) = Fates(s) + k + 1
  BY <1>3, CountersFields DEF Fates, d, o
<1> QED
  BY <1>2, <1>3, <1>4 DEF d

LEMMA AccountedIs ==
  ASSUME TypeOK
  PROVE  /\ Accounted <=> stats.received = Fates(stats) + Len(pending)
         /\ Fates(stats) \in Nat /\ Len(pending) \in Nat /\ stats.received \in Nat
<1>1. stats \in Counters /\ Len(pending) \in Nat
  BY DEF TypeOK
<1> QED
  BY <1>1, CountersFields DEF Accounted, Fates

(* The frame is counted and goes no further.                               *)
LEMMA UnshownKeeps ==
  ASSUME DisplayInv, NEW f \in Frame, Follows(f), next' = NextAfter(f),
         stats' = Counted("unshown"), phase' \in Phases,
         worker.pc \in {"returned", "exited"}, phase \in {"running", "waiting"},
         newest' \in Int,
         UNCHANGED <<current, pending, tripped, requests, queue, reported, closed, timings,
                     worker, decoder>>
  PROVE  DisplayInv'
<1>1. TypeOK /\ stats \in Counters
  BY DEF DisplayInv, TypeOK
<1>2. /\ stats' \in Counters /\ stats'.displayed = stats.displayed
      /\ stats'.received = stats.received + 1 /\ Fates(stats') = Fates(stats) + 1
  <2>1. stats' = Unshown(stats)
    BY DEF Counted, Unshown
  <2> QED
    BY <1>1, <2>1, CountersUnshown
<1>3. TypeOK'
  BY <1>1, <1>2, FollowsFacts DEF TypeOK
<1>4. Ordered'
  <2>1. \A i \in DOMAIN pending : Before(pending[i].frame, next')
    BY <1>1, FollowsFacts, Typed DEF DisplayInv, Ordered
  <2>2. Before(decoder.last, next') /\ Before(reported, next')
    BY <1>1, FollowsFacts, Typed DEF DisplayInv, Ordered
  <2> QED
    BY <2>1, <2>2 DEF DisplayInv, Ordered
<1>5. QueueIsWatched' /\ BreakerCounts'
  BY <1>2 DEF DisplayInv, QueueIsWatched, BreakerCounts, HeadAge
<1>6. Accounted'
  <2>1. stats.received = Fates(stats) + Len(pending)
    BY <1>1, AccountedIs DEF DisplayInv
  <2>2. stats'.received = Fates(stats') + Len(pending')
    BY <1>1, <1>2, <2>1, AccountedIs
  <2> QED
    BY <2>2 DEF Accounted, Fates
<1>7. Chained' /\ ClosedBy'
  <2>1. closed => worker.pc = "exited"
    BY DEF DisplayInv, ClosedBy
  <2> QED
    BY <2>1 DEF Chained, ClosedBy
<1>8. current' <= next'.generation
  <2>1. current \in Int /\ next.generation \in Int /\ current <= next.generation
    BY <1>1, Typed DEF DisplayInv, TypeOK, FrameId
  <2> QED
    BY <1>1, <2>1, FollowsFacts
<1> QED
  BY <1>3, <1>4, <1>5, <1>6, <1>7, <1>8 DEF DisplayInv

(* The frame goes to the window.                                           *)
LEMMA SubmitKeeps ==
  ASSUME DisplayInv, NEW f \in Frame, Follows(f), next' = NextAfter(f),
         phase \in {"running", "waiting"}, phase' = "running",
         submit(f), current' = f.generation,
         pending' = Append(pending, [frame |-> f, age |-> 0]), observe(pending'),
         stats' = [stats EXCEPT !.received = @ + 1], ~closed,
         UNCHANGED <<reported, closed, timings, worker, decoder>>
  PROVE  DisplayInv'
<1> DEFINE e == [frame |-> f, age |-> 0]
           n == Len(pending)
           q == Len(queue)
<1>1. TypeOK /\ stats \in Counters /\ Ordered
  BY DEF DisplayInv, TypeOK
<1>2. /\ pending \in Seq(Entry) /\ queue \in Seq(Frame) /\ n \in Nat /\ q \in Nat
      /\ e \in Entry /\ e.frame = f /\ e.age = 0
  BY <1>1 DEF TypeOK, Entry
<1>3. /\ stats' \in Counters /\ stats'.displayed = stats.displayed
      /\ stats'.received = stats.received + 1 /\ Fates(stats') = Fates(stats)
  <2>1. stats' = Submitted(stats)
    BY DEF Submitted
  <2> QED
    BY <1>1, <2>1, CountersSubmitted
<1>4. /\ queue' = Append(queue, f) /\ pending' = Append(pending, e)
      /\ newest' = IF f.generation > newest THEN f.generation ELSE newest
  BY DEF submit
<1> HIDE DEF e
<1>5. /\ pending' \in Seq(Entry) /\ Len(pending') = n + 1 /\ DOMAIN pending' = 1..n + 1
      /\ pending'[n + 1] = e /\ \A i \in 1..n : pending'[i] = pending[i]
      /\ DOMAIN pending = 1..n
  BY <1>2, <1>4
<1>6. /\ queue' \in Seq(Frame) /\ Len(queue') = q + 1 /\ DOMAIN queue' = 1..q + 1
      /\ queue'[q + 1] = f /\ \A i \in 1..q : queue'[i] = queue[i]
      /\ DOMAIN queue = 1..q
  BY <1>2, <1>4
<1>7. stats'.displayed \in Nat
  BY <1>3 DEF Counters
<1>8. BreakerCounts' /\ tripped' \in BOOLEAN /\ requests' \in Nat
  <2>1. \E x \in Entry : x.age = 0 /\ pending' = Append(pending, x)
    BY <1>2, <1>4
  <2>2. BreakerCounts
    BY DEF DisplayInv
  <2> QED
    BY <1>1, <1>3, <1>5, <1>7, <2>1, <2>2, ObserveKeeps
<1>9. TypeOK'
  <2>1. newest' \in Int /\ current' \in Int
    BY <1>1, <1>4, FollowsFacts DEF TypeOK
  <2> QED
    BY <1>1, <1>3, <1>5, <1>6, <1>8, <2>1, FollowsFacts DEF TypeOK, Phases
<1>10. Ordered'
  <2>1. ASSUME NEW i \in DOMAIN pending'
        PROVE  Before(reported, pending'[i].frame) /\ Before(pending'[i].frame, next')
    <3>1. CASE i \in 1..n
      BY <1>1, <1>5, <3>1, FollowsFacts, Typed DEF Ordered
    <3>2. CASE i = n + 1
      BY <1>1, <1>2, <1>5, <3>2, FollowsFacts, Typed DEF Ordered
    <3> QED
      BY <1>2, <1>5, <2>1, <3>1, <3>2
  <2>2. ASSUME NEW i \in DOMAIN pending', NEW j \in DOMAIN pending', i < j
        PROVE  Before(pending'[i].frame, pending'[j].frame)
    <3>0. i \in 1..n
      BY <1>2, <1>5, <2>2
    <3>1. CASE j \in 1..n
      BY <1>1, <1>5, <2>2, <3>0, <3>1 DEF Ordered
    <3>2. CASE j = n + 1
      BY <1>1, <1>2, <1>5, <3>0, <3>2, FollowsFacts, Typed DEF Ordered
    <3> QED
      BY <1>2, <1>5, <2>2, <3>1, <3>2
  <2>3. ASSUME NEW j \in DOMAIN queue'
        PROVE  Before(decoder.last, queue'[j])
    <3>1. CASE j \in 1..q
      BY <1>1, <1>6, <3>1 DEF Ordered
    <3>2. CASE j = q + 1
      BY <1>1, <1>6, <3>2, FollowsFacts, Typed DEF Ordered
    <3> QED
      BY <1>2, <1>6, <2>3, <3>1, <3>2
  <2>4. Before(decoder.last, next') /\ Before(reported, next')
    BY <1>1, FollowsFacts, Typed DEF Ordered
  <2> QED
    BY <1>1, <2>1, <2>2, <2>3, <2>4 DEF Ordered
<1>11. QueueIsWatched'
  <2>1. q <= n /\ \A i \in 1..q : pending[n - q + i].frame = queue[i]
    BY <1>6 DEF DisplayInv, QueueIsWatched
  <2>2. ASSUME NEW i \in 1..q + 1
        PROVE  pending'[(n + 1) - (q + 1) + i].frame = queue'[i]
    <3>1. CASE i \in 1..q
      <4>1. n - q + i \in 1..n /\ (n + 1) - (q + 1) + i = n - q + i
        BY <1>2, <2>1, <3>1
      <4> QED
        BY <1>5, <1>6, <2>1, <3>1, <4>1
    <3>2. CASE i = q + 1
      <4>1. (n + 1) - (q + 1) + i = n + 1
        BY <1>2, <3>2
      <4> QED
        BY <1>2, <1>5, <1>6, <3>2, <4>1
    <3>3. i \in 1..q \/ i = q + 1
      BY <1>2, <2>2
    <3> QED
      BY <3>1, <3>2, <3>3
  <2>3. q + 1 <= n + 1
    BY <1>2, <2>1
  <2> QED
    BY <1>5, <1>6, <2>2, <2>3 DEF QueueIsWatched
<1>12. Accounted'
  <2>1. stats.received = Fates(stats) + n
    BY <1>1, AccountedIs DEF DisplayInv
  <2>2. stats'.received = Fates(stats') + Len(pending')
    BY <1>1, <1>3, <1>5, <2>1, AccountedIs
  <2> QED
    BY <2>2 DEF Accounted, Fates
<1>13. Chained'
  <2>0. queue' # <<>> /\ Latest' = f /\ queue'[Len(queue')] = queue'[q + 1]
    BY <1>2, <1>6 DEF Latest
  <2> SUFFICES ASSUME worker.pc \in {"idle", "receiving", "sending"}
               PROVE  /\ \A j \in DOMAIN queue' :
                             /\ queue'[j].generation <= newest'
                             /\ queue'[j].generation = newest' =>
                                 Link(IF j = 1 THEN decoder.last ELSE queue'[j - 1], queue'[j])
                      /\ queue'[q + 1].generation = newest'
                      /\ newest' <= next'.generation /\ Link(f, next')
    BY <2>0 DEF Chained, Link
  <2>1. /\ \A j \in 1..q :
               /\ queue[j].generation <= newest
               /\ queue[j].generation = newest =>
                      Link(IF j = 1 THEN decoder.last ELSE queue[j - 1], queue[j])
        /\ newest <= next.generation /\ Link(Latest, next)
    BY <1>6 DEF DisplayInv, Chained
  <2>2. next.generation \in Int /\ newest \in Int
    BY <1>1, Typed DEF TypeOK, FrameId
  <2>3. newest <= newest' /\ newest' = f.generation
    BY <1>1, <1>4, <2>1, <2>2, FollowsFacts
  <2>4. Link(f, next')
    BY DEF Link
  <2>5. Latest \in FrameId
    BY <1>1, <1>2, <1>6, Typed DEF Latest
  <2>6. Link(Latest, f)
    <3>1. CASE f = next
      BY <2>1, <3>1
    <3>2. CASE f.frame_id = 0 /\ f.generation > next.generation
      <4>1. Latest.generation <= next.generation /\ Latest.generation \in Int
        <5>1. Latest.generation \in Int
          BY <2>5 DEF FrameId
        <5>2. CASE next = NextAfter(Latest)
          <6>1. next.generation = Latest.generation
            BY <2>5, <5>2, NextAfterIsLater
          <6> QED
            BY <5>1, <6>1
        <5>3. CASE Latest.generation < next.generation
          BY <2>2, <5>1, <5>3
        <5> QED
          BY <2>1, <5>2, <5>3 DEF Link
      <4> QED
        BY <1>1, <2>2, <3>2, <4>1, FollowsFacts DEF Link
    <3> QED
      BY <3>1, <3>2 DEF Follows
  <2>7. Latest = IF q = 0 THEN decoder.last ELSE queue[q]
    BY <1>2 DEF Latest
  <2>8. ASSUME NEW j \in DOMAIN queue'
        PROVE  /\ queue'[j].generation <= newest'
               /\ queue'[j].generation = newest' =>
                     Link(IF j = 1 THEN decoder.last ELSE queue'[j - 1], queue'[j])
    <3>1. CASE j \in 1..q
      <4>1. queue'[j] = queue[j] /\ (j # 1 => queue'[j - 1] = queue[j - 1])
        BY <1>2, <1>6, <3>1
      <4>2. queue[j].generation \in Int
        BY <1>1, <1>6, <3>1, Typed DEF FrameId
      <4>3. queue[j].generation <= newest'
        BY <1>1, <2>1, <2>2, <2>3, <3>1, <4>2, FollowsFacts
      <4>4. queue[j].generation = newest' => queue[j].generation = newest
        BY <1>1, <2>1, <2>2, <2>3, <3>1, <4>2, FollowsFacts
      <4> QED
        BY <2>1, <3>1, <4>1, <4>3, <4>4
    <3>2. CASE j = q + 1
      <4>1. queue'[j] = f /\ (j # 1 => queue'[j - 1] = queue[q]) /\ (j = 1 <=> q = 0)
        BY <1>2, <1>6, <3>2
      <4>2. Link(IF j = 1 THEN decoder.last ELSE queue'[j - 1], queue'[j])
        BY <2>6, <2>7, <4>1
      <4> QED
        BY <1>1, <2>3, <4>1, <4>2, FollowsFacts
    <3> QED
      BY <1>2, <1>6, <2>8, <3>1, <3>2
  <2> QED
    BY <1>1, <1>6, <2>3, <2>4, <2>8, FollowsFacts
<1>14. current' <= next'.generation
  BY <1>1, FollowsFacts
<1> QED
  BY <1>8, <1>9, <1>10, <1>11, <1>12, <1>13, <1>14 DEF DisplayInv, ClosedBy

(* process_frame as a whole: no frame of this server is stale.             *)
LEMMA ProcessKeeps ==
  ASSUME DisplayInv, NEW f \in Frame, Follows(f), next' = NextAfter(f),
         phase \in {"running", "waiting"}, process_frame(f),
         UNCHANGED <<reported, closed, timings, worker, decoder>>
  PROVE  DisplayInv'
<1>1. TypeOK /\ current \in Int /\ next.generation \in Int /\ newest \in Int
  BY Typed DEF DisplayInv, TypeOK, FrameId
<1>2. would_display(f)
  BY <1>1, FollowsFacts DEF DisplayInv, would_display
<1>3. CASE closed
  <2>1. worker.pc = "exited"
    BY <1>3 DEF DisplayInv, ClosedBy
  <2> QED
    BY <1>1, <1>2, <1>3, <2>1, UnshownKeeps DEF process_frame, Phases
<1>4. CASE ~closed /\ worker.pc = "returned"
  <2>1. newest' \in Int
    BY <1>1, <1>2, <1>4, FollowsFacts DEF process_frame
  <2> QED
    BY <1>2, <1>4, <2>1, UnshownKeeps DEF process_frame, Phases
<1>5. CASE ~closed /\ worker.pc # "returned"
  BY <1>2, <1>5, SubmitKeeps DEF process_frame
<1> QED
  BY <1>3, <1>4, <1>5

-----------------------------------------------------------------------------
(* A report arrives *)

LEMMA TailFacts ==
  ASSUME NEW S, NEW q \in Seq(S), q # <<>>
  PROVE  /\ Head(q) = q[1] /\ q[1] \in S /\ Tail(q) \in Seq(S) /\ Len(q) \in Nat \ {0}
         /\ DOMAIN q = 1..Len(q)
         /\ Len(Tail(q)) = Len(q) - 1 /\ DOMAIN Tail(q) = 1..Len(q) - 1
         /\ \A j \in 1..Len(q) - 1 : Tail(q)[j] = q[j + 1] /\ j + 1 \in 1..Len(q)
  OBVIOUS

(* What the loop does with the report t.                                   *)
LEMMA TimingCases ==
  ASSUME DisplayInv, NEW t \in Frame, ~Before(decoder.last, t), on_window_timing(t)
  PROVE  \/ UNCHANGED <<pending, tripped, requests, stats, reported>>
         \/ \E i \in 1..Len(pending) - Len(queue) :
               /\ pending[i].frame = t
               /\ pending' = SubSeq(pending, i + 1, Len(pending))
               /\ stats' = Displayed(stats, i - 1)
               /\ reported' = t
               /\ observe(pending')
<1>1. /\ TypeOK /\ pending \in Seq(Entry) /\ queue \in Seq(Frame)
      /\ Len(pending) \in Nat /\ Len(queue) \in Nat
      /\ DOMAIN pending = 1..Len(pending) /\ DOMAIN queue = 1..Len(queue)
  BY DEF DisplayInv, TypeOK
<1>2. ASSUME NEW i \in DOMAIN pending, pending[i].frame = t
      PROVE  i \in 1..Len(pending) - Len(queue)
  <2>1. ASSUME i > Len(pending) - Len(queue)
        PROVE  FALSE
    <3> DEFINE k == i - (Len(pending) - Len(queue))
    <3>1. k \in DOMAIN queue /\ Len(pending) - Len(queue) + k = i
      BY <1>1, <1>2, <2>1
    <3> HIDE DEF k
    <3>2. queue[k] = t
      BY <1>2, <3>1 DEF DisplayInv, QueueIsWatched
    <3> QED
      BY <3>1, <3>2 DEF DisplayInv, Ordered
  <2> QED
    BY <1>1, <1>2, <2>1
<1>3. CASE UNCHANGED <<pending, tripped, requests, stats, reported>>
  BY <1>3
<1>4. ASSUME NEW i \in {j \in DOMAIN pending : pending[j].frame = t},
             pending' = SubSeq(pending, i + 1, Len(pending)),
             stats' = [stats EXCEPT !.displayed = @ + 1, !.no_output = @ + (i - 1)],
             reported' = t, observe(pending')
      PROVE  \E j \in 1..Len(pending) - Len(queue) :
               /\ pending[j].frame = t
               /\ pending' = SubSeq(pending, j + 1, Len(pending))
               /\ stats' = Displayed(stats, j - 1)
               /\ reported' = t
               /\ observe(pending')
  <2>1. i \in 1..Len(pending) - Len(queue) /\ pending[i].frame = t
    BY <1>2, <1>4
  <2>2. stats' = Displayed(stats, i - 1)
    BY <1>4 DEF Displayed
  <2> QED
    BY <1>4, <2>1, <2>2
<1> QED
  BY <1>3, <1>4 DEF on_window_timing

LEMMA TimingKeeps ==
  ASSUME DisplayInv, TimingArrives
  PROVE  DisplayInv'
<1> DEFINE t == timings[1]
           n == Len(pending)
           q == Len(queue)
<1>1. /\ TypeOK /\ Ordered /\ timings \in Seq(Frame) /\ timings # <<>>
      /\ on_window_timing(Head(timings)) /\ timings' = Tail(timings)
      /\ UNCHANGED <<phase, next, current, queue, newest, closed, worker, decoder>>
  BY DEF DisplayInv, TypeOK, TimingArrives
<1>2. /\ Head(timings) = t /\ t \in Frame /\ timings' \in Seq(Frame)
      /\ 1 \in DOMAIN timings
      /\ \A j \in DOMAIN timings' : j + 1 \in DOMAIN timings /\ timings'[j] = timings[j + 1]
  BY <1>1, TailFacts
<1>3. ~Before(decoder.last, t) /\ \A j \in DOMAIN timings' : ~Before(decoder.last, timings'[j])
  BY <1>1, <1>2 DEF Ordered
<1>4. CASE UNCHANGED <<pending, tripped, requests, stats, reported>>
  BY <1>1, <1>2, <1>3, <1>4 DEF DisplayInv, TypeOK, Ordered, QueueIsWatched, BreakerCounts,
     HeadAge, Accounted, ClosedBy, Chained, Latest
<1>5. ASSUME NEW i \in 1..n - q,
             pending[i].frame = t, pending' = SubSeq(pending, i + 1, n),
             stats' = Displayed(stats, i - 1), reported' = t, observe(pending')
      PROVE  DisplayInv'
  <2>1. /\ pending \in Seq(Entry) /\ queue \in Seq(Frame) /\ n \in Nat /\ q \in Nat
        /\ DOMAIN pending = 1..n /\ DOMAIN queue = 1..q /\ stats \in Counters
        /\ i \in Nat /\ i \in 1..n /\ i - 1 \in Nat /\ q <= n - i
    BY <1>1, <1>5 DEF TypeOK
  <2>2. /\ pending' \in Seq(Entry) /\ Len(pending') = n - i /\ DOMAIN pending' = 1..n - i
        /\ \A k \in 1..n - i : pending'[k] = pending[i + k] /\ i + k \in 1..n
    BY <1>5, <2>1
  <2>3. /\ stats' \in Counters /\ stats'.displayed = stats.displayed + 1
        /\ stats'.received = stats.received /\ Fates(stats') = Fates(stats) + (i - 1) + 1
    BY <1>5, <2>1, CountersDisplayed
  <2>4. BreakerCounts' /\ tripped' \in BOOLEAN /\ requests' \in Nat
    <3>1. stats'.displayed \in Nat /\ BreakerCounts
      BY <2>3, CountersFields DEF DisplayInv
    <3> QED
      BY <1>1, <1>5, <2>2, <2>3, <3>1, ObserveKeeps
  <2>5. TypeOK'
    BY <1>1, <1>2, <1>5, <2>2, <2>3, <2>4 DEF TypeOK
  <2>6. Ordered'
    <3>1. ASSUME NEW k \in DOMAIN pending'
          PROVE  Before(reported', pending'[k].frame) /\ Before(pending'[k].frame, next)
      <4>1. k \in 1..n - i /\ i + k \in 1..n /\ pending'[k] = pending[i + k] /\ i < i + k
        BY <2>1, <2>2, <3>1
      <4> QED
        BY <1>1, <1>5, <2>1, <4>1 DEF Ordered
    <3>2. ASSUME NEW j \in DOMAIN pending', NEW k \in DOMAIN pending', j < k
          PROVE  Before(pending'[j].frame, pending'[k].frame)
      <4>1. /\ i + j \in 1..n /\ i + k \in 1..n /\ i + j < i + k
            /\ pending'[j] = pending[i + j] /\ pending'[k] = pending[i + k]
        BY <2>1, <2>2, <3>2
      <4> QED
        BY <1>1, <2>1, <4>1 DEF Ordered
    <3>3. Before(reported', next)
      BY <1>1, <1>5, <2>1 DEF Ordered
    <3> QED
      BY <1>1, <1>3, <3>1, <3>2, <3>3 DEF Ordered
  <2>7. QueueIsWatched'
    <3>1. \A j \in 1..q : pending[n - q + j].frame = queue[j]
      BY <2>1 DEF DisplayInv, QueueIsWatched
    <3>2. ASSUME NEW j \in 1..q
          PROVE  pending'[(n - i) - q + j].frame = queue[j]
      <4>1. (n - i) - q + j \in 1..n - i /\ i + ((n - i) - q + j) = n - q + j
        BY <2>1
      <4> QED
        BY <2>2, <3>1, <4>1
    <3> HIDE DEF n, q
    <3> QED
      BY <1>1, <2>1, <2>2, <3>2 DEF QueueIsWatched, q
  <2>8. Accounted'
    <3>1. stats.received = Fates(stats) + n /\ Fates(stats) \in Nat
      BY <1>1, AccountedIs DEF DisplayInv
    <3>2. stats'.received = Fates(stats') + Len(pending')
      BY <2>1, <2>2, <2>3, <3>1
    <3> QED
      BY <3>2 DEF Accounted, Fates
  <2>9. ClosedBy' /\ Chained' /\ current' <= next'.generation
    BY <1>1 DEF DisplayInv, ClosedBy, Chained, Latest
  <2> QED
    BY <2>4, <2>5, <2>6, <2>7, <2>8, <2>9 DEF DisplayInv
<1> QED
  BY <1>1, <1>2, <1>3, <1>4, <1>5, TimingCases

-----------------------------------------------------------------------------
(* The loop's other steps *)

LEMMA BreakerTickKeeps ==
  ASSUME DisplayInv, tick_circuit_breaker
  PROVE  DisplayInv'
<1>1. /\ TypeOK /\ BreakerCounts /\ pending' = pending /\ observe(pending')
      /\ pending' \in Seq(Entry) /\ stats'.displayed = stats.displayed /\ stats'.displayed \in Nat
      /\ UNCHANGED <<phase, next, current, stats, reported, queue, newest, closed, timings,
                     worker, decoder>>
  BY CountersFields DEF DisplayInv, TypeOK, tick_circuit_breaker, windowVars
<1>2. BreakerCounts' /\ tripped' \in BOOLEAN /\ requests' \in Nat
  BY <1>1, ObserveKeeps
<1> QED
  BY <1>1, <1>2 DEF DisplayInv, TypeOK, Ordered, QueueIsWatched, Accounted, ClosedBy, Chained,
     Latest

(* Only where the loop is, and the window's flag, change.                  *)
LEMMA PhaseKeeps ==
  ASSUME DisplayInv, phase' \in Phases,
         closed' = closed \/ (closed' = TRUE /\ phase' = "joining"),
         phase \in {"joining", "done"} => phase' \in {"joining", "done"},
         phase' \in {"running", "waiting"} => phase \in {"running", "waiting"},
         UNCHANGED <<next, current, pending, tripped, requests, stats, reported, queue, newest,
                     timings, worker, decoder>>
  PROVE  DisplayInv'
<1>1. closed \in BOOLEAN /\ closed' \in BOOLEAN
  BY Zenon DEF DisplayInv, TypeOK
<1>2. TypeOK'
  BY <1>1 DEF DisplayInv, TypeOK
<1>3. Ordered' /\ QueueIsWatched' /\ BreakerCounts' /\ Accounted'
  BY DEF DisplayInv, Ordered, QueueIsWatched, BreakerCounts, HeadAge, Accounted
<1>4. Chained'
  BY DEF DisplayInv, Chained, Latest
<1>5. ClosedBy'
  BY Zenon DEF DisplayInv, ClosedBy
<1> QED
  BY <1>2, <1>3, <1>4, <1>5 DEF DisplayInv

LEMMA TickKeeps ==
  ASSUME DisplayInv, Tick
  PROVE  DisplayInv'
<1>1. /\ TypeOK /\ pending \in Seq(Entry) /\ Len(pending) \in Nat
      /\ DOMAIN pending = 1..Len(pending) /\ TripThreshold \in Nat /\ RearmThreshold \in Nat
      /\ UNCHANGED <<phase, next, current, tripped, requests, stats, reported, queue, newest,
                     closed, timings, worker, decoder>>
  BY DisplayConstants DEF DisplayInv, TypeOK, Tick, windowVars
<1>2. pending' = [i \in DOMAIN pending |->
           [pending[i] EXCEPT !.age = IF @ <= TripThreshold THEN @ + 1 ELSE @]]
  BY DEF Tick
<1>3. DOMAIN pending' = DOMAIN pending /\ Len(pending') = Len(pending)
  BY <1>1, <1>2
<1>4. ASSUME NEW i \in DOMAIN pending
      PROVE  /\ pending'[i] \in Entry /\ pending'[i].frame = pending[i].frame
             /\ pending'[i].age >= pending[i].age
  <2> DEFINE a == IF pending[i].age <= TripThreshold THEN pending[i].age + 1 ELSE pending[i].age
  <2>1. pending'[i] = [pending[i] EXCEPT !.age = a]
    BY <1>2
  <2>2. pending[i] \in Entry /\ pending[i].age \in Nat
    BY <1>1, Typed
  <2>3. a \in Nat /\ a >= pending[i].age
    BY <1>1, <2>2
  <2> HIDE DEF a
  <2> QED
    BY <2>1, <2>2, <2>3 DEF Entry
<1>5. pending' \in Seq(Entry)
  <2>1. pending' \in [1..Len(pending) -> Entry]
    BY <1>1, <1>2, <1>4
  <2> QED
    BY <1>1, <2>1
<1>6. TypeOK'
  BY <1>1, <1>5 DEF TypeOK
<1>7. Ordered' /\ QueueIsWatched'
  <2>1. Len(queue) <= Len(pending) /\ \A j \in DOMAIN queue : pending[Len(pending) - Len(queue) + j].frame = queue[j]
    BY DEF DisplayInv, QueueIsWatched
  <2>2. ASSUME NEW j \in DOMAIN queue
        PROVE  pending'[Len(pending) - Len(queue) + j].frame = queue[j]
    <3>1. Len(pending) - Len(queue) + j \in DOMAIN pending
      BY <1>1, <2>1 DEF TypeOK
    <3> QED
      BY <1>4, <2>1, <3>1
  <2>3. QueueIsWatched'
    BY <1>1, <1>3, <2>1, <2>2 DEF QueueIsWatched
  <2>4. Ordered'
    BY <1>1, <1>3, <1>4 DEF DisplayInv, Ordered
  <2> QED
    BY <2>3, <2>4
<1>8. HeadAge' >= HeadAge /\ HeadAge \in Nat /\ HeadAge' \in Nat
  <2>1. CASE pending = <<>>
    <3>1. pending' = <<>>
      BY <1>3, <1>5, <2>1
    <3> QED
      BY <2>1, <3>1 DEF HeadAge
  <2>2. CASE pending # <<>>
    <3>1. pending' # <<>> /\ 1 \in DOMAIN pending
      BY <1>1, <1>3, <2>2
    <3>2. Head(pending') = pending'[1] /\ Head(pending) = pending[1]
      BY <1>1, <1>5, <2>2, <3>1, TailFacts
    <3>3. pending'[1].age \in Nat /\ pending[1].age \in Nat /\ pending'[1].age >= pending[1].age
      <4>1. pending'[1] \in Entry /\ pending'[1].age >= pending[1].age
        BY <1>4, <3>1
      <4>2. pending'[1].age \in Nat
        BY <4>1 DEF Entry
      <4> QED
        BY <1>1, <3>1, <4>1, <4>2, Typed
    <3> QED
      BY <2>2, <3>1, <3>2, <3>3 DEF HeadAge
  <2> QED
    BY <2>1, <2>2
<1>9. BreakerCounts'
  <2>1. tripped => HeadAge' >= RearmThreshold
    BY <1>1, <1>8 DEF DisplayInv, BreakerCounts
  <2> QED
    BY <1>1, <2>1 DEF DisplayInv, BreakerCounts
<1>10. Accounted' /\ ClosedBy' /\ Chained' /\ current' <= next'.generation
  BY <1>1, <1>3 DEF DisplayInv, Accounted, ClosedBy, Chained, Latest
<1> QED
  BY <1>6, <1>7, <1>9, <1>10 DEF DisplayInv

-----------------------------------------------------------------------------
(* The display thread *)

(* The head of the queue lies behind the decoder and before the rest.      *)
LEMMA HeadOfQueue ==
  ASSUME DisplayInv, queue # <<>>, queue' = Tail(queue)
  PROVE  /\ Head(queue) = queue[1] /\ queue[1] \in Frame /\ queue[1] \in FrameId
         /\ Len(queue) \in Nat \ {0} /\ DOMAIN queue = 1..Len(queue)
         /\ queue' \in Seq(Frame) /\ Len(queue') = Len(queue) - 1
         /\ DOMAIN queue' = 1..Len(queue) - 1
         /\ \A j \in DOMAIN queue' : /\ j + 1 \in DOMAIN queue /\ queue'[j] = queue[j + 1]
                                      /\ Before(queue[1], queue'[j])
         /\ Before(decoder.last, queue[1]) /\ Before(queue[1], next)
         /\ UNCHANGED pending => QueueIsWatched'
<1> DEFINE n == Len(pending)
           q == Len(queue)
<1>1. TypeOK /\ Ordered /\ queue \in Seq(Frame) /\ pending \in Seq(Entry) /\ n \in Nat /\ DOMAIN pending = 1..n
  BY DEF DisplayInv, TypeOK
<1>2. /\ Head(queue) = queue[1] /\ queue[1] \in Frame /\ q \in Nat \ {0} /\ DOMAIN queue = 1..q
      /\ queue' \in Seq(Frame) /\ Len(queue') = q - 1 /\ DOMAIN queue' = 1..q - 1
      /\ \A j \in DOMAIN queue' : j + 1 \in DOMAIN queue /\ queue'[j] = queue[j + 1]
  BY <1>1, TailFacts
<1>3. q <= n /\ \A j \in 1..q : pending[n - q + j].frame = queue[j]
  BY <1>2 DEF DisplayInv, QueueIsWatched
<1>4. \A j \in 1..q : n - q + j \in DOMAIN pending
  BY <1>1, <1>2, <1>3
<1>5. \A j \in DOMAIN queue' : Before(queue[1], queue'[j])
  <2> SUFFICES ASSUME NEW j \in DOMAIN queue'
               PROVE  Before(queue[1], queue'[j])
    OBVIOUS
  <2>1. 1 \in 1..q /\ j + 1 \in 1..q /\ n - q + 1 < n - q + (j + 1)
    BY <1>1, <1>2
  <2>2. Before(pending[n - q + 1].frame, pending[n - q + (j + 1)].frame)
    BY <1>1, <1>4, <2>1 DEF Ordered
  <2> QED
    BY <1>2, <1>3, <2>1, <2>2
<1>6. Before(decoder.last, queue[1]) /\ Before(queue[1], next)
  <2>1. 1 \in 1..q
    BY <1>2
  <2> QED
    BY <1>1, <1>2, <1>3, <1>4, <2>1 DEF Ordered
<1>7. ASSUME UNCHANGED pending
      PROVE  QueueIsWatched'
  <2>1. ASSUME NEW j \in DOMAIN queue'
        PROVE  pending[n - (q - 1) + j].frame = queue'[j]
    <3>1. j + 1 \in 1..q /\ n - (q - 1) + j = n - q + (j + 1)
      BY <1>1, <1>2, <2>1
    <3> QED
      BY <1>2, <1>3, <3>1
  <2>2. q - 1 <= n
    BY <1>1, <1>2, <1>3
  <2> QED
    BY <1>2, <1>7, <2>1, <2>2 DEF QueueIsWatched
<1>8. queue[1] \in FrameId
  BY <1>2, FrameTypes
<1> QED
  BY <1>2, <1>5, <1>6, <1>7, <1>8

(* Everything but queue, thread, decoder and reports stays as it is.       *)
LEMMA ThreadKeepsLoop ==
  ASSUME DisplayInv, UNCHANGED clientVars,
         closed' = closed \/ worker'.pc = "exited",
         worker.pc = "exited" => worker'.pc = "exited"
  PROVE  BreakerCounts' /\ Accounted' /\ current' <= next'.generation /\ ClosedBy'
  BY DEF DisplayInv, clientVars, BreakerCounts, HeadAge, Accounted, ClosedBy

LEMMA SkipsStaleKeeps ==
  ASSUME DisplayInv, SkipsStale
  PROVE  DisplayInv'
<1>1. /\ queue # <<>> /\ queue' = Tail(queue) /\ Head(queue).generation < newest
      /\ worker.pc = "receiving" /\ worker' = [worker EXCEPT !.pc = "idle"]
      /\ UNCHANGED <<clientVars, newest, closed, timings, decoder>>
  BY DEF SkipsStale, Stale
<1>2. /\ UNCHANGED <<phase, next, current, pending, tripped, requests, stats, reported>>
      /\ TypeOK /\ Ordered
  BY <1>1 DEF clientVars, DisplayInv
<1>0. worker' \in Worker /\ worker'.pc = "idle" /\ worker'.unsent = worker.unsent
  BY <1>1, <1>2 DEF TypeOK, Worker
<1>3. TypeOK' /\ Ordered' /\ QueueIsWatched'
  <2>1. QueueIsWatched' /\ queue' \in Seq(Frame)
    BY <1>1, <1>2, HeadOfQueue
  <2>2. \A j \in DOMAIN queue' : Before(decoder.last, queue'[j])
    BY <1>1, <1>2, HeadOfQueue DEF Ordered
  <2> QED
    BY <1>0, <1>1, <1>2, <2>1, <2>2 DEF TypeOK, Ordered
<1>4. Chained'
  <2>1. /\ \A j \in DOMAIN queue :
               /\ queue[j].generation <= newest
               /\ queue[j].generation = newest =>
                      Link(IF j = 1 THEN decoder.last ELSE queue[j - 1], queue[j])
        /\ queue[Len(queue)].generation = newest
        /\ phase \in {"running", "waiting"} => newest <= next.generation /\ Link(Latest, next)
    BY <1>1 DEF DisplayInv, Chained
  <2>2. /\ Len(queue) \in Nat \ {0} /\ DOMAIN queue = 1..Len(queue) /\ Len(queue') = Len(queue) - 1
        /\ DOMAIN queue' = 1..Len(queue) - 1 /\ queue' \in Seq(Frame)
        /\ \A j \in DOMAIN queue' : j + 1 \in DOMAIN queue /\ queue'[j] = queue[j + 1]
        /\ queue[1].generation < newest
    BY <1>1, HeadOfQueue
  <2>3. newest \in Int /\ \A j \in DOMAIN queue : queue[j].generation \in Int /\ queue[j] \in FrameId
    BY <1>2, Typed DEF TypeOK, FrameId
  <2>4. Len(queue) # 1
    BY <2>1, <2>2, <2>3
  <2>5. queue' # <<>> /\ queue'[Len(queue')] = queue[Len(queue)] /\ Latest' = Latest
    <3>1. Len(queue) - 1 \in DOMAIN queue' /\ (Len(queue) - 1) + 1 = Len(queue)
      BY <2>2, <2>4
    <3>2. queue' # <<>> /\ queue'[Len(queue')] = queue[Len(queue)]
      BY <2>2, <3>1
    <3> QED
      BY <1>1, <3>2 DEF Latest
  <2>6. ASSUME NEW j \in DOMAIN queue'
        PROVE  /\ queue'[j].generation <= newest
               /\ queue'[j].generation = newest =>
                     Link(IF j = 1 THEN decoder.last ELSE queue'[j - 1], queue'[j])
    <3>1. j + 1 \in DOMAIN queue /\ queue'[j] = queue[j + 1] /\ j + 1 # 1 /\ (j + 1) - 1 = j
      BY <2>2
    <3>2. /\ queue[j + 1].generation <= newest
          /\ queue[j + 1].generation = newest => Link(queue[j], queue[j + 1])
      BY <2>1, <3>1
    <3>3. CASE j # 1
      <4>1. queue'[j - 1] = queue[j]
        <5>1. j - 1 \in DOMAIN queue' /\ (j - 1) + 1 = j
          BY <2>2, <3>3
        <5> QED
          BY <2>2, <5>1
      <4> QED
        BY <3>1, <3>2, <3>3, <4>1
    <3>4. CASE j = 1
      <4> SUFFICES ASSUME queue[2].generation = newest
                   PROVE  Link(decoder.last, queue[2])
        BY <3>1, <3>2, <3>4
      <4>1. Link(queue[1], queue[2])
        BY <3>2, <3>4
      <4>2. queue[2] # NextAfter(queue[1])
        <5>1. 1 \in DOMAIN queue
          BY <2>2
        <5> QED
          BY <2>2, <2>3, <5>1, NextAfterIsLater
      <4>3. queue[2].frame_id = 0
        BY <4>1, <4>2 DEF Link
      <4>4. decoder.last.generation < newest
        <5>1. Before(decoder.last, queue[1]) /\ queue[1] \in FrameId /\ decoder.last \in FrameId
          BY <1>1, <1>2, HeadOfQueue, Typed
        <5>2. decoder.last.generation <= queue[1].generation
          BY <5>1 DEF Before, FrameId
        <5> QED
          BY <2>2, <2>3, <5>1, <5>2 DEF FrameId
      <4> QED
        BY <4>3, <4>4 DEF Link
    <3> QED
      BY <3>3, <3>4
  <2> QED
    BY <1>1, <1>2, <2>1, <2>5, <2>6 DEF Chained
<1> QED
  BY <1>0, <1>1, <1>3, <1>4, ThreadKeepsLoop DEF DisplayInv

(* What decoding a frame does.                                             *)
LEMMA DecodeDoes ==
  ASSUME DisplayInv, decode_and_present
  PROVE  /\ queue # <<>> /\ queue' = Tail(queue) /\ Head(queue) = queue[1]
         /\ worker.pc = "receiving" /\ ~(queue[1].generation < newest)
         /\ decoder' \in Decoder /\ decoder'.last = queue[1]
         /\ worker' \in Worker /\ worker'.pc \in {"idle", "sending"}
         /\ worker'.pc = "sending" => worker'.unsent # <<>>
         /\ \A j \in DOMAIN worker'.unsent : worker'.unsent[j] = queue[1]
         /\ UNCHANGED <<clientVars, newest, closed, timings>>
<1> DEFINE f == queue[1]
           d == create_decoder(f)
<1>1. /\ queue # <<>> /\ queue' = Tail(queue) /\ worker.pc = "receiving"
      /\ ~(Head(queue).generation < newest)
      /\ UNCHANGED <<clientVars, newest, closed, timings>>
  BY DEF decode_and_present, Stale
<1>2. Head(queue) = f /\ f \in Frame
  BY <1>1, HeadOfQueue
<1>3. d \in Decoder
  <2>1. decoder \in Decoder
    BY DEF DisplayInv, TypeOK
  <2>2. Size[f.generation] \in {Size[g] : g \in 0..MaxGeneration} /\ decoder.last \in Frame \cup {NoFrame}
    BY <1>2, <2>1 DEF Frame, Decoder
  <2> QED
    BY <2>1, <2>2 DEF create_decoder, Decoder
<1>4. PICK k \in 0..d.held + 1 :
        /\ decoder' = [d EXCEPT !.held = d.held + 1 - k, !.last = f]
        /\ worker' = [pc |-> IF k = 0 THEN "idle" ELSE "sending", unsent |-> [i \in 1..k |-> f]]
  BY <1>2, ZenonT(30) DEF decode_and_present
<1> HIDE DEF d
<1>5. d.held \in Nat /\ d.held + 1 - k \in Nat /\ k \in Nat
  BY <1>3, <1>4 DEF Decoder
<1>6. decoder' \in Decoder /\ decoder'.last = f
  <2> DEFINE h == d.held + 1 - k
  <2>1. decoder' = [d EXCEPT !.held = h, !.last = f] /\ h \in Nat
    BY <1>4, <1>5
  <2> HIDE DEF h, f
  <2> QED
    BY <1>2, <1>3, <2>1 DEF Decoder
<1>7. [i \in 1..k |-> f] \in Seq(Frame)
  BY <1>2, <1>5
<1>8. /\ worker' \in Worker /\ worker'.pc \in {"idle", "sending"}
      /\ worker'.unsent = [i \in 1..k |-> f]
      /\ worker'.pc = "sending" => k # 0
  BY <1>4, <1>7 DEF Worker
<1>9. worker'.pc = "sending" => worker'.unsent # <<>>
  <2>1. k # 0 => 1 \in DOMAIN [i \in 1..k |-> f]
    BY <1>5
  <2>2. DOMAIN <<>> = {}
    OBVIOUS
  <2> QED
    BY <1>8, <2>1, <2>2
<1>10. \A j \in DOMAIN worker'.unsent : worker'.unsent[j] = f
  BY <1>8
<1> QED
  BY <1>1, <1>2, <1>6, <1>8, <1>9, <1>10

LEMMA DecodeKeeps ==
  ASSUME DisplayInv, decode_and_present
  PROVE  DisplayInv'
<1>1. /\ queue # <<>> /\ queue' = Tail(queue) /\ worker.pc = "receiving"
      /\ ~(queue[1].generation < newest)
      /\ decoder' \in Decoder /\ decoder'.last = queue[1]
      /\ worker' \in Worker /\ (worker'.pc = "sending" => worker'.unsent # <<>>)
      /\ \A j \in DOMAIN worker'.unsent : worker'.unsent[j] = queue[1]
      /\ UNCHANGED <<clientVars, newest, closed, timings>>
  BY DecodeDoes
<1>2. /\ UNCHANGED <<phase, next, current, pending, tripped, requests, stats, reported>>
      /\ TypeOK /\ Ordered
  BY <1>1 DEF clientVars, DisplayInv
<1>3. /\ queue[1] \in FrameId /\ queue' \in Seq(Frame) /\ QueueIsWatched'
      /\ Len(queue) \in Nat \ {0} /\ DOMAIN queue = 1..Len(queue) /\ Len(queue') = Len(queue) - 1
      /\ DOMAIN queue' = 1..Len(queue) - 1
      /\ \A j \in DOMAIN queue' : /\ j + 1 \in DOMAIN queue /\ queue'[j] = queue[j + 1]
                                   /\ Before(queue[1], queue'[j])
      /\ Before(decoder.last, queue[1]) /\ Before(queue[1], next)
  BY <1>1, <1>2, HeadOfQueue
<1>4. TypeOK'
  BY <1>1, <1>2, <1>3 DEF TypeOK
<1>5. Ordered'
  <2>1. ASSUME NEW j \in DOMAIN timings
        PROVE  ~Before(queue[1], timings[j])
    <3>1. ~Before(decoder.last, timings[j]) /\ timings[j] \in FrameId /\ decoder.last \in FrameId
      BY <1>2, Typed DEF Ordered
    <3> QED
      BY <1>3, <3>1, BeforeTransitive
  <2>2. \A j \in DOMAIN worker'.unsent : ~Before(queue[1], worker'.unsent[j])
    BY <1>1, <1>3, BeforeNotSelf
  <2> QED
    BY <1>1, <1>2, <1>3, <2>1, <2>2 DEF Ordered
<1>6. Chained'
  <2>1. /\ \A j \in DOMAIN queue :
               /\ queue[j].generation <= newest
               /\ queue[j].generation = newest =>
                      Link(IF j = 1 THEN decoder.last ELSE queue[j - 1], queue[j])
        /\ queue[Len(queue)].generation = newest
        /\ phase \in {"running", "waiting"} => newest <= next.generation /\ Link(Latest, next)
    BY <1>1 DEF DisplayInv, Chained
  <2>2. ASSUME NEW j \in DOMAIN queue'
        PROVE  /\ queue'[j].generation <= newest
               /\ queue'[j].generation = newest =>
                     Link(IF j = 1 THEN queue[1] ELSE queue'[j - 1], queue'[j])
    <3>1. j + 1 \in DOMAIN queue /\ queue'[j] = queue[j + 1] /\ j + 1 # 1 /\ (j + 1) - 1 = j
      BY <1>3
    <3>2. /\ queue[j + 1].generation <= newest
          /\ queue[j + 1].generation = newest => Link(queue[j], queue[j + 1])
      BY <2>1, <3>1
    <3>3. j # 1 => queue'[j - 1] = queue[j]
      <4> SUFFICES ASSUME j # 1
                   PROVE  queue'[j - 1] = queue[j]
        OBVIOUS
      <4>1. j - 1 \in DOMAIN queue' /\ (j - 1) + 1 = j
        BY <1>3
      <4> QED
        BY <1>3, <4>1
    <3> QED
      BY <3>1, <3>2, <3>3
  <2>3. Latest' = Latest /\ (queue' # <<>> => queue'[Len(queue')] = queue[Len(queue)])
    <3>1. CASE Len(queue) = 1
      <4>1. queue' = <<>>
        BY <1>3, <3>1
      <4> QED
        BY <1>1, <3>1, <4>1 DEF Latest
    <3>2. CASE Len(queue) # 1
      <4>1. Len(queue) - 1 \in DOMAIN queue' /\ (Len(queue) - 1) + 1 = Len(queue)
        BY <1>3, <3>2
      <4>2. queue' # <<>> /\ queue'[Len(queue')] = queue[Len(queue)]
        BY <1>3, <4>1
      <4> QED
        BY <1>1, <4>2 DEF Latest
    <3> QED
      BY <3>1, <3>2
  <2> QED
    BY <1>1, <1>2, <2>1, <2>2, <2>3 DEF Chained
<1> QED
  BY <1>1, <1>3, <1>4, <1>5, <1>6, ThreadKeepsLoop DEF DisplayInv

(* A thread that stops takes no further part.                              *)
LEMMA StopsKeeps ==
  ASSUME DisplayInv, NEW pc \in {"returned", "exited"}, worker' = [worker EXCEPT !.pc = pc],
         closed' = closed \/ (closed' = TRUE /\ pc = "exited"), worker.pc # "exited",
         queue' = queue \/ (queue # <<>> /\ queue' = Tail(queue)),
         UNCHANGED <<clientVars, newest, timings, decoder>>
  PROVE  DisplayInv'
<1>1. /\ UNCHANGED <<phase, next, current, pending, tripped, requests, stats, reported>>
      /\ TypeOK /\ Ordered /\ worker \in Worker
  BY DEF clientVars, DisplayInv, TypeOK
<1>2. worker' \in Worker /\ worker'.pc = pc /\ worker'.unsent = worker.unsent
  BY <1>1 DEF Worker
<1>3. /\ queue' \in Seq(Frame) /\ QueueIsWatched'
      /\ \A j \in DOMAIN queue' : Before(decoder.last, queue'[j])
  <2>1. CASE queue' = queue
    BY <1>1, <2>1 DEF DisplayInv, TypeOK, QueueIsWatched, Ordered
  <2>2. CASE queue # <<>> /\ queue' = Tail(queue)
    BY <1>1, <2>2, HeadOfQueue DEF Ordered
  <2> QED
    BY <2>1, <2>2
<1>4. TypeOK' /\ Ordered'
  BY <1>1, <1>2, <1>3 DEF TypeOK, Ordered
<1>5. Chained'
  BY <1>2 DEF Chained
<1> QED
  BY <1>2, <1>3, <1>4, <1>5, ThreadKeepsLoop DEF DisplayInv

(* The top of the loop, and a receive that gave nothing.                   *)
LEMMA WaitsKeeps ==
  ASSUME DisplayInv, worker.pc \in {"idle", "receiving"},
         NEW pc \in {"idle", "receiving"}, worker' = [worker EXCEPT !.pc = pc],
         UNCHANGED <<clientVars, queue, newest, closed, timings, decoder>>
  PROVE  DisplayInv'
<1>1. /\ UNCHANGED <<phase, next, current, pending, tripped, requests, stats, reported>>
      /\ TypeOK /\ Ordered /\ worker \in Worker
  BY DEF clientVars, DisplayInv, TypeOK
<1>2. worker' \in Worker /\ worker'.pc = pc /\ worker'.unsent = worker.unsent
  BY <1>1 DEF Worker
<1>3. TypeOK' /\ Ordered'
  BY <1>1, <1>2 DEF TypeOK, Ordered
<1>4. QueueIsWatched' /\ Chained'
  BY <1>1, <1>2 DEF DisplayInv, QueueIsWatched, Chained, Latest
<1> QED
  BY <1>2, <1>3, <1>4, ThreadKeepsLoop DEF DisplayInv

LEMMA SendsTimingKeeps ==
  ASSUME DisplayInv, SendsTiming
  PROVE  DisplayInv'
<1> DEFINE u == worker.unsent
           pc == IF Len(u) = 1 THEN "idle" ELSE "sending"
<1>1. /\ worker.pc = "sending" /\ timings' = Append(timings, Head(u))
      /\ worker' = [pc |-> pc, unsent |-> Tail(u)]
      /\ UNCHANGED <<clientVars, queue, newest, closed, decoder>>
  BY DEF SendsTiming
<1>2. /\ UNCHANGED <<phase, next, current, pending, tripped, requests, stats, reported>>
      /\ TypeOK /\ Ordered /\ timings \in Seq(Frame) /\ u \in Seq(Frame) /\ u # <<>>
  BY <1>1, Typed DEF clientVars, DisplayInv, TypeOK, Ordered
<1> HIDE DEF u
<1>3. /\ Head(u) = u[1] /\ u[1] \in Frame /\ 1 \in DOMAIN u /\ Tail(u) \in Seq(Frame)
      /\ \A j \in DOMAIN Tail(u) : j + 1 \in DOMAIN u /\ Tail(u)[j] = u[j + 1]
      /\ Len(u) # 1 => Tail(u) # <<>>
  <2>1. Len(Tail(u)) = Len(u) - 1 /\ Len(u) \in Nat \ {0}
    BY <1>2, TailFacts
  <2>2. Len(<<>>) = 0 /\ (Len(u) # 1 => Len(u) - 1 # 0)
    BY <2>1
  <2>3. Len(u) # 1 => Tail(u) # <<>>
    BY <2>1, <2>2
  <2> QED
    BY <1>2, <2>3, TailFacts
<1>4. worker' \in Worker /\ worker'.pc = pc /\ worker'.unsent = Tail(u)
  <2>1. pc \in {"idle", "sending"}
    OBVIOUS
  <2> HIDE DEF pc
  <2> QED
    BY <1>1, <1>3, <2>1 DEF Worker
<1>5. timings' \in Seq(Frame) /\ \A j \in DOMAIN timings' : (j \in DOMAIN timings /\ timings'[j] = timings[j]) \/ timings'[j] = u[1]
  BY <1>1, <1>2, <1>3
<1>6. TypeOK'
  BY <1>1, <1>2, <1>4, <1>5 DEF TypeOK
<1>7. Ordered'
  <2>1. \A j \in DOMAIN u : ~Before(decoder.last, u[j])
    BY <1>2 DEF Ordered, u
  <2>2. \A j \in DOMAIN timings' : ~Before(decoder.last, timings'[j])
    BY <1>2, <1>3, <1>5, <2>1 DEF Ordered
  <2>3. \A j \in DOMAIN Tail(u) : ~Before(decoder.last, Tail(u)[j])
    BY <1>3, <2>1
  <2>4. worker'.pc = "sending" => worker'.unsent # <<>>
    BY <1>3, <1>4
  <2> QED
    BY <1>1, <1>2, <1>4, <2>2, <2>3, <2>4 DEF Ordered
<1>8. QueueIsWatched' /\ Chained'
  BY <1>1, <1>2 DEF DisplayInv, QueueIsWatched, Chained, Latest
<1> QED
  BY <1>1, <1>4, <1>6, <1>7, <1>8, ThreadKeepsLoop DEF DisplayInv

-----------------------------------------------------------------------------
(* The theorems *)

LEMMA InitInv ==
  ASSUME Init
  PROVE  DisplayInv
<1>1. TypeOK
  <2>1. next \in [generation : 0..MaxGeneration, frame_id : 0..MaxFrameId + 1]
    BY DisplayConstants DEF Init
  <2>2. stats \in Counters
    BY DEF Init, Counters
  <2>3. worker \in Worker
    <3>1. <<>> \in Seq(Frame)
      OBVIOUS
    <3> QED
      BY <3>1 DEF Init, Worker
  <2>4. decoder \in Decoder
    BY DEF Init, Decoder
  <2>5. tripped \in BOOLEAN /\ closed \in BOOLEAN
    BY DEF Init, SinkOpens, NewBreaker
  <2>6. pending \in Seq(Entry) /\ queue \in Seq(Frame) /\ timings \in Seq(Frame)
    BY DEF Init, SinkOpens
  <2>7. current \in Int /\ newest \in Int /\ requests \in Nat /\ phase \in Phases
    BY DEF Init, SinkOpens, NewBreaker, Phases
  <2> QED
    BY <2>1, <2>2, <2>3, <2>4, <2>5, <2>6, <2>7 DEF Init, TypeOK
<1>2. Ordered
  BY DEF Init, Ordered, SinkOpens, Before, NoFrame
<1>3. QueueIsWatched /\ BreakerCounts /\ current <= next.generation
  BY DEF Init, SinkOpens, NewBreaker, QueueIsWatched, BreakerCounts
<1>4. Accounted
  BY DEF Init, SinkOpens, Accounted
<1>5. Chained /\ ClosedBy
  BY DEF Init, Chained, Latest, Link, NoFrame, ClosedBy
<1> QED
  BY <1>1, <1>2, <1>3, <1>4, <1>5 DEF DisplayInv

(* The frame a step processes is one that may come next.                   *)
LEMMA FrameStepsKeep ==
  ASSUME DisplayInv, FrameArrives \/ accept_next_generation
  PROVE  DisplayInv'
<1>1. /\ next \in [generation : 0..MaxGeneration, frame_id : 0..MaxFrameId + 1]
      /\ MaxGeneration \in Nat /\ MaxFrameId \in Nat
  BY DisplayConstants DEF DisplayInv, TypeOK
<1>2. CASE FrameArrives
  <2>1. next \in Frame /\ Follows(next)
    BY <1>1, <1>2 DEF FrameArrives, Frame, Follows
  <2> QED
    BY <1>2, <2>1, ProcessKeeps DEF FrameArrives
<1>3. CASE accept_next_generation
  <2>1. PICK g \in next.generation + 1..MaxGeneration :
          /\ process_frame([generation |-> g, frame_id |-> 0])
          /\ next' = NextAfter([generation |-> g, frame_id |-> 0])
    BY <1>3 DEF accept_next_generation
  <2> DEFINE f == [generation |-> g, frame_id |-> 0]
  <2>2. f \in Frame /\ Follows(f)
    BY <1>1, <2>1 DEF Frame, Follows
  <2> HIDE DEF f
  <2> QED
    BY <1>3, <2>1, <2>2, ProcessKeeps DEF accept_next_generation, f
<1> QED
  BY <1>2, <1>3

LEMMA NextKeeps ==
  ASSUME DisplayInv, [Next]_vars
  PROVE  DisplayInv'
<1>0. closed \in BOOLEAN
  BY DEF DisplayInv, TypeOK
<1>1. CASE FrameArrives \/ accept_next_generation
  BY <1>1, FrameStepsKeep
<1>2. CASE TimingArrives
  BY <1>2, TimingKeeps
<1>3. CASE tick_circuit_breaker
  BY <1>3, BreakerTickKeeps
<1>4. CASE StreamReset \/ WindowGone \/ CloseGracefully \/ Returns \/ DropWindow \/ Join
  BY <1>0, <1>4, PhaseKeeps DEF StreamReset, WindowGone, CloseGracefully, Returns, DropWindow,
     Join, Phases, windowVars
<1>5. CASE SkipsStale
  BY <1>5, SkipsStaleKeeps
<1>6. CASE decode_and_present
  BY <1>6, DecodeKeeps
<1>7. CASE SendsTiming
  BY <1>7, SendsTimingKeeps
<1>8. CASE DecodeFails \/ UserCloses \/ WorkerExits
  BY <1>0, <1>8, StopsKeeps DEF DecodeFails, UserCloses, WorkerExits
<1>11. CASE SeesClosed \/ ReceiveTimesOut
  <2>1. /\ worker.pc \in {"idle", "receiving"}
        /\ \E pc \in {"idle", "receiving", "returned"} : worker' = [worker EXCEPT !.pc = pc]
        /\ UNCHANGED <<clientVars, queue, newest, closed, timings, decoder>>
    BY <1>11 DEF SeesClosed, ReceiveTimesOut
  <2>2. PICK pc \in {"idle", "receiving", "returned"} : worker' = [worker EXCEPT !.pc = pc]
    BY <2>1
  <2> QED
    BY <2>1, <2>2, StopsKeeps, WaitsKeeps
<1>9. CASE Tick
  BY <1>9, TickKeeps
<1>10. CASE UNCHANGED vars
  BY <1>10 DEF vars, clientVars, windowVars, DisplayInv, TypeOK, Ordered, QueueIsWatched,
     BreakerCounts, HeadAge, Accounted, ClosedBy, Chained, Latest
<1> QED
  BY <1>1, <1>2, <1>3, <1>4, <1>5, <1>6, <1>7, <1>8, <1>9, <1>10, <1>11 DEF Next, WorkerStep

(* The inductive invariant of loop, window and thread.                     *)
THEOREM DisplayInvariant == Spec => []DisplayInv
<1>1. Init => DisplayInv
  BY InitInv
<1>2. DisplayInv /\ [Next]_vars => DisplayInv'
  BY NextKeeps
<1> QED
  BY <1>1, <1>2, PTL DEF Spec

(* The thread's queue is the newest part of the list the breaker watches.  *)
THEOREM BacklogIsVisible == Spec => []QueueIsWatched
<1>1. DisplayInv => QueueIsWatched
  BY DEF DisplayInv
<1> QED
  BY <1>1, DisplayInvariant, PTL

(* At most one KeyframeRequest more than frames were displayed.            *)
THEOREM RequestsAreEarned == Spec => []OneRequestPerBacklog
<1>1. ASSUME DisplayInv
      PROVE  OneRequestPerBacklog
  <2>1. requests \in Nat /\ tripped \in BOOLEAN /\ stats.displayed \in Nat
    BY <1>1, CountersFields DEF DisplayInv, TypeOK
  <2> QED
    BY <1>1, <2>1 DEF DisplayInv, BreakerCounts, OneRequestPerBacklog
<1>2. DisplayInv => OneRequestPerBacklog
  BY <1>1
<1> QED
  BY <1>2, DisplayInvariant, PTL

(* A step changes the decoder's last input only by decoding.               *)
LEMMA DecoderLinks ==
  ASSUME DisplayInv, [Next]_vars, decoder'.last # decoder.last
  PROVE  Link(decoder.last, decoder'.last)
<1>1. decode_and_present
  BY DEF Next, vars, clientVars, windowVars, FrameArrives, StreamReset, accept_next_generation,
     TimingArrives, WindowGone, tick_circuit_breaker, CloseGracefully, Returns, DropWindow, Join,
     WorkerStep, SkipsStale, SendsTiming, SeesClosed, ReceiveTimesOut, WorkerExits, DecodeFails,
     UserCloses, Tick
<1>2. /\ queue # <<>> /\ queue' = Tail(queue) /\ worker.pc = "receiving"
      /\ ~(queue[1].generation < newest) /\ decoder'.last = queue[1]
  BY <1>1, DecodeDoes
<1>3. 1 \in DOMAIN queue /\ queue[1] \in FrameId /\ newest \in Int
  BY <1>2, HeadOfQueue DEF DisplayInv, TypeOK
<1>4. /\ queue[1].generation <= newest
      /\ queue[1].generation = newest => Link(decoder.last, queue[1])
  BY <1>2, <1>3 DEF DisplayInv, Chained
<1>5. queue[1].generation = newest
  BY <1>2, <1>3, <1>4 DEF FrameId
<1> QED
  BY <1>2, <1>4, <1>5

(* The decoder gets unbroken chains of frames.                             *)
THEOREM DecoderGetsChains == Spec => ReferenceChain
<1>1. DisplayInv /\ [Next]_vars =>
        [decoder'.last # decoder.last =>
          \/ decoder'.last.frame_id = 0 /\ decoder'.last.generation > decoder.last.generation
          \/ decoder'.last = NextAfter(decoder.last)]_vars
  <2> SUFFICES ASSUME DisplayInv, [Next]_vars, decoder'.last # decoder.last
               PROVE  \/ decoder'.last.frame_id = 0 /\ decoder'.last.generation > decoder.last.generation
                      \/ decoder'.last = NextAfter(decoder.last)
    OBVIOUS
  <2>1. Link(decoder.last, decoder'.last)
    BY DecoderLinks
  <2>2. DisplayInv'
    BY NextKeeps
  <2>3. decoder.last \in FrameId /\ decoder'.last \in FrameId
    <3>1. TypeOK /\ TypeOK'
      BY <2>2 DEF DisplayInv
    <3>2. decoder'.last \in Frame \cup {NoFrame}
      BY <3>1 DEF TypeOK, Decoder
    <3> QED
      BY <3>1, <3>2, Typed, FrameTypes
  <2> QED
    BY <2>1, <2>3 DEF Link, FrameId
<1> QED
  BY <1>1, DisplayInvariant, PTL DEF Spec, ReferenceChain

(* What a step that counts a displayed frame reports.                      *)
LEMMA FeedbackStep ==
  ASSUME DisplayInv, [Next]_vars, stats'.displayed # stats.displayed
  PROVE  /\ stats'.displayed = stats.displayed + 1
         /\ Before(reported, reported')
         /\ ~Before(decoder.last, reported')
<1>1. TypeOK /\ stats \in Counters
  BY DEF DisplayInv, TypeOK
<1>2. ASSUME NEW f, process_frame(f)
      PROVE  stats'.displayed = stats.displayed
  <2>1. \/ stats' = Counted("unshown") \/ stats' = Counted("stale_generation")
        \/ stats' = [stats EXCEPT !.received = @ + 1]
    BY <1>2 DEF process_frame
  <2> QED
    BY <1>1, <2>1 DEF Counted, Counters
<1>3. TimingArrives
  BY <1>2 DEF Next, vars, clientVars, windowVars, FrameArrives, StreamReset,
     accept_next_generation, WindowGone, tick_circuit_breaker, CloseGracefully, Returns,
     DropWindow, Join, WorkerStep, SkipsStale, decode_and_present, SendsTiming, SeesClosed,
     ReceiveTimesOut, WorkerExits, DecodeFails, UserCloses, Tick
<1>4. /\ timings \in Seq(Frame) /\ timings # <<>> /\ on_window_timing(Head(timings))
  BY <1>1, <1>3 DEF TimingArrives, TypeOK
<1>5. Head(timings) = timings[1] /\ timings[1] \in Frame /\ 1 \in DOMAIN timings
  BY <1>4, TailFacts
<1>6. ~Before(decoder.last, timings[1])
  BY <1>5 DEF DisplayInv, Ordered
<1>7. PICK i \in 1..Len(pending) - Len(queue) :
        /\ pending[i].frame = timings[1]
        /\ stats' = Displayed(stats, i - 1)
        /\ reported' = timings[1]
  BY <1>4, <1>5, <1>6, TimingCases
<1>8. i \in DOMAIN pending /\ i - 1 \in Nat
  BY <1>1, <1>7 DEF TypeOK
<1> QED
  BY <1>1, <1>6, <1>7, <1>8, CountersDisplayed DEF DisplayInv, Ordered

(* Feedback goes out once per displayed frame and in order, and every      *)
(* received frame is accounted for.                                        *)
THEOREM FeedbackInOrder == Spec => FeedbackOncePerFrame
<1>1. DisplayInv /\ [Next]_vars =>
    [/\ stats'.displayed # stats.displayed =>
             /\ stats'.displayed = stats.displayed + 1
             /\ Before(reported, reported')
             /\ ~Before(decoder.last, reported')
     /\ LET s == stats' IN
        s.received = s.displayed + s.stale_generation + s.no_output + s.unshown + Len(pending')]_vars
  <2> SUFFICES ASSUME DisplayInv, [Next]_vars
               PROVE  /\ stats'.displayed # stats.displayed =>
                            /\ stats'.displayed = stats.displayed + 1
                            /\ Before(reported, reported')
                            /\ ~Before(decoder.last, reported')
                      /\ stats'.received = stats'.displayed + stats'.stale_generation
                            + stats'.no_output + stats'.unshown + Len(pending')
    OBVIOUS
  <2>1. Accounted'
    BY NextKeeps DEF DisplayInv
  <2> QED
    BY <2>1, FeedbackStep DEF Accounted
<1> QED
  BY <1>1, DisplayInvariant, PTL DEF Spec, FeedbackOncePerFrame
=============================================================================
