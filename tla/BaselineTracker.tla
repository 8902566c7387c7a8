--------------------------- MODULE BaselineTracker ---------------------------
(***************************************************************************)
(* The BaselineTracker of src/src/backpressure.rs run on a monotonic clock *)
(* (src/src/clock.rs): any number of samples may be recorded at one        *)
(* instant, and any time may pass between two records.                     *)
(*                                                                         *)
(* `recorded' is a history variable: every sample ever handed to record.   *)
(* The deque drops samples for good, so the question is whether the front  *)
(* it keeps still is the minimum of the window of all recorded samples.    *)
(***************************************************************************)
EXTENDS Backpressure

CONSTANTS
  QueueDelays,  \* values client_queue_delay_us takes
  MaxClock      \* bound on the clock

ASSUME BaselineAssumption == QueueDelays \subseteq Nat /\ MaxClock \in Nat

VARIABLES
  clock,     \* clock::now_us
  samples,   \* BaselineTracker.samples
  recorded,  \* history: all samples recorded so far
  last       \* history: time of the last record, None before the first

trackerVars == <<clock, samples, recorded, last>>

TrackerInit ==
  /\ clock = 0
  /\ samples = << >>
  /\ recorded = {}
  /\ last = None

TrackerTick ==
  /\ clock < MaxClock
  /\ clock' = clock + 1
  /\ UNCHANGED <<samples, recorded, last>>

RecordSample(us) ==
  /\ samples' = Record(samples, clock, us)
  /\ recorded' = recorded \cup {[ts |-> clock, us |-> us]}
  /\ last' = clock
  /\ UNCHANGED clock

TrackerNext == TrackerTick \/ \E us \in QueueDelays : RecordSample(us)

TrackerSpec == TrackerInit /\ [][TrackerNext]_trackerVars

-----------------------------------------------------------------------------
TrackerTypeOK ==
  /\ clock \in Nat
  /\ samples \in Seq(Sample)
  /\ recorded \subseteq Sample
  /\ last \in OptTime

(* The samples inside the window that ends at the last record.             *)
WindowSamples ==
  {r \in recorded : r.ts >= SaturatingSub(last, Window)}

(* What baseline_us promises (backpressure.rs:37, "Rolling minimum ... over *)
(* a trailing time window"): once a sample was recorded the deque is not   *)
(* empty and its front is the minimum of all samples of the window.  A     *)
(* popped sample can never have been needed later.                         *)
BaselineIsWindowMinimum ==
  last # None =>
    /\ samples # << >>
    /\ \E r \in WindowSamples : r.us = samples[1].us
    /\ \A r \in WindowSamples : samples[1].us <= r.us

(* The invariant the code states of the deque (backpressure.rs:43): values *)
(* strictly increase from front to back.  Times do not decrease.           *)
DequeMonotonic ==
  \A i, j \in 1 .. Len(samples) :
    i < j => /\ samples[i].us < samples[j].us
             /\ samples[i].ts <= samples[j].ts

(* What makes the minimum inductive: every recorded sample still in the    *)
(* window is dominated by a deque entry at least as young and no larger.   *)
DequeDominates ==
  \A r \in recorded :
    r.ts >= SaturatingSub(last, Window) =>
      \E i \in 1 .. Len(samples) :
        samples[i].ts >= r.ts /\ samples[i].us <= r.us

(* The inductive invariant of the proof; checked by TLC as well.           *)
BaselineInv ==
  /\ TrackerTypeOK
  /\ DequeMonotonic
  /\ DequeDominates
  /\ last <= clock
  /\ last = None => recorded = {} /\ samples = << >>
  /\ last # None => \E r \in recorded : r.ts = last
  /\ \A r \in recorded : r.ts <= last
  /\ \A i \in 1 .. Len(samples) :
       /\ samples[i] \in recorded
       /\ samples[i].ts >= SaturatingSub(last, Window)

=============================================================================
