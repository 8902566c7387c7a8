---------------------------- MODULE Backpressure ----------------------------
(***************************************************************************)
(* The two trackers of src/src/backpressure.rs as operators on values:     *)
(*                                                                         *)
(*  - BaselineTracker, a rolling minimum of client_queue_delay_us kept in  *)
(*    a monotonic deque (a sequence of samples, front first);              *)
(*  - CongestionTracker, the Streaming / Congested / Reset decision made   *)
(*    for each feedback sample.                                            *)
(*                                                                         *)
(* Both take the time as a parameter, as the code does.  Times and delays  *)
(* are in the same abstract unit; the code's microseconds are one choice.  *)
(***************************************************************************)
EXTENDS Integers, Sequences

CONSTANTS
  Window,      \* VIDEO_QUEUE_BASELINE_WINDOW_US
  SoftDelta,   \* VIDEO_RATE_REDUCE_THRESHOLD_DELTA_US
  HardDelta,   \* MAX_VIDEO_QUEUE_DURATION_DELTA_US
  Hysteresis,  \* CONGESTED_TO_STREAMING_HYSTERESIS_US
  HardCount    \* HARD_THRESHOLD_CONSECUTIVE_COUNT

ASSUME BackpressureAssumption ==
  /\ Window \in Nat
  /\ SoftDelta \in Nat
  /\ HardDelta \in Nat
  /\ Hysteresis \in Nat
  /\ HardCount \in Nat \ {0}

(* An absent Option<u64> of the code.                                      *)
None == -1

OptTime == Nat \cup {None}

SaturatingSub(a, b) == IF a >= b THEN a - b ELSE 0

(***************************************************************************)
(* BaselineTracker.                                                        *)
(***************************************************************************)
Sample == [ts : Nat, us : Nat]

(* Mutant: the loop pops the smaller values instead of the larger ones.    *)
KeptBefore_PopsSmaller(s, us) ==
  CHOOSE n \in 0 .. Len(s) :
    /\ \A i \in (n + 1) .. Len(s) : s[i].us <= us
    /\ n = 0 \/ s[n].us > us

(* record's loop: pop_back while the back value is at least the new one.   *)
KeptBefore(s, us) ==
  CHOOSE n \in 0 .. Len(s) :
    /\ \A i \in (n + 1) .. Len(s) : s[i].us >= us
    /\ n = 0 \/ s[n].us < us

(* evict_expired's loop: pop_front while the front is older than cutoff.   *)
FirstLive(s, cutoff) ==
  CHOOSE n \in 1 .. Len(s) + 1 :
    /\ \A i \in 1 .. (n - 1) : s[i].ts < cutoff
    /\ n = Len(s) + 1 \/ s[n].ts >= cutoff

EvictExpired(s, now) ==
  SubSeq(s, FirstLive(s, SaturatingSub(now, Window)), Len(s))

(* Mutant: the eviction call is forgotten.                                 *)
Record_NoEviction(s, now, us) ==
  Append(SubSeq(s, 1, KeptBefore(s, us)), [ts |-> now, us |-> us])

(* Mutant: the entry is stamped with the (unsaturated) window start.       *)
Record_StampsWindowStart(s, now, us) ==
  Append(EvictExpired(SubSeq(s, 1, KeptBefore(s, us)), now),
         [ts |-> now - Window, us |-> us])

Record(s, now, us) ==
  EvictExpired(
    Append(SubSeq(s, 1, KeptBefore(s, us)), [ts |-> now, us |-> us]), now)

(* baseline_us; unwrap_or(us) as on_feedback reads it.                     *)
BaselineUs(s, us) == IF s = << >> THEN us ELSE s[1].us

(***************************************************************************)
(* CongestionTracker.                                                      *)
(***************************************************************************)
Decision == {"Continue", "EnterCongested", "ExitCongested", "ResetStream"}

Congestion == [congested : BOOLEAN, hard : Nat, since : OptTime]

NewCongestion == [congested |-> FALSE, hard |-> 0, since |-> None]

(* Mutant: a sample below the hard threshold does not restart the count.   *)
HardViolations_NeverRestarts(c, delta) ==
  IF delta > HardDelta THEN c.hard + 1 ELSE c.hard

HardViolations(c, delta) == IF delta > HardDelta THEN c.hard + 1 ELSE 0

(* Mutant: the recovery timer starts a whole period early.                 *)
BelowSoftSince_StartsEarly(c, now, delta) ==
  IF delta >= SoftDelta THEN None
  ELSE IF c.since = None THEN now - (Hysteresis + 2) ELSE c.since

BelowSoftSince(c, now, delta) ==
  IF delta >= SoftDelta THEN None
  ELSE IF c.since = None THEN now ELSE c.since

RecoveryDue(c, now, delta) ==
  /\ delta < SoftDelta
  /\ c.since # None
  /\ SaturatingSub(now, c.since) >= Hysteresis

(* The branch evaluate takes for one sample; bytesOver stands for          *)
(* app_send_queue_bytes > MAX_VIDEO_QUEUE_BYTES.                           *)
Decide(c, now, delta, bytesOver) ==
  CASE ~c.congested /\ delta > SoftDelta -> "EnterCongested"
    [] ~c.congested /\ delta <= SoftDelta -> "Continue"
    [] c.congested /\ (HardViolations(c, delta) >= HardCount \/ bytesOver)
         -> "ResetStream"
    [] c.congested /\ ~(HardViolations(c, delta) >= HardCount \/ bytesOver)
         -> IF RecoveryDue(c, now, delta) THEN "ExitCongested" ELSE "Continue"

(* Mutant: the recovery timer survives a sample above the soft threshold.  *)
Evaluated_TimerSurvives(c, now, delta, bytesOver) ==
  LET d == Decide(c, now, delta, bytesOver)
      hard == HardViolations(c, delta)
  IN  CASE d = "EnterCongested" -> [NewCongestion EXCEPT !.congested = TRUE]
        [] d = "ResetStream"    -> [c EXCEPT !.hard = hard]
        [] d = "ExitCongested"  ->
             [congested |-> FALSE, hard |-> hard, since |-> None]
        [] d = "Continue"       ->
             IF c.congested
             THEN [c EXCEPT !.hard = hard,
                            !.since = IF @ = None /\ delta < SoftDelta
                                      THEN now ELSE @]
             ELSE c

(* Mutant: leaving Congested forgets to clear the flag.                    *)
Evaluated_StaysCongested(c, now, delta, bytesOver) ==
  LET d == Decide(c, now, delta, bytesOver)
      hard == HardViolations(c, delta)
  IN  CASE d = "EnterCongested" -> [NewCongestion EXCEPT !.congested = TRUE]
        [] d = "ResetStream"    -> [c EXCEPT !.hard = hard]
        [] d = "ExitCongested"  ->
             [c EXCEPT !.hard = hard, !.since = None]
        [] d = "Continue"       ->
             IF c.congested
             THEN [c EXCEPT !.hard = hard,
                            !.since = BelowSoftSince(c, now, delta)]
             ELSE c

(* The tracker after evaluate.                                             *)
Evaluated(c, now, delta, bytesOver) ==
  LET d == Decide(c, now, delta, bytesOver)
      hard == HardViolations(c, delta)
  IN  CASE d = "EnterCongested" -> [NewCongestion EXCEPT !.congested = TRUE]
        [] d = "ResetStream"    -> [c EXCEPT !.hard = hard]
        [] d = "ExitCongested"  ->
             [congested |-> FALSE, hard |-> hard, since |-> None]
        [] d = "Continue"       ->
             IF c.congested
             THEN [c EXCEPT !.hard = hard,
                            !.since = BelowSoftSince(c, now, delta)]
             ELSE c

=============================================================================
