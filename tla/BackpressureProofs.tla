------------------------- MODULE BackpressureProofs --------------------------
(***************************************************************************)
(* Proofs about video backpressure, for every threshold, window, timeout   *)
(* and set of delays, and any length of run:                               *)
(*  - what the operators of Backpressure return: the deque after record,   *)
(*    the tracker after evaluate;                                          *)
(*  - BaselineTracker: the monotonic deque computes the minimum of the     *)
(*    trailing window;                                                     *)
(*  - VideoChannel: the three copies of the video state agree, no state    *)
(*    machine rejects a step, and resets, recoveries and keyframes are     *)
(*    earned.                                                              *)
(***************************************************************************)
EXTENDS VideoChannel, BaselineTracker, TLAPS, WellFoundedInduction

-----------------------------------------------------------------------------
(* Backpressure *)

(* Every non-empty set of naturals has a least element: what the two loops *)
(* of the deque need in order to stop somewhere.                           *)
LEMMA NatMinimum ==
  ASSUME NEW T, T \subseteq Nat, T # {}
  PROVE  \E x \in T : \A y \in T : x <= y
<1>1. PICK x \in T : \A y \in T : ~(<<y, x>> \in OpToRel(<, Nat))
  BY NatLessThanWellFounded, WFMin
<1>2. ASSUME NEW y \in T PROVE x <= y
  <2>1. x \in Nat /\ y \in Nat
    OBVIOUS
  <2>2. ~(y < x)
    BY <1>1, <2>1 DEF OpToRel
  <2>3. QED
    BY <2>1, <2>2
<1>3. QED
  BY <1>2

(* The entries of a deque are samples, with natural times and values.      *)
LEMMA DequeEntry ==
  ASSUME NEW s \in Seq(Sample), NEW i \in 1 .. Len(s)
  PROVE  /\ s[i] \in Sample
         /\ s[i].ts \in Nat
         /\ s[i].us \in Nat
<1>1. s[i] \in Sample
  OBVIOUS
<1>2. QED
  BY <1>1 DEF Sample

(* The pop_back loop of record ends at the last value below the new one.   *)
LEMMA KeptBeforeIsLoopEnd ==
  ASSUME NEW s \in Seq(Sample), NEW us \in Nat
  PROVE  /\ KeptBefore(s, us) \in 0 .. Len(s)
         /\ \A i \in (KeptBefore(s, us) + 1) .. Len(s) : s[i].us >= us
         /\ KeptBefore(s, us) = 0 \/ s[KeptBefore(s, us)].us < us
<1> DEFINE T == {k \in 0 .. Len(s) : k = Len(s) \/ s[Len(s) - k].us < us}
<1>1. T \subseteq Nat /\ Len(s) \in T
  OBVIOUS
<1>2. PICK k \in T : \A y \in T : k <= y
  BY <1>1, NatMinimum
<1> DEFINE n == Len(s) - k
<1>3. n \in 0 .. Len(s) /\ (n = 0 \/ s[n].us < us)
  BY <1>2
<1>4. ASSUME NEW i \in (n + 1) .. Len(s) PROVE s[i].us >= us
  <2>1. Len(s) - i \in 0 .. Len(s) /\ Len(s) - i < k /\ i \in 1 .. Len(s)
    BY <1>2
  <2>2. Len(s) - i \notin T
    BY <1>2, <2>1
  <2>3. ~(s[i].us < us)
    BY <2>1, <2>2
  <2>4. s[i].us \in Nat
    BY <2>1, DequeEntry
  <2>5. QED
    BY <2>3, <2>4
<1>5. \E m \in 0 .. Len(s) :
        /\ \A i \in (m + 1) .. Len(s) : s[i].us >= us
        /\ m = 0 \/ s[m].us < us
  BY <1>3, <1>4
<1>6. QED
  BY <1>5 DEF KeptBefore

(* The pop_front loop of evict_expired ends at the first live sample.      *)
LEMMA FirstLiveIsLoopEnd ==
  ASSUME NEW s \in Seq(Sample), NEW cutoff \in Nat
  PROVE  /\ FirstLive(s, cutoff) \in 1 .. Len(s) + 1
         /\ \A i \in 1 .. (FirstLive(s, cutoff) - 1) : s[i].ts < cutoff
         /\ FirstLive(s, cutoff) = Len(s) + 1
              \/ s[FirstLive(s, cutoff)].ts >= cutoff
<1> DEFINE T == {m \in 1 .. Len(s) + 1 : m = Len(s) + 1 \/ s[m].ts >= cutoff}
<1>1. T \subseteq Nat /\ Len(s) + 1 \in T
  OBVIOUS
<1>2. PICK n \in T : \A y \in T : n <= y
  BY <1>1, NatMinimum
<1>3. ASSUME NEW i \in 1 .. (n - 1) PROVE s[i].ts < cutoff
  <2>1. i \in 1 .. Len(s) /\ i < n
    BY <1>2
  <2>2. ~(s[i].ts >= cutoff)
    BY <1>2, <2>1
  <2>3. s[i].ts \in Nat
    BY <2>1, DequeEntry
  <2>4. QED
    BY <2>2, <2>3
<1>4. \E m \in 1 .. Len(s) + 1 :
        /\ \A i \in 1 .. (m - 1) : s[i].ts < cutoff
        /\ m = Len(s) + 1 \/ s[m].ts >= cutoff
  BY <1>2, <1>3
<1>5. QED
  BY <1>4 DEF FirstLive

(* What record leaves in the deque: entries f..n of the old one, followed  *)
(* by the new sample.  Those after n are no smaller than the new value,    *)
(* those before f are older than the window.                               *)
RecordedFrom(s, t, us, r, n, f) ==
  /\ f <= n + 1
  /\ \A i \in (n + 1) .. Len(s) : s[i].us >= us
  /\ n = 0 \/ s[n].us < us
  /\ \A i \in 1 .. (f - 1) : s[i].ts < SaturatingSub(t, Window)
  /\ f = n + 1 \/ s[f].ts >= SaturatingSub(t, Window)
  /\ r \in Seq(Sample)
  /\ Len(r) = n + 2 - f
  /\ \A i \in 1 .. (n + 1 - f) : r[i] = s[f + i - 1]
  /\ r[n + 2 - f] = [ts |-> t, us |-> us]

(* record always produces a deque of that form.                            *)
LEMMA RecordShape ==
  ASSUME NEW s \in Seq(Sample), NEW t \in Nat, NEW us \in Nat
  PROVE  \E n \in 0 .. Len(s), f \in 1 .. (Len(s) + 1) :
           RecordedFrom(s, t, us, Record(s, t, us), n, f)
<1> DEFINE n == KeptBefore(s, us)
           e == [ts |-> t, us |-> us]
           a == Append(SubSeq(s, 1, n), e)
           cutoff == SaturatingSub(t, Window)
           f == FirstLive(a, cutoff)
<1>1. /\ n \in 0 .. Len(s)
      /\ \A i \in (n + 1) .. Len(s) : s[i].us >= us
      /\ n = 0 \/ s[n].us < us
  BY KeptBeforeIsLoopEnd
<1>2. cutoff \in Nat /\ cutoff <= t
  BY BackpressureAssumption DEF SaturatingSub
<1>3. e \in Sample
  BY DEF Sample
<1> HIDE DEF n, e
<1>4. /\ SubSeq(s, 1, n) \in Seq(Sample)
      /\ Len(SubSeq(s, 1, n)) = n
      /\ \A i \in 1 .. n : SubSeq(s, 1, n)[i] = s[i]
  BY <1>1
<1>5. /\ a \in Seq(Sample)
      /\ Len(a) = n + 1
      /\ \A i \in 1 .. n : a[i] = s[i]
      /\ a[n + 1] = e
  BY <1>1, <1>3, <1>4
<1> HIDE DEF a, cutoff
<1>6. /\ f \in 1 .. Len(a) + 1
      /\ \A i \in 1 .. (f - 1) : a[i].ts < cutoff
      /\ f = Len(a) + 1 \/ a[f].ts >= cutoff
  BY <1>2, <1>5, FirstLiveIsLoopEnd
<1> HIDE DEF f
<1>7. e.ts = t
  BY DEF e
<1>8. f # n + 2
  <2>1. SUFFICES ASSUME f = n + 2 PROVE FALSE
    OBVIOUS
  <2>2. a[n + 1].ts < cutoff
    BY <1>1, <1>6, <2>1
  <2>3. QED
    BY <1>2, <1>5, <1>7, <2>2
<1>9. f \in 1 .. (Len(s) + 1) /\ f <= n + 1
  BY <1>1, <1>5, <1>6, <1>8
<1>10. /\ SubSeq(a, f, Len(a)) \in Seq(Sample)
       /\ Len(SubSeq(a, f, Len(a))) = n + 2 - f
       /\ \A i \in 1 .. (n + 2 - f) : SubSeq(a, f, Len(a))[i] = a[f + i - 1]
  BY <1>1, <1>5, <1>9
<1>11. Record(s, t, us) = SubSeq(a, f, Len(a))
  BY DEF Record, EvictExpired, a, f, n, e, cutoff
<1>12. \A i \in 1 .. (f - 1) : s[i].ts < cutoff
  <2>1. ASSUME NEW i \in 1 .. (f - 1) PROVE s[i].ts < cutoff
    <3>1. i \in 1 .. n /\ a[i].ts < cutoff
      BY <1>1, <1>6, <1>9
    <3>2. QED
      BY <1>5, <3>1
  <2>2. QED
    BY <2>1
<1>13. f = n + 1 \/ s[f].ts >= cutoff
  <2>1. SUFFICES ASSUME f # n + 1 PROVE s[f].ts >= cutoff
    OBVIOUS
  <2>2. f \in 1 .. n /\ f # Len(a) + 1
    BY <1>1, <1>5, <1>9, <2>1
  <2>3. QED
    BY <1>5, <1>6, <2>2
<1>14. /\ \A i \in 1 .. (n + 1 - f) : Record(s, t, us)[i] = s[f + i - 1]
       /\ Record(s, t, us)[n + 2 - f] = e
  <2>1. ASSUME NEW i \in 1 .. (n + 1 - f)
        PROVE  Record(s, t, us)[i] = s[f + i - 1]
    <3>1. i \in 1 .. (n + 2 - f) /\ f + i - 1 \in 1 .. n
      BY <1>1, <1>9
    <3>2. QED
      BY <1>5, <1>10, <1>11, <3>1
  <2>2. n + 2 - f \in 1 .. (n + 2 - f) /\ f + (n + 2 - f) - 1 = n + 1
    BY <1>1, <1>9
  <2>3. QED
    BY <1>5, <1>10, <1>11, <2>1, <2>2
<1>15. RecordedFrom(s, t, us, Record(s, t, us), n, f)
  BY <1>1, <1>9, <1>10, <1>11, <1>12, <1>13, <1>14 DEF RecordedFrom, e, cutoff
<1>16. QED
  BY <1>1, <1>9, <1>15

(* The tracker after a decision: evaluate leaves Congested only with       *)
(* ExitCongested, asks for a reset only in Congested, and keeps the hard   *)
(* counter below its limit otherwise.                                      *)
LEMMA EvaluateCases ==
  ASSUME NEW c \in Congestion, NEW t \in Nat, NEW delta \in Nat,
         NEW over \in BOOLEAN
  PROVE  LET d == Decide(c, t, delta, over)
             n == Evaluated(c, t, delta, over)
         IN  /\ d \in Decision
             /\ n \in Congestion
             /\ d = "EnterCongested" =>
                  /\ ~c.congested /\ delta > SoftDelta
                  /\ n.congested /\ n.hard = 0 /\ n.since = None
             /\ d = "Continue" /\ ~c.congested => n = c
             /\ d = "Continue" /\ c.congested =>
                  /\ n.congested
                  /\ n.hard = HardViolations(c, delta) /\ n.hard < HardCount
                  /\ n.since = BelowSoftSince(c, t, delta)
             /\ d = "ExitCongested" =>
                  /\ c.congested /\ RecoveryDue(c, t, delta)
                  /\ ~n.congested /\ n.since = None
             /\ d = "ResetStream" =>
                  /\ c.congested
                  /\ HardViolations(c, delta) >= HardCount \/ over
<1> DEFINE d == Decide(c, t, delta, over)
           n == Evaluated(c, t, delta, over)
           hv == HardViolations(c, delta)
           bs == BelowSoftSince(c, t, delta)
<1>1. /\ c.congested \in BOOLEAN /\ c.hard \in Nat /\ c.since \in OptTime
      /\ SoftDelta \in Nat /\ HardDelta \in Nat
      /\ HardCount \in Nat /\ Hysteresis \in Nat
  BY BackpressureAssumption DEF Congestion
<1>2. hv \in Nat
  BY <1>1 DEF HardViolations
<1>3. bs \in OptTime
  BY <1>1 DEF BelowSoftSince, OptTime, None
<1> HIDE DEF hv, bs
<1>4. CASE ~c.congested /\ delta > SoftDelta
  <2>1. d = "EnterCongested"
    BY <1>1, <1>4 DEF Decide
  <2>2. n = [congested |-> TRUE, hard |-> 0, since |-> None]
    BY <2>1 DEF Evaluated, NewCongestion
  <2>3. QED
    BY <1>1, <1>4, <2>1, <2>2 DEF Decision, Congestion, OptTime
<1>5. CASE ~c.congested /\ ~(delta > SoftDelta)
  <2>1. d = "Continue"
    BY <1>1, <1>5 DEF Decide
  <2>2. n = c
    BY <1>5, <2>1 DEF Evaluated
  <2>3. QED
    BY <1>5, <2>1, <2>2 DEF Decision
<1>6. CASE c.congested /\ (hv >= HardCount \/ over)
  <2>1. d = "ResetStream"
    BY <1>6 DEF Decide, hv
  <2>2. n = [c EXCEPT !.hard = hv]
    BY <2>1 DEF Evaluated, hv
  <2>3. n \in Congestion
    BY <1>2, <2>2 DEF Congestion
  <2>4. QED
    BY <1>6, <2>1, <2>3 DEF Decision, hv
<1>7. CASE c.congested /\ ~(hv >= HardCount \/ over)
  <2>1. CASE RecoveryDue(c, t, delta)
    <3>1. d = "ExitCongested"
      BY <1>7, <2>1 DEF Decide, hv
    <3>2. n = [congested |-> FALSE, hard |-> hv, since |-> None]
      BY <3>1 DEF Evaluated, hv
    <3>3. n \in Congestion
      BY <1>2, <3>2 DEF Congestion, OptTime
    <3>4. QED
      BY <1>7, <2>1, <3>1, <3>2, <3>3 DEF Decision
  <2>2. CASE ~RecoveryDue(c, t, delta)
    <3>1. d = "Continue"
      BY <1>7, <2>2 DEF Decide, hv
    <3>2. n = [c EXCEPT !.hard = hv, !.since = bs]
      BY <1>7, <3>1 DEF Evaluated, hv, bs
    <3>3. /\ n \in Congestion
          /\ n.congested = c.congested /\ n.hard = hv /\ n.since = bs
      BY <1>2, <1>3, <3>2 DEF Congestion
    <3>4. hv < HardCount
      BY <1>1, <1>2, <1>7
    <3>5. QED
      BY <1>7, <3>1, <3>3, <3>4 DEF Decision, hv, bs
  <2>3. QED
    BY <2>1, <2>2
<1>8. QED
  BY <1>1, <1>4, <1>5, <1>6, <1>7

-----------------------------------------------------------------------------
(* BaselineTracker *)

(* A record keeps every conjunct of the invariant.                         *)
LEMMA RecordKeepsInv ==
  ASSUME BaselineInv, NEW us \in QueueDelays, RecordSample(us)
  PROVE  BaselineInv'
<1> DEFINE e == [ts |-> clock, us |-> us]
           cutoff == SaturatingSub(clock, Window)
<1>0. /\ clock \in Nat
      /\ us \in Nat
      /\ samples \in Seq(Sample)
      /\ recorded \subseteq Sample
      /\ last \in OptTime
      /\ last <= clock
  BY BaselineAssumption DEF BaselineInv, TrackerTypeOK
<1>1. /\ samples' = Record(samples, clock, us)
      /\ recorded' = recorded \cup {e}
      /\ last' = clock
      /\ clock' = clock
  BY DEF RecordSample
<1>2a. PICK n \in 0 .. Len(samples), f \in 1 .. (Len(samples) + 1) :
         RecordedFrom(samples, clock, us, Record(samples, clock, us), n, f)
  BY <1>0, RecordShape
<1>2. /\ n \in 0 .. Len(samples)
      /\ f \in 1 .. (Len(samples) + 1)
      /\ f <= n + 1
      /\ \A i \in (n + 1) .. Len(samples) : samples[i].us >= us
      /\ n = 0 \/ samples[n].us < us
      /\ \A i \in 1 .. (f - 1) : samples[i].ts < cutoff
      /\ f = n + 1 \/ samples[f].ts >= cutoff
      /\ samples' \in Seq(Sample)
      /\ Len(samples') = n + 2 - f
      /\ \A i \in 1 .. (n + 1 - f) : samples'[i] = samples[f + i - 1]
      /\ samples'[n + 2 - f] = e
  BY <1>1, <1>2a DEF RecordedFrom
<1>3. e \in Sample /\ e.ts = clock /\ e.us = us
  BY <1>0 DEF Sample
<1>4. cutoff \in Nat /\ cutoff <= clock
  BY <1>0, BackpressureAssumption DEF SaturatingSub
<1>5. SaturatingSub(last, Window) <= cutoff /\ SaturatingSub(last, Window) \in Nat
  BY <1>0, BackpressureAssumption DEF SaturatingSub, OptTime, None
<1>6. /\ \A i, j \in 1 .. Len(samples) :
           i < j => /\ samples[i].us < samples[j].us
                    /\ samples[i].ts <= samples[j].ts
      /\ \A r \in recorded : r.ts <= last
      /\ \A i \in 1 .. Len(samples) : samples[i] \in recorded
  BY DEF BaselineInv, DequeMonotonic
<1> HIDE DEF e, cutoff
<1>7. TrackerTypeOK'
  BY <1>0, <1>1, <1>2, <1>3 DEF TrackerTypeOK, OptTime
<1>8. ASSUME NEW i \in 1 .. Len(samples')
      PROVE  \/ /\ i \in 1 .. (n + 1 - f)
                /\ f + i - 1 \in 1 .. n
                /\ samples'[i] = samples[f + i - 1]
             \/ i = n + 2 - f /\ samples'[i] = e
  BY <1>2
<1>9. ASSUME NEW i \in 1 .. n
      PROVE  samples[i].us < us /\ samples[i].ts <= clock
  <2>1. i \in 1 .. Len(samples) /\ n \in 1 .. Len(samples) /\ n # 0
    BY <1>2
  <2>2. samples[i].us \in Nat /\ samples[n].us \in Nat /\ samples[i].ts \in Nat
    BY <1>0, <2>1, DequeEntry
  <2>3. samples[n].us < us
    BY <1>2, <2>1
  <2>4. i = n \/ samples[i].us < samples[n].us
    BY <1>6, <2>1
  <2>5. samples[i].us < us
    BY <1>0, <2>2, <2>3, <2>4
  <2>6. samples[i].ts <= last
    BY <1>6, <2>1
  <2>7. last \in Int
    BY <1>0 DEF OptTime, None
  <2>8. QED
    BY <1>0, <2>2, <2>5, <2>6, <2>7
<1>10. DequeMonotonic'
  <2>1. ASSUME NEW i \in 1 .. Len(samples'), NEW j \in 1 .. Len(samples'), i < j
        PROVE  samples'[i].us < samples'[j].us /\ samples'[i].ts <= samples'[j].ts
    <3>1. /\ f + i - 1 \in 1 .. n
          /\ samples'[i] = samples[f + i - 1]
      BY <1>2, <2>1, <1>8
    <3>2. CASE j = n + 2 - f /\ samples'[j] = e
      BY <1>3, <1>9, <3>1, <3>2
    <3>3. CASE f + j - 1 \in 1 .. n /\ samples'[j] = samples[f + j - 1]
      <4>0. i \in Int /\ j \in Int /\ f \in Int /\ n \in Int /\ Len(samples) \in Int
        BY <1>0, <1>2
      <4>1. /\ f + i - 1 \in 1 .. Len(samples)
            /\ f + j - 1 \in 1 .. Len(samples)
            /\ f + i - 1 < f + j - 1
        <5>1. n <= Len(samples)
          BY <1>2
        <5>2. QED
          BY <2>1, <3>1, <3>3, <4>0, <5>1
      <4>2. QED
        BY <1>6, <3>1, <3>3, <4>1
    <3>4. QED
      BY <1>8, <3>2, <3>3
  <2>2. QED
    BY <2>1 DEF DequeMonotonic
<1>11. DequeDominates'
  <2>1. ASSUME NEW r \in recorded, r.ts >= cutoff
        PROVE  \E i \in 1 .. Len(samples') :
                 samples'[i].ts >= r.ts /\ samples'[i].us <= r.us
    <3>1. r.ts \in Nat /\ r.us \in Nat
      BY <1>0 DEF Sample
    <3>2. r.ts >= SaturatingSub(last, Window)
      BY <1>4, <1>5, <2>1, <3>1
    <3>3. PICK i \in 1 .. Len(samples) :
            samples[i].ts >= r.ts /\ samples[i].us <= r.us
      BY <3>2 DEF BaselineInv, DequeDominates
    <3>4. samples[i].ts \in Nat /\ samples[i].us \in Nat
      BY <1>0, DequeEntry
    <3>5. CASE i <= n
      <4>1. ~(samples[i].ts < cutoff)
        BY <1>4, <2>1, <3>1, <3>3, <3>4
      <4>2. i >= f
        BY <1>2, <4>1
      <4>3. i - f + 1 \in 1 .. (n + 1 - f) /\ f + (i - f + 1) - 1 = i
        BY <1>2, <3>5, <4>2
      <4>4. samples'[i - f + 1] = samples[i]
        BY <1>2, <4>3
      <4>5. i - f + 1 \in 1 .. Len(samples')
        BY <1>2, <4>3
      <4>6. QED
        BY <3>3, <4>4, <4>5
    <3>6. CASE i > n
      <4>1. samples[i].us >= us
        <5>1. i \in (n + 1) .. Len(samples)
          BY <1>2, <3>6
        <5>2. QED
          BY <1>2, <5>1
      <4>2. us <= r.us
        BY <1>0, <3>1, <3>3, <3>4, <4>1
      <4>3. r.ts <= clock
        <5>1. r.ts <= last /\ last \in Int
          BY <1>0, <1>6 DEF OptTime, None
        <5>2. QED
          BY <1>0, <3>1, <5>1
      <4>4. n + 2 - f \in 1 .. Len(samples')
        BY <1>2
      <4>5. samples'[n + 2 - f].ts >= r.ts /\ samples'[n + 2 - f].us <= r.us
        BY <1>0, <1>2, <1>3, <3>1, <4>2, <4>3
      <4>6. QED
        BY <4>4, <4>5
    <3>7. i <= n \/ i > n
      BY <1>2
    <3>8. QED
      BY <3>5, <3>6, <3>7
  <2>2. \E i \in 1 .. Len(samples') : samples'[i].ts >= e.ts /\ samples'[i].us <= e.us
    <3>1. n + 2 - f \in 1 .. Len(samples')
      BY <1>2
    <3>2. QED
      BY <1>0, <1>2, <1>3, <3>1
  <2>3. SaturatingSub(last, Window)' = cutoff
    BY <1>1 DEF cutoff, SaturatingSub
  <2>4. QED
    BY <1>1, <2>1, <2>2, <2>3 DEF DequeDominates
<1>12. ASSUME NEW i \in 1 .. Len(samples')
       PROVE  samples'[i] \in recorded' /\ samples'[i].ts >= cutoff
  <2>1. CASE samples'[i] = e
    BY <1>0, <1>1, <1>3, <1>4, <2>1
  <2>2. CASE /\ i \in 1 .. (n + 1 - f)
             /\ f + i - 1 \in 1 .. n
             /\ samples'[i] = samples[f + i - 1]
    <3>1. f + i - 1 \in 1 .. Len(samples) /\ f \in 1 .. Len(samples) /\ f # n + 1
      <4>1. n \in Nat /\ n <= Len(samples) /\ Len(samples) \in Nat /\ f \in Nat \ {0}
        BY <1>0
      <4>2. i \in Nat \ {0} /\ i <= n + 1 - f /\ f + i - 1 <= n
        BY <2>2, <4>1
      <4>3. QED
        BY <4>1, <4>2
    <3>2. samples[f].ts >= cutoff
      BY <1>2, <3>1
    <3>3. samples[f].ts \in Nat /\ samples[f + i - 1].ts \in Nat
      BY <1>0, <3>1, DequeEntry
    <3>4. f = f + i - 1 \/ f < f + i - 1
      BY <2>2, <3>1
    <3>5. samples[f + i - 1].ts >= cutoff
      <4>1. CASE f = f + i - 1
        BY <3>2, <4>1
      <4>2. CASE f < f + i - 1
        <5>1. samples[f].ts <= samples[f + i - 1].ts
          BY <1>6, <3>1, <4>2
        <5>2. QED
          BY <1>4, <3>2, <3>3, <5>1
      <4>3. QED
        BY <3>4, <4>1, <4>2
    <3>6. QED
      BY <1>1, <1>6, <2>2, <3>1, <3>5
  <2>3. QED
    BY <1>8, <2>1, <2>2
<1>13. \A r \in recorded' : r.ts <= last'
  <2>1. ASSUME NEW r \in recorded PROVE r.ts <= clock
    <3>1. r.ts \in Nat /\ r.ts <= last /\ last \in Int
      BY <1>0, <1>6 DEF Sample, OptTime, None
    <3>2. QED
      BY <1>0, <3>1
  <2>2. QED
    BY <1>0, <1>1, <1>3, <2>1
<1>14. last' # None /\ last' <= clock' /\ \E r \in recorded' : r.ts = last'
  BY <1>0, <1>1, <1>3 DEF None
<1>15. SaturatingSub(last, Window)' = cutoff
  BY <1>1 DEF cutoff, SaturatingSub
<1>16. QED
  BY <1>7, <1>10, <1>11, <1>12, <1>13, <1>14, <1>15 DEF BaselineInv

(* The conjuncts are inductive: they hold initially and every step of the  *)
(* tracker keeps them.                                                     *)
THEOREM BaselineInvariant == TrackerSpec => []BaselineInv
<1>1. TrackerInit => BaselineInv
  BY DEF TrackerInit, BaselineInv, TrackerTypeOK, OptTime, None, DequeMonotonic, DequeDominates
<1>2. BaselineInv /\ [TrackerNext]_trackerVars => BaselineInv'
  <2> SUFFICES ASSUME BaselineInv, [TrackerNext]_trackerVars
               PROVE  BaselineInv'
    OBVIOUS
  <2>1. CASE TrackerTick
    <3>1. /\ clock' = clock + 1
          /\ samples' = samples /\ recorded' = recorded /\ last' = last
      BY <2>1 DEF TrackerTick
    <3>2. clock \in Nat /\ last <= clock /\ last \in Int
      BY DEF BaselineInv, TrackerTypeOK, OptTime, None
    <3>3. QED
      BY <3>1, <3>2 DEF BaselineInv, TrackerTypeOK, DequeMonotonic, DequeDominates,
                        SaturatingSub
  <2>2. ASSUME NEW us \in QueueDelays, RecordSample(us)
        PROVE  BaselineInv'
    BY <2>2, RecordKeepsInv
  <2>3. CASE UNCHANGED trackerVars
    BY <2>3 DEF trackerVars, BaselineInv, TrackerTypeOK, DequeMonotonic, DequeDominates,
                SaturatingSub
  <2>4. QED
    BY <2>1, <2>2, <2>3 DEF TrackerNext
<1>3. QED
  BY <1>1, <1>2, PTL DEF TrackerSpec

(* The front of the deque is the minimum of the window: baseline_us        *)
(* returns what its documentation says, however samples were popped.       *)
THEOREM BaselineCorrect == TrackerSpec => []BaselineIsWindowMinimum
<1>1. BaselineInv => BaselineIsWindowMinimum
  <2> SUFFICES ASSUME BaselineInv, last # None
               PROVE  /\ samples # << >>
                      /\ \E r \in WindowSamples : r.us = samples[1].us
                      /\ \A r \in WindowSamples : samples[1].us <= r.us
    BY DEF BaselineIsWindowMinimum
  <2>1. samples \in Seq(Sample) /\ recorded \subseteq Sample /\ last \in Nat
    BY DEF BaselineInv, TrackerTypeOK, OptTime
  <2>2. ASSUME NEW r \in WindowSamples
        PROVE  \E i \in 1 .. Len(samples) : samples[i].us <= r.us
    BY DEF BaselineInv, DequeDominates, WindowSamples
  <2>3. PICK r0 \in recorded : r0.ts = last
    BY DEF BaselineInv
  <2>4. r0 \in WindowSamples
    BY <2>1, <2>3, BackpressureAssumption DEF WindowSamples, SaturatingSub
  <2>5. Len(samples) \in Nat \ {0} /\ 1 \in 1 .. Len(samples)
    BY <2>1, <2>2, <2>4
  <2>6. samples # << >>
    BY <2>5
  <2>7. samples[1] \in WindowSamples
    BY <2>5 DEF BaselineInv, WindowSamples
  <2>8. ASSUME NEW r \in WindowSamples PROVE samples[1].us <= r.us
    <3>1. PICK i \in 1 .. Len(samples) : samples[i].us <= r.us
      BY <2>2
    <3>2. i = 1 \/ samples[1].us < samples[i].us
      BY <2>5, <3>1 DEF BaselineInv, DequeMonotonic
    <3>3. samples[1].us \in Nat /\ samples[i].us \in Nat /\ r.us \in Nat
      BY <2>1, <2>5, DequeEntry DEF WindowSamples, Sample
    <3>4. QED
      BY <3>1, <3>2, <3>3
  <2>9. QED
    BY <2>6, <2>7, <2>8
<1>2. QED
  BY <1>1, BaselineInvariant, PTL

-----------------------------------------------------------------------------
(* VideoChannel *)

(* A sample evaluated against the recorded baseline: the deque stays one,  *)
(* and the delta is a natural.                                             *)
LEMMA DeltaIsNat ==
  ASSUME NEW s \in Seq(Sample), NEW t \in Nat, NEW us \in Nat
  PROVE  /\ Record(s, t, us) \in Seq(Sample)
         /\ SaturatingSub(us, BaselineUs(Record(s, t, us), us)) \in Nat
<1> DEFINE r == Record(s, t, us)
<1>1. r \in Seq(Sample)
  BY RecordShape DEF RecordedFrom
<1> HIDE DEF r
<1>2. BaselineUs(r, us) \in Nat
  <2>1. CASE r = << >>
    BY <2>1 DEF BaselineUs
  <2>2. CASE r # << >>
    <3>1. 1 \in 1 .. Len(r)
      BY <1>1, <2>2
    <3>2. QED
      BY <1>1, <2>2, <3>1, DequeEntry DEF BaselineUs
  <2>3. QED
    BY <2>1, <2>2
<1>3. QED
  BY <1>1, <1>2 DEF SaturatingSub, r

(* Observing a sample keeps the history well-formed and up to date.        *)
LEMMA ObserveSample ==
  ASSUME NEW ev \in Evidence, NEW delta \in Nat, now \in Nat
  PROVE  LET n == Observe(ev, delta)
         IN  /\ n \in Evidence
             /\ n.total = CountUp(ev.total) /\ n.total >= 1
             /\ n.hard = IF delta > HardDelta THEN CountUp(ev.hard) ELSE 0
             /\ n.high = IF delta >= SoftDelta THEN now ELSE ev.high
<1>1. /\ HardCount \in Nat /\ HardDelta \in Nat /\ SoftDelta \in Nat
      /\ ev.hard \in Nat /\ ev.total \in Nat /\ ev.high \in OptTime
  BY BackpressureAssumption DEF Evidence
<1>2. /\ CountUp(ev.hard) \in Nat
      /\ CountUp(ev.total) \in Nat /\ CountUp(ev.total) >= 1
  BY <1>1 DEF CountUp
<1>3. QED
  BY <1>1, <1>2 DEF Observe, Evidence, OptTime

(* Feedback evaluated in Congested or Streaming: the counter and the timer *)
(* stay behind the evidence, whatever the sample.                          *)
LEMMA TrackerStep ==
  ASSUME TypeOK, TrackerFollowsEvidence, NEW delta \in Nat, NEW over \in BOOLEAN
  PROVE  LET d == Decide(congestion, now, delta, over)
             c == Evaluated(congestion, now, delta, over)
             ev == Observe(evidence, delta)
         IN  /\ ev.high <= now
             /\ d # "ResetStream" =>
                  /\ c.congested =>
                       /\ ev.hard >= c.hard /\ ev.total >= c.hard + 1
                       /\ c.hard < HardCount
                       /\ ev.high # None
                  /\ c.since # None =>
                       /\ c.congested
                       /\ ev.high <= c.since /\ c.since <= now
             /\ d = "ResetStream" =>
                  \/ ev.hard >= HardCount /\ ev.total > HardCount
                  \/ over /\ ev.total > 1
             /\ d = "ExitCongested" =>
                  evidence.high # None /\ now - evidence.high >= Hysteresis
<1> DEFINE d == Decide(congestion, now, delta, over)
           c == Evaluated(congestion, now, delta, over)
           ev == Observe(evidence, delta)
<1>1. /\ now \in Nat /\ evidence \in Evidence /\ congestion \in Congestion
      /\ evidence.hard \in Nat /\ evidence.total \in Nat
      /\ evidence.high \in Int /\ congestion.hard \in Nat
      /\ congestion.since \in Int /\ congestion.congested \in BOOLEAN
  BY DEF TypeOK, Evidence, Congestion, OptTime, None
<1>2. /\ HardCount \in Nat /\ HardCount >= 1 /\ HardDelta \in Nat
      /\ SoftDelta \in Nat /\ Hysteresis \in Nat /\ None = -1
  BY BackpressureAssumption DEF None
<1>3. /\ d \in Decision
      /\ c \in Congestion
      /\ d = "EnterCongested" =>
           /\ ~congestion.congested /\ delta > SoftDelta
           /\ c.congested /\ c.hard = 0 /\ c.since = None
      /\ d = "Continue" /\ ~congestion.congested => c = congestion
      /\ d = "Continue" /\ congestion.congested =>
           /\ c.congested
           /\ c.hard = HardViolations(congestion, delta) /\ c.hard < HardCount
           /\ c.since = BelowSoftSince(congestion, now, delta)
      /\ d = "ExitCongested" =>
           /\ congestion.congested /\ RecoveryDue(congestion, now, delta)
           /\ ~c.congested /\ c.since = None
      /\ d = "ResetStream" =>
           /\ congestion.congested
           /\ HardViolations(congestion, delta) >= HardCount \/ over
  BY <1>1, EvaluateCases
<1>4. /\ ev.total = CountUp(evidence.total) /\ ev.total >= 1
      /\ ev.hard = IF delta > HardDelta THEN CountUp(evidence.hard) ELSE 0
      /\ ev.high = IF delta >= SoftDelta THEN now ELSE evidence.high
  BY <1>1, ObserveSample
<1> HIDE DEF d, c, ev
<1>5. ev.high <= now
  BY <1>1, <1>4 DEF TrackerFollowsEvidence
<1>6. ASSUME congestion.congested
      PROVE  /\ HardViolations(congestion, delta) \in Nat
             /\ ev.hard >= HardViolations(congestion, delta)
             /\ ev.total >= HardViolations(congestion, delta) + 1
             /\ ev.total > 1
             /\ ev.high # None
  BY <1>1, <1>2, <1>4, <1>6
     DEF TrackerFollowsEvidence, HardViolations, CountUp
<1>7. CASE d = "EnterCongested"
  <2>1. ev.high = now /\ ev.hard >= 0
    BY <1>1, <1>2, <1>3, <1>4, <1>7 DEF CountUp
  <2>2. QED
    BY <1>1, <1>2, <1>3, <1>4, <1>5, <1>7, <2>1 DEF d, c, ev
<1>8. CASE d = "ExitCongested"
  <2>1. /\ congestion.since # None /\ now - congestion.since >= Hysteresis
        /\ evidence.high <= congestion.since /\ evidence.high # None
    BY <1>1, <1>2, <1>3, <1>8
       DEF RecoveryDue, SaturatingSub, TrackerFollowsEvidence
  <2>2. now - evidence.high >= Hysteresis
    BY <1>1, <1>2, <2>1
  <2>3. QED
    BY <1>3, <1>5, <1>8, <2>1, <2>2 DEF d, c, ev
<1>9. CASE d = "ResetStream"
  <2>1. \/ ev.hard >= HardCount /\ ev.total > HardCount
        \/ over /\ ev.total > 1
    <3>1. CASE over
      BY <1>3, <1>6, <1>9, <3>1
    <3>2. CASE HardViolations(congestion, delta) >= HardCount
      <4>1. ev.total \in Int /\ ev.hard \in Int
        BY <1>1, <1>2, <1>4 DEF CountUp
      <4>2. QED
        BY <1>2, <1>3, <1>6, <1>9, <3>2, <4>1
    <3>3. QED
      BY <1>3, <1>9, <3>1, <3>2
  <2>2. QED
    BY <1>5, <1>9, <2>1 DEF d, c, ev
<1>10. CASE d = "Continue" /\ congestion.congested
  <2>1. c.since # None => ev.high <= c.since /\ c.since <= now
    <3>1. c.since = BelowSoftSince(congestion, now, delta)
      BY <1>3, <1>10
    <3>2. QED
      BY <1>1, <1>2, <1>4, <3>1 DEF BelowSoftSince, TrackerFollowsEvidence
  <2>2. QED
    BY <1>3, <1>5, <1>6, <1>10, <2>1 DEF d, c, ev
<1>11. CASE d = "Continue" /\ ~congestion.congested
  <2>1. c = congestion /\ c.since = None
    BY <1>3, <1>11 DEF TrackerFollowsEvidence
  <2>2. QED
    BY <1>5, <1>11, <2>1 DEF d, c, ev
<1>12. QED
  BY <1>1, <1>3, <1>7, <1>8, <1>9, <1>10, <1>11 DEF Decision

(* Every outcome of a feedback sample keeps the invariant, and a state     *)
(* machine rejects none of them.                                           *)
LEMMA FeedbackKeepsInv ==
  ASSUME VideoInv, NEW us \in Delays, NEW over \in BytesOver,
         Feedback(us, over)
  PROVE  /\ VideoInv'
         /\ instance = "Congested" /\ instance' = "Streaming" =>
              evidence.high # None /\ now - evidence.high >= Hysteresis
<1> DEFINE deque == Record(baseline, now, us)
           delta == SaturatingSub(us, BaselineUs(deque, us))
           d == Decide(congestion, now, delta, over)
           c == Evaluated(congestion, now, delta, over)
           ev == Observe(evidence, delta)
<1>1. /\ TypeOK /\ us \in Nat /\ over \in BOOLEAN
      /\ now \in Nat /\ baseline \in Seq(Sample)
      /\ congestion \in Congestion /\ evidence \in Evidence
      /\ congestion.congested \in BOOLEAN
  BY VideoChannelAssumption DEF VideoInv, TypeOK, Congestion
<1>2. pc = "active" /\ TrackerFollowsEvidence
  BY DEF Feedback, VideoInv
<1>3. /\ channel = "Live"
      /\ instance = IF congestion.congested THEN "Congested" ELSE "Streaming"
  BY <1>2 DEF VideoInv, MachinesAgree
<1>4. deque \in Seq(Sample) /\ delta \in Nat
  BY <1>1, DeltaIsNat
<1> HIDE DEF deque, delta
<1>5a. /\ d \in Decision
       /\ c \in Congestion
       /\ d = "EnterCongested" =>
            /\ ~congestion.congested /\ delta > SoftDelta
            /\ c.congested /\ c.hard = 0 /\ c.since = None
       /\ d = "Continue" /\ ~congestion.congested => c = congestion
       /\ d = "Continue" /\ congestion.congested =>
            /\ c.congested
            /\ c.hard = HardViolations(congestion, delta) /\ c.hard < HardCount
            /\ c.since = BelowSoftSince(congestion, now, delta)
       /\ d = "ExitCongested" =>
            /\ congestion.congested /\ RecoveryDue(congestion, now, delta)
            /\ ~c.congested /\ c.since = None
       /\ d = "ResetStream" =>
            /\ congestion.congested
            /\ HardViolations(congestion, delta) >= HardCount \/ over
  BY <1>1, <1>4, EvaluateCases, SMTT(30)
<1> HIDE DEF d, c
<1>5. /\ d \in Decision
      /\ c \in Congestion
      /\ d = "EnterCongested" => ~congestion.congested /\ c.congested
      /\ d = "Continue" /\ ~congestion.congested => c = congestion
      /\ d = "Continue" /\ congestion.congested => c.congested
      /\ d = "ExitCongested" => congestion.congested /\ ~c.congested
      /\ d = "ResetStream" => congestion.congested
  BY <1>5a
<1>6. ev \in Evidence
  BY <1>1, <1>4, ObserveSample
<1>7. /\ ev.high <= now
      /\ d # "ResetStream" =>
           /\ c.congested =>
                /\ ev.hard >= c.hard /\ ev.total >= c.hard + 1
                /\ c.hard < HardCount
                /\ ev.high # None
           /\ c.since # None =>
                /\ c.congested
                /\ ev.high <= c.since /\ c.since <= now
      /\ d = "ResetStream" =>
           \/ ev.hard >= HardCount /\ ev.total > HardCount
           \/ over /\ ev.total > 1
      /\ d = "ExitCongested" =>
           evidence.high # None /\ now - evidence.high >= Hysteresis
  BY <1>1, <1>2, <1>4, TrackerStep DEF d, c
<1>8. d # "Continue" => instance = Requires(d)
  BY <1>3, <1>5 DEF Requires, Decision
<1> DEFINE Stay ==
             /\ d # "ResetStream"
             /\ baseline' = deque /\ congestion' = c /\ evidence' = ev
             /\ instance' = IF d = "EnterCongested" THEN "Congested"
                            ELSE IF d = "ExitCongested" THEN "Streaming"
                            ELSE instance
             /\ UNCHANGED <<now, pc, deadline, outcome, channel, generation,
                            lastReopen, cause, keyframes>>
<1>9. \/ Stay
      \/ /\ d = "ResetStream" /\ baseline' = deque /\ evidence' = ev
         /\ Reopen("backpressure") /\ UNCHANGED keyframes
  <2>1. Feedback(us, over)
    OBVIOUS
  <2>2. QED
    BY <1>5, <1>8, <2>1 DEF Feedback, deque, delta, d, c, Decision
<1> HIDE DEF ev
<1>10. CASE Stay
  <2>1. TypeOK'
    BY <1>1, <1>3, <1>4, <1>5, <1>6, <1>10 DEF TypeOK, InstanceState
  <2>2. instance' = IF congestion'.congested THEN "Congested" ELSE "Streaming"
    BY <1>1, <1>3, <1>5, <1>10 DEF Decision
  <2>3. MachinesAgree'
    BY <1>2, <1>3, <1>10, <2>2 DEF MachinesAgree
  <2>4. NoProtocolViolation' /\ ResetNeedsEvidence'
    BY <1>2, <1>10 DEF NoProtocolViolation, ResetNeedsEvidence
  <2>5. TrackerFollowsEvidence'
    BY <1>7, <1>10 DEF TrackerFollowsEvidence
  <2>6. BudgetAtLastReopen'
    BY <1>10 DEF VideoInv, BudgetAtLastReopen
  <2>7. instance = "Congested" /\ instance' = "Streaming" =>
          evidence.high # None /\ now - evidence.high >= Hysteresis
    BY <1>7, <1>10
  <2>8. QED
    BY <2>1, <2>3, <2>4, <2>5, <2>6, <2>7 DEF VideoInv
<1>11. CASE /\ d = "ResetStream" /\ baseline' = deque /\ evidence' = ev
            /\ Reopen("backpressure") /\ UNCHANGED keyframes
  <2>0. NewCongestion \in Congestion
    BY DEF NewCongestion, Congestion, OptTime
  <2>1. TypeOK'
    BY <1>1, <1>4, <1>6, <1>11, <2>0, VideoChannelAssumption
       DEF TypeOK, Reopen, ChannelState, InstanceState, OptTime
  <2>2. MachinesAgree' /\ NoProtocolViolation'
    BY <1>11 DEF MachinesAgree, NoProtocolViolation, Reopen
  <2>3. ResetNeedsEvidence'
    <3>1. over => TRUE \in BytesOver
      BY <1>1
    <3>2. QED
      BY <1>7, <1>11, <3>1 DEF ResetNeedsEvidence
  <2>4. BudgetAtLastReopen'
    <3>1. /\ lastReopen' = now /\ now' = now /\ keyframes' = keyframes
          /\ keyframes \in Nat /\ MinInterval \in Nat /\ lastReopen \in Int
      BY <1>1, <1>11, VideoChannelAssumption DEF Reopen, TypeOK, OptTime, None
    <3>2. /\ lastReopen <= now
          /\ keyframes > 0 => (keyframes - 1) * MinInterval <= lastReopen
      BY DEF VideoInv, BudgetAtLastReopen
    <3>3. keyframes > 0 => (keyframes - 1) * MinInterval \in Int
      BY <3>1
    <3>4. QED
      BY <1>1, <3>1, <3>2, <3>3 DEF BudgetAtLastReopen, None
  <2>5. pc' = "opening" /\ instance' = "Created"
    BY <1>11 DEF Reopen
  <2>6. QED
    BY <2>1, <2>2, <2>3, <2>4, <2>5 DEF VideoInv
<1>12. QED
  BY <1>9, <1>10, <1>11

(* An honoured request spends one interval of the budget and opens a fresh *)
(* Instance; an ignored one changes nothing.                               *)
LEMMA KeyframeKeepsInv ==
  ASSUME VideoInv, KeyframeRequest
  PROVE  VideoInv' /\ ~(instance = "Congested" /\ instance' = "Streaming")
<1>1. CASE UNCHANGED vars
  BY <1>1 DEF VideoInv, TypeOK, MachinesAgree, NoProtocolViolation,
              ResetNeedsEvidence, TrackerFollowsEvidence, BudgetAtLastReopen,
              vars, machine, history
<1>2. CASE /\ ~RateLimited /\ Reopen("keyframe")
           /\ keyframes' = keyframes + 1 /\ UNCHANGED <<baseline, evidence>>
  <2>1. /\ now \in Nat /\ keyframes \in Nat /\ lastReopen \in Int
        /\ MinInterval \in Nat /\ ConfigTimeout \in Nat
    BY VideoChannelAssumption DEF VideoInv, TypeOK, OptTime, None
  <2>2. NewCongestion \in Congestion
    BY DEF NewCongestion, Congestion, OptTime
  <2>3. TypeOK'
    BY <1>2, <2>1, <2>2
       DEF VideoInv, TypeOK, Reopen, ChannelState, InstanceState, OptTime
  <2>4. MachinesAgree' /\ NoProtocolViolation' /\ ResetNeedsEvidence'
    BY <1>2 DEF MachinesAgree, NoProtocolViolation, ResetNeedsEvidence, Reopen
  <2>5. now' = now /\ lastReopen' = now /\ pc' = "opening" /\ instance' = "Created"
    BY <1>2 DEF Reopen
  <2>6. keyframes' - 1 = keyframes
    BY <1>2, <2>1
  <2>7. keyframes * MinInterval <= now
    <3>1. CASE keyframes = 0
      BY <2>1, <3>1
    <3>2. CASE keyframes > 0
      <4>1. /\ lastReopen # None
            /\ (keyframes - 1) * MinInterval <= lastReopen
        BY <3>2 DEF VideoInv, BudgetAtLastReopen
      <4>2. lastReopen + MinInterval <= now
        BY <1>2, <2>1, <4>1 DEF RateLimited
      <4>3. keyframes * MinInterval = (keyframes - 1) * MinInterval + MinInterval
        BY <2>1, <3>2
      <4>4. (keyframes - 1) * MinInterval \in Int
        BY <2>1
      <4>5. QED
        BY <2>1, <4>1, <4>2, <4>3, <4>4
    <3>3. QED
      BY <2>1, <3>1, <3>2
  <2>8. BudgetAtLastReopen'
    BY <2>1, <2>5, <2>6, <2>7 DEF BudgetAtLastReopen, None
  <2>9. QED
    BY <2>3, <2>4, <2>5, <2>8 DEF VideoInv
<1>3. QED
  BY <1>1, <1>2 DEF KeyframeRequest, vars, machine

(* The opening of an Instance starts the tracker with no evidence.         *)
LEMMA OpenedKeepsInv ==
  ASSUME VideoInv, Opened
  PROVE  VideoInv' /\ ~(instance = "Congested" /\ instance' = "Streaming")
<1>1. /\ pc = "opening" /\ instance = "Created" /\ congestion = NewCongestion
      /\ now \in Nat
  BY DEF VideoInv, MachinesAgree, Opened, TypeOK
<1>2. /\ pc' = "active" /\ instance' = "Streaming" /\ channel' = "Live"
      /\ evidence' = NoEvidence
      /\ UNCHANGED <<now, deadline, outcome, baseline, congestion,
                     generation, lastReopen, cause, keyframes>>
  BY <1>1 DEF Opened
<1>3. TypeOK'
  BY <1>2 DEF VideoInv, TypeOK, ChannelState, InstanceState, Evidence,
              NoEvidence, OptTime
<1>4. MachinesAgree' /\ NoProtocolViolation' /\ ResetNeedsEvidence'
  BY <1>1, <1>2 DEF MachinesAgree, NoProtocolViolation, ResetNeedsEvidence,
                    NewCongestion
<1>5. TrackerFollowsEvidence'
  BY <1>1, <1>2 DEF TrackerFollowsEvidence, NewCongestion, NoEvidence, None
<1>6. BudgetAtLastReopen'
  BY <1>2 DEF VideoInv, BudgetAtLastReopen
<1>7. QED
  BY <1>1, <1>3, <1>4, <1>5, <1>6 DEF VideoInv

(* Time and the end of the session leave the machines alone.               *)
LEMMA OthersKeepInv ==
  ASSUME VideoInv, Tick \/ OpenTimedOut \/ SessionEnds \/ UNCHANGED vars
  PROVE  VideoInv' /\ ~(instance = "Congested" /\ instance' = "Streaming")
<1>1. UNCHANGED <<machine, history, deadline>>
  BY DEF Tick, OpenTimedOut, SessionEnds, End, vars
<1>2. /\ now \in Nat /\ now' \in Nat /\ now <= now'
      /\ pc' = pc \/ pc' = "ended"
      /\ outcome' \in {outcome, "timedOut", "closed", "lost", "failed"}
  BY DEF VideoInv, TypeOK, Tick, OpenTimedOut, SessionEnds, End, vars
<1>3. TypeOK'
  BY <1>1, <1>2 DEF VideoInv, TypeOK, machine, history
<1>4. MachinesAgree' /\ NoProtocolViolation' /\ ResetNeedsEvidence'
  BY <1>1, <1>2 DEF VideoInv, MachinesAgree, NoProtocolViolation,
                    ResetNeedsEvidence, machine, history
<1>5. /\ evidence.high \in Int /\ congestion.since \in Int /\ lastReopen \in Int
  BY DEF VideoInv, TypeOK, Evidence, Congestion, OptTime, None
<1>6. pc' = "active" => TrackerFollowsEvidence'
  BY <1>1, <1>2, <1>5 DEF VideoInv, TrackerFollowsEvidence, machine, history
<1>7. BudgetAtLastReopen'
  BY <1>1, <1>2, <1>5 DEF VideoInv, BudgetAtLastReopen, machine, history
<1>8. QED
  BY <1>1, <1>3, <1>4, <1>6, <1>7 DEF VideoInv, machine

(* Every step keeps the invariant and respects the hysteresis.             *)
LEMMA StepKeepsInv ==
  ASSUME VideoInv, [Next]_vars
  PROVE  /\ VideoInv'
         /\ instance = "Congested" /\ instance' = "Streaming" =>
              evidence.high # None /\ now - evidence.high >= Hysteresis
BY FeedbackKeepsInv, KeyframeKeepsInv, OpenedKeepsInv, OthersKeepInv DEF Next

(* The Channel, the Instance and the tracker agree in every behaviour.     *)
THEOREM VideoInvariant == Spec => []VideoInv
<1>1. Init => VideoInv
  BY VideoChannelAssumption
     DEF Init, VideoInv, TypeOK, MachinesAgree, NoProtocolViolation,
         ResetNeedsEvidence, BudgetAtLastReopen, ChannelState, InstanceState,
         Congestion, NewCongestion, Evidence, NoEvidence, OptTime, None
<1>2. VideoInv /\ [Next]_vars => VideoInv'
  BY StepKeepsInv
<1>3. QED
  BY <1>1, <1>2, PTL DEF Spec

(* No `?' on a state machine of the video path ever ends a session.        *)
THEOREM VideoNeverViolates == Spec => []NoProtocolViolation
<1>1. VideoInv => NoProtocolViolation
  BY DEF VideoInv
<1>2. QED
  BY <1>1, VideoInvariant, PTL

(* A backpressure reset is always backed by this Instance's own samples.   *)
THEOREM VideoResetEarned == Spec => []ResetNeedsEvidence
<1>1. VideoInv => ResetNeedsEvidence
  BY DEF VideoInv
<1>2. QED
  BY <1>1, VideoInvariant, PTL

(* Congested is left for Streaming only after a quiet hysteresis period.   *)
THEOREM VideoRecoveryEarned == Spec => RecoveryNeedsQuiet
<1>1. VideoInv /\ [Next]_vars =>
        [instance = "Congested" /\ instance' = "Streaming" =>
           evidence.high # None /\ now - evidence.high >= Hysteresis]_vars
  BY StepKeepsInv
<1>2. QED
  BY <1>1, VideoInvariant, PTL DEF Spec, RecoveryNeedsQuiet

(* Keyframe requests cost at most one reopen per interval, for ever.       *)
THEOREM VideoKeyframeBudget == Spec => []KeyframeBudget
<1>1. VideoInv => KeyframeBudget
  <2>1. SUFFICES ASSUME VideoInv, keyframes > 0
                 PROVE  (keyframes - 1) * MinInterval <= now
    BY DEF KeyframeBudget
  <2>2. /\ (keyframes - 1) * MinInterval \in Int
        /\ lastReopen \in Int /\ now \in Int
    BY <2>1, VideoChannelAssumption DEF VideoInv, TypeOK, OptTime, None
  <2>3. QED
    BY <2>1, <2>2 DEF VideoInv, BudgetAtLastReopen
<1>2. QED
  BY <1>1, VideoInvariant, PTL

=============================================================================
