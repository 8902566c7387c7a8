------------------------------ MODULE TimeSync ------------------------------
(***************************************************************************)
(* The arithmetic of timesync.rs.  Differences are computed in i64, whose  *)
(* division truncates towards zero; microsecond clocks stay far from its   *)
(* ends.                                                                   *)
(***************************************************************************)
EXTENDS Integers, Sequences

Abs(n) == IF n < 0 THEN -n ELSE n

Half(n) == IF n < 0 THEN -((-n) \div 2) ELSE n \div 2

compute(t1, t2, t3, t4) ==
    LET rtt == (t4 - t1) - (t3 - t2)
    IN [offset_us |-> Half((t2 - t1) + (t3 - t4)), rtt_us |-> IF rtt < 0 THEN 0 ELSE rtt]

(* Mutant: the fold keeps the slower round.                                *)
best_of_Slowest(rounds) ==
    LET best == CHOOSE i \in DOMAIN rounds : \A j \in DOMAIN rounds :
                    \/ rounds[i].rtt_us > rounds[j].rtt_us
                    \/ rounds[i].rtt_us = rounds[j].rtt_us /\ j <= i
    IN rounds[best]

\* Where the fold over the rounds ends: the round with the smallest
\* round-trip time, the last one of equals.
best_of(rounds) ==
    LET best == CHOOSE i \in DOMAIN rounds : \A j \in DOMAIN rounds :
                    \/ rounds[i].rtt_us < rounds[j].rtt_us
                    \/ rounds[i].rtt_us = rounds[j].rtt_us /\ j <= i
    IN rounds[best]
=============================================================================
