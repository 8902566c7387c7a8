------------------------- MODULE StreamReaderProofs --------------------------
(***************************************************************************)
(* Proofs about StreamReader, for every stream a sender may write, every   *)
(* way of cutting it into fragments and every place where the reading      *)
(* future is dropped: the messages delivered are those sent, and no reader *)
(* buffers more than its limit.                                            *)
(*                                                                         *)
(* Written and Reading are recursive functions of the number of envelopes. *)
(* What they are follows from Recursion, which takes the step of a         *)
(* recursion as a function, and what they satisfy from Induction, which    *)
(* takes a property as the set of the numbers that have it.                *)
(***************************************************************************)
EXTENDS StreamReader, SequenceTheorems, WellFoundedInduction, TLAPS

-----------------------------------------------------------------------------
(* Recursion over the natural numbers *)

(* A set of naturals with 0 and with every successor has all of them.      *)
LEMMA Induction ==
  ASSUME NEW S, 0 \in S, \A n \in Nat : n \in S => n + 1 \in S
  PROVE  \A n \in Nat : n \in S
<1> DEFINE T == {n \in Nat : n \notin S}
<1> SUFFICES ASSUME T # {} PROVE FALSE
  OBVIOUS
<1>1. PICK x \in T : \A y \in T : ~(<<y, x>> \in OpToRel(<, Nat))
  <2>1. T \subseteq Nat
    OBVIOUS
  <2> HIDE DEF T
  <2> QED
    BY <2>1, NatLessThanWellFounded, WFMin
<1>2. x \in Nat /\ x # 0 /\ x - 1 \in Nat /\ x - 1 < x
  OBVIOUS
<1>3. x - 1 \notin T
  BY <1>1, <1>2 DEF OpToRel
<1>4. (x - 1) + 1 \in S
  BY <1>2, <1>3
<1> QED
  BY <1>2, <1>4

(* The same up to a bound.                                                 *)
LEMMA InductionUpTo ==
  ASSUME NEW N \in Nat, NEW S, 0 \in S, \A n \in 0..N - 1 : n \in S => n + 1 \in S
  PROVE  \A n \in 0..N : n \in S
<1> DEFINE T == {n \in Nat : n <= N => n \in S}
<1>1. 0 \in T
  OBVIOUS
<1>2. ASSUME NEW n \in Nat, n \in T PROVE n + 1 \in T
  <2>1. CASE n + 1 <= N
    <3>1. n \in 0..N - 1 /\ n <= N
      BY <2>1
    <3> QED
      BY <1>2, <3>1
  <2> QED
    BY <2>1
<1> HIDE DEF T
<1>3. \A n \in Nat : n \in T
  BY <1>1, <1>2, Induction
<1> QED
  BY <1>3 DEF T

\* From first, take the steps F[1], F[2], ... F[N].
Steps(N, X, first, F) ==
    {g \in [0..N -> X] : g[0] = first /\ \A n \in 1..N : g[n] = F[n][g[n - 1]]}

(* A sequence of steps in X can be taken one after the other.              *)
LEMMA Recursion ==
  ASSUME NEW N \in Nat, NEW X, NEW first \in X, NEW F \in [1..N -> [X -> X]]
  PROVE  \E g : g \in Steps(N, X, first, F)
<1> DEFINE Runs(m) == {g \in [0..m -> X] : g[0] = first /\ \A n \in 1..m : g[n] = F[n][g[n - 1]]}
           S == {m \in 0..N : Runs(m) # {}}
<1>1. 0 \in S
  <2> DEFINE g == [n \in 0..0 |-> first]
  <2>1. g \in Runs(0)
    OBVIOUS
  <2> QED
    BY <2>1
<1>2. ASSUME NEW m \in 0..N - 1, m \in S PROVE m + 1 \in S
  <2>1. PICK g \in [0..m -> X] : g[0] = first /\ \A n \in 1..m : g[n] = F[n][g[n - 1]]
    BY <1>2
  <2> DEFINE h == [n \in 0..m + 1 |-> IF n = m + 1 THEN F[m + 1][g[m]] ELSE g[n]]
  <2>2. F[m + 1] \in [X -> X] /\ g[m] \in X /\ m + 1 \in 0..N /\ m \in Nat
    OBVIOUS
  <2>3. h \in [0..m + 1 -> X]
    BY <2>1, <2>2
  <2>4. h[0] = first
    BY <2>1, <2>2
  <2>5. ASSUME NEW n \in 1..m + 1 PROVE h[n] = F[n][h[n - 1]]
    <3>1. CASE n = m + 1
      <4>1. n - 1 = m /\ m \in 0..m + 1 /\ m # m + 1 /\ n \in 0..m + 1
        BY <2>2, <3>1
      <4> QED
        BY <3>1, <4>1
    <3>2. CASE n # m + 1
      <4>1. n \in 1..m /\ n - 1 \in 0..m + 1 /\ n - 1 # m + 1 /\ n \in 0..m + 1
        BY <2>2, <3>2
      <4> QED
        BY <2>1, <3>2, <4>1
    <3> QED
      BY <3>1, <3>2
  <2> HIDE DEF h
  <2>6. h \in Runs(m + 1)
    BY <2>3, <2>4, <2>5
  <2> QED
    BY <2>2, <2>6
<1> HIDE DEF S
<1>3. \A m \in 0..N : m \in S
  BY <1>1, <1>2, InductionUpTo
<1>4. N \in S
  BY <1>3
<1> QED
  BY <1>4 DEF S, Steps

-----------------------------------------------------------------------------
(* Variable-length integers *)

(* What the four forms hold.                                               *)
LEMMA TwoByteForm ==
  ASSUME NEW v \in Nat, v < 16384
  PROVE  LET first == 64 + v \div 256
         IN /\ first \in Byte /\ v % 256 \in Byte
            /\ first \div 64 = 1
            /\ (first % 64) * 256 + (v % 256) = v
  BY SMT DEF Byte

LEMMA FourBytes ==
  ASSUME NEW v \in Nat
  PROVE  /\ (v \div 65536) % 256 \in Byte /\ (v \div 256) % 256 \in Byte /\ v % 256 \in Byte
         /\ (((v \div 16777216) * 256 + ((v \div 65536) % 256)) * 256 + ((v \div 256) % 256)) * 256
            + (v % 256) = v
<1>1. \A c \in Nat : c % 256 \in Byte
  BY SMT DEF Byte
<1>2. v \div 65536 \in Nat /\ v \div 256 \in Nat
  BY SMT
<1>3. (((v \div 16777216) * 256 + ((v \div 65536) % 256)) * 256 + ((v \div 256) % 256)) * 256
      + (v % 256) = v
  BY SMT
<1> QED
  BY <1>1, <1>2, <1>3

LEMMA FourByteForm ==
  ASSUME NEW v \in Nat, v < 1073741824
  PROVE  LET first == 128 + v \div 16777216
         IN first \in Byte /\ first \div 64 = 2 /\ first % 64 = v \div 16777216
  BY SMT DEF Byte

(* The 8-byte form is two of four bytes.                                   *)
LEMMA EightBytes ==
  ASSUME NEW v \in Nat
  PROVE  LET high == (v \div 65536) \div 65536
         IN /\ high \in Nat
            /\ (v \div 16777216) % 256 \in Byte
            /\ (((high * 256 + ((v \div 16777216) % 256)) * 256 + ((v \div 65536) % 256)) * 256
                + ((v \div 256) % 256)) * 256 + (v % 256) = v
<1> DEFINE high == (v \div 65536) \div 65536
           a == v \div 16777216
<1>1. a \in Nat /\ high \in Nat /\ v \div 65536 \in Nat
  BY SMT
<1>2. a = (v \div 65536) \div 256
  BY SMT
<1>3. \A c \in Nat : (c \div 65536) * 256 + ((c \div 256) % 256) = c \div 256
  BY SMT
<1>4. high * 256 + (a % 256) = a
  BY <1>1, <1>2, <1>3
<1>5. a % 256 \in Byte
  BY <1>1, SMT DEF Byte
<1> QED
  BY <1>1, <1>4, <1>5, FourBytes

LEMMA HighBits ==
  ASSUME NEW h \in Nat, h < 1073741824
  PROVE  LET first == 192 + h \div 16777216
         IN first \in Byte /\ first \div 64 = 3 /\ first % 64 = h \div 16777216
  BY SMT DEF Byte

LEMMA EightByteForm ==
  ASSUME NEW v \in Varint
  PROVE  LET high == (v \div 65536) \div 65536
             first == 192 + high \div 16777216
         IN first \in Byte /\ first \div 64 = 3 /\ first % 64 = high \div 16777216
<1> DEFINE high == (v \div 65536) \div 65536
<1>1. v \in Nat /\ high < 1073741824
  BY DEF Varint
<1>2. high \in Nat
  BY <1>1, EightBytes
<1> HIDE DEF high
<1>3. LET first == 192 + high \div 16777216
      IN first \in Byte /\ first \div 64 = 3 /\ first % 64 = high \div 16777216
  BY <1>1, <1>2, HighBits
<1> QED
  BY <1>3 DEF high

(* The loop of decode: most significant byte first.                        *)
LEMMA ValueLoop ==
  ASSUME NEW b, NEW len \in Nat \ {0}, \A i \in 1..len : b[i] \in Byte
  PROVE  LET x == varint_value(b, len)
         IN x[0] = b[1] % 64 /\ \A k \in 1..len - 1 : x[k] = x[k - 1] * 256 + b[k + 1]
<1> DEFINE N == len - 1
           F == [n \in 1..N |-> [y \in Nat |-> y * 256 + b[n + 1]]]
           first == b[1] % 64
           Loop(g) == g = [k \in 0..len - 1 |->
                             IF k = 0 THEN b[1] % 64 ELSE g[k - 1] * 256 + b[k + 1]]
<1>1. N \in Nat /\ first \in Nat
  BY SMT DEF Byte
<1>2. F \in [1..N -> [Nat -> Nat]]
  <2>1. ASSUME NEW n \in 1..N, NEW y \in Nat PROVE y * 256 + b[n + 1] \in Nat
    <3>1. n + 1 \in 1..len
      BY <1>1
    <3>2. b[n + 1] \in Nat
      BY <3>1 DEF Byte
    <3> QED
      BY <3>2
  <2> QED
    BY <2>1
<1> HIDE DEF F, first
<1>3. PICK g \in [0..N -> Nat] : g[0] = first /\ \A n \in 1..N : g[n] = F[n][g[n - 1]]
  <2>1. PICK g : g \in Steps(N, Nat, first, F)
    BY <1>1, <1>2, Recursion
  <2> QED
    BY <2>1 DEF Steps
<1>4. ASSUME NEW n \in 1..N PROVE g[n] = g[n - 1] * 256 + b[n + 1]
  <2>1. n - 1 \in 0..N
    BY <1>1
  <2>2. g[n - 1] \in Nat
    BY <2>1
  <2> QED
    BY <1>3, <2>2 DEF F
<1>5. ASSUME NEW k \in 0..len - 1
      PROVE  g[k] = IF k = 0 THEN b[1] % 64 ELSE g[k - 1] * 256 + b[k + 1]
  BY <1>3, <1>4 DEF first
<1>6. Loop(g)
  BY <1>5
<1>7. Loop(varint_value(b, len))
  BY <1>6, Zenon DEF varint_value
<1> DEFINE x == varint_value(b, len)
<1>8. x[0] = b[1] % 64
  BY <1>1, <1>7
<1>9. ASSUME NEW k \in 1..len - 1 PROVE x[k] = x[k - 1] * 256 + b[k + 1]
  <2>1. k \in 0..len - 1 /\ k # 0
    OBVIOUS
  <2> HIDE DEF x
  <2>2. Loop(x)
    BY <1>7 DEF x
  <2> QED
    BY <2>1, <2>2
<1> QED
  BY <1>8, <1>9

(* What an encoded value looks like, and what the loop makes of its bytes. *)
LEMMA VarintForm ==
  ASSUME NEW v \in Varint, NEW least \in Widths
  PROVE  LET e == varint_encode(v, least)
         IN /\ e \in Seq(Byte) /\ Len(e) \in {1, 2, 4, 8}
            /\ <<1, 2, 4, 8>>[e[1] \div 64 + 1] = Len(e)
            /\ \A b : (\A i \in 1..Len(e) : b[i] = e[i]) => varint_value(b, Len(e))[Len(e) - 1] = v
<1> DEFINE e == varint_encode(v, least)
           high == (v \div 65536) \div 65536
<1>v. v \in Nat /\ v % 256 \in Byte /\ (v \div 256) % 256 \in Byte /\ (v \div 65536) % 256 \in Byte
  <2>1. v \in Nat
    BY DEF Varint
  <2> QED
    BY <2>1, FourBytes
<1>1. CASE v < 64 /\ least = 1
  <2>1. e = <<v>>
    BY <1>1, SMT DEF varint_encode
  <2>2. v \in Byte /\ v \div 64 = 0 /\ v % 64 = v
    BY <1>v, <1>1, SMT DEF Byte
  <2>3. ASSUME NEW b, \A i \in 1..Len(e) : b[i] = e[i] PROVE varint_value(b, 1)[0] = v
    <3>1. b[1] = v
      BY <2>1, <2>3
    <3> QED
      BY <2>2, <3>1, ValueLoop
  <2> HIDE DEF e
  <2>4. e \in Seq(Byte) /\ Len(e) = 1 /\ e[1] = v
    BY <2>1, <2>2
  <2> QED
    BY <2>2, <2>3, <2>4 DEF e
<1>2. CASE ~(v < 64 /\ least = 1) /\ v < 16384 /\ least <= 2
  <2> DEFINE first == 64 + v \div 256
  <2>1. e = <<first, v % 256>>
    BY <1>2, SMT DEF varint_encode
  <2>2. first \in Byte /\ first \div 64 = 1 /\ (first % 64) * 256 + (v % 256) = v
    BY <1>v, <1>2, TwoByteForm
  <2> HIDE DEF e, first
  <2>3. ASSUME NEW b, \A i \in 1..Len(e) : b[i] = e[i] PROVE varint_value(b, 2)[1] = v
    <3>1. b[1] = first /\ b[2] = v % 256
      BY <2>1, <2>3
    <3> DEFINE x == varint_value(b, 2)
    <3>2. \A i \in 1..2 : b[i] \in Byte
      BY <1>v, <2>2, <3>1
    <3>3. x[0] = b[1] % 64 /\ \A k \in 1..1 : x[k] = x[k - 1] * 256 + b[k + 1]
      BY <3>2, ValueLoop
    <3> HIDE DEF x
    <3>4. x[1] = (first % 64) * 256 + (v % 256)
      BY <3>1, <3>3
    <3> QED
      BY <2>2, <3>4 DEF x
  <2>4. e \in Seq(Byte) /\ Len(e) = 2 /\ e[1] = first
    BY <1>v, <2>1, <2>2
  <2> QED
    BY <2>2, <2>3, <2>4 DEF e
<1>3. CASE ~(v < 64 /\ least = 1) /\ ~(v < 16384 /\ least <= 2) /\ v < 1073741824 /\ least <= 4
  <2> DEFINE first == 128 + v \div 16777216
             b2 == (v \div 65536) % 256
             b3 == (v \div 256) % 256
             b4 == v % 256
  <2>1. e = <<first, b2, b3, b4>>
    BY <1>3, SMT DEF varint_encode
  <2>2. first \in Byte /\ first \div 64 = 2 /\ first % 64 = v \div 16777216
    BY <1>v, <1>3, FourByteForm
  <2>3. (((first % 64) * 256 + b2) * 256 + b3) * 256 + b4 = v
    BY <1>v, <2>2, FourBytes
  <2> HIDE DEF e, first, b2, b3, b4
  <2>4. b2 \in Byte /\ b3 \in Byte /\ b4 \in Byte
    BY <1>v DEF b2, b3, b4
  <2>5. ASSUME NEW b, \A i \in 1..Len(e) : b[i] = e[i] PROVE varint_value(b, 4)[3] = v
    <3>1. b[1] = first /\ b[2] = b2 /\ b[3] = b3 /\ b[4] = b4
      BY <2>1, <2>5
    <3> DEFINE x == varint_value(b, 4)
    <3>2. \A i \in 1..4 : b[i] \in Byte
      BY <2>2, <2>4, <3>1
    <3>3. x[0] = b[1] % 64 /\ \A k \in 1..3 : x[k] = x[k - 1] * 256 + b[k + 1]
      BY <3>2, ValueLoop
    <3> HIDE DEF x
    <3>4. x[3] = (((first % 64) * 256 + b2) * 256 + b3) * 256 + b4
      BY <3>1, <3>3
    <3> QED
      BY <2>3, <3>4 DEF x
  <2>6. e \in Seq(Byte) /\ Len(e) = 4 /\ e[1] = first
    BY <2>1, <2>2, <2>4
  <2> QED
    BY <2>2, <2>5, <2>6 DEF e
<1>4. CASE ~(v < 64 /\ least = 1) /\ ~(v < 16384 /\ least <= 2) /\ ~(v < 1073741824 /\ least <= 4)
  <2> DEFINE first == 192 + high \div 16777216
             b2 == (high \div 65536) % 256
             b3 == (high \div 256) % 256
             b4 == high % 256
             b5 == (v \div 16777216) % 256
             b6 == (v \div 65536) % 256
             b7 == (v \div 256) % 256
             b8 == v % 256
  <2>1. e = <<first, b2, b3, b4, b5, b6, b7, b8>>
    BY <1>4, SMT DEF varint_encode
  <2>2. first \in Byte /\ first \div 64 = 3 /\ first % 64 = high \div 16777216
    BY EightByteForm
  <2>3. high \in Nat /\ b5 \in Byte
        /\ (((high * 256 + b5) * 256 + b6) * 256 + b7) * 256 + b8 = v
    BY <1>v, EightBytes
  <2>4. /\ b2 \in Byte /\ b3 \in Byte /\ b4 \in Byte
        /\ (((first % 64) * 256 + b2) * 256 + b3) * 256 + b4 = high
    <3> HIDE DEF high, first
    <3>1. /\ b2 \in Byte /\ b3 \in Byte /\ b4 \in Byte
          /\ (((high \div 16777216) * 256 + b2) * 256 + b3) * 256 + b4 = high
      BY <2>3, FourBytes
    <3> QED
      BY <2>2, <3>1
  <2> HIDE DEF e, high, first, b2, b3, b4, b5, b6, b7, b8
  <2>5. b6 \in Byte /\ b7 \in Byte /\ b8 \in Byte
    BY <1>v DEF b6, b7, b8
  <2>6. ASSUME NEW b, \A i \in 1..Len(e) : b[i] = e[i] PROVE varint_value(b, 8)[7] = v
    <3>1. /\ b[1] = first /\ b[2] = b2 /\ b[3] = b3 /\ b[4] = b4
          /\ b[5] = b5 /\ b[6] = b6 /\ b[7] = b7 /\ b[8] = b8
      BY <2>1, <2>6
    <3> DEFINE x == varint_value(b, 8)
    <3>2. \A i \in 1..8 : b[i] \in Byte
      BY <2>2, <2>3, <2>4, <2>5, <3>1
    <3>3. x[0] = b[1] % 64 /\ \A k \in 1..7 : x[k] = x[k - 1] * 256 + b[k + 1]
      BY <3>2, ValueLoop
    <3> HIDE DEF x
    <3>4. x[3] = (((first % 64) * 256 + b2) * 256 + b3) * 256 + b4
      BY <3>1, <3>3
    <3>5. x[7] = (((x[3] * 256 + b5) * 256 + b6) * 256 + b7) * 256 + b8
      BY <3>1, <3>3
    <3> QED
      BY <2>3, <2>4, <3>4, <3>5 DEF x
  <2>7. e \in Seq(Byte) /\ Len(e) = 8 /\ e[1] = first
    BY <2>1, <2>2, <2>3, <2>4, <2>5
  <2> QED
    BY <2>2, <2>6, <2>7 DEF e
<1> QED
  BY <1>v, <1>1, <1>2, <1>3, <1>4

\* What the buffer and an item have in common are the item's first bytes.
Agree(b, e) == \A i \in 1..Len(b) : i <= Len(e) => b[i] = e[i]

(* The bytes of an encoded value are decoded to it, and no fewer are.      *)
LEMMA VarintDecodes ==
  ASSUME NEW v \in Varint, NEW least \in Widths, NEW b \in Seq(Byte),
         Agree(b, varint_encode(v, least))
  PROVE  LET L == Len(varint_encode(v, least))
         IN varint_decode(b) = IF Len(b) < L THEN Incomplete
                               ELSE [result |-> "ok", consumed |-> L, value |-> v]
<1> DEFINE e == varint_encode(v, least)
           L == Len(e)
<1>1. /\ e \in Seq(Byte) /\ L \in {1, 2, 4, 8}
      /\ <<1, 2, 4, 8>>[e[1] \div 64 + 1] = L
      /\ \A c : (\A i \in 1..L : c[i] = e[i]) => varint_value(c, L)[L - 1] = v
  BY VarintForm
<1>2. \A i \in 1..Len(b) : i <= L => b[i] = e[i]
  BY DEF Agree
<1> HIDE DEF e, L
<1>3. Len(b) \in Nat /\ L \in Nat /\ L > 0
  BY <1>1
<1>4. CASE b = <<>>
  <2>1. Len(b) < L
    BY <1>3, <1>4
  <2>2. varint_decode(b) = Incomplete
    BY <1>4 DEF varint_decode
  <2> QED
    BY <2>1, <2>2 DEF e, L
<1>5. CASE b # <<>>
  <2>1. Len(b) > 0
    BY <1>5
  <2>2. b[1] = e[1]
    BY <1>2, <1>3, <2>1
  <2>3. <<1, 2, 4, 8>>[b[1] \div 64 + 1] = L
    BY <1>1, <2>2
  <2>4. CASE Len(b) < L
    <3>1. varint_decode(b) = Incomplete
      BY <2>3, <2>4 DEF varint_decode
    <3> QED
      BY <2>4, <3>1 DEF e, L
  <2>5. CASE ~(Len(b) < L)
    <3>1. \A i \in 1..L : b[i] = e[i]
      BY <1>2, <1>3, <2>5
    <3>2. varint_value(b, L)[L - 1] = v
      BY <1>1, <3>1
    <3>3. varint_decode(b) = [result |-> "ok", consumed |-> L, value |-> v]
      BY <1>5, <2>3, <2>5, <3>2 DEF varint_decode
    <3> QED
      BY <2>5, <3>3 DEF e, L
  <2> QED
    BY <2>4, <2>5
<1> QED
  BY <1>4, <1>5

-----------------------------------------------------------------------------
(* Envelopes and prologues *)

LEMMA TypeBytes ==
  ASSUME NEW t \in Byte
  PROVE  (t % 256) + 256 * (t \div 256) = t
<1>1. t \in Nat
  BY DEF Byte
<1>2. \A n \in Nat : (n % 256) + 256 * (n \div 256) = n
  BY SMT
<1> QED
  BY <1>1, <1>2

(* The bytes of an envelope: its length, its type, its body.               *)
LEMMA EnvelopeForm ==
  ASSUME NEW t \in Byte, NEW body \in Body, NEW least \in Widths
  PROVE  LET e == envelope_encode(t, body, least)
             v == varint_encode(Len(body), least)
         IN /\ e \in Seq(Byte)
            /\ Len(e) = Len(v) + 2 + Len(body)
            /\ \A i \in 1..Len(v) : e[i] = v[i]
            /\ e[Len(v) + 1] = t % 256 /\ e[Len(v) + 2] = t \div 256
            /\ \A i \in 1..Len(body) : e[Len(v) + 2 + i] = body[i]
<1> DEFINE e == envelope_encode(t, body, least)
           v == varint_encode(Len(body), least)
           w == <<t % 256, t \div 256>>
<1>1. t % 256 \in Byte /\ t \div 256 \in Byte
  BY SMT DEF Byte
<1>2. w \in Seq(Byte) /\ Len(w) = 2 /\ w[1] = t % 256 /\ w[2] = t \div 256
  BY <1>1
<1>3. body \in Seq(Byte) /\ Len(body) \in Varint
  BY DEF Body
<1>4. v \in Seq(Byte)
  BY <1>3, VarintForm
<1>5. e = (v \o w) \o body
  BY DEF envelope_encode
<1> HIDE DEF e, v, w
<1>6. /\ v \o w \in Seq(Byte) /\ Len(v \o w) = Len(v) + 2
      /\ \A i \in 1..Len(v) + 2 : (v \o w)[i] = IF i <= Len(v) THEN v[i] ELSE w[i - Len(v)]
  <2>1. /\ v \o w \in Seq(Byte) /\ Len(v \o w) = Len(v) + Len(w)
        /\ \A i \in 1..Len(v) + Len(w) :
              (v \o w)[i] = IF i <= Len(v) THEN v[i] ELSE w[i - Len(v)]
    BY <1>2, <1>4, ConcatProperties, ZenonT(30)
  <2> QED
    BY <1>2, <2>1
<1>7. /\ e \in Seq(Byte) /\ Len(e) = Len(v) + 2 + Len(body)
      /\ \A i \in 1..Len(v) + 2 + Len(body) :
            e[i] = IF i <= Len(v) + 2 THEN (v \o w)[i] ELSE body[i - (Len(v) + 2)]
  <2> DEFINE u == v \o w
  <2> HIDE DEF u
  <2>1. u \in Seq(Byte) /\ Len(u) = Len(v) + 2 /\ e = u \o body
    BY <1>5, <1>6 DEF u
  <2>2. /\ e \in Seq(Byte) /\ Len(e) = Len(u) + Len(body)
        /\ \A i \in 1..Len(u) + Len(body) : e[i] = IF i <= Len(u) THEN u[i] ELSE body[i - Len(u)]
    BY <1>3, <2>1, ConcatProperties
  <2> QED
    BY <2>1, <2>2 DEF u
<1>8. Len(v) \in Nat /\ Len(body) \in Nat
  BY <1>3, <1>4
<1>9. ASSUME NEW i \in 1..Len(v) PROVE e[i] = v[i]
  BY <1>6, <1>7, <1>8
<1>10. e[Len(v) + 1] = w[1] /\ e[Len(v) + 2] = w[2]
  BY <1>6, <1>7, <1>8
<1>11. ASSUME NEW i \in 1..Len(body) PROVE e[Len(v) + 2 + i] = body[i]
  <2>1. /\ Len(v) + 2 + i \in 1..Len(v) + 2 + Len(body)
        /\ ~(Len(v) + 2 + i <= Len(v) + 2) /\ Len(v) + 2 + i - (Len(v) + 2) = i
    BY <1>8
  <2> QED
    BY <1>7, <2>1
<1> QED
  BY <1>2, <1>7, <1>9, <1>10, <1>11 DEF e, v

(* A parser that was given the first bytes of an envelope, or more, finds  *)
(* that envelope, or refuses its length, or needs more; and then it has    *)
(* less than an envelope of the allowed length.                            *)
LEMMA EnvelopeParses ==
  ASSUME NEW t \in Byte, NEW body \in Body, NEW least \in Widths, NEW M \in Limits,
         NEW b \in Seq(Byte),
         Agree(b, envelope_encode(t, body, least))
  PROVE  LET p == envelope_parse(b, M)
             L == Len(envelope_encode(t, body, least))
         IN \/ p.result = "incomplete" /\ Len(b) < L /\ Len(b) < 10 + M
            \/ p = Malformed("LengthExceedsLimit") /\ Len(body) > M
            \/ /\ p.result = "ok" /\ Len(body) <= M /\ L <= Len(b)
               /\ p.consumed = L /\ p.type_raw = t /\ p.payload = body
<1> DEFINE e == envelope_encode(t, body, least)
           v == varint_encode(Len(body), least)
           p == envelope_parse(b, M)
           length == varint_decode(b)
<1>1. body \in Seq(Byte) /\ Len(body) \in Varint /\ Len(body) \in Nat /\ Len(b) \in Nat
  BY DEF Body
<1>m. M \in Nat /\ M >= 4
  BY SMT DEF Limits
<1>2. v \in Seq(Byte) /\ Len(v) \in {1, 2, 4, 8}
  BY <1>1, VarintForm
<1>3. /\ e \in Seq(Byte) /\ Len(e) = Len(v) + 2 + Len(body)
      /\ \A i \in 1..Len(v) : e[i] = v[i]
      /\ e[Len(v) + 1] = t % 256 /\ e[Len(v) + 2] = t \div 256
      /\ \A i \in 1..Len(body) : e[Len(v) + 2 + i] = body[i]
  BY EnvelopeForm
<1>4. \A i \in 1..Len(b) : i <= Len(e) => b[i] = e[i]
  BY DEF Agree
<1>5. length = IF Len(b) < Len(v) THEN Incomplete
               ELSE [result |-> "ok", consumed |-> Len(v), value |-> Len(body)]
  <2>1. Agree(b, v)
    <3> HIDE DEF e, v
    <3> QED
      BY <1>1, <1>2, <1>3, <1>4 DEF Agree
  <2> QED
    BY <1>1, <2>1, VarintDecodes
<1>6. p = IF length.result = "incomplete" THEN Incomplete
          ELSE IF length.value > M THEN Malformed("LengthExceedsLimit")
          ELSE IF Len(b) < length.consumed + 2 + length.value THEN Incomplete
          ELSE [result |-> "ok", consumed |-> length.consumed + 2 + length.value,
                type_raw |-> b[length.consumed + 1] + 256 * b[length.consumed + 2],
                payload |-> SubSeq(b, length.consumed + 2 + 1, length.consumed + 2 + length.value)]
  BY Zenon DEF envelope_parse
<1> HIDE DEF e, v, p, length
<1>7. CASE Len(b) < Len(v)
  <2>1. p = Incomplete
    BY <1>5, <1>6, <1>7 DEF Incomplete
  <2>2. Len(b) < Len(e) /\ Len(b) < 10 + M
    <3> DEFINE x == Len(v)
               y == Len(b)
               z == Len(body)
    <3>1. y \in Nat /\ z \in Nat /\ y < x /\ Len(e) = x + 2 + z
      BY <1>1, <1>3, <1>7, Zenon
    <3>2. x \in {1, 2, 4, 8}
      BY <1>2, Zenon
    <3> HIDE DEF x, y, z
    <3>3. y < x + 2 + z /\ y < 10 + M
      BY <1>m, <3>1, <3>2
    <3> QED
      BY <3>1, <3>3 DEF y
  <2> QED
    BY <2>1, <2>2 DEF Incomplete, p, e
<1>8. CASE ~(Len(b) < Len(v))
  <2>1. length.result = "ok" /\ length.consumed = Len(v) /\ length.value = Len(body)
    BY <1>5, <1>8
  <2>2. CASE Len(body) > M
    <3>1. p = Malformed("LengthExceedsLimit")
      BY <1>6, <2>1, <2>2
    <3> QED
      BY <2>2, <3>1 DEF p
  <2>3. CASE ~(Len(body) > M) /\ Len(b) < Len(v) + 2 + Len(body)
    <3>1. p = Incomplete
      BY <1>6, <2>1, <2>3
    <3>2. Len(b) < Len(e) /\ Len(b) < 10 + M
      <4> DEFINE x == Len(v)
                 y == Len(b)
                 z == Len(body)
      <4>1. y \in Nat /\ z \in Nat /\ Len(e) = x + 2 + z
        BY <1>1, <1>3
      <4>2. y < x + 2 + z /\ ~(z > M)
        BY <2>3
      <4>3. x \in {1, 2, 4, 8}
        BY <1>2
      <4> HIDE DEF x, y, z
      <4>4. y < 10 + M
        BY <1>m, <4>1, <4>2, <4>3
      <4> QED
        BY <4>1, <4>2, <4>4 DEF y
    <3> QED
      BY <3>1, <3>2 DEF Incomplete, p, e
  <2>4. CASE ~(Len(body) > M) /\ ~(Len(b) < Len(v) + 2 + Len(body))
    <3> DEFINE q == SubSeq(b, Len(v) + 2 + 1, Len(v) + 2 + Len(body))
    <3>1. p = [result |-> "ok", consumed |-> Len(v) + 2 + Len(body),
               type_raw |-> b[Len(v) + 1] + 256 * b[Len(v) + 2], payload |-> q]
      BY <1>6, <2>1, <2>4
    <3>2. Len(v) \in Nat /\ Len(e) <= Len(b)
      BY <1>1, <1>2, <1>3, <2>4
    <3>3. b[Len(v) + 1] + 256 * b[Len(v) + 2] = t
      <4>1. b[Len(v) + 1] = t % 256 /\ b[Len(v) + 2] = t \div 256
        BY <1>1, <1>3, <1>4, <3>2
      <4>2. (t % 256) + 256 * (t \div 256) = t
        BY TypeBytes
      <4> QED
        BY <4>1, <4>2
    <3>4. q = body
      <4>1. \A i \in 1..Len(body) : b[Len(v) + 2 + i] = body[i]
        BY <1>1, <1>3, <1>4, <3>2
      <4>2. \A i \in Len(v) + 2 + 1..Len(v) + 2 + Len(body) : b[i] \in Byte
        BY <1>1, <1>3, <3>2
      <4>3. /\ q \in Seq(Byte)
            /\ Len(q) = IF Len(v) + 2 + 1 <= Len(v) + 2 + Len(body)
                        THEN Len(v) + 2 + Len(body) - (Len(v) + 2 + 1) + 1 ELSE 0
            /\ \A i \in 1..Len(v) + 2 + Len(body) - (Len(v) + 2 + 1) + 1 :
                  q[i] = b[Len(v) + 2 + 1 + i - 1]
        <5> DEFINE m == Len(v) + 2 + 1
                   n == Len(v) + 2 + Len(body)
        <5>1. m \in Int /\ n \in Int
          BY <1>1, <3>2
        <5> HIDE DEF m, n
        <5>2. \A i \in m..n : b[i] \in Byte
          BY <4>2 DEF m, n
        <5>3. /\ SubSeq(b, m, n) \in Seq(Byte)
              /\ Len(SubSeq(b, m, n)) = IF m <= n THEN n - m + 1 ELSE 0
              /\ \A i \in 1..n - m + 1 : SubSeq(b, m, n)[i] = b[m + i - 1]
          BY <5>1, <5>2, SubSeqProperties
        <5> QED
          BY <5>3 DEF m, n
      <4> HIDE DEF q
      <4>4. Len(q) = Len(body)
        BY <1>1, <3>2, <4>3
      <4>5. ASSUME NEW i \in 1..Len(body) PROVE q[i] = body[i]
        <5>1. /\ i \in 1..Len(v) + 2 + Len(body) - (Len(v) + 2 + 1) + 1
              /\ Len(v) + 2 + 1 + i - 1 = Len(v) + 2 + i
          BY <1>1, <3>2
        <5> QED
          BY <4>1, <4>3, <5>1
      <4> QED
        BY <1>1, <4>3, <4>4, <4>5, SeqEqual
    <3> HIDE DEF q
    <3>5. p.result = "ok" /\ p.consumed = Len(e) /\ p.type_raw = t /\ p.payload = body
      BY <1>3, <3>1, <3>3, <3>4
    <3> QED
      BY <1>1, <1>m, <2>4, <3>2, <3>5 DEF p, e
  <2> QED
    BY <2>2, <2>3, <2>4
<1> QED
  BY <1>7, <1>8

LEMMA Kinds ==
  DOMAIN StreamKind = {"Control", "Input", "Video", "Feedback", "Clipboard", "File",
                       "AudioPlayback", "AudioCapture"}
  BY DEF StreamKind

(* A byte stands for at most one kind.                                     *)
LEMMA OneKind ==
  ASSUME NEW byte, NEW k \in KindOfByte(byte)
  PROVE  k \in DOMAIN StreamKind /\ KindOfByte(byte) = {k}
<1>1. \A a, c \in DOMAIN StreamKind : StreamKind[a] = StreamKind[c] => a = c
  BY Kinds, SMTT(30) DEF StreamKind
<1> QED
  BY <1>1 DEF KindOfByte

(* e consists of magic, kind, a version byte and v.                        *)
HasForm(e, magic, kind, v) ==
  /\ e \in Seq(Byte) /\ Len(e) = 6 + Len(v)
  /\ \A i \in 1..4 : e[i] = magic[i]
  /\ e[5] = kind
  /\ \A i \in 1..Len(v) : e[6 + i] = v[i]

(* The bytes of a prologue: magic, kind, version, context id.              *)
LEMMA PrologueForm ==
  ASSUME NEW magic \in Magic, NEW kind \in Byte, NEW c \in Varint, NEW least \in Widths
  PROVE  HasForm(prologue_encode(magic, kind, 1, c, least), magic, kind,
                 varint_encode(c, least))
<1> DEFINE e == prologue_encode(magic, kind, 1, c, least)
           v == varint_encode(c, least)
           w == <<kind, 1>>
           u == magic \o w
<1>1. 1 \in Byte
  BY DEF Byte
<1>2. w \in Seq(Byte) /\ Len(w) = 2 /\ w[1] = kind
  BY <1>1
<1>3. magic \in Seq(Byte) /\ Len(magic) = 4
  BY DEF Magic
<1>4. v \in Seq(Byte)
  BY VarintForm
<1>5. e = u \o v
  BY DEF prologue_encode
<1> HIDE DEF e, v, w
<1>6. /\ u \in Seq(Byte) /\ Len(u) = Len(magic) + Len(w)
      /\ \A i \in 1..Len(magic) + Len(w) :
            u[i] = IF i <= Len(magic) THEN magic[i] ELSE w[i - Len(magic)]
  BY <1>2, <1>3, ConcatProperties
<1> HIDE DEF u
<1>7. /\ e \in Seq(Byte) /\ Len(e) = Len(u) + Len(v)
      /\ \A i \in 1..Len(u) + Len(v) : e[i] = IF i <= Len(u) THEN u[i] ELSE v[i - Len(u)]
  BY <1>4, <1>5, <1>6, ConcatProperties
<1>8. Len(u) = 6 /\ Len(v) \in Nat
  BY <1>2, <1>3, <1>4, <1>6
<1>9. ASSUME NEW i \in 1..4 PROVE e[i] = magic[i]
  <2>1. u[i] = magic[i]
    BY <1>2, <1>3, <1>6
  <2> QED
    BY <1>7, <1>8, <2>1
<1>10. e[5] = kind
  <2>1. u[5] = w[1]
    BY <1>2, <1>3, <1>6
  <2> QED
    BY <1>2, <1>7, <1>8, <2>1
<1>11. ASSUME NEW i \in 1..Len(v) PROVE e[6 + i] = v[i]
  <2>1. 6 + i \in 1..Len(u) + Len(v) /\ ~(6 + i <= Len(u)) /\ 6 + i - Len(u) = i
    BY <1>8
  <2> QED
    BY <1>7, <2>1
<1> QED
  BY <1>7, <1>8, <1>9, <1>10, <1>11 DEF e, v, HasForm

(* A parser that was given the first bytes of a prologue, or more.         *)
LEMMA PrologueParses ==
  ASSUME NEW magic \in Magic, NEW kind \in Byte, NEW c \in Varint, NEW least \in Widths,
         NEW b \in Seq(Byte),
         Agree(b, prologue_encode(magic, kind, 1, c, least))
  PROVE  LET p == prologue_parse(b)
             L == Len(prologue_encode(magic, kind, 1, c, least))
         IN \/ p.result = "incomplete" /\ Len(b) < L /\ Len(b) < 14
            \/ p = Malformed("MagicMismatch") /\ magic # MAGIC
            \/ p = Malformed("UnknownKind") /\ magic = MAGIC /\ KindOfByte(kind) = {}
            \/ /\ p.result = "ok" /\ magic = MAGIC /\ L <= Len(b)
               /\ p.consumed = L /\ KindOfByte(kind) = {p.kind}
<1> DEFINE e == prologue_encode(magic, kind, 1, c, least)
           v == varint_encode(c, least)
           p == prologue_parse(b)
           rest == SubSeq(b, 7, Len(b))
           context == varint_decode(rest)
           found == [result |-> "ok", consumed |-> 6 + context.consumed,
                     kind |-> CHOOSE k \in KindOfByte(b[5]) : TRUE,
                     version |-> b[6], context_id |-> context.value]
<1>1. v \in Seq(Byte) /\ Len(v) \in {1, 2, 4, 8}
  BY VarintForm
<1>2. /\ e \in Seq(Byte) /\ Len(e) = 6 + Len(v)
      /\ \A i \in 1..4 : e[i] = magic[i]
      /\ e[5] = kind
      /\ \A i \in 1..Len(v) : e[6 + i] = v[i]
  <2>1. HasForm(e, magic, kind, v)
    BY PrologueForm, Zenon
  <2> HIDE DEF e, v
  <2> QED
    BY <2>1 DEF HasForm
<1>3. \A i \in 1..Len(b) : i <= Len(e) => b[i] = e[i]
  BY DEF Agree
<1>4. p = IF Len(b) < 4 THEN Incomplete
          ELSE IF SubSeq(b, 1, 4) # MAGIC THEN Malformed("MagicMismatch")
          ELSE IF Len(b) < 6 THEN Incomplete
          ELSE IF KindOfByte(b[5]) = {} THEN Malformed("UnknownKind")
          ELSE IF context.result = "incomplete" THEN Incomplete
          ELSE found
  BY Zenon DEF prologue_parse
<1>5. Len(b) \in Nat /\ Len(v) \in Nat /\ Len(e) \in Nat
  BY <1>1, <1>2
<1>6. Len(b) >= 4 => SubSeq(b, 1, 4) = magic
  <2> SUFFICES ASSUME Len(b) >= 4 PROVE SubSeq(b, 1, 4) = magic
    OBVIOUS
  <2> HIDE DEF e, v
  <2>1. \A i \in 1..4 : b[i] = magic[i] /\ b[i] \in Byte
    BY <1>2, <1>3, <1>5
  <2>2. /\ SubSeq(b, 1, 4) \in Seq(Byte)
        /\ Len(SubSeq(b, 1, 4)) = IF 1 <= 4 THEN 4 - 1 + 1 ELSE 0
        /\ \A i \in 1..4 - 1 + 1 : SubSeq(b, 1, 4)[i] = b[1 + i - 1]
    BY <2>1, SubSeqProperties
  <2>3. magic \in Seq(Byte) /\ Len(magic) = 4
    BY DEF Magic
  <2> DEFINE q == SubSeq(b, 1, 4)
  <2> HIDE DEF q
  <2>4. q \in Seq(Byte) /\ Len(q) = 4 /\ \A i \in 1..4 : q[i] = b[i]
    BY <2>2 DEF q
  <2>5. \A i \in 1..Len(q) : q[i] = magic[i]
    BY <2>1, <2>4
  <2>6. q = magic
    BY <2>3, <2>4, <2>5, SeqEqual
  <2> QED
    BY <2>6 DEF q
<1>7. Len(b) >= 6 => b[5] = kind
  <2> HIDE DEF e, v
  <2> QED
    BY <1>2, <1>3, <1>5
<1>8. Len(b) >= 6 => context = IF Len(b) < Len(e) THEN Incomplete
                               ELSE [result |-> "ok", consumed |-> Len(v), value |-> c]
  <2> SUFFICES ASSUME Len(b) >= 6
               PROVE  context = IF Len(b) < Len(e) THEN Incomplete
                                ELSE [result |-> "ok", consumed |-> Len(v), value |-> c]
    OBVIOUS
  <2>1. \A i \in 7..Len(b) : b[i] \in Byte
    BY <1>5
  <2>2. /\ rest \in Seq(Byte) /\ Len(rest) = IF 7 <= Len(b) THEN Len(b) - 7 + 1 ELSE 0
        /\ \A i \in 1..Len(b) - 7 + 1 : rest[i] = b[7 + i - 1]
    BY <1>5, <2>1, SubSeqProperties
  <2> HIDE DEF rest, e, v
  <2>3. Len(rest) = Len(b) - 6
    <3> DEFINE x == Len(rest)
               y == Len(b)
    <3>1. x = IF 7 <= y THEN y - 7 + 1 ELSE 0
      BY <2>2, Zenon
    <3>2. y \in Nat /\ y >= 6
      BY <1>5
    <3> HIDE DEF x, y
    <3>3. x = y - 6
      BY <3>1, <3>2
    <3> QED
      BY <3>3 DEF x, y
  <2>4. ASSUME NEW i \in 1..Len(rest), i <= Len(v) PROVE rest[i] = v[i]
    <3>1. /\ i \in 1..Len(b) - 7 + 1 /\ 7 + i - 1 = 6 + i /\ 6 + i \in 1..Len(b)
          /\ 6 + i <= Len(e) /\ i \in 1..Len(v)
      BY <1>2, <1>5, <2>3, <2>4
    <3>2. rest[i] = b[6 + i]
      BY <2>2, <3>1
    <3>3. b[6 + i] = e[6 + i]
      BY <1>3, <3>1
    <3>4. e[6 + i] = v[i]
      BY <1>2, <3>1
    <3> QED
      BY <3>2, <3>3, <3>4
  <2>5. context = IF Len(rest) < Len(v) THEN Incomplete
                  ELSE [result |-> "ok", consumed |-> Len(v), value |-> c]
    BY <2>2, <2>4, VarintDecodes DEF v, Agree
  <2>6. Len(rest) < Len(v) <=> Len(b) < Len(e)
    BY <1>2, <1>5, <2>3
  <2> HIDE DEF context
  <2> QED
    BY <2>5, <2>6
<1> HIDE DEF e, v, p, context, found
<1>9. CASE Len(b) < 4
  <2>1. p = Incomplete /\ Len(b) < Len(e) /\ Len(b) < 14
    BY <1>1, <1>2, <1>4, <1>5, <1>9
  <2> QED
    BY <2>1 DEF Incomplete, p, e
<1>10. CASE Len(b) >= 4 /\ magic # MAGIC
  <2>1. p = Malformed("MagicMismatch")
    BY <1>4, <1>5, <1>6, <1>10
  <2> QED
    BY <1>10, <2>1 DEF p
<1>11. CASE Len(b) >= 4 /\ Len(b) < 6 /\ magic = MAGIC
  <2>1. p = Incomplete /\ Len(b) < Len(e) /\ Len(b) < 14
    BY <1>1, <1>2, <1>4, <1>5, <1>6, <1>11
  <2> QED
    BY <2>1 DEF Incomplete, p, e
<1>12. CASE Len(b) >= 6 /\ magic = MAGIC /\ KindOfByte(kind) = {}
  <2>1. p = Malformed("UnknownKind")
    BY <1>4, <1>5, <1>6, <1>7, <1>12
  <2> QED
    BY <1>12, <2>1 DEF p
<1>13. CASE Len(b) >= 6 /\ magic = MAGIC /\ KindOfByte(kind) # {}
  <2>1. p = IF context.result = "incomplete" THEN Incomplete ELSE found
    BY <1>4, <1>5, <1>6, <1>7, <1>13
  <2>2. CASE Len(b) < Len(e)
    <3>1. p = Incomplete
      BY <1>8, <1>13, <2>1, <2>2 DEF Incomplete
    <3>2. Len(b) < 14
      <4> DEFINE x == Len(b)
                 y == Len(v)
      <4>1. x < 6 + y /\ x \in Nat
        BY <1>2, <1>5, <2>2, Zenon
      <4>2. y \in {1, 2, 4, 8}
        BY <1>1
      <4> HIDE DEF x, y
      <4>3. x < 14
        BY <4>1, <4>2
      <4> QED
        BY <4>3 DEF x
    <3> QED
      BY <2>2, <3>1, <3>2 DEF Incomplete, p, e
  <2>3. CASE ~(Len(b) < Len(e))
    <3>c. p = found /\ context.consumed = Len(v)
      BY <1>8, <1>13, <2>1, <2>3
    <3>1. p.result = "ok" /\ p.consumed = 6 + Len(v)
      BY <3>c DEF found
    <3>2. p.kind \in KindOfByte(kind)
      <4>1. KindOfByte(b[5]) # {} /\ b[5] = kind
        BY <1>7, <1>13
      <4>2. p.kind \in KindOfByte(b[5])
        BY <3>c, <4>1 DEF found
      <4> QED
        BY <4>1, <4>2
    <3>3. KindOfByte(kind) = {p.kind}
      BY <3>2, OneKind
    <3>4. p.consumed = Len(e) /\ Len(e) <= Len(b)
      BY <1>2, <1>5, <2>3, <3>1
    <3> QED
      BY <1>13, <3>1, <3>3, <3>4 DEF p, e
  <2> QED
    BY <2>2, <2>3
<1> QED
  BY <1>5, <1>9, <1>10, <1>11, <1>12, <1>13

-----------------------------------------------------------------------------
(* What is written *)

LEMMA TypeNames ==
  DOMAIN type_id =
    {"CLIENT_HELLO", "SERVER_HELLO", "AUTH_PUBKEY", "AUTH_RESULT",
     "VIDEO_STREAM_GENERATION", "ENCODER_CONFIG", "VIDEO_FRAME_HEADER",
     "VIDEO_FRAME_PAYLOAD", "TIME_SYNC_REQUEST", "TIME_SYNC_RESPONSE",
     "TRANSPORT_FEEDBACK", "KEEP_ALIVE", "SESSION_CLOSE", "SESSION_REAUTHENTICATE",
     "PERMISSION_UPDATE", "ACTIVE_MONITOR", "CLIPBOARD_FORMATS", "CLIPBOARD_REQUEST",
     "CLIPBOARD_DATA", "CLIPBOARD_ERROR", "FILE_TRANSFER_REQUEST", "FILE_TRANSFER_ACCEPT",
     "FILE_TRANSFER_REJECT", "FILE_CHUNK", "FILE_TRANSFER_COMPLETE",
     "FILE_TRANSFER_ERROR", "AUDIO_CONFIG", "AUDIO_FRAME_HEADER", "AUDIO_FRAME_PAYLOAD",
     "AUDIO_SYNC_FEEDBACK", "KEY_EVENT", "TEXT_INPUT", "IME_COMPOSITION", "MOUSE_MOVE",
     "MOUSE_BUTTON", "WHEEL", "IME_MODE_CHANGE", "KEYFRAME_REQUEST"}
  BY DEF type_id


(* A type is one byte, and no two types have the same.                     *)
LEMMA TypeIds ==
  /\ \A t \in DOMAIN type_id : type_id[t] \in Byte
  /\ \A t, u \in DOMAIN type_id : type_id[t] = type_id[u] => t = u
<1>1. \A t \in DOMAIN type_id : type_id[t] \in 1..38
  BY TypeNames, SMTT(60) DEF type_id
<1>2. \A t, u \in DOMAIN type_id : type_id[t] = type_id[u] => t = u
  BY TypeNames, SMTT(60) DEF type_id
<1>3. 1..38 \subseteq Byte
  BY SMT DEF Byte
<1> QED
  BY <1>1, <1>2, <1>3

Prologue(s) == prologue_encode(s.magic, s.kind, 1, s.context_id, s.least)
Envelope(s, n) == envelope_encode(type_id[s.envelopes[n].type], s.envelopes[n].body,
                                  s.envelopes[n].least)

LEMMA StreamParts ==
  ASSUME NEW s \in Stream
  PROVE  /\ s.magic \in Magic /\ s.kind \in Byte /\ s.context_id \in Varint
         /\ s.expected \in DOMAIN StreamKind /\ s.least \in Widths
         /\ Len(s.envelopes) \in Nat
         /\ \A n \in 1..Len(s.envelopes) :
               /\ s.envelopes[n].type \in DOMAIN type_id /\ s.envelopes[n].body \in Body
               /\ type_id[s.envelopes[n].type] \in Byte /\ s.envelopes[n].least \in Widths
<1>1. /\ s.magic \in Magic /\ s.kind \in Byte /\ s.context_id \in Varint
      /\ s.expected \in DOMAIN StreamKind /\ s.least \in Widths
      /\ s.envelopes \in Seq([type : DOMAIN type_id, body : Body, least : Widths])
  BY DEF Stream
<1>2. \A n \in 1..Len(s.envelopes) :
         s.envelopes[n] \in [type : DOMAIN type_id, body : Body, least : Widths]
  BY <1>1, ElementOfSeq
<1>3. Len(s.envelopes) \in Nat
  BY <1>1, LenProperties
<1> QED
  BY <1>1, <1>2, <1>3, TypeIds

LEMMA PartsAreBytes ==
  ASSUME NEW s \in Stream
  PROVE  /\ Prologue(s) \in Seq(Byte) /\ Len(Prologue(s)) \in Nat
         /\ \A n \in 1..Len(s.envelopes) :
               Envelope(s, n) \in Seq(Byte) /\ Len(Envelope(s, n)) \in Nat
<1>1. Prologue(s) \in Seq(Byte)
  BY StreamParts, PrologueForm DEF Prologue, HasForm
<1>2. ASSUME NEW n \in 1..Len(s.envelopes) PROVE Envelope(s, n) \in Seq(Byte)
  BY StreamParts, EnvelopeForm DEF Envelope
<1> QED
  BY <1>1, <1>2, LenProperties

(* Envelopes are written one behind the other.                             *)
LEMMA WrittenSteps ==
  ASSUME NEW s \in Stream
  PROVE  LET N == Len(s.envelopes)
         IN /\ Written(s) \in [0..N -> Seq(Byte)]
            /\ Written(s)[0] = Prologue(s)
            /\ \A n \in 1..N : Written(s)[n] = Written(s)[n - 1] \o Envelope(s, n)
<1> DEFINE N == Len(s.envelopes)
           X == Seq(Byte)
           F == [n \in 1..N |-> [x \in X |-> x \o Envelope(s, n)]]
           first == Prologue(s)
           Law(g) == g = [n \in 0..N |->
                            IF n = 0 THEN prologue_encode(s.magic, s.kind, 1, s.context_id, s.least)
                            ELSE g[n - 1]
                                 \o envelope_encode(type_id[s.envelopes[n].type],
                                                    s.envelopes[n].body, s.envelopes[n].least)]
<1>1. N \in Nat /\ first \in X
  BY StreamParts, PartsAreBytes
<1>2. F \in [1..N -> [X -> X]]
  <2>1. ASSUME NEW n \in 1..N, NEW x \in X PROVE x \o Envelope(s, n) \in X
    BY PartsAreBytes, ConcatProperties
  <2> QED
    BY <2>1
<1> HIDE DEF F, first, N, X
<1>3. PICK g \in [0..N -> X] : g[0] = first /\ \A n \in 1..N : g[n] = F[n][g[n - 1]]
  <2>1. PICK g : g \in Steps(N, X, first, F)
    BY <1>1, <1>2, Recursion
  <2> QED
    BY <2>1 DEF Steps
<1>4. ASSUME NEW n \in 1..N PROVE g[n] = g[n - 1] \o Envelope(s, n)
  <2>1. n - 1 \in 0..N
    BY <1>1
  <2>2. g[n - 1] \in X
    BY <2>1
  <2> QED
    BY <1>3, <2>2 DEF F
<1>5. ASSUME NEW n \in 0..N
      PROVE  g[n] = IF n = 0 THEN prologue_encode(s.magic, s.kind, 1, s.context_id, s.least)
                    ELSE g[n - 1] \o envelope_encode(type_id[s.envelopes[n].type],
                                                     s.envelopes[n].body, s.envelopes[n].least)
  <2>1. CASE n = 0
    BY <1>3, <2>1 DEF first, Prologue
  <2>2. CASE n # 0
    <3>1. n \in 1..N
      BY <1>1, <2>2
    <3> QED
      BY <1>4, <2>2, <3>1 DEF Envelope
  <2> QED
    BY <2>1, <2>2
<1>6. Law(g)
  BY <1>5
<1>7. Law(Written(s))
  BY <1>6, Zenon DEF Written, N
<1> DEFINE W == Written(s)
<1> HIDE DEF W
<1>8. Law(W)
  BY <1>7 DEF W
<1>9. W[0] = first
  BY <1>1, <1>8 DEF first, Prologue
<1>10. ASSUME NEW n \in 1..N PROVE W[n] = W[n - 1] \o Envelope(s, n)
  <2>1. n \in 0..N /\ n # 0
    BY <1>1
  <2> QED
    BY <1>8, <2>1 DEF Envelope
<1>11. \A n \in 0..N : W[n] \in X
  <2> DEFINE S == {n \in 0..N : W[n] \in X}
  <2>1. 0 \in S
    BY <1>1, <1>9
  <2>2. ASSUME NEW n \in 0..N - 1, n \in S PROVE n + 1 \in S
    <3>1. n + 1 \in 1..N /\ n + 1 \in 0..N
      BY <1>1
    <3>2. W[n + 1] = W[n] \o Envelope(s, n + 1)
      <4>1. PICK k \in 1..N : k = n + 1 /\ k - 1 = n
        BY <3>1
      <4>2. W[k] = W[k - 1] \o Envelope(s, k)
        BY <1>10
      <4> QED
        BY <4>1, <4>2
    <3>3. W[n] \in X
      BY <2>2
    <3>5. Envelope(s, n + 1) \in X
      BY <3>1, PartsAreBytes DEF N, X
    <3>4. W[n + 1] \in X
      BY <3>2, <3>3, <3>5, ConcatProperties DEF X
    <3> QED
      BY <3>1, <3>4
  <2> HIDE DEF S
  <2>3. \A n \in 0..N : n \in S
    BY <1>1, <2>1, <2>2, InductionUpTo
  <2> QED
    BY <2>3 DEF S
<1>12. W \in [0..N -> X]
  BY <1>8, <1>11
<1> QED
  BY <1>9, <1>10, <1>12 DEF W, N, X, first

\* What is written after n envelopes stays.
Extends(x, y) == Len(x) <= Len(y) /\ \A i \in 1..Len(x) : y[i] = x[i]

LEMMA WrittenGrows ==
  ASSUME NEW s \in Stream, NEW n \in 0..Len(s.envelopes)
  PROVE  Extends(Written(s)[n], Written(s)[Len(s.envelopes)])
<1> DEFINE N == Len(s.envelopes)
           W == Written(s)
           S == {m \in 0..N : n <= m => Extends(W[n], W[m])}
<1>1. N \in Nat
  BY StreamParts
<1>2. /\ W \in [0..N -> Seq(Byte)]
      /\ \A m \in 1..N : W[m] = W[m - 1] \o Envelope(s, m)
  BY WrittenSteps
<1> HIDE DEF W, N
<1>3. \A m \in 0..N : W[m] \in Seq(Byte) /\ Len(W[m]) \in Nat
  BY <1>2, LenProperties
<1>n. n \in 0..N
  BY DEF N
<1>4. 0 \in S
  <2>1. CASE n = 0
    BY <1>1, <1>3, <2>1 DEF Extends
  <2> QED
    BY <1>1, <1>n, <2>1
<1>5. ASSUME NEW m \in 0..N - 1, m \in S PROVE m + 1 \in S
  <2>1. m \in 0..N /\ m + 1 \in 0..N /\ m + 1 \in 1..N
    BY <1>1
  <2>2. CASE n = m + 1
    BY <1>3, <2>1, <2>2 DEF Extends
  <2>3. CASE n <= m
    <3>1. Extends(W[n], W[m])
      BY <1>5, <2>3
    <3>2. W[m + 1] = W[m] \o Envelope(s, m + 1)
      <4>1. PICK k \in 1..N : k = m + 1 /\ k - 1 = m
        BY <2>1
      <4>2. W[k] = W[k - 1] \o Envelope(s, k)
        BY <1>2
      <4> QED
        BY <4>1, <4>2
    <3>3. Envelope(s, m + 1) \in Seq(Byte) /\ Len(Envelope(s, m + 1)) \in Nat
      BY <2>1, PartsAreBytes DEF N
    <3> DEFINE x == W[n]
               y == W[m]
               z == W[m + 1]
               e == Envelope(s, m + 1)
    <3>4. x \in Seq(Byte) /\ y \in Seq(Byte) /\ Len(x) \in Nat /\ Len(y) \in Nat
      BY <1>3, <1>n, <2>1
    <3> HIDE DEF x, y, z, e
    <3>5. z = y \o e /\ e \in Seq(Byte) /\ Len(e) \in Nat /\ Extends(x, y)
      BY <3>1, <3>2, <3>3 DEF x, y, z, e
    <3>6. /\ Len(z) = Len(y) + Len(e)
          /\ \A i \in 1..Len(y) + Len(e) : z[i] = IF i <= Len(y) THEN y[i] ELSE e[i - Len(y)]
      BY <3>4, <3>5, ConcatProperties
    <3>7. Len(x) <= Len(z)
      BY <3>4, <3>5, <3>6 DEF Extends
    <3>8. ASSUME NEW i \in 1..Len(x) PROVE z[i] = x[i]
      <4>1. y[i] = x[i] /\ i <= Len(y) /\ i \in 1..Len(y) + Len(e)
        BY <3>4, <3>5 DEF Extends
      <4> QED
        BY <3>6, <4>1
    <3>9. Extends(W[n], W[m + 1])
      BY <3>7, <3>8 DEF x, z, Extends
    <3> QED
      BY <2>1, <3>9
  <2> QED
    BY <1>n, <2>1, <2>2, <2>3
<1> HIDE DEF S
<1>6. \A m \in 0..N : m \in S
  BY <1>1, <1>4, <1>5, InductionUpTo
<1>7. N \in S
  BY <1>1, <1>6
<1>8. Extends(W[n], W[N])
  BY <1>1, <1>n, <1>7 DEF S
<1> QED
  BY <1>8 DEF W, N

\* The buffer of a reader that stands behind n envelopes and has the first f
\* bytes.
Buffered(s, n, f) ==
    SubSeq(Written(s)[Len(s.envelopes)], Len(Written(s)[n]) + 1, f)

(* It starts with the next envelope.                                       *)
LEMMA NextEnvelope ==
  ASSUME NEW s \in Stream, NEW n \in 0..Len(s.envelopes),
         NEW f \in Len(Written(s)[n])..Len(Written(s)[Len(s.envelopes)])
  PROVE  /\ Buffered(s, n, f) \in Seq(Byte)
         /\ Len(Buffered(s, n, f)) = f - Len(Written(s)[n])
         /\ n < Len(s.envelopes) =>
               /\ Agree(Buffered(s, n, f), Envelope(s, n + 1))
               /\ Len(Written(s)[n + 1]) = Len(Written(s)[n]) + Len(Envelope(s, n + 1))
<1> DEFINE N == Len(s.envelopes)
           W == Written(s)
           b == Buffered(s, n, f)
           all == W[N]
           before == Len(W[n])
<1>1. N \in Nat /\ n \in 0..N /\ f \in before..Len(all)
  BY StreamParts
<1>2. /\ W \in [0..N -> Seq(Byte)]
      /\ \A m \in 1..N : W[m] = W[m - 1] \o Envelope(s, m)
  BY WrittenSteps
<1>3. \A m \in 0..N : Extends(W[m], all)
  BY WrittenGrows
<1>b. b = SubSeq(all, before + 1, f)
  BY DEF Buffered
<1> HIDE DEF W, N, b
<1>4. W[n] \in Seq(Byte) /\ all \in Seq(Byte) /\ before \in Nat /\ Len(all) \in Nat
  BY <1>1, <1>2, LenProperties
<1> HIDE DEF all, before
<1>5. f \in Nat /\ \A i \in before + 1..f : all[i] \in Byte
  BY <1>1, <1>4
<1>6. /\ b \in Seq(Byte)
      /\ Len(b) = IF before + 1 <= f THEN f - (before + 1) + 1 ELSE 0
      /\ \A i \in 1..f - (before + 1) + 1 : b[i] = all[before + 1 + i - 1]
  BY <1>b, <1>4, <1>5, SubSeqProperties
<1>7. Len(b) = f - before
  <2> DEFINE x == Len(b)
  <2>1. x = IF before + 1 <= f THEN f - (before + 1) + 1 ELSE 0
    BY <1>6, Zenon
  <2> HIDE DEF x
  <2>2. x = f - before
    BY <1>1, <1>4, <1>5, <2>1
  <2> QED
    BY <2>2 DEF x
<1>8. ASSUME n < N
      PROVE  Agree(b, Envelope(s, n + 1)) /\ Len(W[n + 1]) = before + Len(Envelope(s, n + 1))
  <2> DEFINE e == Envelope(s, n + 1)
             z == W[n + 1]
  <2>1. PICK k \in 1..N : k = n + 1 /\ k - 1 = n
    BY <1>1, <1>8
  <2>2. W[k] = W[k - 1] \o Envelope(s, k)
    BY <1>2
  <2>3. z = W[n] \o e
    BY <2>1, <2>2
  <2>4. e \in Seq(Byte) /\ Len(e) \in Nat
    BY <2>1, PartsAreBytes DEF N
  <2>5. Extends(z, all)
    BY <1>1, <1>3, <2>1
  <2> HIDE DEF e, z
  <2>6. /\ z \in Seq(Byte) /\ Len(z) = before + Len(e)
        /\ \A i \in 1..before + Len(e) : z[i] = IF i <= before THEN W[n][i] ELSE e[i - before]
    BY <1>4, <2>3, <2>4, ConcatProperties DEF before
  <2>7. ASSUME NEW i \in 1..Len(b), i <= Len(e) PROVE b[i] = e[i]
    <3>1. i \in 1..f - (before + 1) + 1 /\ before + 1 + i - 1 = before + i
      BY <1>4, <1>5, <1>7
    <3>2. b[i] = all[before + i]
      BY <1>6, <3>1
    <3>3. before + i \in 1..before + Len(e) /\ ~(before + i <= before) /\ (before + i) - before = i
      BY <1>4, <2>4, <2>7, <3>1
    <3>4. z[before + i] = e[i]
      <4> DEFINE j == before + i
      <4>1. j \in 1..before + Len(e) /\ ~(j <= before) /\ j - before = i
        BY <3>3
      <4> HIDE DEF j
      <4>2. z[j] = IF j <= before THEN W[n][j] ELSE e[j - before]
        BY <2>6, <4>1, Zenon
      <4>3. z[j] = e[i]
        BY <4>1, <4>2
      <4> QED
        BY <4>3 DEF j
    <3>5. all[before + i] = z[before + i]
      BY <2>5, <2>6, <3>3 DEF Extends
    <3> QED
      BY <3>2, <3>4, <3>5
  <2> QED
    BY <2>6, <2>7 DEF Agree, e, z
<1> QED
  BY <1>6, <1>7, <1>8 DEF b, N, W, before

(* At first it starts with the prologue.                                   *)
LEMMA FirstItem ==
  ASSUME NEW s \in Stream, NEW f \in 0..Len(Written(s)[Len(s.envelopes)])
  PROVE  LET b == SubSeq(Written(s)[Len(s.envelopes)], 1, f)
         IN b \in Seq(Byte) /\ Len(b) = f /\ Agree(b, Prologue(s))
<1> DEFINE N == Len(s.envelopes)
           W == Written(s)
           all == W[N]
           b == SubSeq(all, 1, f)
           e == Prologue(s)
<1>1. N \in Nat /\ f \in 0..Len(all)
  BY StreamParts
<1>2. W \in [0..N -> Seq(Byte)] /\ W[0] = e
  BY WrittenSteps
<1>3. Extends(W[0], all)
  BY <1>1, WrittenGrows
<1> HIDE DEF W, N, e
<1>4. all \in Seq(Byte) /\ Len(all) \in Nat /\ e \in Seq(Byte) /\ Len(e) \in Nat
  BY <1>1, <1>2, LenProperties, PartsAreBytes DEF e
<1> HIDE DEF all
<1>5. f \in Nat /\ \A i \in 1..f : all[i] \in Byte
  BY <1>1, <1>4
<1>6. /\ b \in Seq(Byte) /\ Len(b) = IF 1 <= f THEN f - 1 + 1 ELSE 0
      /\ \A i \in 1..f - 1 + 1 : b[i] = all[1 + i - 1]
  BY <1>5, SubSeqProperties
<1> HIDE DEF b
<1>7. Len(b) = f
  <2> DEFINE x == Len(b)
  <2>1. x = IF 1 <= f THEN f - 1 + 1 ELSE 0
    BY <1>6, Zenon
  <2> HIDE DEF x
  <2>2. x = f
    BY <1>5, <2>1
  <2> QED
    BY <2>2 DEF x
<1>8. ASSUME NEW i \in 1..Len(b), i <= Len(e) PROVE b[i] = e[i]
  <2>1. i \in 1..f - 1 + 1 /\ 1 + i - 1 = i
    BY <1>5, <1>7
  <2>2. b[i] = all[i]
    BY <1>6, <2>1
  <2>3. all[i] = e[i]
    BY <1>2, <1>3, <1>4, <1>8, <2>1 DEF Extends
  <2> QED
    BY <2>2, <2>3
<1> QED
  BY <1>6, <1>7, <1>8 DEF Agree, b, e, all, W, N

-----------------------------------------------------------------------------
(* What a receiver makes of all of it *)

Received == [n : Nat, header : Seq(Byte), got : Seq(Pair), error : Fault \cup {"none"}, done : BOOLEAN]

Stopped(r) == r.error # "none" \/ r.done

(* The outcomes of one more envelope.                                      *)
LEMMA ReceiveOutcome ==
  ASSUME NEW s \in Stream, NEW r \in Received,
         NEW e, e.body \in Body
  PROVE  LET q == Receive(s, r, e)
         IN /\ q \in Received
            /\ Stopped(r) => q = r
            /\ q.got # r.got => q.got = Append(r.got, <<r.header, e.body>>)
<1> DEFINE q == Receive(s, r, e)
           msg == <<r.header, e.body>>
           c1 == Len(e.body) > MaxLength[s.expected]
           c2 == e.type \notin Expected(s.expected, r.n, r.header)
           c3 == Introduces(s.expected, r.n)
           c4 == RequestIdsAgree(e.type, s.context_id, e.body)
           c5 == Framed(s.expected) /\ r.header = None
           c6 == ~LengthsAgree(r.header, e.body)
           d1 == NothingToRequest(s.expected, e.body)
           d2 == Stops(s.expected, e.type)
<1>1. q = IF Stopped(r) THEN r
          ELSE IF c1 THEN [r EXCEPT !.error = "LengthExceedsLimit"]
          ELSE IF c2 THEN [r EXCEPT !.error = "UnexpectedMessage"]
          ELSE IF c3 THEN IF c4 THEN [r EXCEPT !.n = @ + 1, !.done = d1]
                                ELSE [r EXCEPT !.error = "RequestIdMismatch"]
          ELSE IF c5 THEN [r EXCEPT !.header = e.body]
          ELSE IF c6 THEN [r EXCEPT !.error = "FrameLengthMismatch"]
          ELSE [r EXCEPT !.got = Append(@, msg), !.header = None, !.done = d2]
  BY Zenon DEF Receive, Stopped
<1>2. d1 \in BOOLEAN /\ d2 \in BOOLEAN
  BY Zenon DEF NothingToRequest, Stops, LastMessage
<1>3. /\ r.n \in Nat /\ r.header \in Seq(Byte) /\ r.got \in Seq(Pair) /\ e.body \in Seq(Byte)
      /\ None \in Seq(Byte)
  BY DEF Received, Body, None
<1>4. msg \in Pair /\ Append(r.got, msg) \in Seq(Pair) /\ r.n + 1 \in Nat
  <2>1. msg \in Pair
    BY <1>3 DEF Pair
  <2> HIDE DEF msg
  <2> QED
    BY <1>3, <2>1, AppendProperties
<1> HIDE DEF q, msg, c1, c2, c3, c4, c5, c6, d1, d2
<1>5. q = r \/ \E w \in Fault : q = [r EXCEPT !.error = w]
      \/ q = [r EXCEPT !.n = @ + 1, !.done = d1]
      \/ q = [r EXCEPT !.header = e.body]
      \/ q = [r EXCEPT !.got = Append(@, msg), !.header = None, !.done = d2]
  <2>1. {"LengthExceedsLimit", "UnexpectedMessage", "RequestIdMismatch", "FrameLengthMismatch"}
        \subseteq Fault
    BY DEF Fault
  <2>2. \/ q = r
        \/ \E w \in {"LengthExceedsLimit", "UnexpectedMessage", "RequestIdMismatch",
                      "FrameLengthMismatch"} : q = [r EXCEPT !.error = w]
        \/ q = [r EXCEPT !.n = @ + 1, !.done = d1]
        \/ q = [r EXCEPT !.header = e.body]
        \/ q = [r EXCEPT !.got = Append(@, msg), !.header = None, !.done = d2]
    BY <1>1, Zenon
  <2> QED
    BY <2>1, <2>2, Zenon
<1>6. q \in Received /\ (q.got # r.got => q.got = Append(r.got, msg))
  <2>1. CASE \E w \in Fault : q = [r EXCEPT !.error = w]
    BY <2>1 DEF Received
  <2>2. CASE q = [r EXCEPT !.n = @ + 1, !.done = d1]
    BY <1>2, <1>4, <2>2 DEF Received
  <2>3. CASE q = [r EXCEPT !.header = e.body]
    BY <1>3, <2>3 DEF Received
  <2>4. CASE q = [r EXCEPT !.got = Append(@, msg), !.header = None, !.done = d2]
    BY <1>2, <1>3, <1>4, <2>4 DEF Received
  <2> QED
    BY <1>5, <2>1, <2>2, <2>3, <2>4
<1>7. Stopped(r) => q = r
  BY <1>1
<1> QED
  BY <1>6, <1>7 DEF q, msg

Opening(s) == [n |-> 0, header |-> None, got |-> <<>>, error |-> PrologueFault(s), done |-> FALSE]

LEMMA OpeningType ==
  ASSUME NEW s \in Stream
  PROVE  Opening(s) \in Received
<1>1. PrologueFault(s) \in Fault \cup {"none"}
  <2>1. PrologueFault(s) \in {"MagicMismatch", "UnknownKind", "WrongStreamKind", "none"}
    BY Zenon DEF PrologueFault
  <2> QED
    BY <2>1 DEF Fault
<1>2. <<>> \in Seq(Pair) /\ None \in Seq(Byte) /\ 0 \in Nat
  BY DEF None
<1> QED
  BY <1>1, <1>2 DEF Opening, Received

LEMMA ReadingSteps ==
  ASSUME NEW s \in Stream
  PROVE  LET N == Len(s.envelopes)
         IN /\ Reading(s)[0] = Opening(s)
            /\ \A n \in 0..N : Reading(s)[n] \in Received
            /\ \A n \in 1..N : Reading(s)[n] = Receive(s, Reading(s)[n - 1], s.envelopes[n])
<1> DEFINE N == Len(s.envelopes)
           X == Received
           F == [n \in 1..N |-> [x \in X |-> Receive(s, x, s.envelopes[n])]]
           first == Opening(s)
           Law(g) == g = [n \in 0..N |->
                            IF n = 0
                            THEN [n |-> 0, header |-> None, got |-> <<>>,
                                  error |-> PrologueFault(s), done |-> FALSE]
                            ELSE Receive(s, g[n - 1], s.envelopes[n])]
<1>1. N \in Nat /\ first \in X
  BY StreamParts, OpeningType
<1>b. \A n \in 1..N : s.envelopes[n].body \in Body
  BY StreamParts
<1>2. F \in [1..N -> [X -> X]]
  <2>1. ASSUME NEW n \in 1..N, NEW x \in X PROVE Receive(s, x, s.envelopes[n]) \in X
    BY <1>b, ReceiveOutcome
  <2> QED
    BY <2>1
<1> HIDE DEF F, first, N, X
<1>3. PICK g \in [0..N -> X] : g[0] = first /\ \A n \in 1..N : g[n] = F[n][g[n - 1]]
  <2>1. PICK g : g \in Steps(N, X, first, F)
    BY <1>1, <1>2, Recursion
  <2> QED
    BY <2>1 DEF Steps
<1>4. ASSUME NEW n \in 1..N PROVE g[n] = Receive(s, g[n - 1], s.envelopes[n])
  <2>1. n - 1 \in 0..N
    BY <1>1
  <2>2. g[n - 1] \in X
    BY <2>1
  <2> QED
    BY <1>3, <2>2 DEF F
<1>5. ASSUME NEW n \in 0..N
      PROVE  g[n] = IF n = 0
                    THEN [n |-> 0, header |-> None, got |-> <<>>,
                          error |-> PrologueFault(s), done |-> FALSE]
                    ELSE Receive(s, g[n - 1], s.envelopes[n])
  <2>1. CASE n = 0
    BY <1>3, <2>1, Zenon DEF first, Opening
  <2>2. CASE n # 0
    <3>1. n \in 1..N
      BY <1>1, <2>2
    <3> QED
      BY <1>4, <2>2, <3>1
  <2> QED
    BY <2>1, <2>2
<1>6. Law(g)
  BY <1>5, Zenon
<1>7. Law(Reading(s))
  BY <1>6, Zenon DEF Reading, N
<1> DEFINE R == Reading(s)
<1> HIDE DEF R
<1>8. Law(R)
  BY <1>7 DEF R
<1>9. R[0] = first
  <2>1. 0 \in 0..N
    BY <1>1
  <2> QED
    BY <1>8, <2>1, Zenon DEF first, Opening
<1>10. ASSUME NEW n \in 1..N PROVE R[n] = Receive(s, R[n - 1], s.envelopes[n])
  <2>1. n \in 0..N /\ n # 0
    BY <1>1
  <2> QED
    BY <1>8, <2>1, Zenon
<1>11. \A n \in 0..N : R[n] \in X
  <2> DEFINE S == {n \in 0..N : R[n] \in X}
  <2>1. 0 \in S
    BY <1>1, <1>9
  <2>2. ASSUME NEW n \in 0..N - 1, n \in S PROVE n + 1 \in S
    <3> DEFINE k == n + 1
    <3>1. k \in 1..N /\ k - 1 = n /\ k \in 0..N
      BY <1>1
    <3> HIDE DEF k
    <3>2. R[k] = Receive(s, R[n], s.envelopes[k])
      BY <1>10, <3>1
    <3>3. R[n] \in X /\ s.envelopes[k].body \in Body
      BY <1>b, <2>2, <3>1
    <3>4. R[k] \in X
      BY <3>2, <3>3, ReceiveOutcome DEF X
    <3> QED
      BY <3>1, <3>4 DEF k
  <2> HIDE DEF S
  <2>3. \A n \in 0..N : n \in S
    BY <1>1, <2>1, <2>2, InductionUpTo
  <2> QED
    BY <2>3 DEF S
<1> QED
  BY <1>9, <1>10, <1>11 DEF R, N, X, first

(* A receiver that stopped stays as it is, and what was delivered stays    *)
(* delivered.                                                              *)
LEMMA ReadingGoesOn ==
  ASSUME NEW s \in Stream, NEW n \in 0..Len(s.envelopes)
  PROVE  LET R == Reading(s)
             N == Len(s.envelopes)
         IN /\ Stopped(R[n]) => R[N] = R[n]
            /\ Extends(R[n].got, R[N].got)
<1> DEFINE N == Len(s.envelopes)
           R == Reading(s)
           S == {m \in 0..N : n <= m => /\ Stopped(R[n]) => R[m] = R[n]
                                        /\ Extends(R[n].got, R[m].got)}
<1>1. N \in Nat /\ \A k \in 1..N : s.envelopes[k].body \in Body
  BY StreamParts
<1>2. /\ \A m \in 0..N : R[m] \in Received
      /\ \A m \in 1..N : R[m] = Receive(s, R[m - 1], s.envelopes[m])
  BY ReadingSteps
<1> HIDE DEF R, N
<1>n. n \in 0..N
  BY DEF N
<1>3. \A m \in 0..N : R[m].got \in Seq(Pair) /\ Len(R[m].got) \in Nat
  <2>1. \A m \in 0..N : R[m].got \in Seq(Pair)
    BY <1>2 DEF Received
  <2> QED
    BY <2>1, LenProperties
<1>4. 0 \in S
  <2>1. CASE n = 0
    BY <1>1, <1>3, <2>1 DEF Extends
  <2> QED
    BY <1>1, <1>n, <2>1
<1>5. ASSUME NEW m \in 0..N - 1, m \in S PROVE m + 1 \in S
  <2> DEFINE k == m + 1
  <2>1. m \in 0..N /\ k \in 0..N /\ k \in 1..N /\ k - 1 = m
    BY <1>1
  <2> HIDE DEF k
  <2>2. CASE n = k
    <3>1. Extends(R[n].got, R[k].got)
      BY <1>3, <2>1, <2>2 DEF Extends
    <3> QED
      BY <2>1, <2>2, <3>1 DEF k
  <2>3. CASE n <= m
    <3>1. Extends(R[n].got, R[m].got) /\ (Stopped(R[n]) => R[m] = R[n])
      BY <1>5, <2>3
    <3>2. R[k] = Receive(s, R[m], s.envelopes[k])
      BY <1>2, <2>1
    <3>3. R[m] \in Received /\ s.envelopes[k].body \in Body
      BY <1>1, <1>2, <2>1
    <3>4. /\ Stopped(R[m]) => R[k] = R[m]
          /\ R[k].got # R[m].got
             => R[k].got = Append(R[m].got, <<R[m].header, s.envelopes[k].body>>)
      <4> DEFINE r == R[m]
                 e == s.envelopes[k]
                 q == Receive(s, r, e)
      <4>1. r \in Received /\ e.body \in Body
        BY <3>3
      <4> HIDE DEF r, e
      <4>2. (Stopped(r) => q = r) /\ (q.got # r.got => q.got = Append(r.got, <<r.header, e.body>>))
        BY <4>1, ReceiveOutcome
      <4>3. R[k] = q
        BY <3>2 DEF r, e
      <4> HIDE DEF q
      <4> QED
        BY <4>2, <4>3 DEF r, e
    <3>5. Stopped(R[n]) => R[k] = R[n]
      BY <3>1, <3>4
    <3> DEFINE x == R[n].got
               y == R[m].got
               z == R[k].got
               msg == <<R[m].header, s.envelopes[k].body>>
    <3>6. /\ x \in Seq(Pair) /\ y \in Seq(Pair) /\ Len(x) \in Nat /\ Len(y) \in Nat
          /\ z \in Seq(Pair) /\ Len(z) \in Nat
      BY <1>3, <1>n, <2>1
    <3>7. msg \in Pair
      BY <3>3 DEF Received, Body, Pair
    <3>8. Extends(x, y) /\ (z # y => z = Append(y, msg))
      BY <3>1, <3>4
    <3> HIDE DEF x, y, z, msg
    <3>9. Extends(x, z)
      <4>1. CASE z = y
        BY <3>8, <4>1
      <4>2. CASE z = Append(y, msg)
        <5>1. Len(z) = Len(y) + 1 /\ \A i \in 1..Len(y) : z[i] = y[i]
          BY <3>6, <3>7, <4>2, AppendProperties
        <5> QED
          BY <3>6, <3>8, <5>1 DEF Extends
      <4> QED
        BY <3>8, <4>1, <4>2
    <3>10. Extends(R[n].got, R[m + 1].got) /\ (Stopped(R[n]) => R[m + 1] = R[n])
      BY <3>5, <3>9, Zenon DEF k, x, z
    <3>11. m + 1 \in 0..N
      BY <2>1 DEF k
    <3> QED
      BY <3>10, <3>11, Zenon
  <2> QED
    BY <1>n, <2>1, <2>2, <2>3 DEF k
<1> HIDE DEF S
<1>6. \A m \in 0..N : m \in S
  BY <1>1, <1>4, <1>5, InductionUpTo
<1>7. N \in S
  BY <1>1, <1>6
<1>8. Extends(R[n].got, R[N].got) /\ (Stopped(R[n]) => R[N] = R[n])
  BY <1>1, <1>n, <1>7 DEF S
<1> QED
  BY <1>8 DEF R, N

-----------------------------------------------------------------------------
(* The reader *)

LEMMA Setting ==
  ASSUME TypeOK
  PROVE  /\ stream \in Stream
         /\ Limit \in Limits /\ Limit \in Nat /\ Limit >= 4
         /\ Bytes \in Seq(Byte) /\ Len(Bytes) \in Nat
         /\ filled \in Nat /\ start \in Nat
         /\ buf \in Seq(Byte) /\ Len(buf) = filled - start
<1>1. stream \in Stream
  BY ReaderAssumption DEF TypeOK
<1>2. Limit \in Limits
  BY <1>1, ReaderAssumption, StreamParts DEF Limit
<1>3. Limit \in Nat /\ Limit >= 4
  BY <1>2, SMT DEF Limits
<1>4. Bytes \in Seq(Byte)
  <2>1. Len(stream.envelopes) \in 0..Len(stream.envelopes)
    BY <1>1, StreamParts
  <2> QED
    BY <1>1, <2>1, WrittenSteps DEF Bytes
<1>5. Len(Bytes) \in Nat
  BY <1>4, LenProperties
<1>6. filled \in Nat /\ start \in Nat /\ filled <= Len(Bytes) /\ start <= filled
  BY <1>5 DEF TypeOK
<1>7. \A i \in start + 1..filled : Bytes[i] \in Byte
  BY <1>4, <1>5, <1>6
<1>8. /\ buf \in Seq(Byte)
      /\ Len(buf) = IF start + 1 <= filled THEN filled - (start + 1) + 1 ELSE 0
  BY <1>6, <1>7, SubSeqProperties DEF buf
<1>9. Len(buf) = filled - start
  <2> DEFINE x == Len(buf)
  <2>1. x = IF start + 1 <= filled THEN filled - (start + 1) + 1 ELSE 0
    BY <1>8, Zenon
  <2> HIDE DEF x
  <2>2. x = filled - start
    BY <1>6, <2>1
  <2> QED
    BY <2>2 DEF x
<1> QED
  BY <1>1, <1>2, <1>3, <1>4, <1>5, <1>6, <1>8, <1>9

(* What the parser says while the prologue is read.                        *)
LEMMA AtPrologue ==
  ASSUME TypeOK, at = "prologue", start = 0
  PROVE  \/ Parsed.result = "incomplete" /\ Len(buf) < 10 + Limit
         \/ /\ Parsed.result = "error" /\ Parsed.error = PrologueFault(stream)
            /\ PrologueFault(stream) \in Fault
         \/ /\ Parsed.result = "ok" /\ Parsed.kind # stream.expected
            /\ PrologueFault(stream) = "WrongStreamKind"
         \/ /\ Parsed.result = "ok" /\ Parsed.kind = stream.expected
            /\ PrologueFault(stream) = "none"
            /\ Parsed.consumed = Len(Written(stream)[0])
            /\ Parsed.consumed \in Nat /\ Parsed.consumed <= Len(buf)
<1> DEFINE p == Parsed
           s == stream
           L == Len(Prologue(s))
           fault == PrologueFault(s)
<1>1. s \in Stream /\ Limit \in Nat /\ Limit >= 4 /\ Len(buf) \in Nat
  BY Setting, LenProperties
<1>2. buf \in Seq(Byte) /\ Agree(buf, Prologue(s))
  <2>1. filled \in 0..Len(Written(s)[Len(s.envelopes)])
    BY DEF TypeOK, Bytes
  <2>2. buf = SubSeq(Written(s)[Len(s.envelopes)], 1, filled)
    BY DEF buf, Bytes
  <2> QED
    BY <1>1, <2>1, <2>2, FirstItem
<1>3. p = prologue_parse(buf)
  BY DEF Parsed
<1>4. s.magic \in Magic /\ s.kind \in Byte /\ s.context_id \in Varint /\ s.least \in Widths
  BY <1>1, StreamParts
<1>5. \/ p.result = "incomplete" /\ Len(buf) < L /\ Len(buf) < 14
      \/ p = Malformed("MagicMismatch") /\ s.magic # MAGIC
      \/ p = Malformed("UnknownKind") /\ s.magic = MAGIC /\ KindOfByte(s.kind) = {}
      \/ /\ p.result = "ok" /\ s.magic = MAGIC /\ L <= Len(buf)
         /\ p.consumed = L /\ KindOfByte(s.kind) = {p.kind}
  BY <1>2, <1>3, <1>4, PrologueParses DEF Prologue
<1>6. Written(s)[0] = Prologue(s) /\ L \in Nat
  BY <1>1, WrittenSteps, PartsAreBytes
<1> HIDE DEF p, L
<1>7. CASE p.result = "incomplete" /\ Len(buf) < 14
  <2>1. Len(buf) < 10 + Limit
    BY <1>1, <1>7
  <2> QED
    BY <1>7, <2>1 DEF p
<1>8. CASE p = Malformed("MagicMismatch") /\ s.magic # MAGIC
  <2>1. fault = "MagicMismatch"
    BY <1>8, Zenon DEF PrologueFault
  <2>2. p.result = "error" /\ p.error = "MagicMismatch"
    BY <1>8 DEF Malformed
  <2> QED
    BY <2>1, <2>2 DEF p, Fault
<1>9. CASE p = Malformed("UnknownKind") /\ s.magic = MAGIC /\ KindOfByte(s.kind) = {}
  <2>1. fault = "UnknownKind"
    BY <1>9, Zenon DEF PrologueFault
  <2>2. p.result = "error" /\ p.error = "UnknownKind"
    BY <1>9 DEF Malformed
  <2> QED
    BY <2>1, <2>2 DEF p, Fault
<1>10. CASE /\ p.result = "ok" /\ s.magic = MAGIC /\ L <= Len(buf)
            /\ p.consumed = L /\ KindOfByte(s.kind) = {p.kind}
  <2>1. CASE p.kind # s.expected
    <3>1. KindOfByte(s.kind) \notin {{}, {s.expected}}
      BY <1>10, <2>1
    <3>2. fault = "WrongStreamKind"
      BY <1>10, <3>1, Zenon DEF PrologueFault
    <3> QED
      BY <1>10, <2>1, <3>2 DEF p
  <2>2. CASE p.kind = s.expected
    <3>1. KindOfByte(s.kind) # {} /\ KindOfByte(s.kind) \in {{}, {s.expected}}
      BY <1>10, <2>2
    <3>2. fault = "none"
      BY <1>10, <3>1, Zenon DEF PrologueFault
    <3> QED
      BY <1>6, <1>10, <2>2, <3>2 DEF p, L
  <2> QED
    BY <2>1, <2>2
<1> QED
  BY <1>5, <1>7, <1>8, <1>9, <1>10

(* What the parser says behind the n-th envelope.                          *)
LEMMA AtMessages ==
  ASSUME TypeOK, at = "messages", NEW n \in 0..Len(stream.envelopes),
         start = Len(Written(stream)[n])
  PROVE  LET e == stream.envelopes[n + 1]
         IN \/ Parsed.result = "incomplete" /\ Len(buf) < 10 + Limit
            \/ /\ Parsed.result = "error" /\ Parsed.error = "LengthExceedsLimit"
               /\ n < Len(stream.envelopes) /\ Len(e.body) > Limit
            \/ /\ Parsed.result = "ok" /\ Parsed.consumed \in Nat /\ Parsed.consumed <= Len(buf)
               /\ n < Len(stream.envelopes) /\ ~(Len(e.body) > Limit)
               /\ start + Parsed.consumed = Len(Written(stream)[n + 1])
               /\ Parsed.payload = e.body /\ Types = {e.type}
<1> DEFINE p == Parsed
           s == stream
           N == Len(s.envelopes)
           b == Buffered(s, n, filled)
           e == s.envelopes[n + 1]
           t == type_id[e.type]
           least == e.least
<1>1. s \in Stream /\ Limit \in Limits /\ Limit \in Nat /\ Len(buf) \in Nat
  BY Setting, LenProperties
<1>2. N \in Nat /\ n \in 0..N
  BY <1>1, StreamParts
<1>3. filled \in Len(Written(s)[n])..Len(Written(s)[N])
  BY Setting DEF TypeOK, Bytes
<1>4. /\ b \in Seq(Byte) /\ Len(b) = filled - Len(Written(s)[n])
      /\ n < N => /\ Agree(b, Envelope(s, n + 1))
                  /\ Len(Written(s)[n + 1]) = Len(Written(s)[n]) + Len(Envelope(s, n + 1))
  BY <1>1, <1>2, <1>3, NextEnvelope
<1>5. buf = b
  BY DEF buf, Bytes, Buffered
<1>6. p = envelope_parse(buf, Limit)
  BY DEF Parsed
<1>7. CASE n = N
  <2>1. Len(buf) = 0
    <3>1. filled = Len(Written(s)[N]) /\ start = filled
      BY <1>3, <1>7, Setting DEF TypeOK
    <3> QED
      BY <3>1, Setting
  <2>2. buf = <<>>
    BY <1>4, <1>5, <2>1
  <2>3. p = Incomplete
    <3>1. varint_decode(buf) = Incomplete
      BY <2>2 DEF varint_decode
    <3>2. varint_decode(buf).result = "incomplete"
      BY <3>1 DEF Incomplete
    <3> QED
      BY <1>6, <3>2, Zenon DEF envelope_parse
  <2> QED
    BY <1>1, <2>1, <2>3 DEF Incomplete
<1>8. CASE n < N
  <2>1. n + 1 \in 1..N
    BY <1>2, <1>8
  <2>2. t \in Byte /\ e.body \in Body /\ e.type \in DOMAIN type_id /\ least \in Widths
    BY <1>1, <2>1, StreamParts
  <2>3. Envelope(s, n + 1) = envelope_encode(t, e.body, least)
    BY DEF Envelope
  <2> DEFINE L == Len(envelope_encode(t, e.body, least))
  <2>4. \/ p.result = "incomplete" /\ Len(buf) < L /\ Len(buf) < 10 + Limit
        \/ p = Malformed("LengthExceedsLimit") /\ Len(e.body) > Limit
        \/ /\ p.result = "ok" /\ Len(e.body) <= Limit /\ L <= Len(buf)
           /\ p.consumed = L /\ p.type_raw = t /\ p.payload = e.body
    <3> DEFINE body == e.body
    <3>1. Agree(buf, envelope_encode(t, body, least)) /\ buf \in Seq(Byte)
      BY <1>4, <1>5, <1>8, <2>3
    <3>2. t \in Byte /\ body \in Body /\ least \in Widths
      BY <2>2
    <3> HIDE DEF t, e, body, least, p
    <3>3. \/ p.result = "incomplete" /\ Len(buf) < Len(envelope_encode(t, body, least)) /\ Len(buf) < 10 + Limit
          \/ p = Malformed("LengthExceedsLimit") /\ Len(body) > Limit
          \/ /\ p.result = "ok" /\ Len(body) <= Limit /\ Len(envelope_encode(t, body, least)) <= Len(buf)
             /\ p.consumed = Len(envelope_encode(t, body, least)) /\ p.type_raw = t /\ p.payload = body
      BY <1>1, <1>6, <3>1, <3>2, EnvelopeParses
    <3> QED
      BY <3>3 DEF body
  <2>5. Len(Written(s)[n + 1]) = start + L
    BY <1>4, <1>8, <2>3
  <2>6. p.type_raw = t => Types = {e.type}
    <3> SUFFICES ASSUME p.type_raw = t PROVE Types = {e.type}
      OBVIOUS
    <3>1. Types = {u \in DOMAIN type_id : type_id[u] = t}
      BY DEF Types
    <3> QED
      BY <2>2, <3>1, TypeIds
  <2>7. Len(e.body) \in Nat /\ L \in Nat
    BY <1>1, <2>1, <2>2, <2>3, PartsAreBytes DEF Body
  <2> HIDE DEF p, L, e, t
  <2>8. CASE p = Malformed("LengthExceedsLimit") /\ Len(e.body) > Limit
    <3>1. p.result = "error" /\ p.error = "LengthExceedsLimit"
      BY <2>8 DEF Malformed
    <3> QED
      BY <1>8, <2>8, <3>1 DEF p, e
  <2>9. CASE /\ p.result = "ok" /\ Len(e.body) <= Limit /\ L <= Len(buf)
             /\ p.consumed = L /\ p.type_raw = t /\ p.payload = e.body
    <3>1. ~(Len(e.body) > Limit)
      BY <1>1, <2>7, <2>9
    <3> QED
      BY <1>8, <2>5, <2>6, <2>7, <2>9, <3>1 DEF p, e
  <2> QED
    BY <2>4, <2>8, <2>9 DEF p
<1> QED
  BY <1>2, <1>7, <1>8

LEMMA NextRead ==
  ASSUME NEW s \in Stream, NEW n \in 0..Len(s.envelopes), n < Len(s.envelopes)
  PROVE  /\ Reading(s)[n + 1] = Receive(s, Reading(s)[n], s.envelopes[n + 1])
         /\ n + 1 \in 0..Len(s.envelopes) /\ n + 1 \in 1..Len(s.envelopes)
<1> DEFINE k == n + 1
           N == Len(s.envelopes)
<1>1. N \in Nat
  BY StreamParts
<1>2. k \in 1..N /\ k \in 0..N /\ k - 1 = n
  BY <1>1
<1> HIDE DEF k
<1>3. Reading(s)[k] = Receive(s, Reading(s)[k - 1], s.envelopes[k])
  BY <1>2, ReadingSteps
<1> QED
  BY <1>2, <1>3 DEF k

LEMMA ExtendsIsPrefix ==
  ASSUME NEW X, NEW x \in Seq(X), NEW y \in Seq(X), Extends(x, y)
  PROVE  IsPrefix(x, y)
<1>1. Len(x) \in Nat /\ Len(y) \in Nat /\ Len(x) <= Len(y) /\ \A i \in 1..Len(x) : y[i] = x[i]
  BY DEF Extends
<1>2. \A i \in 1..Len(x) : x[i] \in X /\ y[i] \in X
  BY <1>1, ElementOfSeq
<1> DEFINE u == SubSeq(x, 1, Len(x))
           v == SubSeq(y, 1, Len(x))
<1>3. /\ u \in Seq(X) /\ Len(u) = IF 1 <= Len(x) THEN Len(x) - 1 + 1 ELSE 0
      /\ \A i \in 1..Len(x) - 1 + 1 : u[i] = x[1 + i - 1]
  BY <1>1, <1>2, SubSeqProperties
<1>4. /\ v \in Seq(X) /\ Len(v) = IF 1 <= Len(x) THEN Len(x) - 1 + 1 ELSE 0
      /\ \A i \in 1..Len(x) - 1 + 1 : v[i] = y[1 + i - 1]
  BY <1>1, <1>2, SubSeqProperties
<1> HIDE DEF u, v
<1>5. Len(u) = Len(v) /\ Len(u) = Len(x)
  <2> DEFINE m == Len(x)
             k == Len(u)
             l == Len(v)
  <2>1. k = IF 1 <= m THEN m - 1 + 1 ELSE 0
    BY <1>3, Zenon
  <2>2. l = IF 1 <= m THEN m - 1 + 1 ELSE 0
    BY <1>4, Zenon
  <2>3. m \in Nat
    BY <1>1
  <2> HIDE DEF m, k, l
  <2>4. k = m /\ l = m
    BY <2>1, <2>2, <2>3
  <2> QED
    BY <2>4 DEF m, k, l
<1>6. ASSUME NEW i \in 1..Len(u) PROVE u[i] = v[i]
  <2>1. i \in 1..Len(x) - 1 + 1 /\ 1 + i - 1 = i /\ i \in 1..Len(x)
    BY <1>1, <1>5
  <2> QED
    BY <1>1, <1>3, <1>4, <2>1
<1>7. u = v
  BY <1>3, <1>4, <1>5, <1>6, SeqEqual
<1> QED
  BY <1>1, <1>7 DEF IsPrefix, u, v

\* Behind the n-th envelope, as ReaderInv has it.
StandsAt(n) == InStep(n) /\ (stream.expected = "AudioPlayback" => PlacedUpTo(n))

(* A receiver that closes the stream here has delivered what was sent.     *)
LEMMA DeliveredSoFar ==
  ASSUME TypeOK, HeadersHeld, NEW n \in 0..Len(stream.envelopes), StandsAt(n)
  PROVE  /\ (lost => AtOnce.error = "none") => IsPrefix(got, AtOnce.got)
         /\ HeaderLost <=> lost
         /\ lost => FramesWhole
<1> DEFINE s == stream
           N == Len(s.envelopes)
           R == Reading(s)
<1>1. s \in Stream /\ N \in Nat
  BY Setting, StreamParts
<1>2. HeaderLost <=> lost
  BY DEF HeaderLost, HeadersHeld
<1>3. Extends(R[n].got, R[N].got) /\ R[n].got \in Seq(Pair) /\ R[N].got \in Seq(Pair)
  <2>1. n \in 0..N /\ N \in 0..N
    BY <1>1
  <2>2. R[n] \in Received /\ R[N] \in Received
    BY <1>1, <2>1, ReadingSteps
  <2>3. Extends(R[n].got, R[N].got)
    BY <1>1, <2>1, ReadingGoesOn
  <2> QED
    BY <2>2, <2>3 DEF Received
<1>4. IsPrefix(R[n].got, R[N].got)
  BY <1>3, ExtendsIsPrefix
<1>5. (lost => AtOnce.error = "none") => IsPrefix(got, AtOnce.got)
  BY <1>4, Zenon DEF StandsAt, InStep, AtOnce
<1>6. ASSUME lost PROVE FramesWhole
  <2>1. PlacedUpTo(n)
    BY <1>6 DEF StandsAt, HeadersHeld
  <2>2. PICK place \in [DOMAIN got -> 2..n] :
           /\ \A i, j \in DOMAIN got : i < j => place[i] < place[j]
           /\ \A i \in DOMAIN got :
                 got[i] = <<stream.envelopes[place[i] - 1].body, stream.envelopes[place[i]].body>>
    BY <2>1 DEF PlacedUpTo
  <2>3. DOMAIN s.envelopes = 1..N
    BY <1>1 DEF Stream
  <2>4. ASSUME NEW i \in DOMAIN got PROVE place[i] \in DOMAIN s.envelopes /\ place[i] > 1
    <3>1. place[i] \in 2..n
      OBVIOUS
    <3> QED
      BY <1>1, <2>3, <3>1
  <2>5. place \in [DOMAIN got -> DOMAIN stream.envelopes]
    BY <2>4
  <2> QED
    BY <2>2, <2>4, <2>5 DEF FramesWhole
<1> QED
  BY <1>2, <1>5, <1>6

Outcome == {"none", "EndsEarly", "Dropped", "ResponseTimeout"} \cup Fault

(* Closing the stream keeps the invariant if what was delivered is right.  *)
LEMMA FailsKeeps ==
  ASSUME ReaderInv, NEW why \in Outcome, Fails(why),
         (HeaderLost => AtOnce.error = "none") => IsPrefix(got, AtOnce.got),
         HeaderLost => FramesWhole,
         why \in Fault /\ ~HeaderLost => why = AtOnce.error /\ got = AtOnce.got
  PROVE  ReaderInv'
<1>1. /\ at' = "closed" /\ error' = why
      /\ stream' = stream /\ filled' = filled /\ start' = start /\ intro' = intro
      /\ local' = local /\ parked' = parked /\ got' = got /\ cancels' = cancels /\ lost' = lost
  BY DEF Fails
<1>2. TypeOK'
  BY <1>1 DEF ReaderInv, TypeOK, Outcome, Bytes
<1>3. Waiting' = Waiting /\ InIntroduction' = InIntroduction /\ ParksHeader' = ParksHeader
  BY <1>1 DEF Waiting, InIntroduction, ParksHeader
<1>4. HeadersHeld'
  BY <1>1, <1>3 DEF ReaderInv, HeadersHeld
<1>5. BufferBounded'
  BY <1>1 DEF ReaderInv, BufferBounded, buf, Bytes, Limit
<1>6. AtOnce' = AtOnce /\ HeaderLost' = HeaderLost /\ FramesWhole' = FramesWhole
  BY <1>1 DEF AtOnce, HeaderLost, FramesWhole
<1>7. why \in Fault => why \notin {"none", "EndsEarly", "Dropped", "ResponseTimeout"}
  BY DEF Fault
<1>8. MessagesAsSent'
  BY <1>1, <1>6, <1>7, Zenon DEF MessagesAsSent, Outcome
<1> QED
  BY <1>1, <1>2, <1>4, <1>5, <1>8 DEF ReaderInv

LEMMA Fragment ==
  /\ MaxFragment \in Nat /\ MaxFragment > 0
  /\ \A k \in Fragments : k \in Nat /\ k <= MaxFragment
<1>1. MaxFragment \in Fragments /\ \A k \in Fragments : k <= MaxFragment
  BY ReaderAssumption, Zenon DEF MaxFragment
<1> QED
  BY <1>1, ReaderAssumption

LEMMA Sent ==
  ASSUME stream \in Streams
  PROVE  /\ stream \in Stream /\ Len(Bytes) \in Nat
         /\ Limit \in Nat /\ Limit >= 4
<1>1. stream \in Stream
  BY ReaderAssumption
<1>2. Limit \in Limits
  BY <1>1, ReaderAssumption, StreamParts DEF Limit
<1>3. Limit \in Nat /\ Limit >= 4
  BY <1>2, SMT DEF Limits
<1>4. Len(stream.envelopes) \in 0..Len(stream.envelopes)
  BY <1>1, StreamParts
<1>5. Bytes \in Seq(Byte)
  BY <1>1, <1>4, WrittenSteps DEF Bytes
<1> QED
  BY <1>1, <1>3, <1>5, LenProperties

LEMMA BufferLength ==
  ASSUME NEW s \in Stream, NEW f \in 0..Len(Written(s)[Len(s.envelopes)]), NEW a \in 0..f
  PROVE  Len(SubSeq(Written(s)[Len(s.envelopes)], a + 1, f)) = f - a
<1> DEFINE all == Written(s)[Len(s.envelopes)]
           b == SubSeq(all, a + 1, f)
<1>1. Len(s.envelopes) \in 0..Len(s.envelopes)
  BY StreamParts
<1>2. all \in Seq(Byte) /\ f \in 0..Len(all)
  BY <1>1, WrittenSteps
<1> HIDE DEF all
<1>3. Len(all) \in Nat /\ f \in Nat /\ a \in Nat /\ a <= f
  BY <1>2
<1>4. \A i \in a + 1..f : all[i] \in Byte
  BY <1>2, <1>3
<1>5. Len(b) = IF a + 1 <= f THEN f - (a + 1) + 1 ELSE 0
  BY <1>3, <1>4, SubSeqProperties
<1> DEFINE x == Len(b)
<1>6. x = IF a + 1 <= f THEN f - (a + 1) + 1 ELSE 0
  BY <1>5
<1> HIDE DEF x
<1>7. x = f - a
  BY <1>3, <1>6
<1> QED
  BY <1>7 DEF x, all

(* The buffer after a step.                                                *)
LEMMA BoundKept ==
  ASSUME TypeOK, TypeOK', stream' = stream, filled' - start' < 10 + Limit + MaxFragment
  PROVE  BufferBounded'
<1>1. stream \in Stream /\ filled' \in 0..Len(Bytes) /\ start' \in 0..filled'
  BY Setting DEF TypeOK, Bytes
<1>2. Len(SubSeq(Bytes, start' + 1, filled')) = filled' - start'
  BY <1>1, BufferLength DEF Bytes
<1>3. Len(buf') = filled' - start'
  BY <1>2 DEF buf, Bytes
<1>4. Limit' = Limit
  BY DEF Limit
<1> QED
  BY <1>3, <1>4, Setting, Fragment DEF BufferBounded

(* Nothing is in the buffer at first.                                      *)
LEMMA ReaderInit ==
  ASSUME Init
  PROVE  ReaderInv
<1>1. stream \in Streams /\ stream \in Stream /\ Len(Bytes) \in Nat
  BY Sent DEF Init
<1>2. TypeOK
  <2>1. None \in Seq(Byte) /\ <<>> \in Seq(Pair)
    BY DEF None
  <2>2. filled \in 0..Len(Bytes) /\ start \in 0..filled /\ intro \in Nat /\ cancels \in Nat
    BY <1>1 DEF Init
  <2>3. at \in {"prologue", "messages", "closed"} /\ lost \in BOOLEAN
    BY Zenon DEF Init
  <2>4. local \in Seq(Byte) /\ parked \in Seq(Byte) /\ got \in Seq(Pair)
    BY <2>1, Zenon DEF Init
  <2> QED
    BY <1>1, <2>2, <2>3, <2>4, Zenon DEF Init, TypeOK
<1>3. Waiting = None
  BY DEF Init, Waiting
<1>4. HeadersHeld
  BY <1>3, Zenon DEF Init, HeadersHeld
<1>5. BufferBounded
  <2>1. Len(buf) = 0
    BY <1>2, Setting DEF Init
  <2>2. Limit \in Nat /\ MaxFragment \in Nat
    BY <1>2, Setting, Fragment
  <2>3. 0 < 8 + 2 + Limit + MaxFragment
    BY <2>2
  <2> QED
    BY <2>1, <2>3 DEF BufferBounded
<1> QED
  BY <1>2, <1>4, <1>5 DEF Init, ReaderInv

(* Some bytes arrive: only when the parser wants them.                     *)
LEMMA FillKeeps ==
  ASSUME ReaderInv, fill_more
  PROVE  ReaderInv'
<1>1. /\ at # "closed" /\ Parsed.result = "incomplete"
      /\ stream' = stream /\ start' = start /\ at' = at /\ intro' = intro /\ local' = local
      /\ parked' = parked /\ got' = got /\ error' = error /\ cancels' = cancels /\ lost' = lost
  BY DEF fill_more
<1>2. PICK k \in Fragments : filled + k <= Len(Bytes) /\ filled' = filled + k
  BY DEF fill_more
<1>3. TypeOK /\ HeadersHeld /\ error = "none"
  BY <1>1 DEF ReaderInv
<1>4. Len(buf) < 10 + Limit
  <2>1. CASE at = "prologue"
    BY <1>1, <1>3, <2>1, AtPrologue DEF HeadersHeld
  <2>2. CASE at = "messages"
    <3>1. PICK n \in 0..Len(stream.envelopes) : InStep(n)
      BY <2>2 DEF ReaderInv
    <3>2. start = Len(Written(stream)[n])
      BY <3>1, Zenon DEF InStep
    <3> QED
      BY <1>1, <1>3, <2>2, <3>2, AtMessages
  <2> QED
    BY <1>1, <1>3, <2>1, <2>2 DEF TypeOK
<1>5. TypeOK'
  <2>1. k \in Nat /\ filled \in Nat /\ start \in Nat /\ start <= filled /\ Len(Bytes) \in Nat
    BY <1>3, Fragment, Setting DEF TypeOK
  <2>2. filled' \in 0..Len(Bytes) /\ start \in 0..filled'
    BY <1>2, <2>1
  <2> QED
    BY <1>1, <1>3, <2>2 DEF TypeOK, Bytes
<1>6. BufferBounded'
  <2>1. k \in Nat /\ k <= MaxFragment /\ MaxFragment \in Nat
    BY Fragment
  <2>2. filled' - start' < 10 + Limit + MaxFragment
    <3>1. filled - start < 10 + Limit /\ filled \in Nat /\ start \in Nat /\ Limit \in Nat
      BY <1>3, <1>4, Setting
    <3> QED
      BY <1>1, <1>2, <2>1, <3>1
  <2> QED
    BY <1>1, <1>3, <1>5, <2>2, BoundKept
<1>7. HeadersHeld'
  BY <1>1, <1>3 DEF HeadersHeld, Waiting, InIntroduction, ParksHeader
<1>8. ASSUME at = "messages"
      PROVE  (\E n \in 0..Len(stream.envelopes) :
                 InStep(n) /\ (stream.expected = "AudioPlayback" => PlacedUpTo(n)))'
  <2>1. PICK n \in 0..Len(stream.envelopes) :
           InStep(n) /\ (stream.expected = "AudioPlayback" => PlacedUpTo(n))
    BY <1>8 DEF ReaderInv
  <2>2. Waiting' = Waiting /\ AtOnce' = AtOnce
    BY <1>1 DEF Waiting, AtOnce
  <2>3. InStep(n)'
    BY <1>1, <2>1, <2>2 DEF InStep
  <2>4. stream'.expected = "AudioPlayback" => PlacedUpTo(n)'
    BY <1>1, <2>1, <2>2 DEF PlacedUpTo
  <2> QED
    BY <1>1, <2>3, <2>4
<1> QED
  BY <1>1, <1>3, <1>5, <1>6, <1>7, <1>8 DEF ReaderInv

LEMMA OpenReader ==
  ASSUME ReaderInv, at = "messages"
  PROVE  /\ TypeOK /\ HeadersHeld /\ error = "none"
         /\ \E n \in 0..Len(stream.envelopes) : StandsAt(n) /\ start = Len(Written(stream)[n])
<1>1. TypeOK /\ HeadersHeld /\ error = "none"
  BY DEF ReaderInv
<1>2. PICK n \in 0..Len(stream.envelopes) :
         InStep(n) /\ (stream.expected = "AudioPlayback" => PlacedUpTo(n))
  BY DEF ReaderInv
<1>3. start = Len(Written(stream)[n])
  BY <1>2, Zenon DEF InStep
<1> QED
  BY <1>1, <1>2, <1>3 DEF StandsAt

(* At every moment what was delivered is right.                            *)
LEMMA OpenDelivered ==
  ASSUME ReaderInv, at # "closed"
  PROVE  /\ (HeaderLost => AtOnce.error = "none") => IsPrefix(got, AtOnce.got)
         /\ HeaderLost => FramesWhole
<1>1. CASE at = "prologue"
  <2>1. got = <<>> /\ ~lost
    BY <1>1 DEF ReaderInv, HeadersHeld
  <2>2. stream \in Stream
    BY Setting DEF ReaderInv
  <2>3. AtOnce.got \in Seq(Pair)
    <3>1. Len(stream.envelopes) \in 0..Len(stream.envelopes)
      BY <2>2, StreamParts
    <3>2. AtOnce \in Received
      BY <2>2, <3>1, ReadingSteps DEF AtOnce
    <3> QED
      BY <3>2 DEF Received
  <2>4. <<>> \in Seq(Pair) /\ Extends(<<>>, AtOnce.got)
    BY <2>3 DEF Extends
  <2>5. IsPrefix(<<>>, AtOnce.got)
    BY <2>3, <2>4, ExtendsIsPrefix
  <2> QED
    BY <2>1, <2>5 DEF HeaderLost
<1>2. CASE at = "messages"
  <2>1. PICK n \in 0..Len(stream.envelopes) : StandsAt(n)
    BY <1>2, OpenReader
  <2>2. TypeOK /\ HeadersHeld
    BY <1>2, OpenReader
  <2> QED
    BY <2>1, <2>2, DeliveredSoFar
<1> QED
  BY <1>1, <1>2 DEF ReaderInv, TypeOK

LEMMA EndKeeps ==
  ASSUME ReaderInv, EndsEarly \/ ResponseTimeout
  PROVE  ReaderInv'
<1>1. PICK why \in {"EndsEarly", "ResponseTimeout"} : at # "closed" /\ Fails(why)
  BY DEF EndsEarly, ResponseTimeout
<1>2. why \in Outcome /\ why \notin Fault
  BY DEF Outcome, Fault
<1> QED
  BY <1>1, <1>2, OpenDelivered, FailsKeeps

(* Reading stops with a fault where a receiver of the whole stream does.   *)
LEMMA FaultHere ==
  ASSUME TypeOK, NEW n \in 0..Len(stream.envelopes), n < Len(stream.envelopes),
         StandsAt(n), lost => AtOnce.error = "none", NEW why \in Fault,
         LET r == Reading(stream)[n]
         IN r.error = "none" /\ ~r.done
            => Receive(stream, r, stream.envelopes[n + 1]) = [r EXCEPT !.error = why]
  PROVE  why = AtOnce.error /\ got = AtOnce.got
<1> DEFINE r == Reading(stream)[n]
           q == Reading(stream)[n + 1]
<1>1. stream \in Stream
  BY Setting
<1>2. r.error = "none" /\ ~r.done /\ got = r.got
  BY Zenon DEF StandsAt, InStep
<1>3. r \in Received
  BY <1>1, ReadingSteps
<1>4. q = [r EXCEPT !.error = why]
  BY <1>1, <1>2, NextRead
<1> HIDE DEF r
<1>5. q.error = why /\ q.got = r.got
  BY <1>3, <1>4 DEF Received
<1>6. Stopped(q)
  <2>1. why # "none"
    BY DEF Fault
  <2> QED
    BY <1>5, <2>1 DEF Stopped
<1>7. AtOnce = q
  BY <1>1, <1>6, NextRead, ReadingGoesOn DEF AtOnce
<1> QED
  BY <1>2, <1>5, <1>7

(* The same for a fault in the prologue.                                   *)
LEMMA PrologueFaultHere ==
  ASSUME ReaderInv, at = "prologue", PrologueFault(stream) \in Fault
  PROVE  PrologueFault(stream) = AtOnce.error /\ got = AtOnce.got
<1>1. stream \in Stream
  BY Setting DEF ReaderInv
<1>2. Reading(stream)[0] = Opening(stream)
  BY <1>1, ReadingSteps
<1>3. Opening(stream).error = PrologueFault(stream) /\ Opening(stream).got = <<>>
  BY DEF Opening
<1>4. Stopped(Opening(stream))
  <2>1. PrologueFault(stream) # "none"
    BY DEF Fault
  <2> QED
    BY <1>3, <2>1 DEF Stopped
<1>5. 0 \in 0..Len(stream.envelopes)
  BY <1>1, StreamParts
<1>6. AtOnce = Opening(stream)
  BY <1>1, <1>2, <1>4, <1>5, ReadingGoesOn DEF AtOnce
<1> QED
  BY <1>3, <1>6 DEF ReaderInv, HeadersHeld

LEMMA ParseFailsKeeps ==
  ASSUME ReaderInv, ParseFails
  PROVE  ReaderInv'
<1>1. at # "closed" /\ Parsed.result = "error" /\ Fails(Parsed.error)
  BY DEF ParseFails
<1>2. TypeOK /\ HeadersHeld
  BY DEF ReaderInv
<1>3. CASE at = "prologue"
  <2>1. Parsed.error = PrologueFault(stream) /\ PrologueFault(stream) \in Fault
    BY <1>1, <1>2, <1>3, AtPrologue DEF HeadersHeld
  <2>2. Parsed.error \in Outcome
    BY <2>1 DEF Outcome
  <2> QED
    BY <1>1, <1>3, <2>1, <2>2, OpenDelivered, PrologueFaultHere, FailsKeeps
<1>4. CASE at = "messages"
  <2>1. PICK n \in 0..Len(stream.envelopes) : StandsAt(n) /\ start = Len(Written(stream)[n])
    BY <1>4, OpenReader
  <2> DEFINE e == stream.envelopes[n + 1]
             why == "LengthExceedsLimit"
  <2>2. Parsed.error = why /\ n < Len(stream.envelopes) /\ Len(e.body) > Limit
    BY <1>1, <1>2, <1>4, <2>1, AtMessages
  <2>3. why \in Fault /\ why \in Outcome
    BY DEF Fault, Outcome
  <2>4. ASSUME ~lost PROVE why = AtOnce.error /\ got = AtOnce.got
    <3> DEFINE r == Reading(stream)[n]
    <3>1. r.error = "none" /\ ~r.done => Receive(stream, r, e) = [r EXCEPT !.error = why]
      BY <2>2, Zenon DEF Receive, Limit
    <3> QED
      BY <1>2, <2>1, <2>2, <2>3, <2>4, <3>1, FaultHere
  <2>5. HeaderLost <=> lost
    BY <1>2, <2>1, DeliveredSoFar
  <2> QED
    BY <1>1, <2>2, <2>3, <2>4, <2>5, OpenDelivered, FailsKeeps
<1> QED
  BY <1>1, <1>2, <1>3, <1>4 DEF TypeOK

LEMMA MoveKeeps ==
  ASSUME TypeOK, BufferBounded, stream' = stream, filled' = filled, NEW c \in Nat,
         c <= Len(buf), start' = start + c, at' \in {"messages", "closed"}, error' = error,
         intro' \in Nat, cancels' = cancels, lost' = lost, local' \in Seq(Byte),
         parked' \in Seq(Byte), got' \in Seq(Pair)
  PROVE  TypeOK' /\ BufferBounded'
<1>1. /\ filled \in Nat /\ start \in Nat /\ Len(buf) = filled - start /\ Limit \in Nat
      /\ MaxFragment \in Nat
  BY Setting, Fragment
<1>2. start' \in 0..filled'
  BY <1>1
<1>3. TypeOK'
  BY <1>2 DEF TypeOK, Bytes
<1>4. filled' - start' < 10 + Limit + MaxFragment
  <2>1. filled - start < 8 + 2 + Limit + MaxFragment
    BY <1>1 DEF BufferBounded
  <2> QED
    BY <1>1, <2>1
<1> QED
  BY <1>3, <1>4, BoundKept

LEMMA PrologueKeeps ==
  ASSUME ReaderInv, read_prologue
  PROVE  ReaderInv'
<1>1. at = "prologue" /\ Parsed.result = "ok"
  BY DEF read_prologue
<1>2. TypeOK /\ HeadersHeld /\ error = "none" /\ BufferBounded
  BY <1>1 DEF ReaderInv
<1>3. start = 0 /\ intro = 0 /\ got = <<>> /\ Waiting = None /\ ~lost
  BY <1>1, <1>2 DEF HeadersHeld
<1>4. CASE Parsed.kind # stream.expected
  <2>1. Fails("WrongStreamKind")
    BY <1>4 DEF read_prologue
  <2>2. PrologueFault(stream) = "WrongStreamKind"
    BY <1>1, <1>2, <1>3, <1>4, AtPrologue
  <2>3. PrologueFault(stream) \in Fault /\ "WrongStreamKind" \in Outcome
    BY <2>2 DEF Fault, Outcome
  <2> QED
    BY <1>1, <2>1, <2>2, <2>3, OpenDelivered, PrologueFaultHere, FailsKeeps
<1>5. CASE Parsed.kind = stream.expected
  <2>1. /\ start' = start + Parsed.consumed /\ at' = "messages"
        /\ stream' = stream /\ filled' = filled /\ intro' = intro /\ local' = local
        /\ parked' = parked /\ got' = got /\ error' = error /\ cancels' = cancels /\ lost' = lost
    BY <1>5 DEF read_prologue
  <2>2. /\ PrologueFault(stream) = "none" /\ Parsed.consumed = Len(Written(stream)[0])
        /\ Parsed.consumed \in Nat /\ Parsed.consumed <= Len(buf)
    BY <1>1, <1>2, <1>3, <1>5, AtPrologue
  <2>3. TypeOK' /\ BufferBounded'
    <3>1. intro \in Nat /\ local \in Seq(Byte) /\ parked \in Seq(Byte) /\ got \in Seq(Pair)
      BY <1>2 DEF TypeOK
    <3> QED
      BY <1>2, <2>1, <2>2, <3>1, MoveKeeps
  <2>4. Waiting' = None /\ ParksHeader' = ParksHeader
    BY <1>3, <2>1 DEF Waiting, ParksHeader
  <2>5. HeadersHeld'
    BY <1>2, <1>3, <2>1, <2>4 DEF HeadersHeld
  <2>6. stream \in Stream
    BY <1>2, Setting
  <2>7. InStep(0)'
    <3>1. Reading(stream)[0] = Opening(stream)
      BY <2>6, ReadingSteps
    <3>2. /\ Opening(stream).error = "none" /\ Opening(stream).done = FALSE
          /\ Opening(stream).n = 0 /\ Opening(stream).got = <<>> /\ Opening(stream).header = None
      BY <2>2 DEF Opening
    <3>3. start' = Len(Written(stream)[0])
      BY <1>3, <2>1, <2>2
    <3> QED
      BY <1>3, <2>1, <2>4, <3>1, <3>2, <3>3, Zenon DEF InStep
  <2>8. PlacedUpTo(0)'
    <3> DEFINE place == [i \in DOMAIN got' |-> 2]
    <3>1. DOMAIN got' = {}
      BY <1>3, <2>1
    <3>2. place \in [DOMAIN got' -> 2..0]
      BY <3>1
    <3> QED
      BY <2>4, <3>1, <3>2 DEF PlacedUpTo
  <2>9. 0 \in 0..Len(stream'.envelopes)
    BY <2>1, <2>6, StreamParts
  <2> QED
    BY <1>2, <2>1, <2>3, <2>5, <2>7, <2>8, <2>9 DEF ReaderInv
<1> QED
  BY <1>4, <1>5

(* An envelope has arrived.                                                *)
LEMMA Arrival ==
  ASSUME ReaderInv, at = "messages", Parsed.result = "ok"
  PROVE  /\ TypeOK /\ HeadersHeld /\ error = "none" /\ BufferBounded /\ stream \in Stream
         /\ Parsed.consumed \in Nat /\ Parsed.consumed <= Len(buf)
         /\ \E n \in 0..Len(stream.envelopes) :
               LET e == stream.envelopes[n + 1]
               IN /\ StandsAt(n) /\ n < Len(stream.envelopes)
                  /\ n + 1 \in 0..Len(stream.envelopes)
                  /\ start + Parsed.consumed = Len(Written(stream)[n + 1])
                  /\ ~(Len(e.body) > Limit)
                  /\ Parsed.payload = e.body /\ e.body \in Seq(Byte) /\ Types = {e.type}
<1>1. TypeOK /\ HeadersHeld /\ error = "none" /\ BufferBounded
  BY DEF ReaderInv
<1>2. stream \in Stream
  BY <1>1, Setting
<1>3. PICK n \in 0..Len(stream.envelopes) : StandsAt(n) /\ start = Len(Written(stream)[n])
  BY OpenReader
<1> DEFINE e == stream.envelopes[n + 1]
<1>4. /\ Parsed.consumed \in Nat /\ Parsed.consumed <= Len(buf)
      /\ n < Len(stream.envelopes) /\ ~(Len(e.body) > Limit)
      /\ start + Parsed.consumed = Len(Written(stream)[n + 1])
      /\ Parsed.payload = e.body /\ Types = {e.type}
  BY <1>1, <1>3, AtMessages
<1>5. n + 1 \in 0..Len(stream.envelopes) /\ n + 1 \in 1..Len(stream.envelopes)
  BY <1>2, <1>4, NextRead
<1>6. e.body \in Seq(Byte)
  BY <1>2, <1>5, StreamParts DEF Body
<1> QED
  BY <1>1, <1>2, <1>3, <1>4, <1>5, <1>6

LEMMA AudioReceiver ==
  /\ Receiver["AudioPlayback"].header = {"AUDIO_FRAME_HEADER"}
  /\ Receiver["AudioPlayback"].payload = {"AUDIO_FRAME_PAYLOAD"}
  BY DEF Receiver, accept_audio_stream

(* Where a header was lost, the stream goes on with its payload, which the *)
(* reader does not accept; what it does accept is an error of the stream.  *)
LEMMA LostHeader ==
  ASSUME TypeOK, HeadersHeld, at = "messages", lost,
         NEW n \in 0..Len(stream.envelopes), n < Len(stream.envelopes), StandsAt(n),
         ~(Len(stream.envelopes[n + 1].body) > Limit),
         stream.envelopes[n + 1].type \in Expected(stream.expected, intro, Waiting)
  PROVE  AtOnce.error # "none"
<1> SUFFICES ASSUME AtOnce.error = "none" PROVE FALSE
  OBVIOUS
<1> DEFINE r == Reading(stream)[n]
           e == stream.envelopes[n + 1]
           why == "UnexpectedMessage"
<1>1. stream.expected = "AudioPlayback" /\ ~Introduces("AudioPlayback", intro)
  BY DEF HeadersHeld, InIntroduction
<1>2. /\ r.error = "none" /\ ~r.done /\ intro = r.n
      /\ Waiting = None /\ r.header # None
  BY Zenon DEF StandsAt, InStep
<1>3. Framed("AudioPlayback")
  BY AudioReceiver DEF Framed
<1>4. Expected("AudioPlayback", intro, None) = {"AUDIO_FRAME_HEADER"}
  BY <1>1, <1>3, AudioReceiver, Zenon DEF Expected
<1>5. Expected("AudioPlayback", r.n, r.header) = {"AUDIO_FRAME_PAYLOAD"}
  BY <1>1, <1>2, AudioReceiver, Zenon DEF Expected
<1>6. e.type \notin Expected(stream.expected, r.n, r.header)
  BY <1>1, <1>2, <1>4, <1>5
<1>7. Receive(stream, r, e) = [r EXCEPT !.error = why]
  BY <1>2, <1>6, Zenon DEF Receive, Limit
<1>8. why \in Fault /\ why # "none"
  BY DEF Fault
<1>9. why = AtOnce.error
  BY <1>7, <1>8, FaultHere
<1> QED
  BY <1>8, <1>9

LEMMA UnexpectedKeeps ==
  ASSUME ReaderInv, UnexpectedMessage
  PROVE  ReaderInv'
<1> DEFINE why == "UnexpectedMessage"
<1>1. /\ at = "messages" /\ Parsed.result = "ok" /\ Fails(why)
      /\ ~(Types \cap Expected(stream.expected, intro, Waiting) # {})
  BY Zenon DEF UnexpectedMessage, Arrived
<1>2. TypeOK /\ HeadersHeld
  BY DEF ReaderInv
<1>3. PICK n \in 0..Len(stream.envelopes) :
         LET e == stream.envelopes[n + 1]
         IN StandsAt(n) /\ n < Len(stream.envelopes) /\ ~(Len(e.body) > Limit) /\ Types = {e.type}
  BY <1>1, Arrival
<1> DEFINE e == stream.envelopes[n + 1]
           r == Reading(stream)[n]
<1>4. why \in Fault /\ why \in Outcome
  BY DEF Fault, Outcome
<1>5. ASSUME ~lost PROVE why = AtOnce.error /\ got = AtOnce.got
  <2>1. intro = r.n /\ Waiting = r.header
    BY <1>3, <1>5, Zenon DEF StandsAt, InStep
  <2>2. e.type \notin Expected(stream.expected, r.n, r.header)
    BY <1>1, <1>3, <2>1
  <2>3. r.error = "none" /\ ~r.done => Receive(stream, r, e) = [r EXCEPT !.error = why]
    BY <1>3, <2>2, Zenon DEF Receive, Limit
  <2> QED
    BY <1>2, <1>3, <1>4, <1>5, <2>3, FaultHere
<1>6. HeaderLost <=> lost
  BY <1>2, <1>3, DeliveredSoFar
<1> QED
  BY <1>1, <1>4, <1>5, <1>6, OpenDelivered, FailsKeeps

(* What the next envelope makes of the whole stream's receiver when it is  *)
(* in step with the reader.                                                *)
LEMMA InStepReceive ==
  ASSUME TypeOK, NEW n \in 0..Len(stream.envelopes), n < Len(stream.envelopes), StandsAt(n),
         ~lost, ~(Len(stream.envelopes[n + 1].body) > Limit),
         stream.envelopes[n + 1].type \in Expected(stream.expected, intro, Waiting)
  PROVE  LET r == Reading(stream)[n]
             q == Reading(stream)[n + 1]
             e == stream.envelopes[n + 1]
         IN /\ r \in Received /\ r.error = "none" /\ ~r.done
            /\ intro = r.n /\ got = r.got /\ Waiting = r.header
            /\ q = Receive(stream, r, e)
            /\ q = IF InIntroduction
                   THEN IF RequestIdsAgree(e.type, stream.context_id, e.body)
                        THEN [r EXCEPT !.n = @ + 1, !.done = NothingToRequest(stream.expected, e.body)]
                        ELSE [r EXCEPT !.error = "RequestIdMismatch"]
                   ELSE IF Framed(stream.expected) /\ Waiting = None
                        THEN [r EXCEPT !.header = e.body]
                   ELSE IF ~LengthsAgree(Waiting, e.body)
                        THEN [r EXCEPT !.error = "FrameLengthMismatch"]
                   ELSE [r EXCEPT !.got = Append(@, <<Waiting, e.body>>), !.header = None,
                                  !.done = Stops(stream.expected, e.type)]
<1> DEFINE r == Reading(stream)[n]
           q == Reading(stream)[n + 1]
           e == stream.envelopes[n + 1]
<1>1. stream \in Stream
  BY Setting
<1>2. r \in Received
  BY <1>1, ReadingSteps
<1>3. r.error = "none" /\ ~r.done /\ intro = r.n /\ got = r.got /\ Waiting = r.header
  BY Zenon DEF StandsAt, InStep
<1>4. q = Receive(stream, r, e)
  BY <1>1, NextRead
<1>5. e.type \in Expected(stream.expected, r.n, r.header) /\ ~(Len(e.body) > Limit)
  BY <1>3
<1> HIDE DEF q, r, e
<1>6. Receive(stream, r, e) =
        IF Introduces(stream.expected, r.n)
        THEN IF RequestIdsAgree(e.type, stream.context_id, e.body)
             THEN [r EXCEPT !.n = @ + 1, !.done = NothingToRequest(stream.expected, e.body)]
             ELSE [r EXCEPT !.error = "RequestIdMismatch"]
        ELSE IF Framed(stream.expected) /\ r.header = None
             THEN [r EXCEPT !.header = e.body]
        ELSE IF ~LengthsAgree(r.header, e.body)
             THEN [r EXCEPT !.error = "FrameLengthMismatch"]
        ELSE [r EXCEPT !.got = Append(@, <<r.header, e.body>>), !.header = None,
                       !.done = Stops(stream.expected, e.type)]
  BY <1>3, <1>5, Zenon DEF Receive, Limit
<1>7. q = IF InIntroduction
          THEN IF RequestIdsAgree(e.type, stream.context_id, e.body)
               THEN [r EXCEPT !.n = @ + 1, !.done = NothingToRequest(stream.expected, e.body)]
               ELSE [r EXCEPT !.error = "RequestIdMismatch"]
          ELSE IF Framed(stream.expected) /\ Waiting = None
               THEN [r EXCEPT !.header = e.body]
          ELSE IF ~LengthsAgree(Waiting, e.body)
               THEN [r EXCEPT !.error = "FrameLengthMismatch"]
          ELSE [r EXCEPT !.got = Append(@, <<Waiting, e.body>>), !.header = None,
                         !.done = Stops(stream.expected, e.type)]
  BY <1>3, <1>4, <1>6, Zenon DEF InIntroduction
<1> QED
  BY <1>2, <1>3, <1>4, <1>7, Zenon DEF q, r, e

(* An item of the introduction.                                            *)
LEMMA IntroductionKeeps ==
  ASSUME ReaderInv, ReadIntroduction
  PROVE  ReaderInv'
<1>1. /\ at = "messages" /\ Parsed.result = "ok" /\ InIntroduction
      /\ Types \cap Expected(stream.expected, intro, Waiting) # {}
  BY Zenon DEF ReadIntroduction, Arrived
<1>2. /\ TypeOK /\ HeadersHeld /\ error = "none" /\ BufferBounded /\ stream \in Stream
      /\ Parsed.consumed \in Nat /\ Parsed.consumed <= Len(buf)
  BY <1>1, Arrival
<1>3. PICK n \in 0..Len(stream.envelopes) :
         LET e == stream.envelopes[n + 1]
         IN /\ StandsAt(n) /\ n < Len(stream.envelopes) /\ n + 1 \in 0..Len(stream.envelopes)
            /\ start + Parsed.consumed = Len(Written(stream)[n + 1])
            /\ ~(Len(e.body) > Limit) /\ Parsed.payload = e.body /\ Types = {e.type}
  BY <1>1, Arrival
<1> DEFINE e == stream.envelopes[n + 1]
           r == Reading(stream)[n]
           q == Reading(stream)[n + 1]
           item == Receiver[stream.expected].intro[intro + 1]
           ok == RequestIdsAgree(item, stream.context_id, e.body)
           nothing == NothingToRequest(stream.expected, e.body)
<1>4. ~lost /\ Waiting = None
  BY <1>1, <1>2 DEF HeadersHeld
<1>5. e.type \in Expected(stream.expected, intro, Waiting)
  BY <1>1, <1>3
<1>6. e.type = item
  BY <1>1, <1>5 DEF Expected, InIntroduction
<1>7. /\ r \in Received /\ r.error = "none" /\ ~r.done
      /\ intro = r.n /\ got = r.got /\ Waiting = r.header
      /\ q = Receive(stream, r, e)
      /\ q = IF ok THEN [r EXCEPT !.n = @ + 1, !.done = nothing]
             ELSE [r EXCEPT !.error = "RequestIdMismatch"]
  BY <1>1, <1>2, <1>3, <1>4, <1>5, <1>6, InStepReceive
<1>8. HeaderLost <=> lost
  BY <1>2, <1>3, DeliveredSoFar
<1>9. CASE ~ok
  <2> DEFINE why == "RequestIdMismatch"
  <2>1. Fails(why)
    BY <1>3, <1>9, Zenon DEF ReadIntroduction
  <2>2. why \in Fault /\ why \in Outcome
    BY DEF Fault, Outcome
  <2>3. Receive(stream, r, e) = [r EXCEPT !.error = why]
    BY <1>7, <1>9
  <2>4. why = AtOnce.error /\ got = AtOnce.got
    BY <1>2, <1>3, <1>4, <2>2, <2>3, FaultHere
  <2> QED
    BY <1>1, <1>8, <2>1, <2>2, <2>4, OpenDelivered, FailsKeeps
<1>10. CASE ok
  <2>1. /\ start' = start + Parsed.consumed /\ intro' = intro + 1
        /\ at' = (IF nothing THEN "closed" ELSE at)
        /\ stream' = stream /\ filled' = filled /\ local' = local /\ parked' = parked
        /\ got' = got /\ error' = error /\ cancels' = cancels /\ lost' = lost
    BY <1>3, <1>10, Zenon DEF ReadIntroduction
  <2>2. TypeOK' /\ BufferBounded'
    <3>1. /\ intro \in Nat /\ intro + 1 \in Nat /\ local \in Seq(Byte) /\ parked \in Seq(Byte)
          /\ got \in Seq(Pair)
      BY <1>2 DEF TypeOK
    <3>2. at' \in {"messages", "closed"}
      BY <1>1, <2>1
    <3> HIDE DEF nothing
    <3> QED
      BY <1>2, <2>1, <3>1, <3>2, MoveKeeps
  <2>3. Waiting' = None /\ ParksHeader' = ParksHeader
    BY <1>4, <2>1 DEF Waiting, ParksHeader
  <2>4. at' # "prologue" /\ ~lost'
    BY <1>1, <1>4, <2>1
  <2>5. HeadersHeld'
    BY <1>2, <2>1, <2>3, <2>4, Zenon DEF HeadersHeld
  <2>6. CASE nothing
    <3>1. at' = "closed" /\ error' = "none"
      BY <1>2, <2>1, <2>6
    <3>2. (HeaderLost => AtOnce.error = "none") => IsPrefix(got, AtOnce.got)
      BY <1>1, OpenDelivered
    <3>3. AtOnce' = AtOnce /\ ~HeaderLost' /\ ~HeaderLost
      BY <1>4, <2>1 DEF AtOnce, HeaderLost
    <3>4. MessagesAsSent'
      BY <2>1, <3>1, <3>2, <3>3, Zenon DEF MessagesAsSent
    <3> QED
      BY <2>2, <2>5, <3>1, <3>4 DEF ReaderInv
  <2>7. CASE ~nothing
    <3>1. at' = "messages"
      BY <1>1, <2>1, <2>7
    <3>2. q = [r EXCEPT !.n = @ + 1, !.done = nothing]
      BY <1>7, <1>10
    <3>3. /\ q.error = "none" /\ q.n = r.n + 1 /\ q.got = r.got /\ q.header = r.header
          /\ q.done = nothing
      <4> HIDE DEF r, q, nothing
      <4> QED
        BY <1>7, <3>2 DEF Received
    <3>4. InStep(n + 1)'
      <4>1. start' = Len(Written(stream)[n + 1])
        BY <1>3, <2>1
      <4>2. intro' = q.n /\ got' = q.got /\ Waiting' = q.header /\ ~q.done
        <5> HIDE DEF r, q, nothing
        <5> QED
          BY <1>4, <1>7, <2>1, <2>3, <2>7, <3>3
      <4>3. q = Reading(stream')[n + 1]
        BY <2>1
      <4> HIDE DEF q, r
      <4> QED
        BY <2>1, <2>4, <3>3, <4>1, <4>2, <4>3, Zenon DEF InStep
    <3>5. stream'.expected = "AudioPlayback" => PlacedUpTo(n + 1)'
      <4> SUFFICES ASSUME stream.expected = "AudioPlayback" PROVE PlacedUpTo(n + 1)'
        BY <2>1
      <4>1. PICK place \in [DOMAIN got -> 2..n] :
              /\ \A i, j \in DOMAIN got : i < j => place[i] < place[j]
              /\ \A i \in DOMAIN got :
                    got[i] = <<stream.envelopes[place[i] - 1].body, stream.envelopes[place[i]].body>>
        BY <1>3 DEF StandsAt, PlacedUpTo
      <4>2. place \in [DOMAIN got -> 2..n + 1]
        OBVIOUS
      <4> QED
        BY <2>1, <2>3, <4>1, <4>2 DEF PlacedUpTo
    <3> QED
      BY <1>2, <1>3, <2>1, <2>2, <2>5, <3>1, <3>4, <3>5 DEF ReaderInv
  <2> QED
    BY <2>6, <2>7
<1> QED
  BY <1>9, <1>10

(* A frame's header.                                                       *)
LEMMA HeaderKeeps ==
  ASSUME ReaderInv, ReadHeader
  PROVE  ReaderInv'
<1>1. /\ at = "messages" /\ Parsed.result = "ok" /\ ~InIntroduction
      /\ Framed(stream.expected) /\ Waiting = None
      /\ Types \cap Expected(stream.expected, intro, Waiting) # {}
  BY Zenon DEF ReadHeader, Arrived
<1>2. /\ TypeOK /\ HeadersHeld /\ error = "none" /\ BufferBounded /\ stream \in Stream
      /\ Parsed.consumed \in Nat /\ Parsed.consumed <= Len(buf)
  BY <1>1, Arrival
<1>3. PICK n \in 0..Len(stream.envelopes) :
         LET e == stream.envelopes[n + 1]
         IN /\ StandsAt(n) /\ n < Len(stream.envelopes) /\ n + 1 \in 0..Len(stream.envelopes)
            /\ start + Parsed.consumed = Len(Written(stream)[n + 1])
            /\ ~(Len(e.body) > Limit) /\ Parsed.payload = e.body /\ e.body \in Seq(Byte)
            /\ Types = {e.type}
  BY <1>1, Arrival
<1> DEFINE e == stream.envelopes[n + 1]
           r == Reading(stream)[n]
           q == Reading(stream)[n + 1]
<1>4. e.type \in Expected(stream.expected, intro, Waiting)
  BY <1>1, <1>3
<1>5. /\ start' = start + Parsed.consumed
      /\ local' = (IF ParksHeader THEN None ELSE e.body)
      /\ parked' = (IF ParksHeader THEN e.body ELSE None)
      /\ stream' = stream /\ filled' = filled /\ at' = at /\ intro' = intro /\ got' = got
      /\ error' = error /\ cancels' = cancels /\ lost' = lost
  BY <1>3, Zenon DEF ReadHeader
<1>6. Waiting' = e.body /\ ParksHeader' = ParksHeader /\ InIntroduction' = InIntroduction
  BY <1>5, Zenon DEF Waiting, ParksHeader, InIntroduction
<1>7. TypeOK' /\ BufferBounded'
  <2>1. intro \in Nat /\ got \in Seq(Pair) /\ None \in Seq(Byte)
    BY <1>2 DEF TypeOK, None
  <2>2. local' \in Seq(Byte) /\ parked' \in Seq(Byte)
    BY <1>3, <1>5, <2>1
  <2>3. at' \in {"messages", "closed"}
    BY <1>1, <1>5
  <2> QED
    BY <1>2, <1>5, <2>1, <2>2, <2>3, MoveKeeps
<1>8. HeadersHeld'
  <2>1. at' = "messages" /\ at' # "prologue"
    BY <1>1, <1>5
  <2> QED
    BY <1>1, <1>2, <1>5, <1>6, <2>1, Zenon DEF HeadersHeld
<1>9. InStep(n + 1)'
  <2>1. start' = Len(Written(stream)[n + 1])
    BY <1>3, <1>5
  <2>2. CASE lost
    <3>1. AtOnce.error # "none"
      BY <1>1, <1>2, <1>3, <1>4, <2>2, LostHeader
    <3>2. AtOnce' = AtOnce
      BY <1>5 DEF AtOnce
    <3> QED
      BY <1>5, <2>1, <2>2, <3>1, <3>2, Zenon DEF InStep
  <2>3. CASE ~lost
    <3>1. /\ r \in Received /\ r.error = "none" /\ ~r.done
          /\ intro = r.n /\ got = r.got
          /\ q = [r EXCEPT !.header = e.body]
      BY <1>1, <1>2, <1>3, <1>4, <2>3, InStepReceive
    <3>2. q = Reading(stream')[n + 1]
      BY <1>5
    <3> HIDE DEF q, r, e
    <3>3. /\ q.error = r.error /\ q.done = r.done /\ q.n = r.n /\ q.got = r.got
          /\ q.header = e.body
      BY <3>1 DEF Received
    <3> QED
      BY <1>5, <1>6, <2>1, <2>3, <3>1, <3>2, <3>3, Zenon DEF InStep
  <2> QED
    BY <2>2, <2>3
<1>10. stream'.expected = "AudioPlayback" => PlacedUpTo(n + 1)'
  <2> SUFFICES ASSUME stream.expected = "AudioPlayback" PROVE PlacedUpTo(n + 1)'
    BY <1>5
  <2>1. PICK place \in [DOMAIN got -> 2..n] :
          /\ \A i, j \in DOMAIN got : i < j => place[i] < place[j]
          /\ \A i \in DOMAIN got :
                got[i] = <<stream.envelopes[place[i] - 1].body, stream.envelopes[place[i]].body>>
    BY <1>3 DEF StandsAt, PlacedUpTo
  <2>2. place \in [DOMAIN got -> 2..n + 1]
    OBVIOUS
  <2>3. \A i \in DOMAIN got : place[i] < n + 1
    OBVIOUS
  <2>4. n + 1 > 0 /\ Waiting' = stream'.envelopes[n + 1].body
    BY <1>5, <1>6
  <2> QED
    BY <1>5, <2>1, <2>2, <2>3, <2>4 DEF PlacedUpTo
<1> QED
  BY <1>1, <1>2, <1>3, <1>5, <1>7, <1>8, <1>9, <1>10 DEF ReaderInv

(* A message, or the payload of a frame.                                   *)
LEMMA MessageKeeps ==
  ASSUME ReaderInv, ReadMessage
  PROVE  ReaderInv'
<1>1. /\ at = "messages" /\ Parsed.result = "ok" /\ ~InIntroduction
      /\ Framed(stream.expected) => Waiting # None
      /\ Types \cap Expected(stream.expected, intro, Waiting) # {}
  BY Zenon DEF ReadMessage, Arrived
<1>2. /\ TypeOK /\ HeadersHeld /\ error = "none" /\ BufferBounded /\ stream \in Stream
      /\ Parsed.consumed \in Nat /\ Parsed.consumed <= Len(buf)
  BY <1>1, Arrival
<1>3. PICK n \in 0..Len(stream.envelopes) :
         LET e == stream.envelopes[n + 1]
         IN /\ StandsAt(n) /\ n < Len(stream.envelopes) /\ n + 1 \in 0..Len(stream.envelopes)
            /\ start + Parsed.consumed = Len(Written(stream)[n + 1])
            /\ ~(Len(e.body) > Limit) /\ Parsed.payload = e.body /\ e.body \in Seq(Byte)
            /\ Types = {e.type}
  BY <1>1, Arrival
<1> DEFINE e == stream.envelopes[n + 1]
           r == Reading(stream)[n]
           q == Reading(stream)[n + 1]
           msg == <<Waiting, e.body>>
           stops == Stops(stream.expected, e.type)
<1>4. e.type \in Expected(stream.expected, intro, Waiting)
  BY <1>1, <1>3
<1>5. ~lost => /\ r \in Received /\ r.error = "none" /\ ~r.done
               /\ intro = r.n /\ got = r.got
               /\ q = Receive(stream, r, e)
               /\ q = IF ~LengthsAgree(Waiting, e.body)
                      THEN [r EXCEPT !.error = "FrameLengthMismatch"]
                      ELSE [r EXCEPT !.got = Append(@, msg), !.header = None, !.done = stops]
  BY <1>1, <1>2, <1>3, <1>4, InStepReceive
<1>6. HeaderLost <=> lost
  BY <1>2, <1>3, DeliveredSoFar
<1>7. CASE ~LengthsAgree(Waiting, e.body)
  <2> DEFINE why == "FrameLengthMismatch"
  <2>1. Fails(why)
    BY <1>3, <1>7, Zenon DEF ReadMessage
  <2>2. why \in Fault /\ why \in Outcome
    BY DEF Fault, Outcome
  <2>3. ASSUME ~lost PROVE why = AtOnce.error /\ got = AtOnce.got
    <3>1. Receive(stream, r, e) = [r EXCEPT !.error = why]
      BY <1>5, <1>7, <2>3
    <3> QED
      BY <1>2, <1>3, <2>2, <2>3, <3>1, FaultHere
  <2> QED
    BY <1>1, <1>6, <2>1, <2>2, <2>3, OpenDelivered, FailsKeeps
<1>8. CASE LengthsAgree(Waiting, e.body)
  <2>1. /\ start' = start + Parsed.consumed /\ got' = Append(got, msg)
        /\ local' = None /\ parked' = None
        /\ at' = (IF \E t \in Types : Stops(stream.expected, t) THEN "closed" ELSE at)
        /\ stream' = stream /\ filled' = filled /\ intro' = intro
        /\ error' = error /\ cancels' = cancels /\ lost' = lost
    BY <1>3, <1>8, Zenon DEF ReadMessage
  <2>2. at' = IF stops THEN "closed" ELSE "messages"
    BY <1>1, <1>3, <2>1
  <2>3. Waiting' = None /\ ParksHeader' = ParksHeader /\ InIntroduction' = InIntroduction
    BY <2>1 DEF Waiting, ParksHeader, InIntroduction
  <2>4. got \in Seq(Pair) /\ msg \in Pair /\ Waiting \in Seq(Byte)
    <3>1. got \in Seq(Pair) /\ local \in Seq(Byte) /\ parked \in Seq(Byte)
      BY <1>2 DEF TypeOK
    <3>2. Waiting \in Seq(Byte)
      BY <3>1 DEF Waiting
    <3> QED
      BY <1>3, <3>1, <3>2 DEF Pair
  <2>5. /\ got' \in Seq(Pair) /\ Len(got') = Len(got) + 1 /\ got'[Len(got) + 1] = msg
        /\ \A i \in 1..Len(got) : got'[i] = got[i]
    <3> HIDE DEF msg
    <3> QED
      BY <2>1, <2>4, AppendProperties
  <2>6. TypeOK' /\ BufferBounded'
    <3>1. intro \in Nat /\ None \in Seq(Byte)
      BY <1>2 DEF TypeOK, None
    <3>2. at' \in {"messages", "closed"}
      BY <2>2
    <3>3. local' \in Seq(Byte) /\ parked' \in Seq(Byte)
      BY <2>1, <3>1
    <3> QED
      BY <1>2, <2>1, <2>5, <3>1, <3>2, <3>3, MoveKeeps
  <2>7. HeadersHeld'
    <3>1. at' # "prologue"
      BY <2>2
    <3> QED
      BY <1>1, <1>2, <2>1, <2>3, <3>1, Zenon DEF HeadersHeld
  <2>8. ~lost => /\ q.error = "none" /\ q.n = intro /\ q.got = got' /\ q.header = None
                 /\ q.done = stops
    <3> SUFFICES ASSUME ~lost
                 PROVE  /\ q.error = "none" /\ q.n = intro /\ q.got = got' /\ q.header = None
                        /\ q.done = stops
      OBVIOUS
    <3>1. /\ r \in Received /\ r.error = "none" /\ intro = r.n /\ got = r.got
          /\ q = [r EXCEPT !.got = Append(@, msg), !.header = None, !.done = stops]
      BY <1>5, <1>8
    <3> HIDE DEF r, q, msg, stops
    <3> QED
      BY <2>1, <3>1 DEF Received
  <2>9. CASE stops
    <3>1. at' = "closed" /\ error' = "none"
      BY <1>2, <2>1, <2>2, <2>9
    <3>2. stream.expected # "AudioPlayback"
      BY <2>9 DEF Stops
    <3>3. ~lost /\ ~HeaderLost'
      BY <1>2, <2>1, <3>2 DEF HeadersHeld, HeaderLost
    <3>4. Stopped(q)
      <4> HIDE DEF q, stops
      <4> QED
        BY <2>8, <2>9, <3>3, Zenon DEF Stopped
    <3>5. AtOnce' = q
      BY <1>2, <1>3, <2>1, <3>4, ReadingGoesOn DEF AtOnce
    <3>6. IsPrefix(got', AtOnce'.got)
      <4>1. AtOnce'.got = got'
        BY <2>8, <3>3, <3>5
      <4>2. Extends(got', got')
        BY <2>5 DEF Extends
      <4>3. IsPrefix(got', got')
        BY <2>5, <4>2, ExtendsIsPrefix
      <4> QED
        BY <4>1, <4>3
    <3>7. MessagesAsSent'
      BY <3>1, <3>3, <3>6, Zenon DEF MessagesAsSent
    <3> QED
      BY <2>6, <2>7, <3>1, <3>7 DEF ReaderInv
  <2>10. CASE ~stops
    <3>1. at' = "messages"
      BY <2>2, <2>10
    <3>2. InStep(n + 1)'
      <4>1. start' = Len(Written(stream)[n + 1])
        BY <1>3, <2>1
      <4>2. CASE lost
        <5>1. AtOnce.error # "none"
          BY <1>1, <1>2, <1>3, <1>4, <4>2, LostHeader
        <5>2. AtOnce' = AtOnce
          BY <2>1 DEF AtOnce
        <5> QED
          BY <2>1, <4>1, <4>2, <5>1, <5>2, Zenon DEF InStep
      <4>3. CASE ~lost
        <5>1. q = Reading(stream')[n + 1]
          BY <2>1
        <5> HIDE DEF q, stops
        <5> QED
          BY <2>1, <2>3, <2>8, <2>10, <4>1, <4>3, <5>1, Zenon DEF InStep
      <4> QED
        BY <4>2, <4>3
    <3>3. stream'.expected = "AudioPlayback" => PlacedUpTo(n + 1)'
      <4> SUFFICES ASSUME stream.expected = "AudioPlayback" PROVE PlacedUpTo(n + 1)'
        BY <2>1
      <4>1. Waiting # None
        BY <1>1, AudioReceiver DEF Framed
      <4>2. PICK place \in [DOMAIN got -> 2..n] :
              /\ \A i, j \in DOMAIN got : i < j => place[i] < place[j]
              /\ \A i \in DOMAIN got :
                    got[i] = <<stream.envelopes[place[i] - 1].body, stream.envelopes[place[i]].body>>
              /\ n > 0 /\ Waiting = stream.envelopes[n].body
        BY <1>3, <4>1 DEF StandsAt, PlacedUpTo
      <4> DEFINE l == Len(got)
                 new == [i \in 1..l + 1 |-> IF i = l + 1 THEN n + 1 ELSE place[i]]
      <4>3. DOMAIN got = 1..l /\ DOMAIN got' = 1..l + 1 /\ l \in Nat
        BY <2>4, <2>5
      <4>4. \A i \in 1..l : place[i] \in 2..n
        BY <4>2, <4>3
      <4> HIDE DEF l
      <4>5. new \in [1..l + 1 -> 2..n + 1]
        BY <4>2, <4>3, <4>4
      <4>6. ASSUME NEW i \in 1..l + 1, NEW j \in 1..l + 1, i < j PROVE new[i] < new[j]
        <5>1. i \in 1..l /\ new[i] = place[i] /\ place[i] \in 2..n
          BY <4>3, <4>4, <4>6
        <5>2. CASE j = l + 1
          BY <5>1, <5>2
        <5>3. CASE j # l + 1
          <6>1. j \in 1..l /\ new[j] = place[j]
            BY <4>3, <5>3
          <6> QED
            BY <4>2, <4>3, <4>6, <5>1, <6>1
        <5> QED
          BY <5>2, <5>3
      <4>7. ASSUME NEW i \in 1..l + 1
            PROVE  got'[i] = <<stream.envelopes[new[i] - 1].body, stream.envelopes[new[i]].body>>
        <5>1. CASE i = l + 1
          <6>1. new[i] = n + 1 /\ new[i] - 1 = n
            BY <4>3, <5>1
          <6>2. got'[i] = msg
            BY <2>5, <5>1 DEF l
          <6> QED
            BY <4>2, <6>1, <6>2
        <5>2. CASE i # l + 1
          <6>1. i \in 1..l /\ new[i] = place[i]
            BY <4>3, <5>2
          <6>2. got'[i] = got[i]
            BY <2>5, <6>1 DEF l
          <6> QED
            BY <4>2, <4>3, <6>1, <6>2
        <5> QED
          BY <5>1, <5>2
      <4> HIDE DEF new
      <4> QED
        BY <2>1, <2>3, <4>3, <4>5, <4>6, <4>7 DEF PlacedUpTo
    <3> QED
      BY <1>2, <1>3, <2>1, <2>6, <2>7, <3>1, <3>2, <3>3 DEF ReaderInv
  <2> QED
    BY <2>9, <2>10
<1> QED
  BY <1>7, <1>8

(* Only the streams of frames have headers.                                *)
LEMMA FramedKinds ==
  ASSUME NEW kind \in DOMAIN StreamKind, Framed(kind)
  PROVE  kind \in {"Video", "AudioPlayback", "AudioCapture"}
<1>1. kind \in {"Video", "AudioPlayback", "AudioCapture", "Feedback", "Input", "Clipboard",
                "File", "Control"}
  BY DEF StreamKind
<1>2. /\ Receiver["Feedback"].header = {} /\ Receiver["Input"].header = {}
      /\ Receiver["Clipboard"].header = {} /\ Receiver["File"].header = {}
      /\ Receiver["Control"].header = {}
  BY DEF Receiver, FeedbackReceiver, InputReceiver, ClipboardRequester, receive_file,
         ControlReader
<1> QED
  BY <1>1, <1>2 DEF Framed

(* Only the reader of an audio_playback stream can lose a header: the      *)
(* reader of a video stream parks it, and nothing cancels the reader of an *)
(* audio_capture stream once it reads frames.                              *)
LEMMA WhoLosesAHeader ==
  ASSUME TypeOK, HeadersHeld, Selected, at = "messages", local # None
  PROVE  stream.expected = "AudioPlayback" /\ parked = None /\ Waiting = local
<1>1. ~ParksHeader /\ parked = None /\ Waiting = local
  BY DEF HeadersHeld, Waiting
<1>2. Framed(stream.expected)
  BY <1>1 DEF HeadersHeld
<1>3. stream.expected \in DOMAIN StreamKind
  BY Setting, StreamParts
<1>4. stream.expected \in {"AudioPlayback", "AudioCapture"}
  BY <1>1, <1>2, <1>3, FramedKinds DEF ParksHeader
<1>5. stream.expected # "AudioCapture"
  BY DEF Selected
<1> QED
  BY <1>1, <1>4, <1>5

LEMMA CancelKeeps ==
  ASSUME ReaderInv, Cancel
  PROVE  ReaderInv'
<1>1. /\ at # "closed" /\ Selected
      /\ cancels' = cancels + 1 /\ lost' = (lost \/ local # None) /\ local' = None
      /\ stream' = stream /\ filled' = filled /\ start' = start /\ intro' = intro
      /\ parked' = parked /\ got' = got
  BY Zenon DEF Cancel
<1>2. at' \in {"messages", "closed"} /\ error' \in {"none", "Dropped"}
  <2>1. error = "none" /\ at \in {"prologue", "messages", "closed"}
    BY <1>1 DEF ReaderInv, TypeOK
  <2>2. CASE at = "prologue" \/ InIntroduction
    BY <2>2 DEF Cancel
  <2>3. CASE ~(at = "prologue" \/ InIntroduction)
    <3>1. at' = at /\ error' = error
      BY <2>3 DEF Cancel
    <3> QED
      BY <1>1, <2>1, <2>3, <3>1
  <2> QED
    BY <2>2, <2>3
<1>3. TypeOK /\ HeadersHeld /\ BufferBounded /\ error = "none"
  BY <1>1 DEF ReaderInv
<1>4. TypeOK'
  <2>1. lost' \in BOOLEAN
    BY <1>1, Zenon
  <2>2. None \in Seq(Byte)
    BY DEF None
  <2> QED
    BY <1>1, <1>2, <1>3, <2>1, <2>2 DEF TypeOK, Bytes
<1>5. BufferBounded'
  BY <1>1, <1>3 DEF BufferBounded, buf, Bytes, Limit
<1>6. /\ ParksHeader' = ParksHeader /\ InIntroduction' = InIntroduction
      /\ Waiting' = parked /\ AtOnce' = AtOnce
  BY <1>1 DEF ParksHeader, InIntroduction, Waiting, AtOnce
<1>7. Waiting = None <=> parked = None /\ local = None
  BY DEF Waiting
<1>8. CASE at = "prologue" \/ InIntroduction
  <2>1. at' = "closed" /\ error' = "Dropped"
    BY <1>8 DEF Cancel
  <2>2. ~lost
    BY <1>1, <1>3, <1>8 DEF HeadersHeld, TypeOK
  <2>3. Waiting = None
    BY <1>3, <1>8 DEF HeadersHeld
  <2>4. parked = None /\ local = None
    BY <1>7, <2>3
  <2>5. ~lost'
    BY <1>1, <2>2, <2>4, Zenon
  <2>6. HeadersHeld'
    BY <1>1, <1>6, <2>1, <2>4, <2>5, Zenon DEF HeadersHeld
  <2>7. IsPrefix(got, AtOnce.got)
    BY <1>1, <2>2, OpenDelivered DEF HeaderLost
  <2>8. MessagesAsSent'
    BY <1>1, <1>6, <2>1, <2>5, <2>7, Zenon DEF MessagesAsSent, HeaderLost
  <2> QED
    BY <1>4, <1>5, <2>1, <2>6, <2>8 DEF ReaderInv
<1>9. CASE ~(at = "prologue" \/ InIntroduction)
  <2>1. at = "messages" /\ at' = "messages" /\ error' = "none" /\ ~InIntroduction
    BY <1>1, <1>2, <1>3, <1>9 DEF Cancel, TypeOK
  <2>2. local # None => stream.expected = "AudioPlayback" /\ parked = None /\ Waiting = local
    BY <1>1, <1>3, <2>1, WhoLosesAHeader
  <2>3. lost' => stream.expected = "AudioPlayback"
    BY <1>1, <1>3, <2>2, Zenon DEF HeadersHeld
  <2>4. HeadersHeld'
    <3>1. ParksHeader' => local' = None
      BY <1>1
    <3>2. ~ParksHeader' => parked' = None
      BY <1>1, <1>3, <1>6 DEF HeadersHeld
    <3>3. ~Framed(stream'.expected) => Waiting' = None
      <4>1. Waiting = None => Waiting' = None
        BY <1>6, <1>7
      <4> QED
        BY <1>1, <1>3, <4>1 DEF HeadersHeld
    <3>4. ~InIntroduction'
      BY <1>6, <2>1
    <3>5. at' # "prologue"
      BY <2>1
    <3> QED
      BY <1>1, <2>3, <3>1, <3>2, <3>3, <3>4, <3>5, Zenon DEF HeadersHeld
  <2>5. PICK n \in 0..Len(stream.envelopes) :
           InStep(n) /\ (stream.expected = "AudioPlayback" => PlacedUpTo(n))
    BY <2>1 DEF ReaderInv
  <2> DEFINE r == Reading(stream)[n]
  <2>6. /\ start = Len(Written(stream)[n])
        /\ (lost => AtOnce.error = "none")
           => /\ r.error = "none" /\ ~r.done
              /\ intro = r.n /\ got = r.got
              /\ IF lost THEN Waiting = None /\ r.header # None ELSE Waiting = r.header
    BY <2>5, Zenon DEF InStep
  <2>7. InStep(n)'
    <3> SUFFICES ASSUME lost' => AtOnce.error = "none"
                 PROVE  /\ r.error = "none" /\ ~r.done /\ intro = r.n /\ got = r.got
                        /\ IF lost' THEN Waiting' = None /\ r.header # None
                           ELSE Waiting' = r.header
      BY <1>1, <1>6, <2>6, Zenon DEF InStep
    <3>1. lost => lost'
      BY <1>1, Zenon
    <3>2. /\ r.error = "none" /\ ~r.done /\ intro = r.n /\ got = r.got
          /\ IF lost THEN Waiting = None /\ r.header # None ELSE Waiting = r.header
      BY <2>6, <3>1
    <3>3. CASE lost
      <4>1. Waiting' = None
        BY <1>6, <1>7, <3>2, <3>3
      <4> QED
        BY <3>1, <3>2, <3>3, <4>1
    <3>4. CASE ~lost /\ local # None
      <4>1. lost' /\ Waiting' = None /\ r.header # None
        BY <1>1, <1>6, <2>2, <3>2, <3>4, Zenon
      <4> QED
        BY <3>2, <4>1
    <3>5. CASE ~lost /\ local = None
      <4>1. ~lost'
        BY <1>1, <3>5, Zenon
      <4>2. Waiting' = Waiting
        BY <1>6, <3>5 DEF Waiting
      <4> QED
        BY <3>2, <3>5, <4>1, <4>2
    <3> QED
      BY <3>3, <3>4, <3>5
  <2>8. stream'.expected = "AudioPlayback" => PlacedUpTo(n)'
    <3> SUFFICES ASSUME stream.expected = "AudioPlayback" PROVE PlacedUpTo(n)'
      BY <1>1
    <3>1. Waiting' = None
      BY <1>3, <1>6 DEF HeadersHeld, ParksHeader
    <3>2. PICK place \in [DOMAIN got -> 2..n] :
            /\ \A i, j \in DOMAIN got : i < j => place[i] < place[j]
            /\ \A i \in DOMAIN got :
                  got[i] = <<stream.envelopes[place[i] - 1].body, stream.envelopes[place[i]].body>>
      BY <2>5 DEF PlacedUpTo
    <3> QED
      BY <1>1, <3>1, <3>2 DEF PlacedUpTo
  <2> QED
    BY <1>1, <1>4, <1>5, <2>1, <2>4, <2>5, <2>7, <2>8 DEF ReaderInv
<1> QED
  BY <1>8, <1>9

(* A step that changes nothing.                                            *)
LEMMA StutterKeeps ==
  ASSUME ReaderInv, UNCHANGED vars
  PROVE  ReaderInv'
<1>1. /\ stream' = stream /\ filled' = filled /\ start' = start /\ at' = at /\ intro' = intro
      /\ local' = local /\ parked' = parked /\ got' = got /\ error' = error
      /\ cancels' = cancels /\ lost' = lost
  BY DEF vars
<1>2. TypeOK' /\ BufferBounded'
  BY <1>1 DEF ReaderInv, TypeOK, Bytes, BufferBounded, buf, Limit
<1>3. /\ ParksHeader' = ParksHeader /\ InIntroduction' = InIntroduction
      /\ Waiting' = Waiting /\ AtOnce' = AtOnce /\ HeaderLost' = HeaderLost
      /\ FramesWhole' = FramesWhole
  BY <1>1 DEF ParksHeader, InIntroduction, Waiting, AtOnce, HeaderLost, FramesWhole
<1>4. HeadersHeld'
  BY <1>1, <1>3, Zenon DEF ReaderInv, HeadersHeld
<1>5. at' = "closed" => MessagesAsSent'
  BY <1>1, <1>3, Zenon DEF ReaderInv, MessagesAsSent
<1>6. ASSUME at = "messages"
      PROVE  \E n \in 0..Len(stream.envelopes) :
                InStep(n)' /\ (stream.expected = "AudioPlayback" => PlacedUpTo(n)')
  <2>1. PICK n \in 0..Len(stream.envelopes) :
           InStep(n) /\ (stream.expected = "AudioPlayback" => PlacedUpTo(n))
    BY <1>6 DEF ReaderInv
  <2>2. InStep(n)'
    BY <1>1, <1>3, <2>1, Zenon DEF InStep
  <2>3. PlacedUpTo(n) => PlacedUpTo(n)'
    BY <1>1, <1>3 DEF PlacedUpTo
  <2> QED
    BY <2>1, <2>2, <2>3
<1> QED
  BY <1>1, <1>2, <1>4, <1>5, <1>6 DEF ReaderInv

(* Every reachable state satisfies the inductive invariant: an open reader *)
(* stands at the end of an envelope with what a receiver has that got all  *)
(* of the stream so far at once, but for a header it lost.                 *)
THEOREM ReaderInvariant == Spec => []ReaderInv
<1>1. Init => ReaderInv
  BY ReaderInit
<1>2. ReaderInv /\ [Next]_vars => ReaderInv'
  <2> SUFFICES ASSUME ReaderInv, [Next]_vars PROVE ReaderInv'
    OBVIOUS
  <2>1. CASE fill_more
    BY <2>1, FillKeeps
  <2>2. CASE EndsEarly \/ ResponseTimeout
    BY <2>2, EndKeeps
  <2>3. CASE ParseFails
    BY <2>3, ParseFailsKeeps
  <2>4. CASE read_prologue
    BY <2>4, PrologueKeeps
  <2>5. CASE UnexpectedMessage
    BY <2>5, UnexpectedKeeps
  <2>6. CASE ReadIntroduction
    BY <2>6, IntroductionKeeps
  <2>7. CASE ReadHeader
    BY <2>7, HeaderKeeps
  <2>8. CASE ReadMessage
    BY <2>8, MessageKeeps
  <2>9. CASE Cancel
    BY <2>9, CancelKeeps
  <2>10. CASE UNCHANGED vars
    BY <2>10, StutterKeeps
  <2> QED
    BY <2>1, <2>2, <2>3, <2>4, <2>5, <2>6, <2>7, <2>8, <2>9, <2>10 DEF Next
<1> QED
  BY <1>1, <1>2, PTL DEF Spec

(* However the bytes are cut and however often another arm of the select!  *)
(* wins, the messages delivered are those sent, whole and in order, and an *)
(* error ends the reading only where the stream has one; an audio_playback *)
(* reader that lost a header delivers no payload with another's header.    *)
(* For all streams, all their lengths, all limits and fragments.           *)
THEOREM MessagesArriveAsSent == Spec => []MessagesAsSent
<1>1. ReaderInv => MessagesAsSent
  <2> SUFFICES ASSUME ReaderInv PROVE MessagesAsSent
    OBVIOUS
  <2>1. CASE at = "closed"
    BY <2>1 DEF ReaderInv
  <2>2. CASE at # "closed"
    <3>1. error = "none"
      BY <2>2 DEF ReaderInv
    <3> QED
      BY <2>2, <3>1, OpenDelivered, Zenon DEF MessagesAsSent
  <2> QED
    BY <2>1, <2>2
<1> QED
  BY <1>1, ReaderInvariant, PTL

(* The reader holds less than one envelope of the allowed length and one   *)
(* fragment, whatever length a peer declares (envelope.rs, fill_more).     *)
THEOREM BufferIsBounded == Spec => []BufferBounded
<1>1. ReaderInv => BufferBounded
  BY DEF ReaderInv
<1> QED
  BY <1>1, ReaderInvariant, PTL
=============================================================================
