----------------------- MODULE CapturePipelineProofs ------------------------
(***************************************************************************)
(* Proofs about CapturePipeline, for both platforms, every capacity, depth *)
(* and number of pictures and Instances: an IDR carries its parameter      *)
(* sets, a frame its own capture time, no permission of the encoder is     *)
(* lost, and the chain of frames breaks only where one was dropped.        *)
(*                                                                         *)
(* The properties speak of the frame channel; CaptureInv follows a frame   *)
(* through every stage before it.                                          *)
(***************************************************************************)
EXTENDS CapturePipeline, FiniteSetTheorems, SequenceTheorems, TLAPS

-----------------------------------------------------------------------------
(* Access units *)

(* Both parameter sets, then the slice.                                    *)
LEMMA SetsThenSlice ==
  ASSUME NEW q, DOMAIN q = 1..3, q[1] = "sps", q[2] = "pps", q[3] = "idr"
  PROVE  is_self_contained_idr(q)
<1>1. contains_idr_slice(q)
  BY DEF contains_idr_slice, Range
<1>2. \A j \in 1..1 : q[j] # "idr"
  OBVIOUS
<1>3. \A j \in 1..2 : q[j] # "idr"
  <2>1. 1..2 = {1, 2}
    OBVIOUS
  <2> QED
    BY <2>1
<1> QED
  BY <1>1, <1>2, <1>3 DEF is_self_contained_idr

(* Whatever the encoder put into the stream, an IDR is self-contained once *)
(* it is completed with known parameter sets.                              *)
LEMMA CompletedIdr ==
  ASSUME NEW sets \in {NoSets, ParameterSets}, NEW out \in Output, Marked(out),
         is_idr_access_unit(out.au, out.flag),
         out.au = <<"idr">> => sets = ParameterSets
  PROVE  is_self_contained_idr(complete_idr(sets, out.au))
<1>1. out.au \in {<<"slice">>, <<"idr">>, <<"sps", "pps", "idr">>}
  BY DEF Output, AccessUnits
<1>2. CASE out.au = <<"slice">>
  <2>1. "idr" \notin Range(out.au)
    BY <1>2 DEF Range
  <2> QED
    BY <1>2, <2>1 DEF Marked, is_idr_access_unit, contains_idr_slice
<1>3. CASE out.au = <<"idr">>
  <2>1. ~contains_sps(out.au)
    BY <1>3 DEF contains_sps, Range
  <2> DEFINE p == <<"sps", "pps">>
             t == <<"idr">>
  <2>2. complete_idr(sets, out.au) = p \o t
    BY <1>3, <2>1 DEF complete_idr, ParameterSets
  <2>3. p \in Seq(NalTypes) /\ t \in Seq(NalTypes) /\ Len(p) = 2 /\ Len(t) = 1
    BY DEF NalTypes
  <2>4. p[1] = "sps" /\ p[2] = "pps" /\ t[1] = "idr"
    OBVIOUS
  <2> HIDE DEF p, t
  <2>5. /\ p \o t \in Seq(NalTypes) /\ Len(p \o t) = 3
        /\ \A i \in 1..3 : (p \o t)[i] = IF i <= 2 THEN p[i] ELSE t[i - 2]
    <3>1. /\ p \o t \in Seq(NalTypes)
          /\ Len(p \o t) = Len(p) + Len(t)
          /\ \A i \in 1..Len(p) + Len(t) : (p \o t)[i] =
                IF i <= Len(p) THEN p[i] ELSE t[i - Len(p)]
      BY <2>3, ConcatProperties, Zenon
    <3>2. Len(p) + Len(t) = 3
      BY <2>3
    <3> QED
      BY <2>3, <3>1, <3>2
  <2>6. DOMAIN (p \o t) = 1..3 /\ (p \o t)[1] = p[1] /\ (p \o t)[2] = p[2] /\ (p \o t)[3] = t[1]
    BY <2>5
  <2> QED
    BY <2>2, <2>4, <2>6, SetsThenSlice
<1>4. CASE out.au = <<"sps", "pps", "idr">>
  <2>1. DOMAIN out.au = 1..3 /\ out.au[1] = "sps" /\ out.au[2] = "pps" /\ out.au[3] = "idr"
    BY <1>4
  <2>2. contains_sps(out.au)
    BY <2>1 DEF contains_sps, Range
  <2> QED
    BY <2>1, <2>2, SetsThenSlice DEF complete_idr
<1> QED
  BY <1>1, <1>2, <1>3, <1>4

LEMMA ExtractedSets ==
  /\ \A au : extract_parameter_sets(au) \in {NoSets, ParameterSets}
  /\ extract_parameter_sets(<<"sps", "pps", "idr">>) = ParameterSets
  /\ ParameterSets # NoSets
<1> DEFINE full == <<"sps", "pps", "idr">>
<1>1. full[1] = "sps" /\ full[2] = "pps" /\ DOMAIN full = 1..3
  OBVIOUS
<1>2. {"sps", "pps"} \subseteq Range(full)
  BY <1>1 DEF Range
<1>3. ParameterSets # NoSets
  BY DEF ParameterSets, NoSets
<1> QED
  BY <1>2, <1>3 DEF extract_parameter_sets

-----------------------------------------------------------------------------
(* Counting events *)

LEMMA CountAppended ==
  ASSUME NEW S, NEW s \in Seq(S), NEW x \in S, NEW e
  PROVE  /\ Count(s, e) \in Nat
         /\ Count(Append(s, x), e) = Count(s, e) + IF x = e THEN 1 ELSE 0
<1> DEFINE A == {i \in DOMAIN s : s[i] = e}
           t == Append(s, x)
           B == {i \in DOMAIN t : t[i] = e}
<1>1. /\ DOMAIN s = 1..Len(s) /\ Len(s) \in Nat
      /\ DOMAIN t = 1..(Len(s) + 1)
      /\ \A i \in 1..Len(s) : t[i] = s[i]
      /\ t[Len(s) + 1] = x
  OBVIOUS
<1>2. IsFiniteSet(A)
  <2>1. IsFiniteSet(1..Len(s))
    BY <1>1, FS_Interval
  <2> QED
    BY <1>1, <2>1, FS_Subset
<1>3. Len(s) + 1 \notin A
  BY <1>1
<1> HIDE DEF t
<1>4. CASE x = e
  <2>1. B = A \cup {Len(s) + 1}
    BY <1>1, <1>4
  <2> QED
    BY <1>2, <1>3, <1>4, <2>1, FS_AddElement, FS_CardinalityType DEF Count, t
<1>5. CASE x # e
  <2>1. B = A
    BY <1>1, <1>5
  <2>2. Cardinality(A) \in Nat
    BY <1>2, FS_CardinalityType
  <2>3. Count(s, e) = Cardinality(A) /\ Count(t, e) = Cardinality(B)
    BY DEF Count
  <2> HIDE DEF A, B
  <2> QED
    BY <1>5, <2>1, <2>2, <2>3 DEF t
<1> QED
  BY <1>4, <1>5

LEMMA CountTail ==
  ASSUME NEW S, NEW s \in Seq(S), s # <<>>, NEW e
  PROVE  /\ Count(s, e) \in Nat
         /\ Count(Tail(s), e) = Count(s, e) - IF Head(s) = e THEN 1 ELSE 0
         /\ Head(s) = e => Count(s, e) > 0
<1> DEFINE t == Tail(s)
           A == {i \in DOMAIN s : s[i] = e}
           R == A \ {1}
           B == {i \in DOMAIN t : t[i] = e}
<1>1. /\ DOMAIN s = 1..Len(s) /\ Len(s) \in Nat \ {0}
      /\ DOMAIN t = 1..(Len(s) - 1)
      /\ \A i \in 1..(Len(s) - 1) : t[i] = s[i + 1]
      /\ s[1] = Head(s)
  OBVIOUS
<1>2. IsFiniteSet(A)
  <2>1. IsFiniteSet(1..Len(s))
    BY <1>1, FS_Interval
  <2> QED
    BY <1>1, <2>1, FS_Subset
<1>3. /\ IsFiniteSet(R) /\ Cardinality(A) \in Nat /\ Cardinality(R) \in Nat
      /\ Cardinality(R) = Cardinality(A) - IF Head(s) = e THEN 1 ELSE 0
  <2>1. 1 \in A <=> Head(s) = e
    BY <1>1
  <2>2. Cardinality(A) \in Nat
    BY <1>2, FS_CardinalityType
  <2>3. IsFiniteSet(R) /\ Cardinality(R) = IF 1 \in A THEN Cardinality(A) - 1 ELSE Cardinality(A)
    BY <1>2, FS_RemoveElement
  <2>4. Cardinality(R) \in Nat
    BY <2>3, FS_CardinalityType
  <2> HIDE DEF A, R
  <2> QED
    BY <2>1, <2>2, <2>3, <2>4
<1> HIDE DEF t
<1>4. ExistsBijection(R, B)
  <2> DEFINE f == [i \in R |-> i - 1]
  <2>1. \A i \in R : i \in 2..Len(s) /\ i - 1 \in B
    BY <1>1
  <2>2. f \in [R -> B]
    BY <2>1
  <2>3. \A j \in B : j + 1 \in R /\ f[j + 1] = j
    BY <1>1
  <2>4. \A i, j \in R : f[i] = f[j] => i = j
    BY <2>1
  <2>5. f \in Injection(R, B)
    BY <2>2, <2>4 DEF Injection, IsInjective
  <2>6. f \in Surjection(R, B)
    BY <2>2, <2>3 DEF Surjection
  <2> QED
    BY <2>5, <2>6 DEF ExistsBijection, Bijection
<1>5. Cardinality(B) = Cardinality(R)
  BY <1>3, <1>4, FS_Bijection
<1>6. Count(s, e) = Cardinality(A) /\ Count(t, e) = Cardinality(B)
  BY DEF Count
<1> HIDE DEF A, R, B
<1> QED
  BY <1>3, <1>5, <1>6 DEF t

-----------------------------------------------------------------------------
(* Windows: the pending times and the places of the encoder *)

Events == {"NeedInput", "HaveOutput"}

LEMMA AlignedTaken ==
  ASSUME NEW p \in Seq(Nat), NEW d \in Seq(Output), NEW w \in Seq(Input), Aligned(p, d, w), d # <<>>
  PROVE  p # <<>> /\ Head(p) = d[1].picture /\ Aligned(Tail(p), Tail(d), w)
<1>1. /\ Len(p) = Len(d) + Len(w)
      /\ \A i \in DOMAIN d : p[i] = d[i].picture
      /\ \A i \in DOMAIN w : p[Len(d) + i] = w[i].picture
  BY DEF Aligned
<1>2. /\ DOMAIN d = 1..Len(d) /\ DOMAIN w = 1..Len(w) /\ DOMAIN p = 1..Len(p)
      /\ Len(d) \in Nat \ {0} /\ Len(w) \in Nat /\ Len(p) \in Nat
  OBVIOUS
<1>3. p # <<>> /\ Head(p) = p[1]
  BY <1>1, <1>2
<1>4. /\ Len(Tail(p)) = Len(p) - 1 /\ Len(Tail(d)) = Len(d) - 1
      /\ DOMAIN Tail(d) = 1..(Len(d) - 1)
      /\ \A i \in 1..(Len(p) - 1) : Tail(p)[i] = p[i + 1]
      /\ \A i \in 1..(Len(d) - 1) : Tail(d)[i] = d[i + 1]
  BY <1>2, <1>3
<1>5. Len(Tail(p)) = Len(Tail(d)) + Len(w)
  BY <1>1, <1>2, <1>4
<1>6. ASSUME NEW i \in DOMAIN Tail(d) PROVE Tail(p)[i] = Tail(d)[i].picture
  <2>1. i \in 1..(Len(d) - 1) /\ i \in 1..(Len(p) - 1) /\ i + 1 \in DOMAIN d
    BY <1>1, <1>2, <1>4
  <2> QED
    BY <1>1, <1>4, <2>1
<1>7. ASSUME NEW i \in DOMAIN w PROVE Tail(p)[Len(Tail(d)) + i] = w[i].picture
  <2>1. i \in 1..Len(w) /\ Len(Tail(d)) + i \in 1..(Len(p) - 1)
        /\ Len(Tail(d)) + i + 1 = Len(d) + i
    BY <1>1, <1>2, <1>4
  <2>2. Tail(p)[Len(Tail(d)) + i] = p[Len(Tail(d)) + i + 1]
    BY <1>4, <2>1
  <2> QED
    BY <1>1, <2>1, <2>2
<1>8. 1 \in DOMAIN d
  BY <1>2
<1> QED
  BY <1>1, <1>3, <1>5, <1>6, <1>7, <1>8 DEF Aligned

LEMMA AlignedFed ==
  ASSUME NEW p \in Seq(Nat), NEW d \in Seq(Output), NEW w \in Seq(Input), Aligned(p, d, w),
         NEW x \in Input
  PROVE  Aligned(Append(p, x.picture), d, Append(w, x))
<1>1. /\ Len(p) = Len(d) + Len(w)
      /\ \A i \in DOMAIN d : p[i] = d[i].picture
      /\ \A i \in DOMAIN w : p[Len(d) + i] = w[i].picture
  BY DEF Aligned
<1> DEFINE q == Append(p, x.picture)
           u == Append(w, x)
<1>2. /\ DOMAIN d = 1..Len(d) /\ DOMAIN w = 1..Len(w) /\ DOMAIN u = 1..(Len(w) + 1)
      /\ Len(d) \in Nat /\ Len(w) \in Nat /\ Len(p) \in Nat
      /\ Len(q) = Len(p) + 1 /\ Len(u) = Len(w) + 1
      /\ \A i \in 1..Len(p) : q[i] = p[i]
      /\ \A i \in 1..Len(w) : u[i] = w[i]
      /\ q[Len(p) + 1] = x.picture /\ u[Len(w) + 1] = x
  BY DEF Input
<1> HIDE DEF q, u
<1>3. Aligned(q, d, u)
  <2>1. Len(q) = Len(d) + Len(u)
    BY <1>1, <1>2
  <2>2. ASSUME NEW i \in DOMAIN d PROVE q[i] = d[i].picture
    <3>1. i \in 1..Len(p)
      BY <1>1, <1>2
    <3> QED
      BY <1>1, <1>2, <3>1
  <2>3. ASSUME NEW i \in DOMAIN u PROVE q[Len(d) + i] = u[i].picture
    <3>1. CASE i = Len(w) + 1
      <4>1. Len(d) + i = Len(p) + 1
        BY <1>1, <1>2, <3>1
      <4> QED
        BY <1>2, <3>1, <4>1
    <3>2. CASE i # Len(w) + 1
      <4>1. i \in 1..Len(w) /\ Len(d) + i \in 1..Len(p)
        BY <1>1, <1>2, <3>2
      <4> QED
        BY <1>1, <1>2, <4>1
    <3> QED
      BY <3>1, <3>2
  <2> QED
    BY <2>1, <2>2, <2>3 DEF Aligned
<1> QED
  BY <1>3 DEF q, u

LEMMA AlignedEncoded ==
  ASSUME NEW p \in Seq(Nat), NEW d \in Seq(Output), NEW w \in Seq(Input), Aligned(p, d, w),
         w # <<>>, NEW out \in Output, out.picture = Head(w).picture
  PROVE  Aligned(p, Append(d, out), Tail(w))
<1>1. /\ Len(p) = Len(d) + Len(w)
      /\ \A i \in DOMAIN d : p[i] = d[i].picture
      /\ \A i \in DOMAIN w : p[Len(d) + i] = w[i].picture
  BY DEF Aligned
<1> DEFINE e == Append(d, out)
           u == Tail(w)
<1>2. /\ DOMAIN d = 1..Len(d) /\ DOMAIN w = 1..Len(w)
      /\ DOMAIN e = 1..(Len(d) + 1) /\ DOMAIN u = 1..(Len(w) - 1)
      /\ Len(d) \in Nat /\ Len(w) \in Nat \ {0} /\ Len(p) \in Nat
      /\ Len(e) = Len(d) + 1 /\ Len(u) = Len(w) - 1
      /\ \A i \in 1..Len(d) : e[i] = d[i]
      /\ \A i \in 1..(Len(w) - 1) : u[i] = w[i + 1]
      /\ e[Len(d) + 1] = out /\ Head(w) = w[1]
  OBVIOUS
<1> HIDE DEF e, u
<1>3. Aligned(p, e, u)
  <2>1. Len(p) = Len(e) + Len(u)
    BY <1>1, <1>2
  <2>2. ASSUME NEW i \in DOMAIN e PROVE p[i] = e[i].picture
    <3>1. CASE i = Len(d) + 1
      <4>0. 1 \in DOMAIN w
        BY <1>2
      <4>1. p[Len(d) + 1] = w[1].picture
        BY <1>1, <4>0
      <4> QED
        BY <1>2, <3>1, <4>1
    <3>2. CASE i # Len(d) + 1
      <4>1. i \in 1..Len(d)
        BY <1>2, <3>2
      <4> QED
        BY <1>1, <1>2, <4>1
    <3> QED
      BY <3>1, <3>2
  <2>3. ASSUME NEW i \in DOMAIN u PROVE p[Len(e) + i] = u[i].picture
    <3>0. i \in 1..(Len(w) - 1) /\ i \in Int
      BY <1>2
    <3>1. i + 1 \in DOMAIN w /\ Len(e) + i = Len(d) + (i + 1)
      <4>1. Len(d) \in Nat /\ Len(e) = Len(d) + 1 /\ DOMAIN w = 1..Len(w) /\ Len(w) \in Nat
        BY <1>2
      <4>2. i + 1 \in 1..Len(w)
        BY <3>0, <4>1
      <4>3. \A a, b \in Int : a + 1 + b = a + (b + 1)
        OBVIOUS
      <4>4. Len(e) + i = Len(d) + (i + 1)
        BY <3>0, <4>1, <4>3
      <4> QED
        BY <4>1, <4>2, <4>4
    <3> QED
      BY <1>1, <1>2, <3>0, <3>1
  <2> QED
    BY <2>1, <2>2, <2>3 DEF Aligned
<1> QED
  BY <1>3 DEF e, u

LEMMA Counts ==
  ASSUME NEW v \in Seq(Events)
  PROVE  Count(v, "HaveOutput") \in Nat /\ Count(v, "NeedInput") \in Nat
<1>1. "NeedInput" \in Events
  BY DEF Events
<1> QED
  BY <1>1, CountAppended

(* An announcement read takes an output away, if there is one.             *)
LEMMA PlacesTaken ==
  ASSUME NEW v \in Seq(Events), NEW d \in Seq(Output), NEW w \in Seq(Input),
         NEW free \in Nat, NEW c \in Nat, Places(v, d, w, free, c),
         v # <<>>, Head(v) = "HaveOutput"
  PROVE  /\ d # <<>> => Places(Tail(v), Tail(d), w, free, c)
         /\ d = <<>> => Places(Tail(v), d, w, free, c)
<1>1. /\ Len(d) <= Count(v, "HaveOutput")
      /\ free + Count(v, "NeedInput") + c + Len(w) = Depth
  BY DEF Places
<1>2. /\ Count(v, "HaveOutput") > 0 /\ Count(v, "HaveOutput") \in Nat
      /\ Count(Tail(v), "HaveOutput") = Count(v, "HaveOutput") - 1
  BY CountTail
<1>3. Count(v, "NeedInput") \in Nat /\ Count(Tail(v), "NeedInput") = Count(v, "NeedInput")
  <2>1. "HaveOutput" # "NeedInput"
    OBVIOUS
  <2> QED
    BY <2>1, CountTail
<1>4. Len(d) \in Nat
  OBVIOUS
<1>5. d # <<>> => Len(Tail(d)) = Len(d) - 1
  OBVIOUS
<1>6. d = <<>> => Len(d) = 0
  OBVIOUS
<1> QED
  BY <1>1, <1>2, <1>3, <1>4, <1>5, <1>6 DEF Places

LEMMA PlacesFed ==
  ASSUME NEW v \in Seq(Events), NEW d \in Seq(Output), NEW w \in Seq(Input),
         NEW free \in Nat, NEW c \in Nat, Places(v, d, w, free, c), NEW x \in Input
  PROVE  /\ c > 0 => Places(v, d, Append(w, x), free, c - 1)
         /\ v # <<>> /\ Head(v) = "NeedInput"
            => Places(Tail(v), d, Append(w, x), free, c) /\ Places(Tail(v), d, w, free, c + 1)
<1>1. /\ Len(d) <= Count(v, "HaveOutput")
      /\ free + Count(v, "NeedInput") + c + Len(w) = Depth
      /\ Count(v, "HaveOutput") \in Nat /\ Count(v, "NeedInput") \in Nat
  BY Counts DEF Places
<1>2. Len(w) \in Nat /\ Len(Append(w, x)) = Len(w) + 1
  OBVIOUS
<1>3. ASSUME v # <<>>, Head(v) = "NeedInput"
      PROVE  Places(Tail(v), d, Append(w, x), free, c) /\ Places(Tail(v), d, w, free, c + 1)
  <2>1. Count(Tail(v), "HaveOutput") = Count(v, "HaveOutput")
    <3>1. Head(v) # "HaveOutput"
      BY <1>3
    <3> QED
      BY <1>3, <3>1, CountTail
  <2>2. Count(Tail(v), "NeedInput") = Count(v, "NeedInput") - 1
    BY <1>3, CountTail
  <2> DEFINE a == Count(v, "NeedInput")
             m == Len(w)
  <2>3. free + (a - 1) + c + (m + 1) = Depth /\ free + (a - 1) + (c + 1) + m = Depth
    <3>1. a \in Nat /\ m \in Nat /\ free + a + c + m = Depth
      BY <1>1, <1>2
    <3> HIDE DEF a, m
    <3> QED
      BY <3>1
  <2>4. Len(d) <= Count(Tail(v), "HaveOutput")
    BY <1>1, <2>1
  <2>5. Count(Tail(v), "NeedInput") = a - 1 /\ Len(Append(w, x)) = m + 1 /\ Len(w) = m
    BY <1>2, <2>2
  <2> HIDE DEF a, m
  <2>6. /\ free + Count(Tail(v), "NeedInput") + c + Len(Append(w, x)) = Depth
        /\ free + Count(Tail(v), "NeedInput") + (c + 1) + Len(w) = Depth
    BY <2>3, <2>5
  <2> QED
    BY <2>4, <2>6 DEF Places
<1>4. c > 0 => Places(v, d, Append(w, x), free, c - 1)
  <2> DEFINE a == Count(v, "NeedInput")
             m == Len(w)
  <2>1. a \in Nat /\ m \in Nat /\ free + a + c + m = Depth /\ Len(Append(w, x)) = m + 1
    BY <1>1, <1>2
  <2> HIDE DEF a, m
  <2>2. c > 0 => free + a + (c - 1) + (m + 1) = Depth
    BY <2>1
  <2>3. c > 0 => free + Count(v, "NeedInput") + (c - 1) + Len(Append(w, x)) = Depth
    BY <2>1, <2>2 DEF a
  <2> QED
    BY <1>1, <2>3 DEF Places
<1> QED
  BY <1>3, <1>4

(* A place is offered, or an output announced that is not there.           *)
LEMMA PlacesOffered ==
  ASSUME NEW v \in Seq(Events), NEW d \in Seq(Output), NEW w \in Seq(Input),
         NEW free \in Nat, NEW c \in Nat, Places(v, d, w, free, c)
  PROVE  /\ Places(Append(v, "NeedInput"), d, w, free - 1, c)
         /\ Places(Append(v, "HaveOutput"), d, w, free, c)
<1>1. /\ Len(d) <= Count(v, "HaveOutput")
      /\ free + Count(v, "NeedInput") + c + Len(w) = Depth
      /\ Count(v, "HaveOutput") \in Nat /\ Count(v, "NeedInput") \in Nat
  BY Counts DEF Places
<1>2. "NeedInput" \in Events /\ "HaveOutput" \in Events /\ "NeedInput" # "HaveOutput"
  BY DEF Events
<1>3. /\ Count(Append(v, "NeedInput"), "HaveOutput") = Count(v, "HaveOutput")
      /\ Count(Append(v, "NeedInput"), "NeedInput") = Count(v, "NeedInput") + 1
  BY <1>1, <1>2, CountAppended
<1>4. /\ Count(Append(v, "HaveOutput"), "HaveOutput") = Count(v, "HaveOutput") + 1
      /\ Count(Append(v, "HaveOutput"), "NeedInput") = Count(v, "NeedInput")
  BY <1>1, <1>2, CountAppended
<1>5. Len(d) \in Nat /\ Len(w) \in Nat
  OBVIOUS
<1> QED
  BY <1>1, <1>3, <1>4, <1>5 DEF Places

LEMMA PlacesEncoded ==
  ASSUME NEW v \in Seq(Events), NEW d \in Seq(Output), NEW w \in Seq(Input),
         NEW free \in Nat, NEW c \in Nat, Places(v, d, w, free, c), w # <<>>, NEW out \in Output
  PROVE  Places(Append(v, "HaveOutput"), Append(d, out), Tail(w), free + 1, c)
<1>1. /\ Len(d) <= Count(v, "HaveOutput")
      /\ free + Count(v, "NeedInput") + c + Len(w) = Depth
      /\ Count(v, "HaveOutput") \in Nat /\ Count(v, "NeedInput") \in Nat
  BY Counts DEF Places
<1>2. "HaveOutput" \in Events /\ "NeedInput" # "HaveOutput"
  BY DEF Events
<1>3. /\ Count(Append(v, "HaveOutput"), "HaveOutput") = Count(v, "HaveOutput") + 1
      /\ Count(Append(v, "HaveOutput"), "NeedInput") = Count(v, "NeedInput")
  BY <1>1, <1>2, CountAppended
<1>4. /\ Len(d) \in Nat /\ Len(w) \in Nat /\ Len(Append(d, out)) = Len(d) + 1
      /\ Len(Tail(w)) = Len(w) - 1
  OBVIOUS
<1> QED
  BY <1>1, <1>3, <1>4 DEF Places

-----------------------------------------------------------------------------
(* Taking an output *)

LEMMA Fields ==
  ASSUME TypeOK
  PROVE  /\ thread.pc \in ThreadPc /\ thread.outputs \in Seq(Frame) /\ thread.captured \in Nat
         /\ encoder.credits \in Nat /\ encoder.pending \in Seq(Nat)
         /\ encoder.sets \in {NoSets, ParameterSets}
         /\ mft.header \in {NoSets, ParameterSets}
         /\ mft.events \in Seq({"NeedInput", "HaveOutput"}) /\ mft.inflight \in Seq(Input)
         /\ mft.done \in Seq(Output) /\ mft.free \in Nat /\ mft.empty \in Nat /\ mft.n \in Nat
         /\ mft.forced \in BOOLEAN
         /\ owner.pc \in OwnerPc /\ owner.last \in Nat /\ owner.skipped \in Nat
         /\ owner.instances \in Nat
<1>1. /\ thread.pc \in ThreadPc /\ thread.outputs \in Seq(Frame) /\ thread.captured \in Nat
  BY DEF TypeOK, ThreadType
<1>2. /\ encoder.credits \in Nat /\ encoder.pending \in Seq(Nat)
      /\ encoder.sets \in {NoSets, ParameterSets}
  BY DEF TypeOK, EncoderType
<1>3. /\ mft.header \in {NoSets, ParameterSets}
      /\ mft.events \in Seq({"NeedInput", "HaveOutput"}) /\ mft.inflight \in Seq(Input)
      /\ mft.done \in Seq(Output) /\ mft.free \in Nat /\ mft.empty \in Nat /\ mft.n \in Nat
      /\ mft.forced \in BOOLEAN
  BY DEF TypeOK, MftType
<1>4. /\ owner.pc \in OwnerPc /\ owner.last \in Nat /\ owner.skipped \in Nat
      /\ owner.instances \in Nat
  BY DEF TypeOK, OwnerType
<1> QED
  BY <1>1, <1>2, <1>3, <1>4

(* The parameter sets are known when an IDR without them is taken, and     *)
(* once the first output of a stream that carries them has been.           *)
LEMMA SetsTaken ==
  ASSUME TypeOK, Phases, SetsKnown, mft.done # <<>>
  PROVE  LET out == Head(mft.done)
         IN  /\ out \in Output /\ Marked(out) /\ out = mft.done[1]
             /\ SetsAfter(out) \in {NoSets, ParameterSets}
             /\ out.au = <<"idr">> => SetsAfter(out) = ParameterSets
             /\ mft.header = NoSets => SetsAfter(out) = ParameterSets
<1> DEFINE out == Head(mft.done)
           full == <<"sps", "pps", "idr">>
<1>1. /\ mft.done \in Seq(Output)
      /\ mft.header \in {NoSets, ParameterSets} /\ encoder.sets \in {NoSets, ParameterSets}
      /\ os \in {"windows", "mac"}
  BY Fields DEF TypeOK
<1>2. 1 \in DOMAIN mft.done /\ out = mft.done[1] /\ out \in Output
  BY <1>1
<1>3. Marked(out)
  BY <1>2 DEF SetsKnown
<1>4. out.au = <<"idr">> => out.key
  <2>1. <<"idr">> # <<"slice">>
    OBVIOUS
  <2> QED
    BY <1>3, <2>1 DEF Marked
<1>5. mft.header = NoSets /\ encoder.sets = NoSets => out.au = full
  BY <1>2 DEF SetsKnown
<1> HIDE DEF out, full
<1>6. CASE os = "mac"
  <2>1. mft.header = ParameterSets
    BY <1>1, <1>6 DEF Phases
  <2>2. out.key => set_fallback(encoder.sets, mft.header) = ParameterSets
    BY <1>1, <2>1 DEF set_fallback
  <2>3. SetsAfter(out) = observe(IF out.key THEN set_fallback(encoder.sets, mft.header)
                                 ELSE encoder.sets, out.au)
    BY <1>6 DEF SetsAfter
  <2> QED
    BY <1>1, <1>2, <1>3, <1>4, <2>1, <2>2, <2>3, ExtractedSets DEF observe, out
<1>7. CASE os = "windows"
  <2>1. SetsAfter(out) = IF observe(encoder.sets, out.au) = NoSets
                         THEN set_fallback(observe(encoder.sets, out.au), mft.header)
                         ELSE observe(encoder.sets, out.au)
    BY <1>7 DEF SetsAfter
  <2>2. /\ observe(encoder.sets, out.au) \in {NoSets, ParameterSets}
        /\ mft.header = NoSets => observe(encoder.sets, out.au) = ParameterSets
    BY <1>1, <1>5, ExtractedSets DEF observe, full
  <2> QED
    BY <1>1, <1>2, <1>3, <2>1, <2>2, ExtractedSets DEF set_fallback, out
<1> QED
  BY <1>1, <1>6, <1>7

(* The frame made of it.                                                   *)
LEMMA FrameMade ==
  ASSUME TypeOK, Phases, SetsKnown, mft.done # <<>>, NEW ts \in Nat
  PROVE  LET f == Completed(Head(mft.done), ts)
         IN  /\ f \in Frame
             /\ f.n = mft.done[1].n /\ f.capture_ts = ts /\ f.picture = mft.done[1].picture
             /\ f.is_idr => is_self_contained_idr(f.annex_b)
<1> DEFINE out == Head(mft.done)
           idr == is_idr_access_unit(out.au, out.flag)
           sets == SetsAfter(out)
           bytes == IF idr THEN complete_idr(sets, out.au) ELSE out.au
<1>1. /\ out \in Output /\ Marked(out) /\ out = mft.done[1]
      /\ sets \in {NoSets, ParameterSets}
      /\ out.au = <<"idr">> => sets = ParameterSets
  BY SetsTaken
<1>2. Completed(out, ts) = [n |-> out.n, is_idr |-> idr, capture_ts |-> ts,
                            picture |-> out.picture, annex_b |-> bytes]
  BY DEF Completed
<1>3. idr \in BOOLEAN
  BY <1>1 DEF is_idr_access_unit, contains_idr_slice, Output
<1> HIDE DEF out, sets
<1>4. idr => is_self_contained_idr(bytes)
  BY <1>1, CompletedIdr
<1>5. out.au \in Seq(NalTypes) /\ sets \in Seq(NalTypes)
  <2>1. /\ <<"slice">> \in Seq(NalTypes) /\ <<"idr">> \in Seq(NalTypes)
        /\ <<>> \in Seq(NalTypes)
    BY DEF NalTypes
  <2>2. <<"sps", "pps">> \in Seq(NalTypes)
    BY DEF NalTypes
  <2>3. <<"sps", "pps", "idr">> \in Seq(NalTypes)
    BY DEF NalTypes
  <2> QED
    BY <1>1, <2>1, <2>2, <2>3 DEF Output, AccessUnits, NoSets, ParameterSets
<1>6. bytes \in Seq(NalTypes)
  BY <1>5 DEF complete_idr
<1> HIDE DEF idr, bytes
<1>7. out.n \in Nat /\ out.picture \in Nat
  BY <1>1 DEF Output
<1>8. Completed(out, ts) \in Frame
  BY <1>2, <1>3, <1>6, <1>7 DEF Frame
<1> QED
  BY <1>1, <1>2, <1>4, <1>8 DEF out

-----------------------------------------------------------------------------
(* Types and phases *)

LEMMA Moved ==
  ASSUME thread \in ThreadType, NEW pc \in ThreadPc
  PROVE  /\ To(pc) \in ThreadType
         /\ To(pc).pc = pc /\ To(pc).outputs = thread.outputs
         /\ To(pc).captured = thread.captured
  BY DEF To, ThreadType

LEMMA Returned ==
  ASSUME thread \in ThreadType, NEW result \in {"ok", "err"}
  PROVE  /\ Returns(result) \in ThreadType
         /\ Returns(result).pc = "finishing" /\ Returns(result).outputs = <<>>
         /\ Returns(result).captured = thread.captured
<1>1. <<>> \in Seq(Frame)
  OBVIOUS
<1> QED
  BY <1>1 DEF Returns, ThreadType, ThreadPc

(* What an output taken on Windows finds: its capture time is pending.     *)
LEMMA OutputThere ==
  ASSUME TypeOK, PendingAligned, os = "windows", mft.done # <<>>
  PROVE  /\ encoder.pending # <<>> /\ oldest_pending = mft.done[1].picture
         /\ without_oldest = Tail(encoder.pending) /\ oldest_pending \in Nat
<1>1. /\ mft.done \in Seq(Output) /\ mft.inflight \in Seq(Input)
      /\ encoder.pending \in Seq(Nat)
  BY Fields
<1>2. encoder.pending # <<>> /\ Head(encoder.pending) = mft.done[1].picture
  BY <1>1, AlignedTaken DEF PendingAligned
<1>3. Head(encoder.pending) \in Nat
  BY <1>1, <1>2
<1> QED
  BY <1>2, <1>3 DEF oldest_pending, without_oldest

(* send keeps the types of what it changes.                                *)
LEMMA SendTyped ==
  ASSUME TypeOK, NEW f \in Frame, send(f)
  PROVE  channel' \in Seq(Frame) /\ lost' \subseteq Nat
<1>1. f.n \in Nat /\ channel \in Seq(Frame) /\ lost \subseteq Nat
  BY DEF Frame, TypeOK
<1>2. Append(channel, f) \in Seq(Frame)
  BY <1>1
<1>3. lost \cup {f.n} \subseteq Nat
  BY <1>1
<1> QED
  BY <1>1, <1>2, <1>3, Zenon DEF send

(* take_one_output, from an encoder whose event was just taken.            *)
LEMMA TakeTyped ==
  ASSUME CaptureInv, os = "windows", EventIs("HaveOutput"), mft.done # <<>>,
         take_one_output(Received)
  PROVE  LET f == Completed(Head(mft.done), oldest_pending)
         IN  /\ encoder.pending # <<>>
             /\ f \in Frame /\ Good(f) /\ f.n = mft.done[1].n
             /\ thread' \in ThreadType /\ encoder' \in EncoderType /\ mft' \in MftType
             /\ thread'.pc = thread.pc /\ thread'.outputs = Append(thread.outputs, f)
             /\ encoder'.pending = Tail(encoder.pending)
             /\ encoder'.sets = SetsAfter(Head(mft.done))
             /\ encoder'.credits = encoder.credits
             /\ mft'.done = Tail(mft.done) /\ mft'.events = Tail(mft.events)
             /\ mft'.header = mft.header /\ mft'.inflight = mft.inflight
             /\ mft'.free = mft.free /\ mft'.n = mft.n
<1> DEFINE ts == oldest_pending
           f == Completed(Head(mft.done), ts)
<1>1. TypeOK /\ Phases /\ SetsKnown /\ PendingAligned /\ PlacesKept
  BY DEF CaptureInv
<1>2. /\ encoder.pending # <<>> /\ without_oldest = Tail(encoder.pending)
      /\ ts = mft.done[1].picture /\ ts \in Nat
  BY <1>1, OutputThere
<1>3. f \in Frame /\ Good(f) /\ f.n = mft.done[1].n
  BY <1>1, <1>2, FrameMade DEF Good
<1>4. Received.done = mft.done /\ mft.events # <<>>
  BY <1>1 DEF Received, TypeOK, MftType, EventIs
<1>5. SetsAfter(Head(mft.done)) \in {NoSets, ParameterSets}
  BY <1>1, <1>2, SetsTaken
<1> HIDE DEF f, ts
<1>6. /\ thread' = [thread EXCEPT !.outputs = Append(@, f)]
      /\ encoder' = [encoder EXCEPT !.pending = Tail(encoder.pending),
                                    !.sets = SetsAfter(Head(mft.done))]
      /\ mft' = [Received EXCEPT !.done = Tail(@)]
  BY <1>2, <1>4 DEF take_one_output, f, ts
<1>7. /\ thread' \in ThreadType /\ thread'.pc = thread.pc
      /\ thread'.outputs = Append(thread.outputs, f)
  <2>1. Append(thread.outputs, f) \in Seq(Frame)
    BY <1>1, <1>3, Fields
  <2> QED
    BY <1>1, <1>6, <2>1 DEF TypeOK, ThreadType
<1>8. /\ encoder' \in EncoderType /\ encoder'.pending = Tail(encoder.pending)
      /\ encoder'.sets = SetsAfter(Head(mft.done)) /\ encoder'.credits = encoder.credits
  <2>1. Tail(encoder.pending) \in Seq(Nat)
    BY <1>1, <1>2, Fields
  <2> QED
    BY <1>1, <1>5, <1>6, <2>1 DEF TypeOK, EncoderType
<1>9. /\ mft' \in MftType
      /\ mft'.done = Tail(mft.done) /\ mft'.events = Tail(mft.events)
      /\ mft'.header = mft.header /\ mft'.inflight = mft.inflight
      /\ mft'.free = mft.free /\ mft'.n = mft.n
  <2>1. Tail(mft.done) \in Seq(Output)
    BY <1>1, <1>2, Fields
  <2>2. Tail(mft.events) \in Seq({"NeedInput", "HaveOutput"})
    BY <1>1, <1>4, Fields
  <2> QED
    BY <1>1, <1>6, <2>1, <2>2 DEF TypeOK, MftType, Received
<1> QED
  BY <1>2, <1>3, <1>7, <1>8, <1>9 DEF f, ts

-----------------------------------------------------------------------------
(* What a step does to the frames: each one is one of these moves *)

StagesKept ==
    /\ mft'.done = mft.done /\ mft'.n = mft.n
    /\ (Running' <=> Running)

ChannelKept == channel' = channel /\ owner'.last = owner.last

Quiet ==
    /\ StagesKept /\ ChannelKept
    /\ thread'.outputs = thread.outputs /\ handoff' = handoff /\ lost' = lost

\* The thread returns, and with it what it had not sent.
Ends ==
    /\ mft'.done = mft.done /\ mft'.n = mft.n /\ ChannelKept
    /\ ~Running' /\ thread'.outputs = <<>> /\ lost' = lost
    /\ handoff' = handoff \/ (handoff # <<>> /\ handoff' = Tail(handoff))

\* A frame leaves the encoder, towards the thread or the callbacks' channel,
\* or is lost because that is full.
Leaves(f) ==
    /\ mft.done # <<>>
    /\ f \in Frame /\ Good(f) /\ f.n = mft.done[1].n
    /\ mft'.done = Tail(mft.done) /\ mft'.n = mft.n
    /\ (Running' <=> Running) /\ ChannelKept

Takes(f) ==
    /\ Leaves(f)
    /\ thread'.outputs = Append(thread.outputs, f) /\ handoff' = handoff /\ lost' = lost

HandsOver(f) ==
    /\ Leaves(f)
    /\ thread'.outputs = thread.outputs
    /\ \/ handoff' = Append(handoff, <<f>>) /\ lost' = lost
       \/ handoff' = handoff /\ lost' = lost \cup {f.n}

Stopped ==
    /\ StagesKept /\ ChannelKept
    /\ thread'.outputs = thread.outputs /\ lost' = lost /\ handoff' = Append(handoff, <<>>)

Sent(f) ==
    /\ Running /\ StagesKept /\ owner'.last = owner.last
    /\ \/ channel' = Append(channel, f) /\ lost' = lost
       \/ channel' = channel /\ lost' = lost \cup {f.n}

Forwards ==
    \/ /\ os = "windows" /\ thread.outputs # <<>> /\ Sent(thread.outputs[1])
       /\ thread'.outputs = Tail(thread.outputs) /\ handoff' = handoff
    \/ /\ os = "mac" /\ handoff # <<>> /\ handoff[1] # <<>> /\ Sent(handoff[1][1])
       /\ thread'.outputs = thread.outputs /\ handoff' = Tail(handoff)

Encoded(out) ==
    /\ out \in Output /\ out.n = mft.n + 1
    /\ mft'.done = Append(mft.done, out) /\ mft'.n = mft.n + 1
    /\ (Running' <=> Running) /\ ChannelKept
    /\ thread'.outputs = thread.outputs /\ handoff' = handoff /\ lost' = lost

Reopens ==
    /\ StagesKept /\ channel' = channel /\ owner'.last = 0
    /\ thread'.outputs = thread.outputs /\ handoff' = handoff /\ lost' = lost

Consumes ==
    /\ StagesKept /\ thread'.outputs = thread.outputs /\ handoff' = handoff
    /\ channel # <<>> /\ channel' = Tail(channel)
    /\ \/ owner'.last = channel[1].n /\ lost' = lost
       \/ owner'.last = owner.last /\ lost' = lost \cup {channel[1].n}
       \/ owner.last = 0 /\ owner'.last = 0 /\ lost' = lost

Move ==
    \/ Quiet \/ Ends \/ Stopped \/ Forwards \/ Reopens \/ Consumes
    \/ \E f \in Frame : Takes(f) \/ HandsOver(f)
    \/ \E out \in Output : Encoded(out)

\* What is known of the encoder.
EncoderInv == SetsKnown /\ PendingAligned /\ PlacesKept

LEMMA EncoderKept ==
  ASSUME CaptureInv, os' = os, mft' = mft, encoder' = encoder
  PROVE  EncoderInv'
<1>1. SetsKnown'
  BY DEF CaptureInv, SetsKnown
<1>2. PendingAligned'
  BY DEF CaptureInv, PendingAligned
<1>3. PlacesKept'
  BY DEF CaptureInv, PlacesKept
<1> QED
  BY <1>1, <1>2, <1>3 DEF EncoderInv

Kept == TypeOK' /\ Phases' /\ EncoderInv' /\ Move

(* The steps of the thread alone.                                          *)
LEMMA ThreadMoves ==
  ASSUME CaptureInv,
         ThreadExits \/ SetsUp \/ StartsCapture \/ PollsStop \/ WaitTimesOut \/ CaptureFails
  PROVE  Kept
<1>1. TypeOK /\ Phases
  BY DEF CaptureInv
<1>2. /\ os' = os /\ force_idr' = force_idr /\ stop' = stop /\ encoder' = encoder /\ mft' = mft
      /\ handoff' = handoff /\ channel' = channel /\ owner' = owner /\ view' = view
      /\ lost' = lost
  BY DEF ThreadExits, SetsUp, StartsCapture, PollsStop, WaitTimesOut, CaptureFails
<1>3. ready' \in {"open", "info", "error", "closed"}
  BY <1>1 DEF ThreadExits, SetsUp, StartsCapture, PollsStop, WaitTimesOut, CaptureFails, TypeOK
<1>4. \/ thread.pc \in {"setup", "polling", "waiting"}
         /\ (thread' = To("polling") \/ thread' = To("waiting"))
      \/ thread.pc = "finishing" /\ thread' = To("exited")
      \/ thread' = Returns("ok") \/ thread' = Returns("err")
  BY DEF ThreadExits, SetsUp, StartsCapture, PollsStop, WaitTimesOut, CaptureFails
<1>5. /\ thread' \in ThreadType
      /\ \/ /\ thread'.outputs = thread.outputs
            /\ \/ thread.pc \in {"setup", "polling", "waiting"}
                  /\ thread'.pc \in {"polling", "waiting"}
               \/ thread.pc = "finishing" /\ thread'.pc = "exited"
         \/ thread'.outputs = <<>> /\ thread'.pc = "finishing"
  BY <1>1, <1>4, Moved, Returned DEF TypeOK, ThreadPc
<1>6. TypeOK'
  BY <1>1, <1>2, <1>3, <1>5 DEF TypeOK
<1>7. Phases'
  BY <1>1, <1>2, <1>5 DEF Phases
<1>8. Quiet \/ Ends
  BY <1>2, <1>5 DEF Quiet, Ends, StagesKept, ChannelKept, Running
<1> QED
  BY <1>2, <1>6, <1>7, <1>8, EncoderKept DEF Kept, Move

(* The steps of the session.                                               *)
LEMMA SessionMoves ==
  ASSUME CaptureInv,
         SpawnReturns \/ RequestsIdr \/ next_idr_frame \/ WritesFrame \/ VIEWChanges
            \/ DropsSource \/ Joins
  PROVE  Kept
<1>1. TypeOK /\ Phases
  BY DEF CaptureInv
<1>2. /\ os' = os /\ ready' = ready /\ thread' = thread /\ encoder' = encoder /\ mft' = mft
      /\ handoff' = handoff
  BY DEF SpawnReturns, RequestsIdr, next_idr_frame, WritesFrame, VIEWChanges, DropsSource,
         Joins, sourceVars
<1>3. force_idr' \in BOOLEAN /\ stop' \in BOOLEAN /\ view' \in BOOLEAN
  <2>1. force_idr' \in {force_idr, TRUE} /\ stop' \in {stop, TRUE} /\ view' \in {view, ~view}
    BY DEF SpawnReturns, RequestsIdr, next_idr_frame, WritesFrame, VIEWChanges, DropsSource,
           Joins, sourceVars
  <2>2. force_idr \in BOOLEAN /\ stop \in BOOLEAN /\ view \in BOOLEAN
    BY <1>1 DEF TypeOK
  <2> QED
    BY <2>1, <2>2, Zenon
<1>4. owner \in OwnerType /\ channel \in Seq(Frame) /\ lost \subseteq Nat
  BY <1>1 DEF TypeOK
<1>5. channel # <<>> => /\ channel[1] = Head(channel) /\ channel[1] \in Frame
                        /\ channel[1].n \in Nat /\ Tail(channel) \in Seq(Frame)
  <2> SUFFICES ASSUME channel # <<>>
               PROVE  /\ channel[1] = Head(channel) /\ channel[1] \in Frame
                      /\ channel[1].n \in Nat /\ Tail(channel) \in Seq(Frame)
    OBVIOUS
  <2>1. channel[1] = Head(channel) /\ channel[1] \in Frame /\ Tail(channel) \in Seq(Frame)
    BY <1>4
  <2>2. channel[1].n \in Nat
    BY <2>1 DEF Frame
  <2> QED
    BY <2>1, <2>2
<1>6. channel # <<>> => channel[1].n > 0
  <2> SUFFICES ASSUME channel # <<>> PROVE channel[1].n > 0
    OBVIOUS
  <2>1. channel[1].n \in Numbers(channel)
    BY <1>4 DEF Numbers
  <2>2. 0 < channel[1].n
    BY <2>1, Zenon DEF CaptureInv, Ordered, Staged, Before
  <2> QED
    BY <1>5, <2>2
<1>7. CASE SpawnReturns \/ DropsSource \/ Joins
  <2>1. \E pc \in {"idle", "failed", "joining", "gone"} :
            owner' = [owner EXCEPT !.pc = pc, !.skipped = 0]
    BY <1>7 DEF SpawnReturns, DropsSource, Joins, Session
  <2>2. /\ owner' \in OwnerType /\ owner'.last = owner.last
        /\ owner'.pc \notin {"opening", "streaming"}
    <3>1. PICK pc \in {"idle", "failed", "joining", "gone"} :
              owner' = [owner EXCEPT !.pc = pc, !.skipped = 0]
      BY <2>1
    <3>2. pc \in OwnerPc /\ 0 \in Nat
      BY DEF OwnerPc
    <3>3. owner' \in OwnerType
      BY <1>4, <3>1, <3>2 DEF OwnerType
    <3>4. owner'.last = owner.last /\ owner'.pc = pc
      BY <1>4, <3>1 DEF OwnerType
    <3> QED
      BY <3>3, <3>4
  <2>3. channel' = channel /\ lost' = lost
    BY <1>7 DEF SpawnReturns, DropsSource, Joins
  <2>4. TypeOK'
    BY <1>1, <1>2, <1>3, <2>2, <2>3 DEF TypeOK
  <2>5. Phases'
    BY <1>1, <1>2, <2>2 DEF Phases
  <2>6. Quiet
    BY <1>2, <2>2, <2>3 DEF Quiet, StagesKept, ChannelKept, Running
  <2> QED
    BY <1>2, <2>4, <2>5, <2>6, EncoderKept DEF Kept, Move
<1>8. CASE VIEWChanges
  <2>1. owner' = owner /\ channel' = channel /\ lost' = lost
    BY <1>8 DEF VIEWChanges
  <2>2. TypeOK'
    BY <1>1, <1>2, <1>3, <2>1 DEF TypeOK
  <2>3. Phases'
    BY <1>1, <1>2, <2>1 DEF Phases
  <2>4. Quiet
    BY <1>2, <2>1 DEF Quiet, StagesKept, ChannelKept, Running
  <2> QED
    BY <1>2, <2>2, <2>3, <2>4, EncoderKept DEF Kept, Move
<1>9. CASE RequestsIdr
  <2>1. /\ owner' \in OwnerType /\ owner'.last = 0 /\ owner'.pc = "opening"
        /\ channel' = channel /\ lost' = lost
    <3>1. /\ owner' = [owner EXCEPT !.pc = "opening", !.skipped = 0,
                                    !.instances = owner.instances + 1, !.last = 0]
          /\ channel' = channel /\ lost' = lost
      BY <1>9 DEF RequestsIdr
    <3>2. "opening" \in OwnerPc /\ 0 \in Nat /\ owner.instances + 1 \in Nat
      BY <1>4 DEF OwnerPc, OwnerType
    <3>3. owner' \in OwnerType
      BY <1>4, <3>1, <3>2 DEF OwnerType
    <3>4. owner'.last = 0 /\ owner'.pc = "opening"
      BY <1>4, <3>1 DEF OwnerType
    <3> QED
      BY <3>1, <3>3, <3>4
  <2>2. TypeOK'
    BY <1>1, <1>2, <1>3, <2>1 DEF TypeOK
  <2>3. Phases'
    BY <1>1, <1>2, <2>1 DEF Phases
  <2>4. Reopens
    BY <1>2, <2>1 DEF Reopens, StagesKept, Running
  <2> QED
    BY <1>2, <2>2, <2>3, <2>4, EncoderKept DEF Kept, Move
<1>10. CASE next_idr_frame
  <2>1. channel # <<>> /\ channel' = Tail(channel) /\ lost' = lost /\ owner.pc = "opening"
    BY <1>10 DEF next_idr_frame
  <2>2. \/ owner' = [owner EXCEPT !.pc = "streaming", !.skipped = 0, !.last = channel[1].n]
        \/ owner' = [owner EXCEPT !.skipped = @ + 1]
        \/ owner' = [owner EXCEPT !.pc = "joining", !.skipped = 0]
    BY <1>5, <1>10 DEF next_idr_frame, Session
  <2>3. owner.last = 0
    BY <1>1, <2>1 DEF Phases
  <2>4. /\ owner' \in OwnerType
        /\ \/ owner'.pc = "streaming" /\ owner'.last = channel[1].n
           \/ owner'.pc \in {"opening", "joining"} /\ owner'.last = 0
    <3>1. owner.skipped + 1 \in Nat /\ {"streaming", "joining"} \subseteq OwnerPc
      BY <1>4 DEF OwnerType, OwnerPc
    <3>2. CASE owner' = [owner EXCEPT !.pc = "streaming", !.skipped = 0, !.last = channel[1].n]
      BY <1>4, <1>5, <2>1, <3>1, <3>2 DEF OwnerType
    <3>3. CASE owner' = [owner EXCEPT !.skipped = owner.skipped + 1]
      BY <1>4, <2>1, <2>3, <3>1, <3>3 DEF OwnerType
    <3>4. CASE owner' = [owner EXCEPT !.pc = "joining", !.skipped = 0]
      BY <1>4, <2>3, <3>1, <3>4 DEF OwnerType
    <3> QED
      BY <2>2, <3>2, <3>3, <3>4
  <2>5. TypeOK'
    BY <1>1, <1>2, <1>3, <1>5, <2>1, <2>4 DEF TypeOK
  <2>6. Phases'
    BY <1>1, <1>2, <1>6, <2>1, <2>4 DEF Phases
  <2>7. Consumes
    BY <1>2, <2>1, <2>3, <2>4 DEF Consumes, StagesKept, Running
  <2> QED
    BY <1>2, <2>5, <2>6, <2>7, EncoderKept DEF Kept, Move
<1>11. CASE WritesFrame
  <2>1. channel # <<>> /\ channel' = Tail(channel) /\ owner.pc = "streaming"
    BY <1>11 DEF WritesFrame
  <2>2. \/ owner' = [owner EXCEPT !.last = channel[1].n] /\ lost' = lost
        \/ owner' = [owner EXCEPT !.last = owner.last] /\ lost' = lost \cup {channel[1].n}
    BY <1>5, <1>11 DEF WritesFrame
  <2>3. /\ owner' \in OwnerType /\ owner'.pc = owner.pc
        /\ \/ owner'.last = channel[1].n /\ lost' = lost
           \/ owner'.last = owner.last /\ lost' = lost \cup {channel[1].n}
    BY <1>4, <1>5, <2>1, <2>2 DEF OwnerType, OwnerPc
  <2>4. lost' \subseteq Nat
    BY <1>4, <1>5, <2>1, <2>3
  <2>5. TypeOK'
    BY <1>1, <1>2, <1>3, <1>5, <2>1, <2>3, <2>4 DEF TypeOK
  <2>6. Phases'
    BY <1>1, <1>2, <1>6, <2>1, <2>3 DEF Phases
  <2>7. Consumes
    BY <1>2, <2>1, <2>3 DEF Consumes, StagesKept, Running
  <2> QED
    BY <1>2, <2>5, <2>6, <2>7, EncoderKept DEF Kept, Move
<1> QED
  BY <1>7, <1>8, <1>9, <1>10, <1>11

(* The encoder's bookkeeping when an output is taken on Windows.           *)
LEMMA TakeKeepsEncoder ==
  ASSUME CaptureInv, os = "windows", os' = os, EventIs("HaveOutput"), mft.done # <<>>,
         take_one_output(Received)
  PROVE  EncoderInv'
<1>1. TypeOK /\ Phases /\ SetsKnown /\ PendingAligned /\ PlacesKept
  BY DEF CaptureInv
<1> DEFINE p == encoder.pending
           d == mft.done
           w == mft.inflight
           v == mft.events
<1>2. /\ p \in Seq(Nat) /\ d \in Seq(Output) /\ w \in Seq(Input)
      /\ v \in Seq({"NeedInput", "HaveOutput"})
      /\ encoder.credits \in Nat /\ mft.free \in Nat
  BY <1>1, Fields
<1>3. /\ d # <<>> /\ p # <<>> /\ v # <<>> /\ Head(v) = "HaveOutput"
      /\ encoder'.pending = Tail(p) /\ encoder'.sets = SetsAfter(Head(d))
      /\ encoder'.credits = encoder.credits
      /\ mft'.done = Tail(d) /\ mft'.events = Tail(v) /\ mft'.header = mft.header
      /\ mft'.inflight = w /\ mft'.free = mft.free /\ mft'.n = mft.n
  BY TakeTyped DEF EventIs
<1>4. mft.header = NoSets => SetsAfter(Head(d)) # NoSets
  BY <1>1, <1>3, SetsTaken, ExtractedSets
<1>5. SetsKnown'
  <2>1. \A i \in DOMAIN mft'.done : mft'.done[i] = d[i + 1] /\ i + 1 \in DOMAIN d
    BY <1>2, <1>3
  <2>2. \A i \in DOMAIN mft'.done : Marked(mft'.done[i])
    BY <1>1, <2>1 DEF SetsKnown
  <2>3. ~(mft'.header = NoSets /\ encoder'.sets = NoSets)
    BY <1>3, <1>4
  <2> QED
    BY <2>2, <2>3 DEF SetsKnown, Marked
<1>6. PendingAligned'
  BY <1>1, <1>2, <1>3, AlignedTaken DEF PendingAligned
<1>7. PlacesKept'
  BY <1>1, <1>2, <1>3, PlacesTaken DEF PlacesKept, Events
<1> QED
  BY <1>5, <1>6, <1>7 DEF EncoderInv

(* ProcessInput, with a banked permission or the one just received.        *)
LEMMA InputKeepsEncoder ==
  ASSUME CaptureInv, os = "windows", os' = os,
         \/ encoder.credits > 0 /\ ProcessInput(mft, encoder.credits - 1)
         \/ encoder.credits = 0 /\ EventIs("NeedInput") /\ ProcessInput(Received, 0)
  PROVE  /\ EncoderInv' /\ encoder' \in EncoderType /\ mft' \in MftType
         /\ thread' = To("collecting")
         /\ mft'.done = mft.done /\ mft'.n = mft.n /\ mft'.header = mft.header
<1>1. TypeOK /\ Phases /\ SetsKnown /\ PendingAligned /\ PlacesKept
  BY DEF CaptureInv
<1> DEFINE p == encoder.pending
           d == mft.done
           w == mft.inflight
           v == mft.events
           c == encoder.credits
<1>2. /\ p \in Seq(Nat) /\ d \in Seq(Output) /\ w \in Seq(Input) /\ v \in Seq(Events)
      /\ c \in Nat /\ mft.free \in Nat /\ thread.captured \in Nat /\ mft.forced \in BOOLEAN
  BY <1>1, Fields DEF Events
<1>3. PICK x \in Input :
         /\ x.picture = thread.captured
         /\ \/ /\ c > 0
               /\ mft' = [mft EXCEPT !.inflight = Append(w, x), !.forced = FALSE]
               /\ encoder' = [encoder EXCEPT !.credits = c - 1,
                                             !.pending = Append(p, thread.captured)]
            \/ /\ c = 0 /\ EventIs("NeedInput")
               /\ mft' = [Received EXCEPT !.inflight = Append(w, x), !.forced = FALSE]
               /\ encoder' = [encoder EXCEPT !.credits = 0,
                                             !.pending = Append(p, thread.captured)]
  <2>1. ASSUME NEW e \in {mft, Received}
        PROVE  \A f \in IF AllIdr THEN force_next_idr(e) ELSE {e} :
                  [picture |-> thread.captured, forced |-> f.forced] \in Input
    <3>1. e \in [header : {NoSets, ParameterSets}, events : {mft.events, Tail(mft.events)},
                 inflight : {w}, done : {d}, free : Nat, empty : Nat, forced : BOOLEAN, n : Nat]
      BY <1>1 DEF TypeOK, MftType, Received
    <3>2. \A f \in force_next_idr(e) \cup {e} : f.forced \in BOOLEAN
      BY <3>1 DEF force_next_idr
    <3> QED
      BY <1>2, <3>2 DEF Input
  <2>2. Received.inflight = w /\ thread' = To("collecting")
    BY <1>1 DEF Received, TypeOK, MftType, ProcessInput
  <2>3. CASE c > 0 /\ ProcessInput(mft, c - 1)
    <3>1. PICK f \in IF AllIdr THEN force_next_idr(mft) ELSE {mft} :
             mft' = [mft EXCEPT !.inflight = Append(@, [picture |-> thread.captured,
                                                         forced |-> f.forced]),
                                !.forced = FALSE]
      BY <2>3, Zenon DEF ProcessInput
    <3>2. encoder' = [encoder EXCEPT !.credits = c - 1, !.pending = Append(@, thread.captured)]
      BY <2>3 DEF ProcessInput
    <3> DEFINE x == [picture |-> thread.captured, forced |-> f.forced]
    <3>3. x \in Input /\ x.picture = thread.captured
      BY <2>1, <3>1
    <3> USE <3>3
    <3> WITNESS x \in Input
    <3> QED
      BY <2>3, <3>1, <3>2, <3>3
  <2>4. CASE c = 0 /\ EventIs("NeedInput") /\ ProcessInput(Received, 0)
    <3>1. PICK f \in IF AllIdr THEN force_next_idr(Received) ELSE {Received} :
             mft' = [Received EXCEPT !.inflight = Append(@, [picture |-> thread.captured,
                                                              forced |-> f.forced]),
                                     !.forced = FALSE]
      BY <2>4, Zenon DEF ProcessInput
    <3>2. encoder' = [encoder EXCEPT !.credits = 0, !.pending = Append(@, thread.captured)]
      BY <2>4 DEF ProcessInput
    <3> DEFINE x == [picture |-> thread.captured, forced |-> f.forced]
    <3>3. x \in Input /\ x.picture = thread.captured
      BY <2>1, <3>1
    <3>4. mft' = [Received EXCEPT !.inflight = Append(w, x), !.forced = FALSE]
      BY <2>2, <3>1
    <3> USE <3>3
    <3> WITNESS x \in Input
    <3> QED
      BY <2>4, <3>2, <3>3, <3>4
  <2> QED
    BY <2>3, <2>4
<1>4. PICK events \in Seq(Events), credits \in Nat :
         /\ Places(events, d, Append(w, x), mft.free, credits)
         /\ mft' = [mft EXCEPT !.events = events, !.inflight = Append(w, x), !.forced = FALSE]
         /\ encoder' = [encoder EXCEPT !.credits = credits, !.pending = Append(p, thread.captured)]
  <2>1. Places(v, d, w, mft.free, c)
    BY <1>1 DEF PlacesKept
  <2>2. CASE /\ c > 0
             /\ mft' = [mft EXCEPT !.inflight = Append(w, x), !.forced = FALSE]
             /\ encoder' = [encoder EXCEPT !.credits = c - 1,
                                           !.pending = Append(p, thread.captured)]
    <3>1. mft' = [mft EXCEPT !.events = v, !.inflight = Append(w, x), !.forced = FALSE]
      BY <1>1, <2>2 DEF TypeOK, MftType
    <3>2. c - 1 \in Nat
      BY <1>2, <2>2
    <3>3. Places(v, d, Append(w, x), mft.free, c - 1)
      BY <1>2, <1>3, <2>1, <2>2, PlacesFed
    <3> QED
      BY <1>2, <2>2, <3>1, <3>2, <3>3
  <2>3. CASE /\ c = 0 /\ EventIs("NeedInput")
             /\ mft' = [Received EXCEPT !.inflight = Append(w, x), !.forced = FALSE]
             /\ encoder' = [encoder EXCEPT !.credits = 0,
                                           !.pending = Append(p, thread.captured)]
    <3>1. mft' = [mft EXCEPT !.events = Tail(v), !.inflight = Append(w, x), !.forced = FALSE]
      BY <1>1, <2>3 DEF Received, TypeOK, MftType
    <3>2. Tail(v) \in Seq(Events)
      BY <1>2, <2>3 DEF EventIs
    <3>3. Places(Tail(v), d, Append(w, x), mft.free, c)
      BY <1>2, <1>3, <2>1, <2>3, PlacesFed DEF EventIs
    <3> QED
      BY <1>2, <2>3, <3>1, <3>2, <3>3
  <2> QED
    BY <1>3, <2>2, <2>3
<1>5. Append(w, x) \in Seq(Input) /\ Append(p, thread.captured) \in Seq(Nat)
  BY <1>2, <1>3
<1>6. /\ encoder' \in EncoderType /\ encoder'.pending = Append(p, thread.captured)
      /\ encoder'.sets = encoder.sets /\ encoder'.credits = credits
  BY <1>1, <1>4, <1>5 DEF TypeOK, EncoderType
<1>7. /\ mft' \in MftType /\ mft'.done = d /\ mft'.n = mft.n /\ mft'.header = mft.header
      /\ mft'.inflight = Append(w, x) /\ mft'.events = events /\ mft'.free = mft.free
  BY <1>1, <1>4, <1>5 DEF TypeOK, MftType, Events
<1>8. SetsKnown'
  BY <1>1, <1>6, <1>7 DEF SetsKnown, Marked
<1>9. PendingAligned'
  BY <1>1, <1>2, <1>3, <1>6, <1>7, AlignedFed DEF PendingAligned
<1>10. PlacesKept'
  BY <1>4, <1>6, <1>7 DEF PlacesKept
<1>11. thread' = To("collecting")
  BY DEF ProcessInput
<1> QED
  BY <1>6, <1>7, <1>8, <1>9, <1>10, <1>11 DEF EncoderInv

(* The Windows thread and its encoder.                                     *)
LEMMA AcquiresMoves ==
  ASSUME CaptureInv, AcquiresFrame
  PROVE  Kept
<1>1. TypeOK /\ Phases /\ SetsKnown /\ PendingAligned /\ PlacesKept
  BY DEF CaptureInv
<1>2. /\ thread' = [thread EXCEPT !.pc = "feeding", !.captured = thread.captured + 1]
      /\ ready' = ReadyAfterReport /\ force_idr' = FALSE /\ os = "windows"
      /\ mft' \in {mft, [mft EXCEPT !.forced = TRUE]}
      /\ thread.pc = "waiting"
      /\ os' = os /\ stop' = stop /\ encoder' = encoder /\ handoff' = handoff
      /\ channel' = channel /\ owner' = owner /\ view' = view /\ lost' = lost
  BY DEF AcquiresFrame, force_next_idr
<1>3. thread' \in ThreadType /\ thread'.pc = "feeding" /\ thread'.outputs = thread.outputs
  <2>1. thread.captured + 1 \in Nat /\ "feeding" \in ThreadPc /\ thread \in ThreadType
    BY <1>1, Fields DEF ThreadPc, TypeOK
  <2> QED
    BY <1>2, <2>1 DEF ThreadType
<1>4. /\ mft' \in MftType /\ mft'.done = mft.done /\ mft'.n = mft.n /\ mft'.header = mft.header
      /\ mft'.events = mft.events /\ mft'.inflight = mft.inflight /\ mft'.free = mft.free
  <2>1. mft \in MftType
    BY <1>1 DEF TypeOK
  <2> QED
    BY <1>2, <2>1 DEF MftType
<1>5. ready' \in {"open", "info", "error", "closed"}
  BY <1>1, <1>2 DEF ReadyAfterReport, TypeOK
<1>6. TypeOK'
  BY <1>1, <1>2, <1>3, <1>4, <1>5 DEF TypeOK
<1>7. Phases'
  BY <1>1, <1>2, <1>3, <1>4 DEF Phases
<1>8. EncoderInv'
  <2>1. SetsKnown'
    BY <1>1, <1>2, <1>4 DEF SetsKnown, Marked
  <2>2. PendingAligned'
    BY <1>1, <1>2, <1>4 DEF PendingAligned
  <2>3. PlacesKept'
    BY <1>1, <1>2, <1>4 DEF PlacesKept
  <2> QED
    BY <2>1, <2>2, <2>3 DEF EncoderInv
<1>9. Quiet
  BY <1>2, <1>3, <1>4 DEF Quiet, StagesKept, ChannelKept, Running
<1> QED
  BY <1>6, <1>7, <1>8, <1>9 DEF Kept, Move

LEMMA OnWindows ==
  ASSUME CaptureInv, thread.pc \in {"feeding", "collecting", "sending"}
  PROVE  os = "windows"
  BY DEF CaptureInv, Phases, TypeOK

(* An output is taken while the encoder is fed or waited for.              *)
LEMMA TakeMoves ==
  ASSUME CaptureInv, thread.pc \in {"feeding", "collecting"}, EventIs("HaveOutput"),
         take_one_output(Received),
         UNCHANGED <<os, force_idr, stop, ready, handoff, channel, owner, view, lost>>
  PROVE  Kept
<1> DEFINE f == Completed(Head(mft.done), oldest_pending)
<1>1. TypeOK /\ Phases /\ os = "windows" /\ SetsKnown /\ PendingAligned /\ PlacesKept
  BY OnWindows DEF CaptureInv
<1> HIDE DEF f
<1>2. CASE mft.done # <<>>
  <2>1. /\ f \in Frame /\ Good(f) /\ f.n = mft.done[1].n
        /\ thread' \in ThreadType /\ encoder' \in EncoderType /\ mft' \in MftType
        /\ thread'.pc = thread.pc /\ thread'.outputs = Append(thread.outputs, f)
        /\ mft'.done = Tail(mft.done) /\ mft'.header = mft.header /\ mft'.n = mft.n
    BY <1>1, <1>2, TakeTyped DEF f
  <2>2. TypeOK'
    BY <1>1, <2>1 DEF TypeOK
  <2>3. Phases'
    BY <1>1, <2>1 DEF Phases
  <2>4. EncoderInv'
    BY <1>1, <1>2, TakeKeepsEncoder
  <2>5. Takes(f)
    BY <1>2, <2>1 DEF Takes, Leaves, ChannelKept, Running
  <2> QED
    BY <2>1, <2>2, <2>3, <2>4, <2>5 DEF Kept, Move
<1>3. CASE mft.done = <<>>
  <2>1. /\ mft.events \in Seq(Events) /\ mft.events # <<>> /\ Head(mft.events) = "HaveOutput"
        /\ Tail(mft.events) \in Seq(Events)
        /\ mft.done \in Seq(Output) /\ mft.inflight \in Seq(Input)
        /\ mft.free \in Nat /\ encoder.credits \in Nat
    BY <1>1, Fields DEF EventIs, Events
  <2>2. mft' = Received /\ thread' = thread /\ encoder' = encoder
    <3>1. Received.done = <<>>
      BY <1>1, <1>3 DEF Received, TypeOK, MftType
    <3> QED
      BY <3>1 DEF take_one_output
  <2>3. /\ mft' \in MftType /\ mft'.events = Tail(mft.events) /\ mft'.done = mft.done
        /\ mft'.n = mft.n /\ mft'.header = mft.header /\ mft'.inflight = mft.inflight
        /\ mft'.free = mft.free
    BY <1>1, <2>1, <2>2 DEF Received, TypeOK, MftType, Events
  <2>4. Places(Tail(mft.events), mft.done, mft.inflight, mft.free, encoder.credits)
    BY <1>1, <1>3, <2>1, PlacesTaken DEF PlacesKept
  <2>5. EncoderInv'
    <3>1. SetsKnown'
      BY <1>1, <2>2, <2>3 DEF SetsKnown, Marked
    <3>2. PendingAligned' /\ PlacesKept'
      BY <1>1, <2>2, <2>3, <2>4 DEF PendingAligned, PlacesKept
    <3> QED
      BY <3>1, <3>2 DEF EncoderInv
  <2>6. TypeOK'
    BY <1>1, <2>2, <2>3 DEF TypeOK
  <2>7. Phases'
    BY <1>1, <2>2, <2>3 DEF Phases
  <2>8. Quiet
    BY <2>2, <2>3 DEF Quiet, StagesKept, ChannelKept, Running
  <2> QED
    BY <2>5, <2>6, <2>7, <2>8 DEF Kept, Move
<1> QED
  BY <1>2, <1>3

LEMMA FeedsMoves ==
  ASSUME CaptureInv, Feeds
  PROVE  Kept
<1>1. TypeOK /\ Phases /\ os = "windows" /\ thread.pc = "feeding"
  BY OnWindows DEF CaptureInv, Feeds
<1>2. UNCHANGED <<os, force_idr, stop, ready, handoff, channel, owner, view, lost>>
  BY DEF Feeds
<1>3. CASE EventIs("HaveOutput") /\ take_one_output(Received)
  BY <1>1, <1>2, <1>3, TakeMoves
<1>4. CASE \/ encoder.credits > 0 /\ ProcessInput(mft, encoder.credits - 1)
           \/ encoder.credits = 0 /\ EventIs("NeedInput") /\ ProcessInput(Received, 0)
  <2>1. /\ EncoderInv' /\ encoder' \in EncoderType /\ mft' \in MftType
        /\ thread' = To("collecting")
        /\ mft'.done = mft.done /\ mft'.n = mft.n /\ mft'.header = mft.header
    BY <1>1, <1>2, <1>4, InputKeepsEncoder
  <2>2. thread' \in ThreadType /\ thread'.pc = "collecting" /\ thread'.outputs = thread.outputs
    BY <1>1, <2>1, Moved DEF TypeOK, ThreadPc
  <2>3. TypeOK'
    BY <1>1, <1>2, <2>1, <2>2 DEF TypeOK
  <2>4. Phases'
    BY <1>1, <1>2, <2>1, <2>2 DEF Phases
  <2>5. Quiet
    BY <1>1, <1>2, <2>1, <2>2 DEF Quiet, StagesKept, ChannelKept, Running
  <2> QED
    BY <2>1, <2>3, <2>4, <2>5 DEF Kept, Move
<1> QED
  BY <1>3, <1>4 DEF Feeds

LEMMA CollectsMoves ==
  ASSUME CaptureInv, Collects
  PROVE  Kept
<1>1. /\ TypeOK /\ Phases /\ os = "windows" /\ thread.pc = "collecting"
      /\ SetsKnown /\ PendingAligned /\ PlacesKept
  BY OnWindows DEF CaptureInv, Collects
<1>2. UNCHANGED <<os, force_idr, stop, ready, handoff, channel, owner, view, lost>>
  BY DEF Collects
<1>3. CASE EventIs("HaveOutput") /\ take_one_output(Received)
  BY <1>1, <1>2, <1>3, TakeMoves
<1>4. CASE /\ EventIs("NeedInput")
           /\ encoder' = [encoder EXCEPT !.credits = BankedCredits]
           /\ mft' = Received
           /\ thread' = thread
  <2>1. /\ mft.events \in Seq(Events) /\ mft.events # <<>> /\ Head(mft.events) = "NeedInput"
        /\ Tail(mft.events) \in Seq(Events) /\ encoder.credits + 1 \in Nat
        /\ mft.done \in Seq(Output) /\ mft.inflight \in Seq(Input)
        /\ mft.free \in Nat /\ encoder.credits \in Nat
    BY <1>1, <1>4, Fields DEF EventIs, Events
  <2>2. /\ encoder' \in EncoderType /\ encoder'.credits = encoder.credits + 1
        /\ encoder'.pending = encoder.pending /\ encoder'.sets = encoder.sets
    BY <1>1, <1>4, <2>1 DEF BankedCredits, TypeOK, EncoderType
  <2>3. /\ mft' \in MftType /\ mft'.events = Tail(mft.events) /\ mft'.done = mft.done
        /\ mft'.n = mft.n /\ mft'.header = mft.header /\ mft'.inflight = mft.inflight
        /\ mft'.free = mft.free
    BY <1>1, <1>4, <2>1 DEF Received, TypeOK, MftType, Events
  <2>4. Places(Tail(mft.events), mft.done, mft.inflight, mft.free, encoder.credits + 1)
    <3>1. [picture |-> 0, forced |-> FALSE] \in Input
      BY DEF Input
    <3> QED
      BY <1>1, <2>1, <3>1, PlacesFed DEF PlacesKept
  <2>5. EncoderInv'
    <3>1. SetsKnown'
      BY <1>1, <2>2, <2>3 DEF SetsKnown, Marked
    <3>2. PendingAligned' /\ PlacesKept'
      BY <1>1, <2>2, <2>3, <2>4 DEF PendingAligned, PlacesKept
    <3> QED
      BY <3>1, <3>2 DEF EncoderInv
  <2>6. TypeOK'
    BY <1>1, <1>2, <1>4, <2>2, <2>3 DEF TypeOK
  <2>7. Phases'
    BY <1>1, <1>2, <1>4, <2>3 DEF Phases
  <2>8. Quiet
    BY <1>2, <1>4, <2>3 DEF Quiet, StagesKept, ChannelKept, Running
  <2> QED
    BY <2>5, <2>6, <2>7, <2>8 DEF Kept, Move
<1>5. CASE thread' = To("sending") /\ UNCHANGED <<encoder, mft>>
  <2>1. thread' \in ThreadType /\ thread'.pc = "sending" /\ thread'.outputs = thread.outputs
    BY <1>1, <1>5, Moved DEF TypeOK, ThreadPc
  <2>2. TypeOK'
    BY <1>1, <1>2, <1>5, <2>1 DEF TypeOK
  <2>3. Phases'
    BY <1>1, <1>2, <1>5, <2>1 DEF Phases
  <2>4. Quiet
    BY <1>1, <1>2, <1>5, <2>1 DEF Quiet, StagesKept, ChannelKept, Running
  <2>5. EncoderInv'
    BY <1>2, <1>5, EncoderKept
  <2> QED
    BY <2>2, <2>3, <2>4, <2>5 DEF Kept, Move
<1> QED
  BY <1>3, <1>4, <1>5 DEF Collects

LEMMA SendsMoves ==
  ASSUME CaptureInv, SendsOutputs
  PROVE  Kept
<1>1. TypeOK /\ Phases /\ os = "windows" /\ thread.pc = "sending"
  BY OnWindows DEF CaptureInv, SendsOutputs
<1>2. UNCHANGED <<os, force_idr, stop, ready, encoder, mft, handoff, owner, view>>
  BY DEF SendsOutputs
<1>3. EncoderInv'
  BY <1>2, EncoderKept
<1>4. CASE (thread' = To("polling") \/ thread' = Returns("ok")) /\ UNCHANGED <<channel, lost>>
  <2>1. /\ thread' \in ThreadType
        /\ \/ thread'.pc = "polling" /\ thread'.outputs = thread.outputs
           \/ thread'.pc = "finishing" /\ thread'.outputs = <<>>
    BY <1>1, <1>4, Moved, Returned DEF TypeOK, ThreadPc
  <2>2. TypeOK'
    BY <1>1, <1>2, <1>4, <2>1 DEF TypeOK
  <2>3. Phases'
    BY <1>1, <1>2, <2>1 DEF Phases
  <2>4. Quiet \/ Ends
    BY <1>1, <1>2, <1>4, <2>1 DEF Quiet, Ends, StagesKept, ChannelKept, Running
  <2> QED
    BY <1>3, <2>2, <2>3, <2>4 DEF Kept, Move
<1>5. CASE /\ thread.outputs # <<>> /\ send(Head(thread.outputs))
           /\ thread' = [thread EXCEPT !.outputs = Tail(@)]
  <2>1. /\ Head(thread.outputs) = thread.outputs[1] /\ thread.outputs[1] \in Frame
        /\ Tail(thread.outputs) \in Seq(Frame)
    BY <1>1, <1>5, Fields
  <2>2. channel' \in Seq(Frame) /\ lost' \subseteq Nat
    BY <1>1, <1>5, <2>1, SendTyped
  <2>3. /\ thread' \in ThreadType /\ thread'.pc = thread.pc
        /\ thread'.outputs = Tail(thread.outputs)
    BY <1>1, <1>5, <2>1 DEF TypeOK, ThreadType
  <2>4. TypeOK'
    BY <1>1, <1>2, <2>2, <2>3 DEF TypeOK
  <2>5. Phases'
    BY <1>1, <1>2, <2>3 DEF Phases
  <2>6. Sent(thread.outputs[1])
    BY <1>1, <1>2, <1>5, <2>1, <2>3 DEF Sent, send, StagesKept, Running
  <2>7. Forwards
    BY <1>1, <1>2, <1>5, <2>3, <2>6 DEF Forwards
  <2> QED
    BY <1>3, <2>4, <2>5, <2>7 DEF Kept, Move
<1> QED
  BY <1>4, <1>5 DEF SendsOutputs

LEMMA AsksMoves ==
  ASSUME CaptureInv, AsksForInput
  PROVE  Kept
<1>1. TypeOK /\ Phases /\ SetsKnown /\ PendingAligned /\ PlacesKept /\ os = "windows"
  BY DEF CaptureInv, AsksForInput
<1>2. /\ UNCHANGED <<os, force_idr, stop, ready, thread, encoder, handoff, channel, owner, view, lost>>
      /\ mft.free > 0
      /\ mft' = [mft EXCEPT !.free = mft.free - 1, !.events = Append(mft.events, "NeedInput")]
  BY DEF AsksForInput
<1>3. /\ mft.events \in Seq(Events) /\ mft.done \in Seq(Output) /\ mft.inflight \in Seq(Input)
      /\ mft.free \in Nat /\ encoder.credits \in Nat
  BY <1>1, Fields DEF Events
<1>4. Append(mft.events, "NeedInput") \in Seq(Events) /\ mft.free - 1 \in Nat
  BY <1>2, <1>3 DEF Events
<1>5. /\ mft' \in MftType /\ mft'.events = Append(mft.events, "NeedInput")
      /\ mft'.done = mft.done /\ mft'.n = mft.n /\ mft'.header = mft.header
      /\ mft'.inflight = mft.inflight /\ mft'.free = mft.free - 1
  BY <1>1, <1>2, <1>4 DEF TypeOK, MftType, Events
<1>6. EncoderInv'
  <2>1. SetsKnown'
    BY <1>1, <1>2, <1>5 DEF SetsKnown, Marked
  <2>2. PendingAligned' /\ PlacesKept'
    BY <1>1, <1>2, <1>3, <1>5, PlacesOffered DEF PendingAligned, PlacesKept
  <2> QED
    BY <2>1, <2>2 DEF EncoderInv
<1>7. TypeOK'
  BY <1>1, <1>2, <1>5 DEF TypeOK
<1>8. Phases'
  BY <1>1, <1>2, <1>5 DEF Phases
<1>9. Quiet
  BY <1>2, <1>5 DEF Quiet, StagesKept, ChannelKept, Running
<1> QED
  BY <1>6, <1>7, <1>8, <1>9 DEF Kept, Move

LEMMA AnnouncesMoves ==
  ASSUME CaptureInv, AnnouncesNothing
  PROVE  Kept
<1>1. TypeOK /\ Phases /\ SetsKnown /\ PendingAligned /\ PlacesKept /\ os = "windows"
  BY DEF CaptureInv, AnnouncesNothing
<1>2. /\ UNCHANGED <<os, force_idr, stop, ready, thread, encoder, handoff, channel, owner, view, lost>>
      /\ mft.empty > 0
      /\ mft' = [mft EXCEPT !.empty = mft.empty - 1, !.events = Append(mft.events, "HaveOutput")]
  BY DEF AnnouncesNothing
<1>3. /\ mft.events \in Seq(Events) /\ mft.done \in Seq(Output) /\ mft.inflight \in Seq(Input)
      /\ mft.free \in Nat /\ mft.empty \in Nat /\ encoder.credits \in Nat
  BY <1>1, Fields DEF Events
<1>4. Append(mft.events, "HaveOutput") \in Seq(Events) /\ mft.empty - 1 \in Nat
  BY <1>2, <1>3 DEF Events
<1>5. /\ mft' \in MftType /\ mft'.events = Append(mft.events, "HaveOutput")
      /\ mft'.done = mft.done /\ mft'.n = mft.n /\ mft'.header = mft.header
      /\ mft'.inflight = mft.inflight /\ mft'.free = mft.free
  BY <1>1, <1>2, <1>4 DEF TypeOK, MftType, Events
<1>6. EncoderInv'
  <2>1. SetsKnown'
    BY <1>1, <1>2, <1>5 DEF SetsKnown, Marked
  <2>2. PendingAligned' /\ PlacesKept'
    BY <1>1, <1>2, <1>3, <1>5, PlacesOffered DEF PendingAligned, PlacesKept
  <2> QED
    BY <2>1, <2>2 DEF EncoderInv
<1>7. TypeOK'
  BY <1>1, <1>2, <1>5 DEF TypeOK
<1>8. Phases'
  BY <1>1, <1>2, <1>5 DEF Phases
<1>9. Quiet
  BY <1>2, <1>5 DEF Quiet, StagesKept, ChannelKept, Running
<1> QED
  BY <1>6, <1>7, <1>8, <1>9 DEF Kept, Move

(* macOS: only the marks of the outputs are known of the encoder.          *)
LEMMA MacEncoder ==
  ASSUME os' = "mac", Phases', \A i \in DOMAIN mft'.done : Marked(mft'.done[i])
  PROVE  EncoderInv'
  BY DEF Phases, EncoderInv, SetsKnown, PendingAligned, PlacesKept, Marked

(* The callbacks.                                                          *)
LEMMA OnFrameMoves ==
  ASSUME CaptureInv, on_frame
  PROVE  Kept
<1>1. TypeOK /\ Phases /\ SetsKnown
  BY DEF CaptureInv
<1>2. /\ UNCHANGED <<os, stop, ready, encoder, handoff, channel, owner, view, lost>>
      /\ os = "mac" /\ thread.pc \in {"polling", "waiting"} /\ force_idr' = FALSE
      /\ thread' = [thread EXCEPT !.captured = thread.captured + 1]
  BY DEF on_frame
<1>3. /\ thread' \in ThreadType /\ thread'.pc = thread.pc /\ thread'.outputs = thread.outputs
  <2>1. thread.captured + 1 \in Nat /\ thread \in ThreadType
    <3>1. thread \in ThreadType
      BY <1>1, Zenon DEF TypeOK
    <3>2. thread.captured \in Nat
      BY <3>1 DEF ThreadType
    <3> QED
      BY <3>1, <3>2
  <2> QED
    BY <1>2, <2>1 DEF ThreadType
<1>4. /\ mft' \in MftType /\ mft'.done = mft.done /\ mft'.n = mft.n /\ mft'.header = mft.header
  <2> DEFINE x == [picture |-> thread.captured + 1, forced |-> AllIdr \/ force_idr]
  <2>1. mft' = mft \/ mft' = [mft EXCEPT !.inflight = Append(mft.inflight, x)]
    BY DEF on_frame
  <2>2. thread.captured + 1 \in Nat
    BY <1>1, Fields
  <2>3. x \in Input
    BY <1>1, <2>2, CaptureConstants DEF Input, TypeOK
  <2> HIDE DEF x
  <2>4. Append(mft.inflight, x) \in Seq(Input) /\ mft \in MftType
    BY <1>1, <2>3, Fields DEF TypeOK
  <2> QED
    BY <2>1, <2>4 DEF MftType
<1>5. TypeOK'
  BY <1>1, <1>2, <1>3, <1>4 DEF TypeOK
<1>6. Phases'
  BY <1>1, <1>2, <1>3, <1>4 DEF Phases
<1>7. EncoderInv'
  BY <1>1, <1>2, <1>4, <1>6, MacEncoder DEF SetsKnown
<1>8. Quiet
  BY <1>2, <1>3, <1>4 DEF Quiet, StagesKept, ChannelKept, Running
<1> QED
  BY <1>5, <1>6, <1>7, <1>8 DEF Kept, Move

LEMMA OnStoppedMoves ==
  ASSUME CaptureInv, on_stopped
  PROVE  Kept
<1>1. TypeOK /\ Phases
  BY DEF CaptureInv
<1>2. /\ UNCHANGED <<os, force_idr, stop, ready, thread, encoder, mft, channel, owner, view, lost>>
      /\ os = "mac" /\ handoff' = Append(handoff, <<>>)
  BY DEF on_stopped
<1>3. handoff' \in Seq(HandoffEvent)
  <2>1. <<>> \in HandoffEvent /\ handoff \in Seq(HandoffEvent)
    BY <1>1 DEF HandoffEvent, TypeOK
  <2> HIDE DEF HandoffEvent
  <2> QED
    BY <1>2, <2>1
<1>4. TypeOK'
  BY <1>1, <1>2, <1>3 DEF TypeOK
<1>5. Phases'
  BY <1>1, <1>2 DEF Phases
<1>6. Stopped
  BY <1>2 DEF Stopped, StagesKept, ChannelKept, Running
<1> QED
  BY <1>2, <1>4, <1>5, <1>6, EncoderKept DEF Kept, Move

LEMMA OnEncodedMoves ==
  ASSUME CaptureInv, on_encoded
  PROVE  Kept
<1> DEFINE out == Head(mft.done)
           f == Completed(out, out.picture)
<1>1. TypeOK /\ Phases /\ SetsKnown
  BY DEF CaptureInv
<1>2. /\ UNCHANGED <<os, force_idr, stop, ready, thread, channel, owner, view>>
      /\ os = "mac" /\ mft.done # <<>>
      /\ encoder' = [encoder EXCEPT !.sets = SetsAfter(out)]
      /\ mft' = [mft EXCEPT !.done = Tail(mft.done)]
      /\ \/ handoff' = Append(handoff, <<f>>) /\ lost' = lost
         \/ handoff' = handoff /\ lost' = lost \cup {f.n}
  BY DEF on_encoded
<1>3. /\ out \in Output /\ out = mft.done[1] /\ SetsAfter(out) \in {NoSets, ParameterSets}
  BY <1>1, <1>2, SetsTaken
<1>4. out.picture \in Nat
  BY <1>3 DEF Output
<1>5. f \in Frame /\ Good(f) /\ f.n = mft.done[1].n
  BY <1>1, <1>2, <1>3, <1>4, FrameMade DEF Good
<1> HIDE DEF f, out
<1>6. f.n \in Nat
  BY <1>5 DEF Frame
<1>7. handoff' \in Seq(HandoffEvent) /\ lost' \subseteq Nat
  <2>1. <<f>> \in HandoffEvent /\ handoff \in Seq(HandoffEvent) /\ lost \subseteq Nat
    BY <1>1, <1>5 DEF HandoffEvent, TypeOK
  <2>2. Append(handoff, <<f>>) \in Seq(HandoffEvent)
    BY <2>1
  <2>3. lost \cup {f.n} \subseteq Nat
    BY <1>6, <2>1
  <2> QED
    BY <1>2, <2>1, <2>2, <2>3
<1>8. encoder' \in EncoderType
  BY <1>1, <1>2, <1>3 DEF TypeOK, EncoderType
<1>9. /\ mft' \in MftType /\ mft'.done = Tail(mft.done) /\ mft'.n = mft.n
      /\ mft'.header = mft.header
  <2>1. Tail(mft.done) \in Seq(Output) /\ mft \in MftType
    BY <1>1, <1>2, Fields DEF TypeOK
  <2> QED
    BY <1>2, <2>1 DEF MftType
<1>10. TypeOK'
  BY <1>1, <1>2, <1>7, <1>8, <1>9 DEF TypeOK
<1>11. Phases'
  BY <1>1, <1>2, <1>9 DEF Phases
<1>12. \A i \in DOMAIN mft'.done : Marked(mft'.done[i])
  <2>1. \A i \in DOMAIN mft'.done : mft'.done[i] = mft.done[i + 1] /\ i + 1 \in DOMAIN mft.done
    BY <1>1, <1>2, <1>9, Fields, SMTT(30)
  <2> QED
    BY <1>1, <2>1 DEF SetsKnown
<1>13. EncoderInv'
  BY <1>2, <1>11, <1>12, MacEncoder
<1>14. HandsOver(f)
  BY <1>2, <1>5, <1>9 DEF HandsOver, Leaves, ChannelKept, Running
<1> QED
  BY <1>5, <1>10, <1>11, <1>13, <1>14 DEF Kept, Move

LEMMA PumpMoves ==
  ASSUME CaptureInv, pump
  PROVE  Kept
<1>1. TypeOK /\ Phases
  BY DEF CaptureInv
<1>2. /\ UNCHANGED <<os, force_idr, stop, encoder, mft, owner, view>>
      /\ os = "mac" /\ thread.pc = "waiting" /\ handoff # <<>> /\ handoff' = Tail(handoff)
  BY DEF pump
<1>3. ready' \in {"open", "info", "error", "closed"}
  BY <1>1 DEF pump, ReadyAfterReport, TypeOK
<1>4. handoff \in Seq(HandoffEvent)
  BY <1>1 DEF TypeOK
<1>5. handoff' \in Seq(HandoffEvent) /\ Head(handoff) = handoff[1] /\ handoff[1] \in HandoffEvent
  BY <1>2, <1>4
<1>6. EncoderInv'
  BY <1>2, EncoderKept
<1>7. CASE (thread' = Returns("err") \/ thread' = Returns("ok")) /\ UNCHANGED <<channel, lost>>
  <2>1. thread' \in ThreadType /\ thread'.pc = "finishing" /\ thread'.outputs = <<>>
    BY <1>1, <1>7, Returned DEF TypeOK
  <2>2. TypeOK'
    BY <1>1, <1>2, <1>3, <1>5, <1>7, <2>1 DEF TypeOK
  <2>3. Phases'
    BY <1>1, <1>2, <2>1 DEF Phases
  <2>4. Ends
    BY <1>2, <1>7, <2>1 DEF Ends, ChannelKept, Running
  <2> QED
    BY <1>6, <2>2, <2>3, <2>4 DEF Kept, Move
<1>8. CASE Head(handoff) # <<>> /\ send(Head(handoff)[1]) /\ thread' = To("polling")
  <2>1. handoff[1] # <<>> /\ handoff[1][1] \in Frame
    BY <1>5, <1>8 DEF HandoffEvent
  <2>2. channel' \in Seq(Frame) /\ lost' \subseteq Nat
    BY <1>1, <1>5, <1>8, <2>1, SendTyped
  <2>3. thread' \in ThreadType /\ thread'.pc = "polling" /\ thread'.outputs = thread.outputs
    BY <1>1, <1>8, Moved DEF TypeOK, ThreadPc
  <2>4. TypeOK'
    BY <1>1, <1>2, <1>3, <1>5, <2>2, <2>3 DEF TypeOK
  <2>5. Phases'
    BY <1>1, <1>2, <2>3 DEF Phases
  <2>6. Sent(handoff[1][1])
    BY <1>2, <1>5, <1>8, <2>3 DEF Sent, send, StagesKept, Running
  <2>7. Forwards
    BY <1>2, <2>1, <2>3, <2>6 DEF Forwards
  <2> QED
    BY <1>6, <2>4, <2>5, <2>7 DEF Kept, Move
<1> QED
  BY <1>7, <1>8 DEF pump

(* The system's encoder.                                                   *)
LEMMA DropMoves ==
  ASSUME CaptureInv, EncoderDrops
  PROVE  Kept
<1>1. TypeOK /\ Phases /\ SetsKnown
  BY DEF CaptureInv
<1>2. /\ UNCHANGED <<os, force_idr, stop, ready, thread, encoder, handoff, channel, owner, view, lost>>
      /\ os = "mac" /\ mft.inflight # <<>>
      /\ mft' = [mft EXCEPT !.inflight = Tail(mft.inflight)]
  BY DEF EncoderDrops
<1>3. mft' \in MftType /\ mft'.done = mft.done /\ mft'.n = mft.n /\ mft'.header = mft.header
  <2>1. Tail(mft.inflight) \in Seq(Input) /\ mft \in MftType
    BY <1>1, <1>2, Fields DEF TypeOK
  <2> QED
    BY <1>2, <2>1 DEF MftType
<1>4. TypeOK'
  BY <1>1, <1>2, <1>3 DEF TypeOK
<1>5. Phases'
  BY <1>1, <1>2, <1>3 DEF Phases
<1>6. EncoderInv'
  BY <1>1, <1>2, <1>3, <1>5, MacEncoder DEF SetsKnown
<1>7. Quiet
  BY <1>2, <1>3 DEF Quiet, StagesKept, ChannelKept, Running
<1> QED
  BY <1>4, <1>5, <1>6, <1>7 DEF Kept, Move

LEMMA EncodesMoves ==
  ASSUME CaptureInv, Encodes
  PROVE  Kept
<1>1. TypeOK /\ Phases /\ SetsKnown /\ PendingAligned /\ PlacesKept
  BY DEF CaptureInv
<1>2. /\ UNCHANGED <<os, force_idr, stop, ready, thread, encoder, handoff, channel, owner, view, lost>>
      /\ mft.inflight # <<>>
  BY DEF Encodes
<1> DEFINE d == mft.done
           w == mft.inflight
           v == mft.events
           full == <<"sps", "pps", "idr">>
           events == IF os = "windows" THEN Append(v, "HaveOutput") ELSE v
           free == IF os = "windows" THEN mft.free + 1 ELSE mft.free
<1>3. /\ d \in Seq(Output) /\ w \in Seq(Input) /\ v \in Seq(Events)
      /\ mft.free \in Nat /\ encoder.credits \in Nat /\ mft.n \in Nat
      /\ encoder.pending \in Seq(Nat)
  BY <1>1, Fields DEF Events
<1>4. PICK out :
         /\ out \in Output /\ Marked(out) /\ out.n = mft.n + 1 /\ out.picture = Head(w).picture
         /\ mft.n = 0 /\ mft.header = NoSets => out.au = full
         /\ mft' = [mft EXCEPT !.inflight = Tail(w), !.done = Append(d, out), !.n = mft.n + 1,
                               !.free = free, !.events = events]
  <2>1. PICK idr \in BOOLEAN :
          LET input == Head(w)
              key == mft.n = 0 \/ input.forced \/ idr
              inBand == mft.n = 0 /\ mft.header = NoSets
              out == [n |-> mft.n + 1, picture |-> input.picture, key |-> key, flag |-> mft.n = 0,
                      au |-> IF ~key THEN <<"slice">>
                             ELSE IF inBand THEN <<"sps", "pps", "idr">> ELSE <<"idr">>]
          IN mft' = [mft EXCEPT !.inflight = Tail(w), !.done = Append(d, out), !.n = mft.n + 1,
                                !.free = free, !.events = events]
    BY DEF Encodes
  <2> DEFINE input == Head(w)
             key == mft.n = 0 \/ input.forced \/ idr
             inBand == mft.n = 0 /\ mft.header = NoSets
             au == IF ~key THEN <<"slice">> ELSE IF inBand THEN full ELSE <<"idr">>
             out == [n |-> mft.n + 1, picture |-> input.picture, key |-> key,
                     flag |-> mft.n = 0, au |-> au]
  <2>2. input \in Input
    BY <1>2, <1>3
  <2>3. input.picture \in Nat /\ input.forced \in BOOLEAN
    BY <2>2 DEF Input
  <2>4. au \in AccessUnits
    BY DEF AccessUnits
  <2>5. <<"slice">> # <<"idr">> /\ <<"slice">> # full
    OBVIOUS
  <2>6. au # <<"slice">> <=> key
    BY <2>5
  <2>7. key \in BOOLEAN /\ (mft.n = 0) \in BOOLEAN /\ (mft.n = 0 => key)
    BY <2>3
  <2>8. mft.n = 0 /\ mft.header = NoSets => au = full
    OBVIOUS
  <2>9. mft' = [mft EXCEPT !.inflight = Tail(w), !.done = Append(d, out), !.n = mft.n + 1,
                           !.free = free, !.events = events]
    BY <2>1
  <2> HIDE DEF input, key, au, full, events, free
  <2>10. out \in Output
    BY <1>3, <2>3, <2>4, <2>7 DEF Output
  <2>11. Marked(out)
    BY <2>6, <2>7 DEF Marked
  <2>12. out.n = mft.n + 1 /\ out.picture = Head(w).picture /\ out.au = au
    BY DEF input
  <2> HIDE DEF out
  <2> QED
    BY <2>8, <2>9, <2>10, <2>11, <2>12
<1>5. /\ Tail(w) \in Seq(Input) /\ Append(d, out) \in Seq(Output) /\ mft.n + 1 \in Nat
      /\ free \in Nat /\ events \in Seq(Events)
  BY <1>2, <1>3, <1>4 DEF Events
<1> HIDE DEF full
<1>6. /\ mft' \in MftType /\ mft'.inflight = Tail(w) /\ mft'.done = Append(d, out)
      /\ mft'.n = mft.n + 1 /\ mft'.free = free /\ mft'.events = events
      /\ mft'.header = mft.header
  <2> HIDE DEF free, events
  <2> QED
    BY <1>1, <1>4, <1>5 DEF TypeOK, MftType, Events
<1>7. TypeOK'
  BY <1>1, <1>2, <1>6 DEF TypeOK
<1>8. Phases'
  BY <1>1, <1>2, <1>6 DEF Phases
<1>9. SetsKnown'
  <2>1. /\ DOMAIN Append(d, out) = 1..(Len(d) + 1) /\ DOMAIN d = 1..Len(d) /\ Len(d) \in Nat
        /\ \A i \in 1..Len(d) : Append(d, out)[i] = d[i]
        /\ Append(d, out)[Len(d) + 1] = out
        /\ Append(d, out) # <<>>
        /\ d = <<>> <=> Len(d) = 0
    BY <1>3, <1>4, SMTT(30)
  <2>2. \A i \in DOMAIN Append(d, out) : Marked(Append(d, out)[i])
    BY <1>1, <1>4, <2>1 DEF SetsKnown
  <2>3. ASSUME mft.header = NoSets, encoder.sets = NoSets
        PROVE  Append(d, out)[1].au = full
    <3>1. CASE d = <<>>
      <4>1. Len(d) + 1 = 1
        BY <2>1, <3>1
      <4> QED
        BY <1>1, <1>4, <2>1, <2>3, <3>1, <4>1 DEF SetsKnown
    <3>2. CASE d # <<>>
      <4>1. 1 \in 1..Len(d)
        BY <2>1, <3>2
      <4> QED
        BY <1>1, <2>1, <2>3, <3>2, <4>1 DEF SetsKnown, full
    <3> QED
      BY <3>1, <3>2
  <2> QED
    BY <1>2, <1>6, <2>1, <2>2, <2>3 DEF SetsKnown, Marked, full
<1>10. PendingAligned'
  BY <1>1, <1>2, <1>3, <1>4, <1>6, AlignedEncoded DEF PendingAligned
<1>11. PlacesKept'
  BY <1>1, <1>2, <1>3, <1>4, <1>6, PlacesEncoded DEF PlacesKept
<1>12. Encoded(out)
  BY <1>2, <1>4, <1>6 DEF Encoded, ChannelKept, Running
<1> QED
  BY <1>4, <1>7, <1>8, <1>9, <1>10, <1>11, <1>12 DEF EncoderInv, Kept, Move

LEMMA EveryMove ==
  ASSUME CaptureInv, Next
  PROVE  Kept
  BY ThreadMoves, SessionMoves, AcquiresMoves, FeedsMoves, CollectsMoves, SendsMoves, AsksMoves,
     AnnouncesMoves, OnFrameMoves, OnStoppedMoves, OnEncodedMoves, PumpMoves, DropMoves, EncodesMoves
     DEF Next, WorkerStep

-----------------------------------------------------------------------------
(* Sequences of numbered frames *)

LEMMA NumbersAppended ==
  ASSUME NEW S, NEW q \in Seq(S), NEW x \in S
  PROVE  /\ Numbers(Append(q, x)) = Numbers(q) \cup {x.n}
         /\ Increasing(q) /\ (\A m \in Numbers(q) : m < x.n) => Increasing(Append(q, x))
<1> DEFINE t == Append(q, x)
<1>1. /\ DOMAIN q = 1..Len(q) /\ Len(q) \in Nat /\ DOMAIN t = 1..(Len(q) + 1)
      /\ \A i \in 1..Len(q) : t[i] = q[i]
      /\ t[Len(q) + 1] = x
  OBVIOUS
<1> HIDE DEF t
<1>2. Numbers(t) = Numbers(q) \cup {x.n}
  <2>1. ASSUME NEW m \in Numbers(t) PROVE m \in Numbers(q) \cup {x.n}
    <3>1. PICK i \in 1..(Len(q) + 1) : m = t[i].n
      BY <1>1 DEF Numbers
    <3>2. CASE i = Len(q) + 1
      BY <1>1, <3>1, <3>2
    <3>3. CASE i # Len(q) + 1
      <4>1. i \in 1..Len(q)
        BY <1>1, <3>3
      <4> QED
        BY <1>1, <3>1, <4>1 DEF Numbers
    <3> QED
      BY <3>2, <3>3
  <2>2. ASSUME NEW i \in 1..Len(q) PROVE q[i].n \in Numbers(t)
    <3>1. i \in 1..(Len(q) + 1)
      BY <1>1
    <3> QED
      BY <1>1, <3>1 DEF Numbers
  <2>3. x.n \in Numbers(t)
    <3>1. Len(q) + 1 \in 1..(Len(q) + 1)
      BY <1>1
    <3> QED
      BY <1>1, <3>1 DEF Numbers
  <2>4. \A m \in Numbers(q) : m \in Numbers(t)
    BY <1>1, <2>2 DEF Numbers
  <2> QED
    BY <2>1, <2>3, <2>4
<1>3. ASSUME Increasing(q), \A m \in Numbers(q) : m < x.n
      PROVE  Increasing(t)
  <2> SUFFICES ASSUME NEW i \in 1..(Len(q) + 1), NEW j \in 1..(Len(q) + 1), i < j
               PROVE  t[i].n < t[j].n
    BY <1>1 DEF Increasing
  <2>1. i \in 1..Len(q)
    BY <1>1
  <2>2. CASE j = Len(q) + 1
    <3>1. q[i].n \in Numbers(q)
      BY <1>1, <2>1 DEF Numbers
    <3> QED
      BY <1>1, <1>3, <2>1, <2>2, <3>1
  <2>3. CASE j # Len(q) + 1
    <3>1. j \in 1..Len(q)
      BY <1>1, <2>3
    <3> QED
      BY <1>1, <1>3, <2>1, <3>1 DEF Increasing
  <2> QED
    BY <2>2, <2>3
<1> QED
  BY <1>2, <1>3 DEF t

LEMMA NumbersTail ==
  ASSUME NEW S, NEW q \in Seq(S), q # <<>>, Increasing(q), \A x \in S : x.n \in Nat
  PROVE  /\ q[1].n \in Numbers(q)
         /\ Numbers(Tail(q)) = Numbers(q) \ {q[1].n}
         /\ \A m \in Numbers(Tail(q)) : q[1].n < m
         /\ Increasing(Tail(q))
<1> DEFINE t == Tail(q)
<1>1. /\ DOMAIN q = 1..Len(q) /\ Len(q) \in Nat \ {0} /\ DOMAIN t = 1..(Len(q) - 1)
      /\ \A i \in 1..(Len(q) - 1) : t[i] = q[i + 1]
  OBVIOUS
<1>2. \A i \in 1..Len(q) : q[i].n \in Nat
  OBVIOUS
<1> HIDE DEF t
<1>3. \A i \in 1..(Len(q) - 1) : i + 1 \in 1..Len(q) /\ 1 < i + 1
  BY <1>1
<1>4. q[1].n \in Numbers(q) /\ 1 \in DOMAIN q
  BY <1>1 DEF Numbers
<1>5. \A m \in Numbers(t) : q[1].n < m /\ m \in Numbers(q)
  <2> SUFFICES ASSUME NEW i \in 1..(Len(q) - 1)
               PROVE  q[1].n < t[i].n /\ t[i].n \in Numbers(q)
    BY <1>1 DEF Numbers
  <2> QED
    BY <1>1, <1>3, <1>4 DEF Increasing, Numbers
<1>6. \A m \in Numbers(q) : m # q[1].n => m \in Numbers(t)
  <2> SUFFICES ASSUME NEW i \in 1..Len(q), q[i].n # q[1].n
               PROVE  q[i].n \in Numbers(t)
    BY <1>1 DEF Numbers
  <2>1. i - 1 \in 1..(Len(q) - 1) /\ (i - 1) + 1 = i
    BY <1>1
  <2>2. t[i - 1] = q[i]
    BY <1>1, <2>1
  <2> QED
    BY <1>1, <2>1, <2>2 DEF Numbers
<1>7. Numbers(t) = Numbers(q) \ {q[1].n}
  <2>1. \A m \in Numbers(t) : m # q[1].n
    <3>1. \A m \in Numbers(q) : m \in Nat
      BY <1>1, <1>2 DEF Numbers
    <3> QED
      BY <1>1, <1>4, <1>5, <3>1
  <2> QED
    BY <1>5, <1>6, <2>1
<1>8. Increasing(t)
  <2> SUFFICES ASSUME NEW i \in 1..(Len(q) - 1), NEW j \in 1..(Len(q) - 1), i < j
               PROVE  t[i].n < t[j].n
    BY <1>1 DEF Increasing
  <2>1. i + 1 \in DOMAIN q /\ j + 1 \in DOMAIN q /\ i + 1 < j + 1
    BY <1>1
  <2> QED
    BY <1>1, <2>1 DEF Increasing
<1> QED
  BY <1>4, <1>5, <1>7, <1>8 DEF t

LEMMA HandedAppended ==
  ASSUME NEW h \in Seq(HandoffEvent), NEW e \in HandoffEvent
  PROVE  /\ e = <<>> => HandedOver(Append(h, e)) = HandedOver(h)
         /\ e # <<>> => HandedOver(Append(h, e)) = HandedOver(h) \cup {e[1].n}
         /\ InTurn(h) /\ (e # <<>> => \A m \in HandedOver(h) : m < e[1].n)
            => InTurn(Append(h, e))
<1> DEFINE t == Append(h, e)
           N == Len(h)
<1>1. /\ DOMAIN h = 1..N /\ N \in Nat /\ DOMAIN t = 1..(N + 1)
      /\ \A i \in 1..N : t[i] = h[i]
      /\ t[N + 1] = e
  OBVIOUS
<1> HIDE DEF t, N
<1>2. \A m \in HandedOver(t) : m \in HandedOver(h) \/ (e # <<>> /\ m = e[1].n)
  <2> SUFFICES ASSUME NEW i \in 1..(N + 1), t[i] # <<>>
               PROVE  t[i][1].n \in HandedOver(h) \/ (e # <<>> /\ t[i][1].n = e[1].n)
    BY <1>1 DEF HandedOver
  <2>1. CASE i = N + 1
    BY <1>1, <2>1
  <2>2. CASE i # N + 1
    <3>1. i \in 1..N
      BY <1>1, <2>2
    <3> QED
      BY <1>1, <3>1 DEF HandedOver
  <2> QED
    BY <2>1, <2>2
<1>3. \A m \in HandedOver(h) : m \in HandedOver(t)
  <2> SUFFICES ASSUME NEW i \in 1..N, h[i] # <<>>
               PROVE  h[i][1].n \in HandedOver(t)
    BY <1>1 DEF HandedOver
  <2>1. i \in 1..(N + 1)
    BY <1>1
  <2> QED
    BY <1>1, <2>1 DEF HandedOver
<1>4. e # <<>> => e[1].n \in HandedOver(t)
  <2>1. N + 1 \in 1..(N + 1)
    BY <1>1
  <2> QED
    BY <1>1, <2>1 DEF HandedOver
<1>5. ASSUME InTurn(h), e # <<>> => \A m \in HandedOver(h) : m < e[1].n
      PROVE  InTurn(t)
  <2> SUFFICES ASSUME NEW i \in 1..(N + 1), NEW j \in 1..(N + 1), i < j, t[i] # <<>>, t[j] # <<>>
               PROVE  t[i][1].n < t[j][1].n
    BY <1>1 DEF InTurn
  <2>1. i \in 1..N
    BY <1>1
  <2>2. CASE j = N + 1
    <3>1. h[i][1].n \in HandedOver(h)
      BY <1>1, <2>1 DEF HandedOver
    <3> QED
      BY <1>1, <1>5, <2>1, <2>2, <3>1
  <2>3. CASE j # N + 1
    <3>1. j \in 1..N
      BY <1>1, <2>3
    <3> QED
      BY <1>1, <1>5, <2>1, <3>1 DEF InTurn
  <2> QED
    BY <2>2, <2>3
<1> QED
  BY <1>2, <1>3, <1>4, <1>5 DEF t

LEMMA HandedTail ==
  ASSUME NEW h \in Seq(HandoffEvent), h # <<>>, InTurn(h)
  PROVE  /\ HandedOver(Tail(h)) \subseteq HandedOver(h)
         /\ InTurn(Tail(h))
         /\ h[1] # <<>> => /\ h[1][1].n \in HandedOver(h)
                           /\ \A m \in HandedOver(Tail(h)) : h[1][1].n < m
                           /\ \A m \in HandedOver(h) : m = h[1][1].n \/ m \in HandedOver(Tail(h))
<1> DEFINE t == Tail(h)
           N == Len(h)
<1>1. /\ DOMAIN h = 1..N /\ N \in Nat \ {0} /\ DOMAIN t = 1..(N - 1)
      /\ \A i \in 1..(N - 1) : t[i] = h[i + 1]
  OBVIOUS
<1> HIDE DEF t, N
<1>2. \A i \in 1..(N - 1) : i + 1 \in 1..N /\ 1 < i + 1
  BY <1>1
<1>3. 1 \in 1..N
  BY <1>1
<1>4. HandedOver(t) \subseteq HandedOver(h)
  BY <1>1, <1>2 DEF HandedOver
<1>5. InTurn(t)
  <2> SUFFICES ASSUME NEW i \in 1..(N - 1), NEW j \in 1..(N - 1), i < j, t[i] # <<>>, t[j] # <<>>
               PROVE  t[i][1].n < t[j][1].n
    BY <1>1 DEF InTurn
  <2>1. i + 1 \in DOMAIN h /\ j + 1 \in DOMAIN h /\ i + 1 < j + 1
    BY <1>1
  <2> QED
    BY <1>1, <2>1 DEF InTurn
<1>6. ASSUME h[1] # <<>>
      PROVE  /\ h[1][1].n \in HandedOver(h)
             /\ \A m \in HandedOver(t) : h[1][1].n < m
             /\ \A m \in HandedOver(h) : m = h[1][1].n \/ m \in HandedOver(t)
  <2>1. h[1][1].n \in HandedOver(h)
    BY <1>1, <1>3, <1>6 DEF HandedOver
  <2>2. \A m \in HandedOver(t) : h[1][1].n < m
    <3> SUFFICES ASSUME NEW i \in 1..(N - 1), t[i] # <<>>
                 PROVE  h[1][1].n < t[i][1].n
      BY <1>1 DEF HandedOver
    <3> QED
      BY <1>1, <1>2, <1>3, <1>6 DEF InTurn
  <2>3. \A m \in HandedOver(h) : m = h[1][1].n \/ m \in HandedOver(t)
    <3> SUFFICES ASSUME NEW i \in 1..N, h[i] # <<>>
                 PROVE  h[i][1].n = h[1][1].n \/ h[i][1].n \in HandedOver(t)
      BY <1>1 DEF HandedOver
    <3>1. CASE i = 1
      BY <3>1
    <3>2. CASE i # 1
      <4>1. i - 1 \in 1..(N - 1) /\ (i - 1) + 1 = i
        BY <1>1, <3>2
      <4>2. t[i - 1] = h[i]
        BY <1>1, <4>1
      <4> QED
        BY <1>1, <4>1, <4>2 DEF HandedOver
    <3> QED
      BY <3>1, <3>2
  <2> QED
    BY <2>1, <2>2, <2>3
<1> QED
  BY <1>4, <1>5, <1>6 DEF t

-----------------------------------------------------------------------------
(* The order of the stages and the gaps between them, as sets of numbers *)

LEMMA StagedLess ==
  ASSUME NEW last \in Nat, NEW C \in SUBSET Nat, NEW W \in SUBSET Nat, NEW D \in SUBSET Nat,
         NEW n \in Nat, Staged(last, C, W, D, n),
         NEW l \in {0, last}, NEW C2 \in SUBSET C, NEW W2 \in SUBSET W
  PROVE  Staged(l, C2, W2, D, n)
  BY DEF Staged, Before

LEMMA StagedLeaves ==
  ASSUME NEW last \in Nat, NEW C \in SUBSET Nat, NEW W \in SUBSET Nat, NEW D \in SUBSET Nat,
         NEW n \in Nat, Staged(last, C, W, D, n),
         NEW x \in D, NEW D2 \in SUBSET D, \A d \in D2 : x < d,
         NEW W2, W2 \subseteq W \cup {x}
  PROVE  Staged(last, C, W2, D2, n)
  BY DEF Staged, Before

LEMMA StagedForwards ==
  ASSUME NEW last \in Nat, NEW C \in SUBSET Nat, NEW W \in SUBSET Nat, NEW D \in SUBSET Nat,
         NEW n \in Nat, Staged(last, C, W, D, n),
         NEW x \in W, NEW W2 \in SUBSET W, \A w \in W2 : x < w,
         NEW C2, C2 \subseteq C \cup {x}
  PROVE  Staged(last, C2, W2, D, n)
  BY DEF Staged, Before

LEMMA StagedEncoded ==
  ASSUME NEW last \in Nat, NEW C \in SUBSET Nat, NEW W \in SUBSET Nat, NEW D \in SUBSET Nat,
         NEW n \in Nat, Staged(last, C, W, D, n)
  PROVE  Staged(last, C, W, D \cup {n + 1}, n + 1)
  BY DEF Staged, Before

LEMMA StagedWritten ==
  ASSUME NEW last \in Nat, NEW C \in SUBSET Nat, NEW W \in SUBSET Nat, NEW D \in SUBSET Nat,
         NEW n \in Nat, Staged(last, C, W, D, n),
         NEW x \in C, NEW C2 \in SUBSET C, \A c \in C2 : x < c
  PROVE  Staged(x, C2, W, D, n)
  BY DEF Staged, Before

(* A move that adds no mark and drops nothing keeps the gaps covered.      *)
LEMMA CoveredLess ==
  ASSUME NEW coming, NEW marks, NEW gone, Covered(coming, marks, gone),
         NEW coming2, NEW marks2, NEW gone2,
         marks2 \subseteq marks, coming \cup gone \subseteq coming2 \cup gone2
  PROVE  Covered(coming2, marks2, gone2)
  BY DEF Covered

LEMMA CoveredEncoded ==
  ASSUME NEW last \in Nat, NEW C \in SUBSET Nat, NEW W \in SUBSET Nat, NEW D \in SUBSET Nat,
         NEW n \in Nat, NEW gone, NEW run \in BOOLEAN, Staged(last, C, W, D, n),
         Covered(Coming(C, W, D, run), Marks(last, C, W, D, n, run), gone)
  PROVE  LET D2 == D \cup {n + 1}
         IN  Covered(Coming(C, W, D2, run), Marks(last, C, W, D2, n + 1, run), gone)
<1> DEFINE D2 == D \cup {n + 1}
           M == Marks(last, C, W, D, n, run)
           M2 == Marks(last, C, W, D2, n + 1, run)
<1>1. CASE ~run
  BY <1>1 DEF Coming, Marks
<1>2. CASE run
  <2>1. M2 = M \cup {n + 2} /\ n + 1 \in M
    BY <1>2 DEF Marks, Coming
  <2>2. Coming(C, W, D2, run) = Coming(C, W, D, run) \cup {n + 1}
    BY <1>2 DEF Coming
  <2>3. \A m \in M : m \in Nat /\ m <= n + 1
    BY <1>2 DEF Marks, Coming, Staged, Before
  <2> HIDE DEF M, M2, D2
  <2> SUFFICES ASSUME NEW a \in M2, NEW b \in M2, NEW k \in (a + 1)..(b - 1)
               PROVE  k \in Coming(C, W, D2, run) \cup gone
    BY DEF Covered, M2, D2
  <2>4. a \in Nat /\ b \in Nat /\ k \in Int /\ a < k /\ k < b
    BY <2>1, <2>3
  <2>5. a \in M
    BY <2>1, <2>3, <2>4
  <2>6. CASE k = n + 1
    BY <2>2, <2>6
  <2>7. CASE k # n + 1
    <3>1. k \in (a + 1)..((n + 1) - 1) \/ (b \in M /\ k \in (a + 1)..(b - 1))
      BY <2>1, <2>4, <2>7
    <3>2. k \in Coming(C, W, D, run) \cup gone
      BY <2>1, <2>5, <3>1 DEF Covered, M
    <3> QED
      BY <2>2, <3>2
  <2> QED
    BY <2>6, <2>7
<1> QED
  BY <1>1, <1>2

(* The first frame of the channel is taken: no mark is left before it.     *)
LEMMA CoveredConsumed ==
  ASSUME NEW last \in Nat, NEW C \in SUBSET Nat, NEW W \in SUBSET Nat, NEW D \in SUBSET Nat,
         NEW n \in Nat, NEW gone, NEW run \in BOOLEAN, Staged(last, C, W, D, n),
         Covered(Coming(C, W, D, run), Marks(last, C, W, D, n, run), gone),
         NEW x \in C, NEW C2 \in SUBSET C, \A c \in C2 : x < c, C \subseteq C2 \cup {x},
         NEW l, l = x \/ (l = 0 /\ last = 0)
  PROVE  Covered(Coming(C2, W, D, run), Marks(l, C2, W, D, n, run), gone)
<1> DEFINE M == Marks(last, C, W, D, n, run)
           M2 == Marks(l, C2, W, D, n, run)
<1>1. M2 \subseteq M
  BY DEF Marks, Coming
<1>2. \A m \in M2 : m \in Nat /\ x <= m
  BY DEF Marks, Coming, Staged, Before
<1>3. Coming(C, W, D, run) \subseteq Coming(C2, W, D, run) \cup {x}
  BY DEF Coming
<1> HIDE DEF M, M2
<1> SUFFICES ASSUME NEW a \in M2, NEW b \in M2, NEW k \in (a + 1)..(b - 1)
             PROVE  k \in Coming(C2, W, D, run) \cup gone
  BY DEF Covered, M2
<1>4. k # x
  BY <1>2
<1>5. k \in Coming(C, W, D, run) \cup gone
  BY <1>1 DEF Covered, M
<1> QED
  BY <1>3, <1>4, <1>5

(* The thread returns: what it leaves behind comes after every mark left.  *)
LEMMA CoveredEnded ==
  ASSUME NEW last \in Nat, NEW C \in SUBSET Nat, NEW W \in SUBSET Nat, NEW D \in SUBSET Nat,
         NEW n \in Nat, NEW gone, NEW run \in BOOLEAN, Staged(last, C, W, D, n),
         Covered(Coming(C, W, D, run), Marks(last, C, W, D, n, run), gone),
         NEW W2
  PROVE  Covered(Coming(C, W2, D, FALSE), Marks(last, C, W2, D, n, FALSE), gone)
<1> DEFINE M == Marks(last, C, W, D, n, run)
           M2 == Marks(last, C, W2, D, n, FALSE)
<1>1. M2 \subseteq M /\ Coming(C, W2, D, FALSE) = C
  BY DEF Marks, Coming
<1>2. \A m \in M2 : m \in Nat /\ \A k \in W \cup D : m < k
  BY DEF Marks, Coming, Staged, Before
<1>3. Coming(C, W, D, run) \subseteq C \cup W \cup D
  BY DEF Coming
<1> HIDE DEF M, M2
<1> SUFFICES ASSUME NEW a \in M2, NEW b \in M2, NEW k \in (a + 1)..(b - 1)
             PROVE  k \in C \cup gone
  BY <1>1 DEF Covered, M2
<1>4. k \notin W \cup D
  BY <1>2
<1>5. k \in Coming(C, W, D, run) \cup gone
  BY <1>1 DEF Covered, M
<1> QED
  BY <1>3, <1>4, <1>5

LEMMA NumbersTyped ==
  ASSUME TypeOK
  PROVE  /\ Numbers(channel) \in SUBSET Nat /\ Numbers(mft.done) \in SUBSET Nat
         /\ Numbers(thread.outputs) \in SUBSET Nat /\ HandedOver(handoff) \in SUBSET Nat
         /\ OnTheWay \in SUBSET Nat
         /\ owner.last \in Nat /\ mft.n \in Nat /\ Running \in BOOLEAN
         /\ \A f \in Frame : f.n \in Nat
         /\ \A o \in Output : o.n \in Nat
<1>1. (\A f \in Frame : f.n \in Nat) /\ (\A o \in Output : o.n \in Nat)
  BY DEF Frame, Output
<1>2. /\ channel \in Seq(Frame) /\ handoff \in Seq(HandoffEvent)
      /\ thread.outputs \in Seq(Frame) /\ mft.done \in Seq(Output)
  BY Fields DEF TypeOK
<1>3. /\ \A i \in DOMAIN channel : channel[i] \in Frame
      /\ \A i \in DOMAIN thread.outputs : thread.outputs[i] \in Frame
      /\ \A i \in DOMAIN mft.done : mft.done[i] \in Output
  BY <1>2
<1>4. \A i \in DOMAIN handoff : handoff[i] # <<>> => handoff[i][1] \in Frame
  BY <1>2 DEF HandoffEvent
<1>5. Numbers(channel) \in SUBSET Nat /\ Numbers(thread.outputs) \in SUBSET Nat
  BY <1>1, <1>3 DEF Numbers
<1>6. Numbers(mft.done) \in SUBSET Nat
  BY <1>1, <1>3 DEF Numbers
<1>7. HandedOver(handoff) \in SUBSET Nat
  BY <1>1, <1>4 DEF HandedOver
<1> QED
  BY <1>1, <1>5, <1>6, <1>7, Fields DEF OnTheWay, Running

GoodQ(q) == \A i \in DOMAIN q : Good(q[i])
GoodH(h) == \A i \in DOMAIN h : h[i] # <<>> => Good(h[i][1])

LEMMA GoodMoves ==
  ASSUME NEW q \in Seq(Frame), NEW h \in Seq(HandoffEvent), GoodQ(q), GoodH(h)
  PROVE  /\ \A f \in Frame : Good(f) => GoodQ(Append(q, f))
         /\ q # <<>> => GoodQ(Tail(q)) /\ Good(q[1])
         /\ \A f \in Frame : Good(f) => GoodH(Append(h, <<f>>))
         /\ GoodH(Append(h, <<>>))
         /\ h # <<>> => GoodH(Tail(h)) /\ (h[1] # <<>> => Good(h[1][1]))
<1>1. /\ DOMAIN q = 1..Len(q) /\ Len(q) \in Nat
      /\ DOMAIN h = 1..Len(h) /\ Len(h) \in Nat
  OBVIOUS
<1>2. ASSUME NEW f \in Frame, Good(f) PROVE GoodQ(Append(q, f)) /\ GoodH(Append(h, <<f>>))
  <2> DEFINE t == Append(q, f)
             u == Append(h, <<f>>)
             e == <<f>>
  <2>1. /\ DOMAIN t = 1..(Len(q) + 1) /\ (\A i \in 1..Len(q) : t[i] = q[i]) /\ t[Len(q) + 1] = f
    BY <1>1
  <2>2. e \in HandoffEvent /\ e[1] = f
    BY DEF HandoffEvent
  <2>3. /\ DOMAIN u = 1..(Len(h) + 1) /\ (\A i \in 1..Len(h) : u[i] = h[i]) /\ u[Len(h) + 1] = e
    BY <1>1, <2>2
  <2> HIDE DEF t, u, e
  <2>4. GoodQ(t)
    <3> SUFFICES ASSUME NEW i \in 1..(Len(q) + 1) PROVE Good(t[i])
      BY <2>1 DEF GoodQ
    <3>1. i = Len(q) + 1 \/ i \in 1..Len(q)
      BY <1>1
    <3> QED
      BY <1>1, <1>2, <2>1, <3>1 DEF GoodQ
  <2>5. GoodH(u)
    <3> SUFFICES ASSUME NEW i \in 1..(Len(h) + 1), u[i] # <<>> PROVE Good(u[i][1])
      BY <2>3 DEF GoodH
    <3>1. i = Len(h) + 1 \/ i \in 1..Len(h)
      BY <1>1
    <3> QED
      BY <1>1, <1>2, <2>2, <2>3, <3>1 DEF GoodH
  <2> QED
    BY <2>4, <2>5 DEF t, u, e
<1>3. ASSUME q # <<>> PROVE GoodQ(Tail(q)) /\ Good(q[1])
  <2>1. /\ 1 \in DOMAIN q /\ DOMAIN Tail(q) = 1..(Len(q) - 1)
        /\ \A i \in 1..(Len(q) - 1) : Tail(q)[i] = q[i + 1] /\ i + 1 \in DOMAIN q
    BY <1>1, <1>3
  <2> QED
    BY <2>1 DEF GoodQ
<1>4. ASSUME h # <<>> PROVE GoodH(Tail(h)) /\ (h[1] # <<>> => Good(h[1][1]))
  <2>1. /\ 1 \in DOMAIN h /\ DOMAIN Tail(h) = 1..(Len(h) - 1)
        /\ \A i \in 1..(Len(h) - 1) : Tail(h)[i] = h[i + 1] /\ i + 1 \in DOMAIN h
    BY <1>1, <1>4
  <2> QED
    BY <2>1 DEF GoodH
<1>5. GoodH(Append(h, <<>>))
  <2> DEFINE u == Append(h, <<>>)
  <2>1. <<>> \in HandoffEvent
    BY DEF HandoffEvent
  <2>2. /\ DOMAIN u = 1..(Len(h) + 1) /\ (\A i \in 1..Len(h) : u[i] = h[i]) /\ u[Len(h) + 1] = <<>>
    BY <1>1, <2>1
  <2> HIDE DEF u
  <2> SUFFICES ASSUME NEW i \in 1..(Len(h) + 1), u[i] # <<>> PROVE Good(u[i][1])
    BY <2>2 DEF GoodH, u
  <2>3. i \in 1..Len(h)
    BY <1>1, <2>2
  <2> QED
    BY <1>1, <2>2, <2>3 DEF GoodH
<1> QED
  BY <1>2, <1>3, <1>4, <1>5

(* The frames that leave the encoder are the oldest of it, those that are  *)
(* forwarded the oldest on their way, those consumed the oldest sent.      *)
LEMMA FramesMove ==
  ASSUME CaptureInv, Kept
  PROVE  FramesGood' /\ Ordered' /\ GapsAreLost'
<1> DEFINE C == Numbers(channel)
           W == OnTheWay
           D == Numbers(mft.done)
           H == HandedOver(handoff)
           O == Numbers(thread.outputs)
           R == Running
<1>1. TypeOK /\ Phases /\ FramesGood /\ Ordered /\ GapsAreLost
  BY DEF CaptureInv
<1>2. /\ C \in SUBSET Nat /\ W \in SUBSET Nat /\ D \in SUBSET Nat /\ H \in SUBSET Nat
      /\ O \in SUBSET Nat /\ owner.last \in Nat /\ mft.n \in Nat /\ R \in BOOLEAN
      /\ (\A f \in Frame : f.n \in Nat) /\ (\A o \in Output : o.n \in Nat)
      /\ W = O \cup H
  BY <1>1, NumbersTyped DEF OnTheWay
<1>3. /\ Increasing(channel) /\ Increasing(thread.outputs) /\ Increasing(mft.done)
      /\ InTurn(handoff) /\ Staged(owner.last, C, W, D, mft.n)
  BY <1>1 DEF Ordered
<1>4. Covered(Coming(C, W, D, R), Marks(owner.last, C, W, D, mft.n, R), lost)
  BY <1>1 DEF GapsAreLost
<1>5. /\ channel \in Seq(Frame) /\ handoff \in Seq(HandoffEvent)
      /\ thread.outputs \in Seq(Frame) /\ mft.done \in Seq(Output)
  BY <1>1, Fields DEF TypeOK
<1> DEFINE C2 == Numbers(channel')
           W2 == Numbers(thread'.outputs) \cup HandedOver(handoff')
           D2 == Numbers(mft'.done)
           R2 == Running'
           Goal == /\ GoodQ(thread'.outputs) /\ GoodH(handoff') /\ GoodQ(channel')
                   /\ Increasing(channel') /\ Increasing(thread'.outputs)
                   /\ Increasing(mft'.done) /\ InTurn(handoff')
                   /\ Staged(owner'.last, C2, W2, D2, mft'.n)
                   /\ Covered(Coming(C2, W2, D2, R2), Marks(owner'.last, C2, W2, D2, mft'.n, R2),
                              lost')
<1>6. GoodQ(thread.outputs) /\ GoodH(handoff) /\ GoodQ(channel)
  BY <1>1 DEF FramesGood, GoodQ, GoodH
<1>7. SUFFICES Goal
  <2>1. Goal => FramesGood'
    BY DEF FramesGood, Good, GoodQ, GoodH
  <2>2. Goal => Ordered'
    BY DEF Ordered, OnTheWay, Numbers, HandedOver, Increasing, InTurn, Staged, Before
  <2>3. Goal => GapsAreLost'
    BY DEF GapsAreLost, OnTheWay, Numbers, HandedOver, Covered, Coming, Marks
  <2> QED
    BY <2>1, <2>2, <2>3
<1>8. CASE Quiet
  BY <1>2, <1>3, <1>4, <1>6, <1>8 DEF Quiet, StagesKept, ChannelKept
<1>9. CASE Ends
  <2>1. /\ mft'.done = mft.done /\ mft'.n = mft.n /\ channel' = channel
        /\ owner'.last = owner.last /\ ~R2 /\ thread'.outputs = <<>> /\ lost' = lost
        /\ handoff' = handoff \/ (handoff # <<>> /\ handoff' = Tail(handoff))
    BY <1>9 DEF Ends, ChannelKept
  <2>2. /\ GoodQ(<<>>) /\ Increasing(<<>>) /\ Numbers(<<>>) = {}
    BY DEF GoodQ, Increasing, Numbers
  <2>3. GoodH(handoff') /\ InTurn(handoff') /\ HandedOver(handoff') \subseteq H
    <3>1. handoff # <<>> => GoodH(Tail(handoff))
      BY <1>5, <1>6, GoodMoves
    <3>2. handoff # <<>> => InTurn(Tail(handoff)) /\ HandedOver(Tail(handoff)) \subseteq H
      BY <1>3, <1>5, HandedTail
    <3> QED
      BY <1>3, <1>6, <2>1, <3>1, <3>2
  <2>4. W2 \in SUBSET W
    BY <1>2, <2>1, <2>2, <2>3
  <2>5. Staged(owner.last, C, W2, D, mft.n)
    BY <1>2, <1>3, <2>4, StagedLess
  <2>6. Covered(Coming(C, W2, D, FALSE), Marks(owner.last, C, W2, D, mft.n, FALSE), lost)
    BY <1>2, <1>3, <1>4, CoveredEnded
  <2>7. R2 = FALSE
    BY <2>1 DEF Running
  <2> QED
    BY <1>3, <1>6, <2>1, <2>2, <2>3, <2>5, <2>6, <2>7
<1>10. CASE Stopped
  <2>1. /\ mft'.done = mft.done /\ mft'.n = mft.n /\ channel' = channel /\ (R2 <=> R)
        /\ owner'.last = owner.last /\ thread'.outputs = thread.outputs /\ lost' = lost
        /\ handoff' = Append(handoff, <<>>)
    BY <1>10 DEF Stopped, StagesKept, ChannelKept
  <2>2. <<>> \in HandoffEvent
    BY DEF HandoffEvent
  <2>3. GoodH(handoff') /\ InTurn(handoff') /\ HandedOver(handoff') = H
    BY <1>3, <1>5, <1>6, <2>1, <2>2, HandedAppended, GoodMoves
  <2> QED
    BY <1>2, <1>3, <1>4, <1>6, <2>1, <2>3
<1>11. ASSUME NEW f \in Frame, Leaves(f)
       PROVE  /\ mft'.n = mft.n /\ channel' = channel /\ (R2 <=> R) /\ owner'.last = owner.last
              /\ Good(f) /\ f.n \in D /\ D2 = D \ {f.n} /\ D2 \in SUBSET D
              /\ Increasing(mft'.done) /\ (\A d \in D2 : f.n < d) /\ (\A w \in W : w < f.n)
  <2>1. /\ mft'.n = mft.n /\ channel' = channel /\ (R2 <=> R) /\ owner'.last = owner.last
        /\ Good(f) /\ mft.done # <<>> /\ f.n = mft.done[1].n /\ mft'.done = Tail(mft.done)
    BY <1>11 DEF Leaves, ChannelKept
  <2>2. /\ f.n \in D /\ D2 = D \ {f.n} /\ D2 \in SUBSET D
        /\ Increasing(mft'.done) /\ (\A d \in D2 : f.n < d)
    BY <1>2, <1>3, <1>5, <2>1, NumbersTail
  <2>3. \A w \in W : w < f.n
    BY <1>3, <2>2, Zenon DEF Staged, Before
  <2> QED
    BY <2>1, <2>2, <2>3
<1>12. ASSUME NEW f \in Frame, Leaves(f), NEW gone, lost \subseteq gone, W \subseteq W2,
              W2 \subseteq W \cup {f.n}, f.n \in W2 \cup gone
       PROVE  /\ Staged(owner.last, C, W2, D2, mft.n)
              /\ Covered(Coming(C, W2, D2, R), Marks(owner.last, C, W2, D2, mft.n, R), gone)
  <2>1. Staged(owner.last, C, W2, D2, mft.n)
    BY <1>2, <1>3, <1>11, <1>12, StagedLeaves
  <2>2. Coming(C, W, D, R) \cup lost \subseteq Coming(C, W2, D2, R) \cup gone
    BY <1>11, <1>12 DEF Coming
  <2>3. Marks(owner.last, C, W2, D2, mft.n, R) \subseteq Marks(owner.last, C, W, D, mft.n, R)
    BY <1>11, <1>12 DEF Coming, Marks
  <2>4. Covered(Coming(C, W2, D2, R), Marks(owner.last, C, W2, D2, mft.n, R), gone)
    BY <1>4, <2>2, <2>3, CoveredLess
  <2> QED
    BY <2>1, <2>4
<1>13. CASE \E f \in Frame : Takes(f)
  <2>1. PICK f \in Frame : Takes(f)
    BY <1>13
  <2>2. /\ Leaves(f) /\ thread'.outputs = Append(thread.outputs, f) /\ handoff' = handoff
        /\ lost' = lost
    BY <2>1 DEF Takes
  <2>3. GoodQ(thread'.outputs)
    BY <1>5, <1>6, <1>11, <2>2, GoodMoves
  <2>4. Numbers(thread'.outputs) = O \cup {f.n} /\ Increasing(thread'.outputs)
    BY <1>2, <1>3, <1>5, <1>11, <2>2, NumbersAppended
  <2>5. W2 = W \cup {f.n}
    BY <1>2, <2>2, <2>4
  <2>6. /\ Staged(owner.last, C, W2, D2, mft.n)
        /\ Covered(Coming(C, W2, D2, R), Marks(owner.last, C, W2, D2, mft.n, R), lost)
    BY <1>12, <2>2, <2>5
  <2>7. /\ mft'.n = mft.n /\ channel' = channel /\ R2 = R /\ owner'.last = owner.last
        /\ Increasing(mft'.done)
    BY <1>2, <1>11, <2>2 DEF Running
  <2> HIDE DEF W2, D2, R2, R
  <2> QED
    BY <1>3, <1>6, <2>2, <2>3, <2>4, <2>6, <2>7
<1>14. CASE \E f \in Frame : HandsOver(f)
  <2>1. PICK f \in Frame : HandsOver(f)
    BY <1>14
  <2>2. /\ Leaves(f) /\ thread'.outputs = thread.outputs
        /\ \/ handoff' = Append(handoff, <<f>>) /\ lost' = lost
           \/ handoff' = handoff /\ lost' = lost \cup {f.n}
    BY <2>1 DEF HandsOver
  <2> DEFINE e == <<f>>
  <2>3. e \in HandoffEvent /\ e # <<>> /\ e[1] = f
    BY DEF HandoffEvent
  <2> HIDE DEF e
  <2>4. /\ GoodH(handoff') /\ InTurn(handoff')
        /\ \/ HandedOver(handoff') = H \cup {f.n} /\ lost' = lost
           \/ HandedOver(handoff') = H /\ lost' = lost \cup {f.n}
    <3>1. CASE handoff' = Append(handoff, e) /\ lost' = lost
      <4>1. \A m \in H : m < f.n
        BY <1>2, <1>11, <2>2
      <4>2. GoodH(handoff')
        BY <1>5, <1>6, <1>11, <2>2, <3>1, GoodMoves DEF e
      <4> QED
        BY <1>3, <1>5, <2>3, <3>1, <4>1, <4>2, HandedAppended
    <3>2. CASE handoff' = handoff /\ lost' = lost \cup {f.n}
      BY <1>3, <1>6, <3>2
    <3> QED
      BY <2>2, <3>1, <3>2 DEF e
  <2>5. /\ W \subseteq W2 /\ W2 \subseteq W \cup {f.n} /\ lost \subseteq lost'
        /\ f.n \in W2 \cup lost'
    BY <1>2, <2>2, <2>4
  <2>6. /\ Staged(owner.last, C, W2, D2, mft.n)
        /\ Covered(Coming(C, W2, D2, R), Marks(owner.last, C, W2, D2, mft.n, R), lost')
    BY <1>12, <2>2, <2>5
  <2>7. /\ mft'.n = mft.n /\ channel' = channel /\ R2 = R /\ owner'.last = owner.last
        /\ Increasing(mft'.done)
    BY <1>2, <1>11, <2>2 DEF Running
  <2> HIDE DEF W2, D2, R2, R
  <2> QED
    BY <1>3, <1>6, <2>2, <2>4, <2>6, <2>7
<1>15. CASE Forwards
  <2>1. PICK f \in Frame :
           /\ Sent(f) /\ Good(f) /\ f.n \in W /\ W2 \in SUBSET W /\ (\A w \in W2 : f.n < w)
           /\ W \subseteq W2 \cup {f.n}
           /\ GoodQ(thread'.outputs) /\ Increasing(thread'.outputs)
           /\ GoodH(handoff') /\ InTurn(handoff')
    <3>1. CASE /\ os = "windows" /\ thread.outputs # <<>> /\ Sent(thread.outputs[1])
               /\ thread'.outputs = Tail(thread.outputs) /\ handoff' = handoff
      <4> DEFINE f == thread.outputs[1]
      <4>1. f \in Frame
        BY <1>5, <3>1
      <4>2. H = {}
        BY <1>1, <3>1 DEF Phases, HandedOver
      <4>3. /\ f.n \in O /\ Numbers(thread'.outputs) = O \ {f.n}
            /\ (\A m \in Numbers(thread'.outputs) : f.n < m) /\ Increasing(thread'.outputs)
        BY <1>2, <1>3, <1>5, <3>1, NumbersTail
      <4>4. GoodQ(thread'.outputs) /\ Good(f)
        BY <1>5, <1>6, <3>1, GoodMoves
      <4> HIDE DEF f
      <4>5. W = O /\ W2 = O \ {f.n}
        BY <1>2, <3>1, <4>2, <4>3
      <4>6. Sent(f)
        BY <3>1 DEF f
      <4> QED
        BY <1>3, <1>6, <3>1, <4>1, <4>3, <4>4, <4>5, <4>6
    <3>2. CASE /\ os = "mac" /\ handoff # <<>> /\ handoff[1] # <<>> /\ Sent(handoff[1][1])
               /\ thread'.outputs = thread.outputs /\ handoff' = Tail(handoff)
      <4> DEFINE f == handoff[1][1]
      <4>1. f \in Frame
        <5>1. handoff[1] \in HandoffEvent
          BY <1>5, <3>2
        <5> QED
          BY <3>2, <5>1 DEF HandoffEvent
      <4>2. O = {}
        BY <1>1, <3>2 DEF Phases, Numbers
      <4>3. /\ f.n \in H /\ HandedOver(handoff') \subseteq H
            /\ (\A m \in HandedOver(handoff') : f.n < m) /\ InTurn(handoff')
            /\ H \subseteq HandedOver(handoff') \cup {f.n}
        BY <1>3, <1>5, <3>2, HandedTail
      <4>4. GoodH(handoff') /\ Good(f)
        BY <1>5, <1>6, <3>2, GoodMoves
      <4> HIDE DEF f
      <4>5. W = H /\ W2 = HandedOver(handoff')
        BY <1>2, <3>2, <4>2
      <4>6. Sent(f)
        BY <3>2 DEF f
      <4> QED
        BY <1>3, <1>6, <3>2, <4>1, <4>3, <4>4, <4>5, <4>6
    <3> QED
      BY <1>15, <3>1, <3>2 DEF Forwards
  <2>2. /\ R /\ mft'.done = mft.done /\ mft'.n = mft.n /\ (R2 <=> R) /\ owner'.last = owner.last
        /\ \/ channel' = Append(channel, f) /\ lost' = lost
           \/ channel' = channel /\ lost' = lost \cup {f.n}
    BY <2>1 DEF Sent, StagesKept
  <2>3. \A c \in C : c < f.n
    BY <1>3, <2>1, Zenon DEF Staged, Before
  <2>4. /\ GoodQ(channel') /\ Increasing(channel')
        /\ \/ C2 = C \cup {f.n} /\ lost' = lost
           \/ C2 = C /\ lost' = lost \cup {f.n}
    <3>1. GoodQ(Append(channel, f))
      BY <1>5, <1>6, <2>1, GoodMoves
    <3>2. Numbers(Append(channel, f)) = C \cup {f.n} /\ Increasing(Append(channel, f))
      BY <1>3, <1>5, <2>3, NumbersAppended
    <3> QED
      BY <1>3, <1>6, <2>2, <3>1, <3>2
  <2>5. C2 \subseteq C \cup {f.n} /\ C \subseteq C2 /\ lost \subseteq lost' /\ f.n \in C2 \cup lost'
    BY <2>4
  <2>6. Staged(owner.last, C2, W2, D, mft.n)
    BY <1>2, <1>3, <2>1, <2>5, StagedForwards
  <2>7. Covered(Coming(C2, W2, D, R), Marks(owner.last, C2, W2, D, mft.n, R), lost')
    <3>1. Coming(C, W, D, R) \cup lost \subseteq Coming(C2, W2, D, R) \cup lost'
      BY <2>1, <2>2, <2>5 DEF Coming
    <3>2. Marks(owner.last, C2, W2, D, mft.n, R) \subseteq Marks(owner.last, C, W, D, mft.n, R)
      BY <2>1, <2>2, <2>5 DEF Coming, Marks
    <3> QED
      BY <1>4, <3>1, <3>2, CoveredLess
  <2> QED
    BY <1>2, <1>3, <2>1, <2>2, <2>4, <2>6, <2>7
<1>16. CASE \E out \in Output : Encoded(out)
  <2>1. PICK out \in Output : Encoded(out)
    BY <1>16
  <2>2. /\ out.n = mft.n + 1 /\ mft'.done = Append(mft.done, out) /\ mft'.n = mft.n + 1
        /\ (R2 <=> R) /\ channel' = channel /\ owner'.last = owner.last
        /\ thread'.outputs = thread.outputs /\ handoff' = handoff /\ lost' = lost
    BY <2>1 DEF Encoded, ChannelKept
  <2>3. \A d \in D : d < out.n
    BY <1>3, <2>2, Zenon DEF Staged, Before
  <2>4. D2 = D \cup {mft.n + 1} /\ Increasing(mft'.done)
    BY <1>3, <1>5, <2>2, <2>3, NumbersAppended
  <2>5. Staged(owner.last, C, W, D2, mft.n + 1)
    BY <1>2, <1>3, <2>4, StagedEncoded
  <2>6. Covered(Coming(C, W, D2, R), Marks(owner.last, C, W, D2, mft.n + 1, R), lost)
    BY <1>2, <1>3, <1>4, <2>4, CoveredEncoded
  <2> QED
    BY <1>2, <1>3, <1>6, <2>2, <2>4, <2>5, <2>6
<1>17. CASE Reopens
  <2>1. /\ mft'.done = mft.done /\ mft'.n = mft.n /\ (R2 <=> R) /\ channel' = channel
        /\ owner'.last = 0
        /\ thread'.outputs = thread.outputs /\ handoff' = handoff /\ lost' = lost
    BY <1>17 DEF Reopens, StagesKept
  <2>2. Staged(0, C, W, D, mft.n)
    BY <1>2, <1>3, StagedLess
  <2>3. Marks(0, C, W, D, mft.n, R) \subseteq Marks(owner.last, C, W, D, mft.n, R)
    BY DEF Marks
  <2>4. Covered(Coming(C, W, D, R), Marks(0, C, W, D, mft.n, R), lost)
    BY <1>4, <2>3, CoveredLess
  <2> QED
    BY <1>2, <1>3, <1>6, <2>1, <2>2, <2>4
<1>18. CASE Consumes
  <2> DEFINE x == channel[1].n
  <2>1. /\ mft'.done = mft.done /\ mft'.n = mft.n /\ (R2 <=> R)
        /\ thread'.outputs = thread.outputs /\ handoff' = handoff
        /\ channel # <<>> /\ channel' = Tail(channel)
        /\ \/ owner'.last = x /\ lost' = lost
           \/ owner'.last = owner.last /\ lost' = lost \cup {x}
           \/ owner.last = 0 /\ owner'.last = 0 /\ lost' = lost
    BY <1>18 DEF Consumes, StagesKept
  <2>2. x \in C /\ C2 = C \ {x} /\ (\A m \in C2 : x < m) /\ Increasing(channel')
    BY <1>2, <1>3, <1>5, <2>1, NumbersTail
  <2>3. GoodQ(channel')
    BY <1>5, <1>6, <2>1, GoodMoves
  <2>4. C2 \in SUBSET C /\ C \subseteq C2 \cup {x}
    BY <2>2
  <2> HIDE DEF x
  <2>5. Staged(owner'.last, C2, W, D, mft.n)
    <3>1. Staged(x, C2, W, D, mft.n)
      BY <1>2, <1>3, <2>2, <2>4, StagedWritten
    <3>2. Staged(owner.last, C2, W, D, mft.n) /\ Staged(0, C2, W, D, mft.n)
      BY <1>2, <1>3, <2>4, StagedLess
    <3> QED
      BY <2>1, <3>1, <3>2
  <2>6. Covered(Coming(C2, W, D, R), Marks(owner'.last, C2, W, D, mft.n, R), lost')
    <3>1. CASE (owner'.last = x \/ (owner.last = 0 /\ owner'.last = 0)) /\ lost' = lost
      BY <1>2, <1>3, <1>4, <2>2, <2>4, <3>1, CoveredConsumed
    <3>2. CASE owner'.last = owner.last /\ lost' = lost \cup {x}
      <4>1. Coming(C, W, D, R) \cup lost \subseteq Coming(C2, W, D, R) \cup lost'
        BY <2>4, <3>2 DEF Coming
      <4>2. Marks(owner.last, C2, W, D, mft.n, R) \subseteq Marks(owner.last, C, W, D, mft.n, R)
        BY <2>4 DEF Coming, Marks
      <4> QED
        BY <1>4, <3>2, <4>1, <4>2, CoveredLess
    <3> QED
      BY <2>1, <3>1, <3>2
  <2>7. R2 = R /\ W2 = W /\ D2 = D
    BY <1>2, <2>1 DEF Running
  <2> HIDE DEF W2, D2, R2, R, W, D
  <2> QED
    BY <1>3, <1>6, <2>1, <2>2, <2>3, <2>5, <2>6, <2>7
<1> HIDE DEF Goal
<1> QED
  BY <1>8, <1>9, <1>10, <1>13, <1>14, <1>15, <1>16, <1>17, <1>18 DEF Kept, Move

-----------------------------------------------------------------------------
(* The inductive invariant and what follows *)

LEMMA CaptureInit ==
  ASSUME Init
  PROVE  CaptureInv
<1> DEFINE e == <<>>
<1>1. /\ e \in Seq(Frame) /\ e \in Seq(Nat) /\ e \in Seq(Input) /\ e \in Seq(Output)
      /\ e \in Seq({"NeedInput", "HaveOutput"}) /\ e \in Seq(HandoffEvent)
      /\ DOMAIN e = {} /\ Len(e) = 0
  OBVIOUS
<1>2. Depth \in Nat /\ MaxEmpty \in Nat
  BY CaptureConstants
<1>3. /\ os \in {"windows", "mac"} /\ force_idr = FALSE /\ stop = FALSE /\ ready = "open"
      /\ thread = [pc |-> "setup", outputs |-> e, result |-> "ok", captured |-> 0]
      /\ encoder = [credits |-> 0, pending |-> e, sets |-> NoSets]
      /\ os = "mac" => mft.header # NoSets
      /\ handoff = e /\ channel = e
      /\ owner = [pc |-> "spawning", skipped |-> 0, instances |-> 0, last |-> 0]
      /\ view = TRUE /\ lost = {}
  BY CaptureConstants DEF Init, NewEncoder
<1>4. PICK header \in {NoSets, ParameterSets} :
         mft = [header |-> header, events |-> e, inflight |-> e, done |-> e, free |-> Depth,
                empty |-> MaxEmpty, forced |-> FALSE, n |-> 0]
  BY DEF Init
<1> HIDE DEF e
<1>5. thread \in ThreadType /\ thread.outputs = e /\ thread.pc = "setup"
  BY <1>1, <1>3 DEF ThreadType, ThreadPc
<1>6. encoder \in EncoderType /\ encoder.pending = e /\ encoder.credits = 0
  BY <1>1, <1>3 DEF EncoderType
<1>7. /\ mft \in MftType /\ mft.events = e /\ mft.inflight = e /\ mft.done = e
      /\ mft.free = Depth /\ mft.n = 0
  BY <1>1, <1>2, <1>4 DEF MftType
<1>8. owner \in OwnerType /\ owner.pc = "spawning" /\ owner.last = 0
  BY <1>3 DEF OwnerType, OwnerPc
<1>9. TypeOK
  BY <1>1, <1>3, <1>5, <1>6, <1>7, <1>8 DEF TypeOK
<1>10. Phases
  BY <1>3, <1>5, <1>8 DEF Phases, e
<1>11. SetsKnown
  BY <1>1, <1>7 DEF SetsKnown, e
<1>12. FramesGood
  BY <1>1, <1>3, <1>5 DEF FramesGood
<1>13. PendingAligned
  BY <1>1, <1>6, <1>7 DEF PendingAligned, Aligned
<1>14. PlacesKept
  <2>1. {i \in DOMAIN e : e[i] = "HaveOutput"} = {} /\ {i \in DOMAIN e : e[i] = "NeedInput"} = {}
    BY <1>1
  <2>2. Count(e, "HaveOutput") = 0 /\ Count(e, "NeedInput") = 0
    BY <2>1, FS_EmptySet DEF Count
  <2> QED
    BY <1>1, <1>2, <1>6, <1>7, <2>2 DEF PlacesKept, Places
<1>15. Numbers(e) = {} /\ HandedOver(e) = {}
  BY <1>1 DEF Numbers, HandedOver
<1>16. Ordered
  BY <1>1, <1>3, <1>5, <1>7, <1>8, <1>15
     DEF Ordered, Increasing, InTurn, OnTheWay, Staged, Before
<1>17. GapsAreLost
  BY <1>3, <1>5, <1>7, <1>8, <1>15 DEF GapsAreLost, OnTheWay, Covered, Coming, Marks
<1> QED
  BY <1>9, <1>10, <1>11, <1>12, <1>13, <1>14, <1>16, <1>17 DEF CaptureInv

(* CaptureInv holds in every state: each step is one of the moves, and     *)
(* each move keeps the frames good, in order and without unexplained gaps. *)
THEOREM CaptureInvariant == Spec => []CaptureInv
<1>1. Init => CaptureInv
  BY CaptureInit
<1>2. CaptureInv /\ [Next]_vars => CaptureInv'
  <2> SUFFICES ASSUME CaptureInv, [Next]_vars PROVE CaptureInv'
    OBVIOUS
  <2>1. CASE Next
    <3>1. Kept
      BY <2>1, EveryMove
    <3>2. FramesGood' /\ Ordered' /\ GapsAreLost'
      BY <3>1, FramesMove
    <3> QED
      BY <3>1, <3>2 DEF Kept, EncoderInv, CaptureInv
  <2>2. CASE UNCHANGED vars
    <3>1. /\ os' = os /\ stop' = stop /\ channel' = channel /\ owner' = owner /\ view' = view
          /\ lost' = lost /\ force_idr' = force_idr /\ ready' = ready /\ thread' = thread
          /\ encoder' = encoder /\ mft' = mft /\ handoff' = handoff
      BY <2>2 DEF vars, sourceVars
    <3>2. TypeOK /\ Phases
      BY DEF CaptureInv
    <3>3. TypeOK'
      BY <3>1, <3>2 DEF TypeOK
    <3>4. Phases'
      BY <3>1, <3>2 DEF Phases
    <3>5. EncoderInv'
      BY <3>1, EncoderKept
    <3>6. Quiet
      BY <3>1 DEF Quiet, StagesKept, ChannelKept, Running
    <3>7. Kept
      BY <3>3, <3>4, <3>5, <3>6 DEF Kept, Move
    <3>8. FramesGood' /\ Ordered' /\ GapsAreLost'
      BY <3>7, FramesMove
    <3> QED
      BY <3>7, <3>8 DEF Kept, EncoderInv, CaptureInv
  <2> QED
    BY <2>1, <2>2
<1> QED
  BY <1>1, <1>2, PTL DEF Spec

(* Every IDR in the frame channel is self-contained, wherever the          *)
(* encoder's parameter sets came from.                                     *)
THEOREM IdrIsSelfContained == Spec => []IdrSelfContained
<1>1. CaptureInv => IdrSelfContained
  BY DEF CaptureInv, FramesGood, Good, IdrSelfContained, Range
<1> QED
  BY <1>1, CaptureInvariant, PTL

(* Every frame in the channel carries the capture time of its own picture. *)
THEOREM TimestampIsOwn == Spec => []OwnTimestamp
<1>1. CaptureInv => OwnTimestamp
  BY DEF CaptureInv, FramesGood, Good, OwnTimestamp, Range
<1> QED
  BY <1>1, CaptureInvariant, PTL

(* While encode_frame waits without a permission and without an event, the *)
(* encoder still has an input to encode or a place to offer.               *)
THEOREM NoPermissionIsLost == Spec => []PermissionsKept
<1>1. CaptureInv => PermissionsKept
  <2> SUFFICES ASSUME CaptureInv, thread.pc = "feeding", encoder.credits = 0, mft.events = <<>>,
                      mft.inflight = <<>>
               PROVE  mft.free > 0
    BY DEF PermissionsKept
  <2>1. os = "windows"
    BY OnWindows
  <2>2. Places(<<>>, mft.done, <<>>, mft.free, 0)
    BY <2>1 DEF CaptureInv, PlacesKept
  <2> DEFINE e == <<>>
  <2>3. {i \in DOMAIN e : e[i] = "NeedInput"} = {} /\ Len(e) = 0
    OBVIOUS
  <2>4. Count(e, "NeedInput") = 0
    BY <2>3, FS_EmptySet DEF Count
  <2>5. mft.free \in Nat /\ Depth \in Nat \ {0}
    BY CaptureConstants, Fields DEF CaptureInv
  <2>6. mft.free + 0 + 0 + 0 = Depth
    BY <2>2, <2>3, <2>4 DEF Places
  <2> QED
    BY <2>5, <2>6
<1> QED
  BY <1>1, CaptureInvariant, PTL

(* A step that writes a frame writes an IDR or, to an Instance that is     *)
(* open, the successor of the frame written before or one whose            *)
(* predecessor was dropped on the way.                                     *)
THEOREM ChainBreaksOnlyWhereDropped == Spec => ChainBreaksOnlyByDrops
<1> DEFINE f == Head(channel)
           Step == owner'.last \notin {0, owner.last} =>
                      \/ f.is_idr
                      \/ owner.last # 0 /\ (f.n = owner.last + 1 \/ f.n - 1 \in lost)
<1>1. CaptureInv /\ [Next]_vars => [Step]_vars
  <2> SUFFICES ASSUME CaptureInv, Next, owner'.last \notin {0, owner.last}, ~f.is_idr
               PROVE  owner.last # 0 /\ (f.n = owner.last + 1 \/ f.n - 1 \in lost)
    OBVIOUS
  <2>1. TypeOK /\ Phases /\ Ordered /\ GapsAreLost
    BY DEF CaptureInv
  <2>2. CASE WritesFrame
    <3>1. channel # <<>> /\ owner.pc = "streaming"
      BY <2>2 DEF WritesFrame
    <3>2. owner.last > 0 /\ owner.last \in Nat /\ mft.n \in Nat
      BY <2>1, <3>1, Fields DEF Phases
    <3> DEFINE C == Numbers(channel)
               W == OnTheWay
               D == Numbers(mft.done)
               x == f.n
               K == Coming(C, W, D, Running)
    <3>3. /\ channel \in Seq(Frame) /\ f = channel[1]
          /\ C \in SUBSET Nat /\ W \in SUBSET Nat /\ D \in SUBSET Nat
          /\ \A g \in Frame : g.n \in Nat
      BY <2>1, <3>1, NumbersTyped DEF TypeOK
    <3>4. Increasing(channel) /\ Staged(owner.last, C, W, D, mft.n)
      BY <2>1 DEF Ordered
    <3>5. /\ x \in C /\ Numbers(Tail(channel)) = C \ {x}
          /\ \A m \in Numbers(Tail(channel)) : x < m
      BY <3>1, <3>3, <3>4, NumbersTail
    <3>6. x \in Nat /\ owner.last < x
      BY <3>2, <3>3, <3>4, <3>5 DEF Staged, Before
    <3> HIDE DEF x, f
    <3>7. \A k \in K : k \in Nat /\ x <= k
      BY <3>3, <3>4, <3>5, <3>6 DEF Coming, Staged, Before
    <3>8. /\ owner.last \in Marks(owner.last, C, W, D, mft.n, Running)
          /\ x \in Marks(owner.last, C, W, D, mft.n, Running)
      BY <3>2, <3>5 DEF Marks, Coming
    <3>9. CASE x # owner.last + 1
      <4>1. x - 1 \in (owner.last + 1)..(x - 1)
        BY <3>2, <3>6, <3>9
      <4>2. x - 1 \in K \cup lost
        BY <2>1, <3>8, <4>1 DEF GapsAreLost, Covered
      <4> QED
        BY <3>2, <3>6, <3>7, <4>2 DEF x
    <3> QED
      BY <3>2, <3>9 DEF x
  <2>3. CASE ~WritesFrame
    <3>1. owner'.last \in {0, owner.last} \/ next_idr_frame
      <4>1. CASE SpawnReturns \/ DropsSource \/ Joins \/ RequestsIdr
        BY <2>1, <4>1 DEF SpawnReturns, DropsSource, Joins, RequestsIdr, Session, TypeOK, OwnerType
      <4>2. CASE VIEWChanges
        BY <4>2 DEF VIEWChanges
      <4>3. CASE SetsUp \/ StartsCapture \/ WorkerStep
        BY <4>3 DEF WorkerStep, SetsUp, StartsCapture, PollsStop, WaitTimesOut, AcquiresFrame,
           CaptureFails, Feeds, Collects, SendsOutputs, pump, ThreadExits
      <4>4. CASE \/ on_frame \/ on_stopped \/ on_encoded
                 \/ AsksForInput \/ AnnouncesNothing \/ Encodes \/ EncoderDrops
        BY <4>4 DEF on_frame, on_stopped, on_encoded, AsksForInput, AnnouncesNothing, Encodes,
           EncoderDrops
      <4> QED
        BY <2>3, <4>1, <4>2, <4>3, <4>4 DEF Next
    <3>2. CASE next_idr_frame
      <4>1. owner.pc = "opening" /\ owner.last = 0 /\ owner \in OwnerType
        BY <2>1, <3>2 DEF next_idr_frame, Phases, TypeOK
      <4>2. owner' = [owner EXCEPT !.skipped = @ + 1] \/ owner' = [owner EXCEPT !.pc = "joining", !.skipped = 0]
        BY <3>2 DEF next_idr_frame, OpensInstance, Session
      <4> QED
        BY <4>1, <4>2 DEF OwnerType
    <3> QED
      BY <3>1, <3>2
  <2> QED
    BY <2>2, <2>3
<1> QED
  BY <1>1, CaptureInvariant, PTL DEF Spec, ChainBreaksOnlyByDrops
=============================================================================
