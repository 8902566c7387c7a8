------------------------ MODULE InputInjectionProofs -------------------------
(***************************************************************************)
(* Proofs of the safety properties of InputInjection, for any sets of keys *)
(* and buttons and any number of events.  The argument is about two queues *)
(* with the same shape: DownAfter(S, q) says what is down once q has been  *)
(* carried out, and each step of the program only moves a message from one *)
(* end of a queue to the set behind it.                                    *)
(* The IME modes follow, with ModesInv: in which mode the server will read *)
(* each event on the wire and each that is still to be sent.               *)
(***************************************************************************)
EXTENDS InputInjection, TLAPS, FiniteSetTheorems, WellFoundedInduction

-----------------------------------------------------------------------------
(* DownAfter.                                                              *)

(* Whether x is down after q depends on S only through x.                  *)
LEMMA DownPointwise ==
  ASSUME NEW S, NEW T, NEW q, NEW x, x \in S <=> x \in T
  PROVE  x \in DownAfter(S, q) <=> x \in DownAfter(T, q)
  BY DEF DownAfter

LEMMA DownEmpty ==
  ASSUME NEW S, S \subseteq Inputs
  PROVE  DownAfter(S, << >>) = S
  BY DEF DownAfter

(* Two queues one after the other.                                         *)
LEMMA DownConcat ==
  ASSUME NEW S, NEW R, NEW q \in Seq(R), NEW r \in Seq(R)
  PROVE  DownAfter(S, q \o r) = DownAfter(DownAfter(S, q), r)
<1> DEFINE qr == q \o r
<1>1. /\ DOMAIN qr = 1 .. (Len(q) + Len(r))
      /\ DOMAIN q = 1 .. Len(q) /\ DOMAIN r = 1 .. Len(r)
      /\ Len(q) \in Nat /\ Len(r) \in Nat
  OBVIOUS
<1>2. \A i \in 1 .. Len(q) : qr[i] = q[i]
  OBVIOUS
<1>3. \A i \in 1 .. Len(r) : qr[Len(q) + i] = r[i]
  OBVIOUS
<1> HIDE DEF qr
<1>4. ASSUME NEW x \in Inputs
      PROVE  x \in DownAfter(S, qr) <=> x \in DownAfter(DownAfter(S, q), r)
  <2>1. CASE \E i \in 1 .. Len(r) : r[i].input = x
    <3>1. x \in DownAfter(DownAfter(S, q), r) <=>
            \E i \in 1 .. Len(r) : r[i].down /\ LastFor(r, i, x)
      BY <1>1, <2>1 DEF DownAfter
    <3>2. PICK k \in 1 .. Len(r) : r[k].input = x
      BY <2>1
    <3>3. Len(q) + k \in DOMAIN qr /\ qr[Len(q) + k].input = x
      BY <1>1, <1>3, <3>2
    <3>4. x \in DownAfter(S, qr) <=>
            \E i \in DOMAIN qr : qr[i].down /\ LastFor(qr, i, x)
      BY <3>3 DEF DownAfter
    <3>5. ASSUME NEW i \in 1 .. Len(r), r[i].down, LastFor(r, i, x)
          PROVE  qr[Len(q) + i].down /\ LastFor(qr, Len(q) + i, x)
      <4>1. qr[Len(q) + i] = r[i]
        BY <1>3
      <4>2. ASSUME NEW j \in DOMAIN qr, j > Len(q) + i
            PROVE  qr[j].input # x
        <5>1. j - Len(q) \in 1 .. Len(r) /\ j - Len(q) > i
              /\ j = Len(q) + (j - Len(q))
          BY <1>1, <4>2
        <5>2. qr[j] = r[j - Len(q)]
          BY <1>3, <5>1
        <5> QED
          BY <1>1, <3>5, <5>1, <5>2 DEF LastFor
      <4> QED
        BY <3>5, <4>1, <4>2 DEF LastFor
    <3>6. ASSUME NEW i \in DOMAIN qr, qr[i].down, LastFor(qr, i, x)
          PROVE  \E j \in 1 .. Len(r) : r[j].down /\ LastFor(r, j, x)
      <4>1. ~(Len(q) + k > i)
        BY <3>3, <3>6 DEF LastFor
      <4>2. i - Len(q) \in 1 .. Len(r) /\ i = Len(q) + (i - Len(q))
        BY <1>1, <4>1
      <4>3. qr[i] = r[i - Len(q)]
        BY <1>3, <4>2
      <4>4. ASSUME NEW j \in 1 .. Len(r), j > i - Len(q)
            PROVE  r[j].input # x
        <5>1. Len(q) + j \in DOMAIN qr /\ Len(q) + j > i
          BY <1>1, <4>4
        <5>2. qr[Len(q) + j].input # x
          BY <3>6, <5>1 DEF LastFor
        <5> QED
          BY <1>3, <5>2
      <4> QED
        BY <1>1, <3>6, <4>2, <4>3, <4>4 DEF LastFor
    <3>7. ASSUME NEW i \in 1 .. Len(r), r[i].down, LastFor(r, i, x)
          PROVE  \E j \in DOMAIN qr : qr[j].down /\ LastFor(qr, j, x)
      <4>1. Len(q) + i \in DOMAIN qr
        BY <1>1
      <4> QED
        BY <3>5, <3>7, <4>1
    <3> QED
      BY <3>1, <3>4, <3>6, <3>7
  <2>2. CASE \A i \in 1 .. Len(r) : r[i].input # x
    <3>1. x \in DownAfter(DownAfter(S, q), r) <=> x \in DownAfter(S, q)
      BY <1>1, <2>2 DEF DownAfter, LastFor
    <3>2. ASSUME NEW j \in DOMAIN qr, qr[j].input = x
          PROVE  j \in 1 .. Len(q) /\ qr[j] = q[j]
      <4>1. CASE j > Len(q)
        <5>1. j - Len(q) \in 1 .. Len(r) /\ j = Len(q) + (j - Len(q))
          BY <1>1, <4>1
        <5>2. qr[j] = r[j - Len(q)]
          BY <1>3, <5>1
        <5> QED
          BY <2>2, <3>2, <5>1, <5>2
      <4>2. CASE ~(j > Len(q))
        <5>1. j \in 1 .. Len(q)
          BY <1>1, <4>2
        <5> QED
          BY <1>2, <5>1
      <4> QED
        BY <4>1, <4>2
    <3>3. ASSUME NEW j \in 1 .. Len(q), q[j].input = x
          PROVE  j \in DOMAIN qr /\ qr[j] = q[j]
      BY <1>1, <1>2
    <3>4. ASSUME NEW i \in DOMAIN qr, qr[i].down, LastFor(qr, i, x)
          PROVE  i \in DOMAIN q /\ q[i].down /\ LastFor(q, i, x)
      <4>1. i \in 1 .. Len(q) /\ qr[i] = q[i]
        BY <3>2, <3>4 DEF LastFor
      <4>2. ASSUME NEW j \in DOMAIN q, j > i PROVE q[j].input # x
        <5>1. j \in DOMAIN qr /\ qr[j] = q[j]
          BY <1>1, <1>2
        <5> QED
          BY <3>4, <4>2, <5>1 DEF LastFor
      <4> QED
        BY <1>1, <3>4, <4>1, <4>2 DEF LastFor
    <3>5. ASSUME NEW i \in DOMAIN q, q[i].down, LastFor(q, i, x)
          PROVE  i \in DOMAIN qr /\ qr[i].down /\ LastFor(qr, i, x)
      <4>1. i \in DOMAIN qr /\ qr[i] = q[i]
        BY <1>1, <1>2
      <4>2. ASSUME NEW j \in DOMAIN qr, j > i, qr[j].input = x PROVE FALSE
        <5>1. j \in 1 .. Len(q) /\ qr[j] = q[j]
          BY <3>2, <4>2
        <5> QED
          BY <1>1, <3>5, <4>2, <5>1 DEF LastFor
      <4> QED
        BY <3>5, <4>1, <4>2 DEF LastFor
    <3>6. (\A i \in DOMAIN qr : qr[i].input # x) <=>
          (\A i \in DOMAIN q : q[i].input # x)
      BY <1>1, <3>2, <3>3
    <3>7. x \in DownAfter(S, qr) <=> x \in DownAfter(S, q)
      BY <3>4, <3>5, <3>6 DEF DownAfter
    <3> QED
      BY <3>1, <3>7
  <2> QED
    BY <2>1, <2>2
<1>5. DownAfter(S, qr) = DownAfter(DownAfter(S, q), r)
  BY <1>4 DEF DownAfter
<1> QED
  BY <1>5 DEF qr

(* A single message.                                                       *)
LEMMA DownOne ==
  ASSUME NEW S, S \subseteq Inputs, NEW m
  PROVE  /\ m.input \in Inputs /\ m.down \in BOOLEAN =>
              DownAfter(S, <<m>>) = OnInput(S, m.input, m.down)
         /\ m.input \notin Inputs => DownAfter(S, <<m>>) = S
<1> DEFINE q == <<m>>
<1>1. DOMAIN q = {1} /\ q[1] = m
  OBVIOUS
<1> HIDE DEF q
<1>2. \A x : LastFor(q, 1, x) <=> m.input = x
  BY <1>1 DEF LastFor
<1>3. DownAfter(S, q) =
        {x \in Inputs : (m.down /\ m.input = x) \/ (x \in S /\ m.input # x)}
  BY <1>1, <1>2 DEF DownAfter
<1>4. m.input \in Inputs /\ m.down \in BOOLEAN =>
        DownAfter(S, q) = OnInput(S, m.input, m.down)
  BY <1>3 DEF OnInput
<1>5. m.input \notin Inputs => DownAfter(S, q) = S
  BY <1>3
<1> QED
  BY <1>4, <1>5 DEF q

(* A queue of ups.                                                         *)
LEMMA DownUps ==
  ASSUME NEW S, S \subseteq Inputs, NEW q, NEW T,
         \A i \in DOMAIN q : ~ q[i].down /\ q[i].input \in T,
         \A x \in T : \E i \in DOMAIN q : q[i].input = x
  PROVE  DownAfter(S, q) = S \ T
  BY DEF DownAfter, LastFor

(* The head of a queue takes effect first.                                 *)
LEMMA DownHead ==
  ASSUME NEW S, S \subseteq Inputs, NEW R, NEW q \in Seq(R), q # << >>
  PROVE  DownAfter(S, q) = DownAfter(DownAfter(S, <<Head(q)>>), Tail(q))
<1> DEFINE h == <<Head(q)>>
          t == Tail(q)
<1>1. q = h \o t /\ h \in Seq(R) /\ t \in Seq(R)
  OBVIOUS
<1> HIDE DEF h, t
<1>2. DownAfter(S, h \o t) = DownAfter(DownAfter(S, h), t)
  BY <1>1, DownConcat
<1>3. DownAfter(S, q) = DownAfter(DownAfter(S, h), t)
  BY <1>1, <1>2, Zenon
<1> QED
  BY <1>3, Zenon DEF h, t

LEMMA DownAppend ==
  ASSUME NEW S, NEW R, NEW q \in Seq(R), NEW m \in R
  PROVE  DownAfter(S, Append(q, m)) = DownAfter(DownAfter(S, q), <<m>>)
<1> DEFINE t == <<m>>
<1>1. Append(q, m) = q \o t /\ t \in Seq(R)
  OBVIOUS
<1> HIDE DEF t
<1>2. DownAfter(S, q \o t) = DownAfter(DownAfter(S, q), t)
  BY <1>1, DownConcat
<1>3. DownAfter(S, Append(q, m)) = DownAfter(DownAfter(S, q), t)
  BY <1>1, <1>2, Zenon
<1> QED
  BY <1>3, Zenon DEF t

LEMMA DownIsInputs ==
  ASSUME NEW S, NEW q
  PROVE  DownAfter(S, q) \subseteq Inputs
  BY DEF DownAfter

-----------------------------------------------------------------------------
(* The parts of messages.                                                  *)

LEMMA FiniteInputs ==
  ASSUME NEW S, S \subseteq Inputs
  PROVE  /\ IsFiniteSet(S \cap Keys)
         /\ IsFiniteSet(S \cap Buttons)
  BY InputAssumption, FS_Subset

(* A finite set has a listing, and Listing is one.                         *)
LEMMA ListingLists ==
  ASSUME NEW S, IsFiniteSet(S)
  PROVE  /\ Listing(S) \in Seq(S)
         /\ \A x \in S : \E i \in 1 .. Len(Listing(S)) : Listing(S)[i] = x
<1> DEFINE n == Cardinality(S)
<1>1. n \in Nat /\ ExistsBijection(1 .. n, S)
  BY FS_CardinalityType
<1>2. \E f \in [1 .. n -> S] : \A x \in S : \E i \in 1 .. n : f[i] = x
  BY <1>1 DEF ExistsBijection, Bijection, Surjection, Injection
<1>3. /\ Listing(S) \in [1 .. n -> S]
      /\ \A x \in S : \E i \in 1 .. n : Listing(S)[i] = x
  BY <1>2 DEF Listing
<1> HIDE DEF n
<1>4. Listing(S) \in Seq(S) /\ Len(Listing(S)) = n
  BY <1>1, <1>3
<1> QED
  BY <1>3, <1>4

(* take_releases names everything that was pressed, and nothing else.      *)
LEMMA ReleasesCover ==
  ASSUME NEW S, S \subseteq Inputs
  PROVE  /\ TakeReleases(S) \in Seq(S)
         /\ \A x \in S :
              \E i \in 1 .. Len(TakeReleases(S)) : TakeReleases(S)[i] = x
<1> DEFINE b == Listing(S \cap Buttons)
           k == Listing(S \cap Keys)
<1>1. /\ b \in Seq(S \cap Buttons)
      /\ \A x \in S \cap Buttons : \E i \in 1 .. Len(b) : b[i] = x
  BY FiniteInputs, ListingLists
<1>2. /\ k \in Seq(S \cap Keys)
      /\ \A x \in S \cap Keys : \E i \in 1 .. Len(k) : k[i] = x
  BY FiniteInputs, ListingLists
<1> HIDE DEF b, k
<1>3. b \in Seq(S) /\ k \in Seq(S)
  BY <1>1, <1>2
<1>4. /\ b \o k \in Seq(S)
      /\ Len(b \o k) = Len(b) + Len(k)
      /\ Len(b) \in Nat /\ Len(k) \in Nat
      /\ \A i \in 1 .. Len(b) : (b \o k)[i] = b[i]
      /\ \A i \in 1 .. Len(k) : (b \o k)[Len(b) + i] = k[i]
  BY <1>3
<1>5. ASSUME NEW x \in S
      PROVE  \E i \in 1 .. Len(b \o k) : (b \o k)[i] = x
  <2>1. CASE x \in Buttons
    <3>1. PICK i \in 1 .. Len(b) : b[i] = x
      BY <1>1, <2>1
    <3>2. i \in 1 .. Len(b \o k)
      BY <1>4
    <3> QED
      BY <1>4, <3>1, <3>2
  <2>2. CASE x \in Keys
    <3>1. PICK i \in 1 .. Len(k) : k[i] = x
      BY <1>2, <2>2
    <3>2. Len(b) + i \in 1 .. Len(b \o k)
      BY <1>4
    <3> QED
      BY <1>4, <3>1, <3>2
  <2> QED
    BY <2>1, <2>2 DEF Inputs
<1> QED
  BY <1>4, <1>5 DEF TakeReleases, b, k

(* Of a non-empty set of positions there is a last one.                    *)
LEMMA LastPosition ==
  ASSUME NEW n \in Nat, NEW P, P \subseteq 1 .. n, P # {}
  PROVE  \E i \in P : \A j \in P : j <= i
<1> DEFINE T == {n - i : i \in P}
<1>1. T \subseteq Nat /\ T # {}
  <2>1. \A i \in P : n - i \in Nat
    OBVIOUS
  <2> QED
    BY <2>1, Zenon
<1>2. PICK t \in T : \A y \in T : ~(<<y, t>> \in OpToRel(<, Nat))
  BY <1>1, NatLessThanWellFounded, WFMin
<1>3. PICK i \in P : t = n - i
  BY <1>2
<1>4. ASSUME NEW j \in P PROVE j <= i
  <2>1. n - j \in T /\ n - j \in Nat /\ t \in Nat
    BY <1>1, <1>2
  <2>2. ~(n - j < t)
    BY <1>2, <2>1 DEF OpToRel
  <2> QED
    BY <1>3, <2>1, <2>2
<1> QED
  BY <1>4

LEMMA AnnouncedType ==
  ASSUME NEW fs \in Seq(Flip), NEW id \in Nat
  PROVE  Announced(fs, id) \in Mode
<1> DEFINE past == {i \in DOMAIN fs : fs[i].after < id}
<1>1. CASE past = {}
  BY <1>1 DEF Announced, Mode
<1>2. CASE past # {}
  <2>1. past \subseteq 1 .. Len(fs) /\ Len(fs) \in Nat
    OBVIOUS
  <2>2. \E i \in past : \A j \in past : j <= i
    BY <1>2, <2>1, LastPosition
  <2> DEFINE last == CHOOSE i \in past : \A j \in past : j <= i
  <2>3. last \in past
    BY <2>2
  <2>4. Announced(fs, id) = fs[last].mode
    BY <1>2 DEF Announced
  <2> HIDE DEF last
  <2>5. last \in 1 .. Len(fs)
    BY <2>1, <2>3
  <2>6. \A f \in Flip : f.mode \in Mode
    BY DEF Flip
  <2>7. fs[last] \in Flip
    BY <2>5
  <2> QED
    BY <2>4, <2>6, <2>7
<1> QED
  BY <1>1, <1>2

LEMMA NextEvent ==
  ASSUME TypeOK, NEW n \in Nat
  PROVE  nextId + n \in Nat /\ Announced(flips, nextId + n) \in Mode
<1>1. nextId + n \in Nat
  BY DEF TypeOK
<1> QED
  BY <1>1, AnnouncedType DEF TypeOK

-----------------------------------------------------------------------------
(* The client's steps: they append to the wire what they do to `reported'. *)

LEMMA OnInputType ==
  ASSUME NEW S, S \subseteq Inputs, NEW x \in Inputs, NEW down \in BOOLEAN
  PROVE  OnInput(S, x, down) \subseteq Inputs
  BY DEF OnInput

LEMMA OnInputAgrees ==
  ASSUME NEW S, NEW T, NEW x, NEW down,
         S \cap Solid = T \cap Solid
  PROVE  OnInput(S, x, down) \cap Solid = OnInput(T, x, down) \cap Solid
  BY DEF OnInput

(* One event behind the others on the wire.                                *)
LEMMA Appended ==
  ASSUME TypeOK, NEW m \in Message, m.down \in BOOLEAN
  PROVE  /\ Append(wire, m) \in Seq(Message)
         /\ m.input \in Inputs =>
              DownAfter(pressed, Append(wire, m)) =
                OnInput(DownAfter(pressed, wire), m.input, m.down)
         /\ m.input \notin Inputs =>
              DownAfter(pressed, Append(wire, m)) = DownAfter(pressed, wire)
<1>1. wire \in Seq(Message)
  BY DEF TypeOK
<1>2. Append(wire, m) \in Seq(Message)
  BY <1>1
<1>3. DownAfter(pressed, Append(wire, m)) =
        DownAfter(DownAfter(pressed, wire), <<m>>)
  BY <1>1, DownAppend
<1>4. DownAfter(pressed, wire) \subseteq Inputs
  BY DownIsInputs
<1> QED
  BY <1>2, <1>3, <1>4, DownOne

(* What the server has is untouched.                                       *)
ServerKept == UNCHANGED <<serverVars, commands, desktop, clean, arrived>>

LEMMA ClientTypes ==
  ASSUME TypeOK, ServerKept,
         held' \subseteq Inputs, reported' \subseteq Inputs,
         composing' \in BOOLEAN,
         flips' \in Seq(Flip),
         nextId' \in Nat \ {0}, keyed' \in Nat,
         wire' \in Seq(Message), typed' \in Nat
  PROVE  TypeOK'
  BY DEF TypeOK, ServerKept, serverVars

(* Agreement is a matter of the wire and of `reported'.                    *)
LEMMA ClientAgreement ==
  ASSUME EndsAgree, ServerKept, NEW x, NEW down,
         reported' = OnInput(reported, x, down),
         DownAfter(pressed, wire') = OnInput(DownAfter(pressed, wire), x, down)
  PROVE  EndsAgree'
<1>1. stream' = stream /\ clean' = clean /\ pressed' = pressed
  BY DEF ServerKept, serverVars
<1>2. DownAfter(pressed', wire') =
        OnInput(DownAfter(pressed, wire), x, down)
  BY <1>1
<1>3. ASSUME clean, stream # "ended"
      PROVE  DownAfter(pressed', wire') \cap Solid = reported' \cap Solid
  <2>1. DownAfter(pressed, wire) \cap Solid = reported \cap Solid
    BY <1>3 DEF EndsAgree
  <2> QED
    BY <1>2, <2>1, OnInputAgrees
<1> QED
  BY <1>1, <1>3 DEF EndsAgree

LEMMA ClientAgreementKept ==
  ASSUME EndsAgree, ServerKept, reported' = reported,
         DownAfter(pressed, wire') = DownAfter(pressed, wire)
  PROVE  EndsAgree'
<1>1. stream' = stream /\ clean' = clean /\ pressed' = pressed
  BY DEF ServerKept, serverVars
<1>2. DownAfter(pressed', wire') = DownAfter(pressed, wire)
  BY <1>1
<1> QED
  BY <1>1, <1>2 DEF EndsAgree

LEMMA KeyStep ==
  ASSUME TypeOK, EndsAgree, NEW k \in Keys, NEW down \in BOOLEAN, Key(k, down)
  PROVE  TypeOK' /\ EndsAgree' /\ ServerKept
<1> DEFINE m == Event("key", 0, k, down, Shortcut(held'))
<1>1. k \in Inputs /\ Shortcut(held') \in BOOLEAN
  BY DEF Inputs, Shortcut
<1>2. m \in Message /\ m.input = k /\ m.down = down
  <2>1. "key" \in Kind /\ 0 \in Nat
    BY DEF Kind
  <2> QED
    BY <1>1, <2>1, NextEvent DEF Event, Message, CarriesInput
<1>3. /\ wire' = Append(wire, m) /\ ServerKept
      /\ held' = OnInput(held, k, down) /\ reported' = OnInput(reported, k, down)
      /\ nextId' = nextId + 1 /\ keyed' = nextId
      /\ UNCHANGED <<composing, flips, typed>>
  BY DEF Key, ServerKept
<1> HIDE DEF m
<1>4. /\ wire' \in Seq(Message)
      /\ DownAfter(pressed, wire') = OnInput(DownAfter(pressed, wire), k, down)
  BY <1>1, <1>2, <1>3, Appended
<1>5. TypeOK'
  <2>1. held' \subseteq Inputs /\ reported' \subseteq Inputs
    BY <1>1, <1>3, OnInputType DEF TypeOK
  <2> QED
    BY <1>3, <1>4, <2>1, ClientTypes DEF TypeOK
<1>6. EndsAgree'
  BY <1>3, <1>4, ClientAgreement
<1> QED
  BY <1>3, <1>5, <1>6

LEMMA ButtonStep ==
  ASSUME TypeOK, EndsAgree, NEW b \in Buttons, NEW down \in BOOLEAN,
         Button(b, down)
  PROVE  TypeOK' /\ EndsAgree' /\ ServerKept
<1> DEFINE m == Event("button", 0, b, down, FALSE)
<1>1. b \in Inputs
  BY DEF Inputs
<1>2. m \in Message /\ m.input = b /\ m.down = down
  <2>1. "button" \in Kind /\ 0 \in Nat
    BY DEF Kind
  <2> QED
    BY <1>1, <2>1, NextEvent DEF Event, Message, CarriesInput
<1>3. /\ wire' = Append(wire, m) /\ ServerKept
      /\ held' = OnInput(held, b, down) /\ reported' = OnInput(reported, b, down)
      /\ nextId' = nextId + 1
      /\ UNCHANGED <<composing, flips, keyed, typed>>
  BY DEF Button, ServerKept
<1> HIDE DEF m
<1>4. /\ wire' \in Seq(Message)
      /\ DownAfter(pressed, wire') = OnInput(DownAfter(pressed, wire), b, down)
  BY <1>1, <1>2, <1>3, Appended
<1>5. TypeOK'
  <2>1. held' \subseteq Inputs /\ reported' \subseteq Inputs
    BY <1>1, <1>3, OnInputType DEF TypeOK
  <2> QED
    BY <1>3, <1>4, <2>1, ClientTypes DEF TypeOK
<1>6. EndsAgree'
  BY <1>3, <1>4, ClientAgreement
<1> QED
  BY <1>3, <1>5, <1>6

LEMMA PointerStep ==
  ASSUME TypeOK, EndsAgree, Pointer
  PROVE  TypeOK' /\ EndsAgree' /\ ServerKept
<1> DEFINE m == Event("pointer", 0, NoInput, FALSE, FALSE)
<1>1. m \in Message /\ m.input = NoInput /\ m.down = FALSE
  <2>1. "pointer" \in Kind /\ 0 \in Nat /\ NoInput \in Inputs \cup {NoInput}
    BY DEF Kind
  <2> QED
    BY <2>1, NextEvent DEF Event, Message, CarriesInput
<1>2. /\ wire' = Append(wire, m) /\ ServerKept /\ nextId' = nextId + 1
      /\ UNCHANGED <<held, composing, flips, keyed, reported, typed>>
  BY DEF Pointer, ServerKept
<1> HIDE DEF m
<1>3. /\ wire' \in Seq(Message)
      /\ DownAfter(pressed, wire') = DownAfter(pressed, wire)
  BY <1>1, <1>2, Appended, InputAssumption
<1>4. TypeOK'
  BY <1>2, <1>3, ClientTypes DEF TypeOK
<1>5. EndsAgree'
  BY <1>2, <1>3, ClientAgreementKept
<1> QED
  BY <1>2, <1>4, <1>5

LEMMA CompositionStep ==
  ASSUME TypeOK, EndsAgree, NEW ends \in BOOLEAN, Composition(ends)
  PROVE  TypeOK' /\ EndsAgree' /\ ServerKept
<1> DEFINE m == Event("composition", 0, NoInput, FALSE, FALSE)
<1>1. m \in Message /\ m.input = NoInput /\ m.down = FALSE
  <2>1. "composition" \in Kind /\ 0 \in Nat /\ NoInput \in Inputs \cup {NoInput}
    BY DEF Kind
  <2> QED
    BY <2>1, NextEvent DEF Event, Message, CarriesInput
<1>2. /\ wire' = Append(wire, m) /\ ServerKept
      /\ nextId' = nextId + 1 /\ keyed' = nextId
      /\ UNCHANGED <<held, flips, reported, typed>>
  BY DEF Composition, ServerKept
<1>3. composing' \in BOOLEAN
  BY Zenon DEF Composition
<1> HIDE DEF m
<1>4. /\ wire' \in Seq(Message)
      /\ DownAfter(pressed, wire') = DownAfter(pressed, wire)
  BY <1>1, <1>2, Appended, InputAssumption
<1>5. TypeOK'
  BY <1>2, <1>3, <1>4, ClientTypes DEF TypeOK
<1>6. EndsAgree'
  BY <1>2, <1>4, ClientAgreementKept
<1> QED
  BY <1>2, <1>5, <1>6

LEMMA AnnounceStep ==
  ASSUME TypeOK, EndsAgree, NEW mode \in Mode, NEW after \in Nat,
         AnnounceMode(mode, after)
  PROVE  TypeOK' /\ EndsAgree' /\ ServerKept
<1> DEFINE m == [kind |-> "mode", id |-> after, input |-> NoInput,
                 down |-> FALSE, shortcut |-> FALSE, under |-> mode]
           f == [mode |-> mode, after |-> after, settled |-> Settled(after)]
<1>1. m \in Message /\ m.input = NoInput /\ m.down = FALSE
  BY DEF Message, CarriesInput, Kind
<1>2. /\ wire' = Append(wire, m) /\ flips' = Append(flips, f) /\ ServerKept
      /\ UNCHANGED <<held, composing, nextId, keyed, reported, typed>>
  BY DEF AnnounceMode, ServerKept
<1>3. flips' \in Seq(Flip)
  <2>1. Settled(after) \in BOOLEAN
    BY DEF Settled
  <2>2. f \in Flip
    BY <2>1 DEF Flip
  <2> HIDE DEF f
  <2> QED
    BY <1>2, <2>2 DEF TypeOK
<1> HIDE DEF m, f
<1>4. /\ wire' \in Seq(Message)
      /\ DownAfter(pressed, wire') = DownAfter(pressed, wire)
  BY <1>1, <1>2, Appended, InputAssumption
<1>5. TypeOK'
  BY <1>2, <1>3, <1>4, ClientTypes DEF TypeOK
<1>6. EndsAgree'
  BY <1>2, <1>4, ClientAgreementKept
<1> QED
  BY <1>2, <1>5, <1>6

(* Two events, the second of which presses nothing.                        *)
LEMMA AppendedTwo ==
  ASSUME TypeOK, NEW m \in Message, NEW t \in Message, m.down \in BOOLEAN,
         t.down = FALSE, t.input = NoInput
  PROVE  /\ wire \o <<m, t>> \in Seq(Message)
         /\ DownAfter(pressed, wire \o <<m, t>>) =
              DownAfter(pressed, Append(wire, m))
<1> DEFINE w == Append(wire, m)
<1>1. w \in Seq(Message) /\ wire \o <<m, t>> = Append(w, t)
  BY DEF TypeOK
<1>2. Append(w, t) \in Seq(Message)
  BY <1>1
<1> HIDE DEF w
<1>3. DownAfter(pressed, Append(w, t)) = DownAfter(DownAfter(pressed, w), <<t>>)
  BY <1>1, DownAppend
<1>4. DownAfter(pressed, w) \subseteq Inputs
  BY DownIsInputs
<1>5. DownAfter(DownAfter(pressed, w), <<t>>) = DownAfter(pressed, w)
  BY <1>4, DownOne, InputAssumption
<1>6. DownAfter(pressed, wire \o <<m, t>>) = DownAfter(pressed, w)
  BY <1>1, <1>3, <1>5, Zenon
<1> QED
  BY <1>1, <1>2, <1>6, Zenon DEF w

LEMMA CommitStep ==
  ASSUME TypeOK, EndsAgree, Commit
  PROVE  TypeOK' /\ EndsAgree' /\ ServerKept
<1> DEFINE text == Event("text", 0, NoInput, FALSE, FALSE)
           done == Event("composition", 1, NoInput, FALSE, FALSE)
<1>1. /\ text \in Message /\ text.input = NoInput /\ text.down = FALSE
      /\ done \in Message /\ done.input = NoInput /\ done.down = FALSE
  <2>1. /\ "text" \in Kind /\ "composition" \in Kind /\ 0 \in Nat /\ 1 \in Nat
        /\ NoInput \in Inputs \cup {NoInput}
    BY DEF Kind
  <2>2. text \in Message /\ text.input = NoInput /\ text.down = FALSE
    BY <2>1, NextEvent DEF Event, Message, CarriesInput
  <2>3. done \in Message /\ done.input = NoInput /\ done.down = FALSE
    BY <2>1, NextEvent DEF Event, Message, CarriesInput
  <2> QED
    BY <2>2, <2>3
<1>2. /\ wire' = wire \o <<text, done>> /\ ServerKept /\ composing' = FALSE
      /\ nextId' = nextId + 2 /\ keyed' = nextId + 1 /\ typed' = typed + 1
      /\ UNCHANGED <<held, flips, reported>>
  BY DEF Commit, ServerKept
<1> HIDE DEF text, done
<1>3. /\ wire' \in Seq(Message)
      /\ DownAfter(pressed, wire') = DownAfter(pressed, Append(wire, text))
  BY <1>1, <1>2, AppendedTwo
<1>4. DownAfter(pressed, Append(wire, text)) = DownAfter(pressed, wire)
  BY <1>1, Appended, InputAssumption
<1>5. TypeOK'
  <2>1. nextId' \in Nat \ {0} /\ keyed' \in Nat /\ typed' \in Nat
    BY <1>2 DEF TypeOK
  <2> QED
    BY <1>2, <1>3, <2>1, ClientTypes DEF TypeOK
<1>6. EndsAgree'
  BY <1>2, <1>3, <1>4, ClientAgreementKept
<1> QED
  BY <1>2, <1>5, <1>6

LEMMA CharacterStep ==
  ASSUME TypeOK, EndsAgree, NEW k \in CharacterKeys, Character(k)
  PROVE  TypeOK' /\ EndsAgree' /\ ServerKept
<1> DEFINE key  == Event("key", 0, k, TRUE, FALSE)
           text == Event("text", 1, NoInput, FALSE, FALSE)
<1>1. k \in Inputs /\ k \in Keys
  BY InputAssumption DEF Inputs
<1>2. /\ key \in Message /\ key.input = k /\ key.down = TRUE
      /\ text \in Message /\ text.input = NoInput /\ text.down = FALSE
  <2>1. /\ "text" \in Kind /\ "key" \in Kind /\ 0 \in Nat /\ 1 \in Nat
        /\ NoInput \in Inputs \cup {NoInput}
    BY DEF Kind
  <2>2. key \in Message /\ key.input = k /\ key.down = TRUE
    BY <1>1, <2>1, NextEvent DEF Event, Message, CarriesInput
  <2>3. text \in Message /\ text.input = NoInput /\ text.down = FALSE
    BY <2>1, NextEvent DEF Event, Message, CarriesInput
  <2> QED
    BY <2>2, <2>3
<1>3. \/ wire' = wire \o <<key, text>> /\ nextId' = nextId + 2 /\ keyed' = nextId + 1
      \/ wire' = Append(wire, key) /\ nextId' = nextId + 1 /\ keyed' = nextId
  BY DEF Character
<1> HIDE DEF key, text
<1>4. /\ Append(wire, key) \in Seq(Message)
      /\ DownAfter(pressed, Append(wire, key)) =
           OnInput(DownAfter(pressed, wire), k, TRUE)
  BY <1>1, <1>2, Appended
<1>5. /\ wire' \in Seq(Message)
      /\ DownAfter(pressed, wire') = DownAfter(pressed, Append(wire, key))
  BY <1>2, <1>3, <1>4, AppendedTwo
<1>6. /\ ServerKept /\ UNCHANGED <<composing, flips>>
      /\ held' = held \cup {k} /\ reported' = reported \cup {k}
      /\ typed' = typed + 1
  BY DEF Character, ServerKept
<1>7. nextId' \in Nat \ {0} /\ keyed' \in Nat
  BY <1>3 DEF TypeOK
<1>8. TypeOK'
  BY <1>1, <1>5, <1>6, <1>7, ClientTypes DEF TypeOK
<1>9. reported' = OnInput(reported, k, TRUE)
  BY <1>6 DEF OnInput
<1>10. EndsAgree'
  BY <1>4, <1>5, <1>6, <1>9, ClientAgreement
<1> QED
  BY <1>6, <1>8, <1>10

LEMMA FocusStep ==
  ASSUME TypeOK, EndsAgree, FocusLost
  PROVE  TypeOK' /\ EndsAgree' /\ ServerKept
<1> DEFINE ups == TakeReleases(reported)
           ms == [i \in 1 .. Len(ups) |->
                   Event(KindOf(ups[i]), i - 1, ups[i], FALSE, FALSE)]
<1>1. reported \subseteq Inputs /\ wire \in Seq(Message) /\ pressed \subseteq Inputs
  BY DEF TypeOK
<1>2. /\ ups \in Seq(reported)
      /\ \A x \in reported : \E i \in 1 .. Len(ups) : ups[i] = x
  BY <1>1, ReleasesCover
<1>3. wire' = wire \o ms /\ nextId' = nextId + Len(ups)
  BY DEF FocusLost
<1> HIDE DEF ups
<1>4. ASSUME NEW i \in 1 .. Len(ups)
      PROVE  ms[i] \in Message /\ ms[i].input = ups[i] /\ ms[i].down = FALSE
  <2>1. ups[i] \in Inputs /\ i - 1 \in Nat
    BY <1>1, <1>2
  <2>2. /\ KindOf(ups[i]) \in Kind
        /\ \/ KindOf(ups[i]) = "key" /\ ups[i] \in Keys
           \/ KindOf(ups[i]) = "button" /\ ups[i] \in Buttons
    BY <2>1 DEF KindOf, Kind, Inputs
  <2>3. ms[i] = Event(KindOf(ups[i]), i - 1, ups[i], FALSE, FALSE)
    OBVIOUS
  <2>4. /\ Event(KindOf(ups[i]), i - 1, ups[i], FALSE, FALSE) \in Message
        /\ Event(KindOf(ups[i]), i - 1, ups[i], FALSE, FALSE).input = ups[i]
        /\ Event(KindOf(ups[i]), i - 1, ups[i], FALSE, FALSE).down = FALSE
    BY <2>1, <2>2, NextEvent DEF Event, Message, CarriesInput
  <2> QED
    BY <2>3, <2>4, Zenon
<1>5. DOMAIN ms = 1 .. Len(ups) /\ Len(ups) \in Nat
  BY <1>2
<1> HIDE DEF ms
<1>6. ms \in Seq(Message)
  <2>1. ms \in [1 .. Len(ups) -> Message]
    <3>1. ms = [i \in 1 .. Len(ups) |-> ms[i]]
      BY DEF ms
    <3> QED
      BY <1>4, <3>1
  <2> QED
    BY <1>5, <2>1
<1>7. wire' \in Seq(Message)
  BY <1>1, <1>3, <1>6
<1>8. DownAfter(pressed, wire') = DownAfter(DownAfter(pressed, wire), ms)
  BY <1>1, <1>3, <1>6, DownConcat
<1>9. DownAfter(DownAfter(pressed, wire), ms) = DownAfter(pressed, wire) \ reported
  <2>1. \A i \in DOMAIN ms : ~ ms[i].down /\ ms[i].input \in reported
    <3>1. \A i \in 1 .. Len(ups) : ups[i] \in reported
      BY <1>2
    <3> QED
      BY <1>4, <1>5, <3>1
  <2>2. ASSUME NEW x \in reported
        PROVE  \E i \in DOMAIN ms : ms[i].input = x
    <3>1. PICK i \in 1 .. Len(ups) : ups[i] = x
      BY <1>2
    <3>2. ms[i].input = x /\ i \in DOMAIN ms
      BY <1>4, <1>5, <3>1
    <3> QED
      BY <3>2
  <2>3. DownAfter(pressed, wire) \subseteq Inputs
    BY DownIsInputs
  <2> QED
    BY <2>1, <2>2, <2>3, DownUps
<1>10. /\ ServerKept /\ UNCHANGED <<flips, typed>>
       /\ held' = {} /\ reported' = {} /\ composing' = FALSE
       /\ keyed' = IF reported \cap Keys = {} THEN keyed ELSE nextId' - 1
  BY DEF FocusLost, ServerKept
<1>11. nextId' \in Nat \ {0} /\ keyed' \in Nat
  BY <1>3, <1>5, <1>10 DEF TypeOK
<1>12. TypeOK'
  BY <1>7, <1>10, <1>11, ClientTypes DEF TypeOK
<1>13. EndsAgree'
  <2>1. stream' = stream /\ clean' = clean /\ pressed' = pressed
    BY <1>10 DEF ServerKept, serverVars
  <2>2. DownAfter(pressed', wire') = DownAfter(pressed, wire) \ reported
    BY <1>8, <1>9, <2>1
  <2> QED
    BY <1>10, <2>1, <2>2 DEF EndsAgree
<1> QED
  BY <1>10, <1>12, <1>13

-----------------------------------------------------------------------------
(* The server's steps.                                                     *)

LEMMA HeadOfWire ==
  ASSUME TypeOK, wire # << >>
  PROVE  /\ Head(wire) \in Message /\ Tail(wire) \in Seq(Message)
         /\ Head(wire).down \in BOOLEAN /\ Head(wire).id \in Nat
         /\ Head(wire).under \in Mode
         /\ Head(wire).kind = "key" => Head(wire).input \in Keys
         /\ Head(wire).kind = "button" => Head(wire).input \in Buttons
         /\ Head(wire).kind \notin {"key", "button"} =>
              Head(wire).input = NoInput
<1>1. Head(wire) \in Message /\ Tail(wire) \in Seq(Message)
  BY DEF TypeOK
<1> QED
  BY <1>1 DEF Message, CarriesInput

(* A message read by the server had its effect at the wire's near end.     *)
LEMMA WireRead ==
  ASSUME TypeOK, wire # << >>
  PROVE  /\ Head(wire).input \in Inputs =>
              DownAfter(pressed, wire) =
                DownAfter(OnInput(pressed, Head(wire).input, Head(wire).down),
                          Tail(wire))
         /\ Head(wire).input \notin Inputs =>
              DownAfter(pressed, wire) = DownAfter(pressed, Tail(wire))
<1>1. wire \in Seq(Message) /\ pressed \subseteq Inputs
  BY DEF TypeOK
<1>2. DownAfter(pressed, wire) =
        DownAfter(DownAfter(pressed, <<Head(wire)>>), Tail(wire))
  BY <1>1, DownHead
<1>3. Head(wire).down \in BOOLEAN
  BY HeadOfWire
<1> QED
  BY <1>1, <1>2, <1>3, DownOne

(* One command behind the others.                                          *)
LEMMA CommandAppended ==
  ASSUME NEW q \in Seq(Command), NEW S, NEW c \in Command
  PROVE  /\ Append(q, c) \in Seq(Command)
         /\ c.input \in Inputs =>
              DownAfter(S, Append(q, c)) =
                OnInput(DownAfter(S, q), c.input, c.down)
         /\ c.input \notin Inputs =>
              DownAfter(S, Append(q, c)) = DownAfter(S, q)
<1>1. Append(q, c) \in Seq(Command)
  OBVIOUS
<1>2. DownAfter(S, Append(q, c)) = DownAfter(DownAfter(S, q), <<c>>)
  BY DownAppend
<1>3. DownAfter(S, q) \subseteq Inputs /\ c.down \in BOOLEAN
  BY DownIsInputs DEF Command
<1> QED
  BY <1>1, <1>2, <1>3, DownOne

LEMMA ModeForType ==
  ASSUME TypeOK, NEW id \in Nat
  PROVE  ModeFor(ime, id) \in [current : Mode,
           pending : [mode : Mode, after : Nat] \cup {NoMode}]
<1>1. /\ ime \in [current : Mode,
                  pending : [mode : Mode, after : Nat] \cup {NoMode}]
  BY DEF TypeOK
<1>2. CASE Crosses(ime, id)
  <2>1. ime.pending.mode \in Mode
    BY <1>1, <1>2 DEF Crosses
  <2> QED
    BY <1>2, <2>1 DEF ModeFor
<1>3. CASE ~ Crosses(ime, id)
  BY <1>1, <1>3 DEF ModeFor
<1> QED
  BY <1>2, <1>3

(* release_all, for whatever reason.                                       *)
LEMMA ReleaseStep ==
  ASSUME TypeOK, DesktopFollowsPressed, ReleaseAll, desktop' = desktop
  PROVE  /\ commands' \in Seq(Command) /\ pressed' = {}
         /\ DesktopFollowsPressed'
<1> DEFINE ups == TakeReleases(pressed)
           cs == [i \in 1 .. Len(ups) |-> Act(KindOf(ups[i]), ups[i], FALSE)]
<1>1. /\ commands \in Seq(Command) /\ pressed \subseteq Inputs
      /\ desktop \subseteq Inputs
  BY DEF TypeOK
<1>2. /\ ups \in Seq(pressed)
      /\ \A x \in pressed : \E i \in 1 .. Len(ups) : ups[i] = x
  BY <1>1, ReleasesCover
<1>3. commands' = commands \o cs /\ pressed' = {}
  BY DEF ReleaseAll
<1> HIDE DEF ups
<1>4. ASSUME NEW i \in 1 .. Len(ups)
      PROVE  cs[i] \in Command /\ cs[i].input = ups[i] /\ cs[i].down = FALSE
  <2>1. ups[i] \in Inputs
    BY <1>1, <1>2
  <2>2. KindOf(ups[i]) \in {"key", "text", "button", "pointer"}
    BY DEF KindOf
  <2>3. cs[i] = Act(KindOf(ups[i]), ups[i], FALSE)
    OBVIOUS
  <2> QED
    BY <2>1, <2>2, <2>3 DEF Act, Command
<1>5. DOMAIN cs = 1 .. Len(ups) /\ Len(ups) \in Nat
  BY <1>2
<1> HIDE DEF cs
<1>6. cs \in Seq(Command)
  <2>1. cs \in [1 .. Len(ups) -> Command]
    <3>1. cs = [i \in 1 .. Len(ups) |-> cs[i]]
      BY DEF cs
    <3> QED
      BY <1>4, <3>1
  <2> QED
    BY <1>5, <2>1
<1>7. DownAfter(desktop, commands') = DownAfter(DownAfter(desktop, commands), cs)
  BY <1>1, <1>3, <1>6, DownConcat
<1>8. DownAfter(pressed, cs) = {}
  <2>1. \A i \in DOMAIN cs : ~ cs[i].down /\ cs[i].input \in pressed
    <3>1. \A i \in 1 .. Len(ups) : ups[i] \in pressed
      BY <1>2
    <3> QED
      BY <1>4, <1>5, <3>1
  <2>2. ASSUME NEW x \in pressed
        PROVE  \E i \in DOMAIN cs : cs[i].input = x
    <3>1. PICK i \in 1 .. Len(ups) : ups[i] = x
      BY <1>2
    <3>2. cs[i].input = x /\ i \in DOMAIN cs
      BY <1>4, <1>5, <3>1
    <3> QED
      BY <3>2
  <2> QED
    BY <2>1, <2>2 DEF DownAfter
<1>9. DownAfter(desktop', commands') = pressed'
  BY <1>3, <1>7, <1>8 DEF DesktopFollowsPressed
<1> QED
  BY <1>1, <1>3, <1>6, <1>9 DEF DesktopFollowsPressed

LEMMA InjectStep ==
  ASSUME TypeOK, DesktopFollowsPressed, EndsAgree, Inject
  PROVE  TypeOK' /\ DesktopFollowsPressed' /\ EndsAgree'
<1> DEFINE c == Head(commands)
<1>1. commands \in Seq(Command) /\ commands # << >> /\ desktop \subseteq Inputs
  BY DEF TypeOK, Inject
<1>2. c \in Command /\ Tail(commands) \in Seq(Command)
  BY <1>1
<1>3. c.input \in Inputs \cup {NoInput} /\ c.down \in BOOLEAN
  BY <1>2 DEF Command
<1>4. DownAfter(desktop, commands) =
        DownAfter(DownAfter(desktop, <<c>>), Tail(commands))
  BY <1>1, DownHead
<1>5. /\ desktop' = IF c.input = NoInput THEN desktop
                    ELSE OnInput(desktop, c.input, c.down)
      /\ commands' = Tail(commands)
      /\ UNCHANGED <<clientVars, wire, serverVars, clean, typed, arrived>>
  BY DEF Inject
<1> HIDE DEF c
<1>6. DownAfter(desktop, <<c>>) = desktop'
  BY <1>1, <1>3, <1>5, DownOne, InputAssumption
<1>7. desktop' \subseteq Inputs
  BY <1>1, <1>3, <1>5, OnInputType
<1>8. TypeOK'
  BY <1>2, <1>5, <1>7 DEF TypeOK, clientVars, serverVars
<1>9. DesktopFollowsPressed'
  BY <1>4, <1>5, <1>6 DEF DesktopFollowsPressed, serverVars
<1>10. EndsAgree'
  BY <1>5 DEF EndsAgree, clientVars, serverVars
<1> QED
  BY <1>8, <1>9, <1>10

(* Reading a message changes the wire and, for keys and text, the mode.    *)
LEMMA HandleModeStep ==
  ASSUME TypeOK, DesktopFollowsPressed, EndsAgree, HandleMode
  PROVE  TypeOK' /\ DesktopFollowsPressed' /\ EndsAgree'
<1> DEFINE m == Head(wire)
<1>1. /\ wire # << >> /\ m.kind = "mode" /\ wire' = Tail(wire)
      /\ ime' = [ime EXCEPT !.pending = [mode |-> m.under, after |-> m.id]]
      /\ UNCHANGED <<clientVars, stream, granted, pressed, session, commands,
                     desktop, clean, typed, arrived>>
  BY DEF HandleMode, Reads
<1>2. /\ Tail(wire) \in Seq(Message) /\ m.id \in Nat /\ m.under \in Mode
      /\ m.input = NoInput
  BY <1>1, HeadOfWire
<1>3. DownAfter(pressed, wire) = DownAfter(pressed, Tail(wire))
  BY <1>1, <1>2, WireRead, InputAssumption
<1> HIDE DEF m
<1>4. ime' \in [current : Mode,
                pending : [mode : Mode, after : Nat] \cup {NoMode}]
  BY <1>1, <1>2 DEF TypeOK
<1>5. TypeOK'
  BY <1>1, <1>2, <1>4 DEF TypeOK, clientVars
<1>6. DesktopFollowsPressed'
  BY <1>1 DEF DesktopFollowsPressed
<1>7. EndsAgree'
  BY <1>1, <1>3 DEF EndsAgree, clientVars
<1> QED
  BY <1>5, <1>6, <1>7

LEMMA HandleKeyStep ==
  ASSUME TypeOK, DesktopFollowsPressed, EndsAgree, HandleKey
  PROVE  TypeOK' /\ DesktopFollowsPressed' /\ EndsAgree'
<1> DEFINE m == Head(wire)
           inject == ShouldInjectKey(ime'.current, m.input, m.shortcut)
<1>1. /\ wire # << >> /\ m.kind = "key" /\ wire' = Tail(wire)
      /\ ime' = ModeFor(ime, m.id)
      /\ UNCHANGED <<clientVars, stream, granted, session, desktop, typed>>
  BY DEF HandleKey, Reads
<1>2. \/ "keyboard" \notin granted /\ Drops
      \/ /\ "keyboard" \in granted /\ ~ inject
         /\ UNCHANGED <<pressed, commands, clean, arrived>>
      \/ /\ "keyboard" \in granted /\ inject
         /\ pressed' = OnInput(pressed, m.input, m.down)
         /\ commands' = Append(commands, Act("key", m.input, m.down))
         /\ arrived' = IF m.input \in CharacterKeys /\ m.down /\ ~ m.shortcut
                       THEN arrived + 1 ELSE arrived
         /\ clean' = clean
  BY DEF HandleKey
<1>3. /\ Tail(wire) \in Seq(Message) /\ m.id \in Nat /\ m.down \in BOOLEAN
      /\ m.input \in Inputs
  BY <1>1, HeadOfWire DEF Inputs
<1>4. DownAfter(pressed, wire) =
        DownAfter(OnInput(pressed, m.input, m.down), Tail(wire))
  BY <1>1, <1>3, WireRead
<1>5. ime' \in [current : Mode,
                pending : [mode : Mode, after : Nat] \cup {NoMode}]
  BY <1>1, <1>3, ModeForType
<1>6. ~ inject => m.input \notin Solid
  BY DEF ShouldInjectKey, Solid
<1>7. pressed \subseteq Inputs /\ commands \in Seq(Command) /\ arrived \in Nat
  BY DEF TypeOK
<1> HIDE DEF m, inject
<1>8. CASE UNCHANGED <<pressed, commands, arrived>> /\ clean' \in BOOLEAN
  <2>1. TypeOK'
    BY <1>1, <1>3, <1>5, <1>8 DEF TypeOK, clientVars
  <2>2. DesktopFollowsPressed'
    BY <1>1, <1>8 DEF DesktopFollowsPressed
  <2>3. CASE ~ clean'
    BY <2>1, <2>2, <2>3 DEF EndsAgree
  <2>4. CASE clean' = clean /\ ~ inject
    <3>1. ASSUME NEW x \in Solid
          PROVE  x \in DownAfter(pressed, Tail(wire)) <=>
                 x \in DownAfter(pressed, wire)
      <4>1. x \in pressed <=> x \in OnInput(pressed, m.input, m.down)
        BY <1>6, <2>4 DEF OnInput
      <4> QED
        BY <1>4, <4>1, DownPointwise
    <3>2. DownAfter(pressed, Tail(wire)) \cap Solid =
          DownAfter(pressed, wire) \cap Solid
      BY <3>1
    <3>3. EndsAgree'
      BY <1>1, <1>8, <2>4, <3>2 DEF EndsAgree, clientVars
    <3> QED
      BY <2>1, <2>2, <3>3
  <2> QED
    BY <1>2, <1>8, <2>3, <2>4 DEF Drops
<1>9. CASE /\ inject /\ clean' = clean
           /\ pressed' = OnInput(pressed, m.input, m.down)
           /\ commands' = Append(commands, Act("key", m.input, m.down))
           /\ arrived' \in Nat
  <2>1. pressed' \subseteq Inputs
    BY <1>3, <1>7, <1>9, OnInputType
  <2>2. /\ Act("key", m.input, m.down) \in Command
        /\ Act("key", m.input, m.down).input = m.input
        /\ Act("key", m.input, m.down).down = m.down
    BY <1>3 DEF Act, Command
  <2>3. /\ commands' \in Seq(Command)
        /\ DownAfter(desktop, commands') =
             OnInput(DownAfter(desktop, commands), m.input, m.down)
    BY <1>3, <1>7, <1>9, <2>2, CommandAppended
  <2>4. TypeOK'
    BY <1>1, <1>3, <1>5, <1>9, <2>1, <2>3 DEF TypeOK, clientVars
  <2>5. DesktopFollowsPressed'
    BY <1>1, <1>9, <2>3 DEF DesktopFollowsPressed
  <2>6. DownAfter(pressed', wire') = DownAfter(pressed, wire)
    BY <1>1, <1>4, <1>9
  <2>7. EndsAgree'
    BY <1>1, <1>9, <2>6 DEF EndsAgree, clientVars
  <2> QED
    BY <2>4, <2>5, <2>7
<1>10. clean \in BOOLEAN
  BY DEF TypeOK
<1>11. CASE "keyboard" \notin granted /\ Drops
  BY <1>8, <1>11 DEF Drops
<1>12. CASE ~ inject /\ UNCHANGED <<pressed, commands, clean, arrived>>
  BY <1>8, <1>10, <1>12
<1>13. CASE /\ inject /\ clean' = clean
            /\ pressed' = OnInput(pressed, m.input, m.down)
            /\ commands' = Append(commands, Act("key", m.input, m.down))
            /\ arrived' = IF m.input \in CharacterKeys /\ m.down /\ ~ m.shortcut
                          THEN arrived + 1 ELSE arrived
  <2>1. arrived' \in Nat
    BY <1>7, <1>13
  <2> QED
    BY <1>9, <1>13, <2>1
<1> QED
  BY <1>2, <1>11, <1>12, <1>13

LEMMA HandleTextStep ==
  ASSUME TypeOK, DesktopFollowsPressed, EndsAgree, HandleText
  PROVE  TypeOK' /\ DesktopFollowsPressed' /\ EndsAgree'
<1> DEFINE m == Head(wire)
           c == Act("text", NoInput, FALSE)
<1>1. /\ wire # << >> /\ m.kind \in {"text", "composition"} /\ wire' = Tail(wire)
      /\ ime' = ModeFor(ime, m.id)
      /\ UNCHANGED <<clientVars, stream, granted, session, desktop, typed>>
  BY DEF HandleText, Reads
<1>2. \/ Drops
      \/ /\ commands' = Append(commands, c) /\ arrived' = arrived + 1
         /\ UNCHANGED <<pressed, clean>>
      \/ UNCHANGED <<pressed, commands, clean, arrived>>
  BY DEF HandleText
<1>3. /\ Tail(wire) \in Seq(Message) /\ m.id \in Nat /\ m.input = NoInput
  BY <1>1, HeadOfWire
<1>4. DownAfter(pressed, wire) = DownAfter(pressed, Tail(wire))
  BY <1>1, <1>3, WireRead, InputAssumption
<1>5. ime' \in [current : Mode,
                pending : [mode : Mode, after : Nat] \cup {NoMode}]
  BY <1>1, <1>3, ModeForType
<1>6. c \in Command /\ c.input = NoInput
  BY DEF Act, Command
<1>7. commands \in Seq(Command) /\ arrived \in Nat /\ clean \in BOOLEAN
  BY DEF TypeOK
<1> HIDE DEF m, c
<1>8. /\ commands' \in Seq(Command)
      /\ DownAfter(desktop, commands') = DownAfter(desktop, commands)
  <2>1. NoInput \notin Inputs
    BY InputAssumption
  <2>2. /\ Append(commands, c) \in Seq(Command)
        /\ DownAfter(desktop, Append(commands, c)) = DownAfter(desktop, commands)
    BY <1>6, <1>7, <2>1, CommandAppended
  <2>3. commands' = commands \/ commands' = Append(commands, c)
    BY <1>2 DEF Drops
  <2>4. CASE commands' = commands
    BY <1>7, <2>4
  <2>5. CASE commands' = Append(commands, c)
    BY <2>2, <2>5, Zenon
  <2> QED
    BY <2>3, <2>4, <2>5
<1>9. /\ pressed' = pressed /\ arrived' \in Nat
      /\ clean' = FALSE \/ clean' = clean
  BY <1>2, <1>7 DEF Drops
<1>10. TypeOK'
  BY <1>1, <1>3, <1>5, <1>8, <1>9 DEF TypeOK, clientVars
<1>11. DesktopFollowsPressed'
  BY <1>1, <1>8, <1>9 DEF DesktopFollowsPressed
<1>12. EndsAgree'
  BY <1>1, <1>4, <1>9 DEF EndsAgree, clientVars
<1> QED
  BY <1>10, <1>11, <1>12

LEMMA HandleMouseStep ==
  ASSUME TypeOK, DesktopFollowsPressed, EndsAgree, HandleMouse
  PROVE  TypeOK' /\ DesktopFollowsPressed' /\ EndsAgree'
<1> DEFINE m == Head(wire)
           p == Act("pointer", NoInput, FALSE)
           b == Act("button", m.input, m.down)
<1>1. /\ wire # << >> /\ m.kind \in {"button", "pointer"} /\ wire' = Tail(wire)
      /\ UNCHANGED <<clientVars, stream, granted, ime, session, desktop, typed>>
  BY DEF HandleMouse, Reads
<1>2. \/ Drops
      \/ /\ m.kind = "button"
         /\ pressed' = OnInput(pressed, m.input, m.down)
         /\ commands' = commands \o <<p, b>>
         /\ UNCHANGED <<clean, arrived>>
      \/ /\ m.kind = "pointer"
         /\ commands' = Append(commands, p)
         /\ UNCHANGED <<pressed, clean, arrived>>
  BY DEF HandleMouse
<1>3. /\ Tail(wire) \in Seq(Message) /\ m.down \in BOOLEAN
      /\ m.kind = "button" => m.input \in Inputs
      /\ m.kind = "pointer" => m.input = NoInput
  BY <1>1, HeadOfWire DEF Inputs
<1>4. /\ m.input \in Inputs => DownAfter(pressed, wire) =
           DownAfter(OnInput(pressed, m.input, m.down), Tail(wire))
      /\ m.input = NoInput =>
           DownAfter(pressed, wire) = DownAfter(pressed, Tail(wire))
  BY <1>1, WireRead, InputAssumption
<1>5. p \in Command /\ p.input = NoInput
  BY DEF Act, Command
<1>6. m.input \in Inputs => b \in Command /\ b.input = m.input /\ b.down = m.down
  BY <1>3 DEF Act, Command
<1>7. /\ commands \in Seq(Command) /\ arrived \in Nat /\ clean \in BOOLEAN
      /\ pressed \subseteq Inputs
  BY DEF TypeOK
<1> HIDE DEF m, p, b
<1>8. /\ Append(commands, p) \in Seq(Command)
      /\ DownAfter(desktop, Append(commands, p)) = DownAfter(desktop, commands)
  BY <1>5, <1>7, CommandAppended, InputAssumption
<1>9. CASE Drops
  <2>1. TypeOK'
    BY <1>1, <1>3, <1>9 DEF TypeOK, clientVars, Drops
  <2> QED
    BY <1>1, <1>9, <2>1 DEF DesktopFollowsPressed, EndsAgree, Drops
<1>10. CASE /\ m.kind = "button"
            /\ pressed' = OnInput(pressed, m.input, m.down)
            /\ commands' = commands \o <<p, b>>
            /\ UNCHANGED <<clean, arrived>>
  <2>1. m.input \in Inputs /\ pressed' \subseteq Inputs
    BY <1>3, <1>7, <1>10, OnInputType
  <2>2. commands' = Append(Append(commands, p), b)
    BY <1>5, <1>6, <1>7, <1>10, <2>1
  <2>3. /\ commands' \in Seq(Command)
        /\ DownAfter(desktop, commands') =
             OnInput(DownAfter(desktop, Append(commands, p)), m.input, m.down)
    <3> DEFINE q == Append(commands, p)
    <3>1. q \in Seq(Command)
      BY <1>8
    <3> HIDE DEF q
    <3>2. /\ Append(q, b) \in Seq(Command)
          /\ DownAfter(desktop, Append(q, b)) =
               OnInput(DownAfter(desktop, q), m.input, m.down)
      BY <1>6, <2>1, <3>1, CommandAppended
    <3> QED
      BY <2>2, <3>2, Zenon DEF q
  <2>4. TypeOK'
    BY <1>1, <1>3, <1>10, <2>1, <2>3 DEF TypeOK, clientVars
  <2>5. DesktopFollowsPressed'
    BY <1>1, <1>8, <1>10, <2>3 DEF DesktopFollowsPressed
  <2>6. DownAfter(pressed', wire') = DownAfter(pressed, wire)
    BY <1>1, <1>4, <1>10, <2>1
  <2>7. EndsAgree'
    BY <1>1, <1>10, <2>6 DEF EndsAgree, clientVars
  <2> QED
    BY <2>4, <2>5, <2>7
<1>11. CASE /\ m.kind = "pointer"
            /\ commands' = Append(commands, p)
            /\ UNCHANGED <<pressed, clean, arrived>>
  <2>1. TypeOK'
    BY <1>1, <1>3, <1>8, <1>11 DEF TypeOK, clientVars
  <2>2. DesktopFollowsPressed'
    BY <1>1, <1>8, <1>11 DEF DesktopFollowsPressed
  <2>3. EndsAgree'
    BY <1>1, <1>3, <1>4, <1>11 DEF EndsAgree, clientVars
  <2> QED
    BY <2>1, <2>2, <2>3
<1> QED
  BY <1>2, <1>9, <1>10, <1>11

(* The three ways in which the server stops reading, each with release_all. *)
LEMMA EndStep ==
  ASSUME TypeOK, DesktopFollowsPressed, ReleaseAll,
         stream' = "ended", wire' = << >>,
         session' \in {"active", "over"},
         ime' \in [current : Mode,
                   pending : [mode : Mode, after : Nat] \cup {NoMode}],
         UNCHANGED <<clientVars, granted, desktop, clean, typed, arrived>>
  PROVE  TypeOK' /\ DesktopFollowsPressed' /\ EndsAgree' /\ pressed' = {}
<1>1. desktop' = desktop
  OBVIOUS
<1>2. commands' \in Seq(Command) /\ pressed' = {} /\ DesktopFollowsPressed'
  BY <1>1, ReleaseStep
<1>3. wire' \in Seq(Message)
  OBVIOUS
<1>4. TypeOK'
  BY <1>2, <1>3 DEF TypeOK, clientVars
<1> QED
  BY <1>2, <1>4 DEF EndsAgree

LEMMA StreamEndsStep ==
  ASSUME TypeOK, DesktopFollowsPressed, StreamEnds
  PROVE  TypeOK' /\ DesktopFollowsPressed' /\ EndsAgree'
<1>1. /\ ReleaseAll /\ stream' = "ended" /\ wire' = << >>
      /\ session = "active"
      /\ UNCHANGED <<clientVars, granted, ime, session, desktop, clean, typed,
                     arrived>>
  BY DEF StreamEnds
<1>2. /\ session' \in {"active", "over"}
      /\ ime' \in [current : Mode,
                   pending : [mode : Mode, after : Nat] \cup {NoMode}]
  BY <1>1 DEF TypeOK
<1> QED
  BY <1>1, <1>2, EndStep

LEMMA SessionEndsStep ==
  ASSUME TypeOK, DesktopFollowsPressed, SessionEnds \/ RefuseText
  PROVE  /\ TypeOK' /\ DesktopFollowsPressed' /\ EndsAgree'
         /\ session' = "over" /\ stream' = "ended" /\ pressed' = {}
<1>1. /\ ReleaseAll /\ session' = "over" /\ stream' = "ended" /\ wire' = << >>
      /\ UNCHANGED <<clientVars, granted, desktop, clean, typed, arrived>>
  BY DEF SessionEnds, RefuseText
<1>2. ime' \in [current : Mode,
                pending : [mode : Mode, after : Nat] \cup {NoMode}]
  <2>1. CASE SessionEnds
    BY <2>1 DEF SessionEnds, TypeOK
  <2>2. CASE RefuseText
    <3>1. wire # << >> /\ ime' = ModeFor(ime, Head(wire).id)
      BY <2>2 DEF RefuseText
    <3>2. Head(wire).id \in Nat
      BY <3>1, HeadOfWire
    <3> QED
      BY <3>1, <3>2, ModeForType
  <2> QED
    BY <2>1, <2>2
<1> QED
  BY <1>1, <1>2, EndStep

(* The steps that touch neither a queue nor a set of inputs at the server. *)
LEMMA QuietStep ==
  ASSUME TypeOK, DesktopFollowsPressed, EndsAgree,
         UNCHANGED <<flips, nextId, keyed, reported, wire, ime, pressed,
                     commands, desktop, clean, typed, arrived>>,
         held' \subseteq Inputs, composing' \in BOOLEAN,
         granted' \subseteq {"keyboard", "mouse"},
         session' \in {"active", "over", "joined"},
         stream' = stream \/ (stream = "opened" /\ stream' = "accepted")
  PROVE  TypeOK' /\ DesktopFollowsPressed' /\ EndsAgree'
<1>1. TypeOK'
  BY DEF TypeOK
<1>2. DesktopFollowsPressed'
  BY DEF DesktopFollowsPressed
<1>3. EndsAgree'
  BY DEF EndsAgree
<1> QED
  BY <1>1, <1>2, <1>3

-----------------------------------------------------------------------------
(* The inductive invariant holds of every behaviour.                       *)

LEMMA InitInput ==
  ASSUME Init
  PROVE  InputInv
<1>1. DownAfter({}, << >>) = {}
  BY DownEmpty
<1>2. TypeOK
  <2>1. /\ flips \in Seq(Flip)
        /\ wire \in Seq(Message) /\ commands \in Seq(Command)
    BY DEF Init
  <2>2. ime \in [current : Mode,
                 pending : [mode : Mode, after : Nat] \cup {NoMode}]
    BY DEF Init, Mode
  <2>3. /\ granted \subseteq {"keyboard", "mouse"}
        /\ stream \in {"opened", "accepted", "ended"}
        /\ session \in {"active", "over", "joined"}
    BY InputAssumption DEF Init
  <2>4. /\ held \subseteq Inputs /\ reported \subseteq Inputs
        /\ pressed \subseteq Inputs /\ desktop \subseteq Inputs
        /\ nextId \in Nat \ {0} /\ keyed \in Nat
        /\ typed \in Nat /\ arrived \in Nat
    BY DEF Init
  <2>5. composing \in BOOLEAN /\ clean \in BOOLEAN
    BY Zenon DEF Init
  <2> QED
    BY <2>1, <2>2, <2>3, <2>4, <2>5 DEF TypeOK
<1>3. DesktopFollowsPressed /\ EndsAgree
  BY <1>1 DEF Init, DesktopFollowsPressed, EndsAgree
<1> QED
  BY <1>2, <1>3 DEF Init, InputInv

(* What the client does changes nothing at the server and happens only     *)
(* while the stream is up.                                                 *)
LEMMA ClientStep ==
  ASSUME InputInv, Client
  PROVE  InputInv'
<1>1. TypeOK /\ DesktopFollowsPressed /\ EndsAgree
  BY DEF InputInv
<1>2. TypeOK' /\ EndsAgree' /\ ServerKept
  <2>1. ASSUME NEW k \in Keys, NEW down \in BOOLEAN, ComposingKey(k, down)
        PROVE  TypeOK' /\ EndsAgree' /\ ServerKept
    <3>1. /\ UNCHANGED <<composing, flips, nextId, keyed, reported, wire,
                         serverVars, commands, desktop, clean, typed, arrived>>
          /\ held' = OnInput(held, k, down)
      BY <2>1 DEF ComposingKey
    <3>2. held' \subseteq Inputs
      BY <1>1, <3>1, OnInputType DEF TypeOK, Inputs
    <3>3. TypeOK'
      BY <1>1, <3>1, <3>2 DEF TypeOK, serverVars
    <3>4. EndsAgree'
      BY <1>1, <3>1 DEF EndsAgree, serverVars
    <3> QED
      BY <3>1, <3>3, <3>4 DEF ServerKept
  <2>2. CASE StartComposition
    <3>1. /\ UNCHANGED <<held, flips, nextId, keyed, reported, wire,
                         serverVars, commands, desktop, clean, typed, arrived>>
          /\ composing' = TRUE
      BY <2>2 DEF StartComposition
    <3>2. TypeOK'
      BY <1>1, <3>1 DEF TypeOK, serverVars
    <3>3. EndsAgree'
      BY <1>1, <3>1 DEF EndsAgree, serverVars
    <3> QED
      BY <3>1, <3>2, <3>3 DEF ServerKept
  <2>3. ASSUME NEW mode \in Mode,
               NEW after \in (nextId - 1) .. (nextId - 1 + MaxLead),
               AnnounceMode(mode, after)
        PROVE  TypeOK' /\ EndsAgree' /\ ServerKept
    <3>1. after \in Nat
      BY <1>1, <2>3, InputAssumption DEF TypeOK
    <3> QED
      BY <1>1, <2>3, <3>1, AnnounceStep
  <2>4. ASSUME NEW k \in Keys, NEW down \in BOOLEAN, Key(k, down)
        PROVE  TypeOK' /\ EndsAgree' /\ ServerKept
    BY <1>1, <2>4, KeyStep
  <2>5. ASSUME NEW k \in CharacterKeys, Character(k)
        PROVE  TypeOK' /\ EndsAgree' /\ ServerKept
    BY <1>1, <2>5, CharacterStep
  <2>6. ASSUME NEW b \in Buttons, NEW down \in BOOLEAN, Button(b, down)
        PROVE  TypeOK' /\ EndsAgree' /\ ServerKept
    BY <1>1, <2>6, ButtonStep
  <2>7. CASE Commit \/ Pointer \/ FocusLost
    BY <1>1, <2>7, CommitStep, PointerStep, FocusStep
  <2>8. ASSUME NEW ends \in BOOLEAN, Composition(ends)
        PROVE  TypeOK' /\ EndsAgree' /\ ServerKept
    BY <1>1, <2>8, CompositionStep
  <2> QED
    BY <2>1, <2>2, <2>3, <2>4, <2>5, <2>6, <2>7, <2>8 DEF Client
<1>3. DesktopFollowsPressed'
  BY <1>1, <1>2 DEF DesktopFollowsPressed, ServerKept, serverVars
<1> QED
  BY <1>2, <1>3 DEF InputInv, ServerKept, serverVars

LEMMA InputStep ==
  ASSUME InputInv, [Next]_vars
  PROVE  InputInv'
<1>1. /\ TypeOK /\ DesktopFollowsPressed /\ EndsAgree
      /\ session # "active" => stream = "ended" /\ pressed = {}
      /\ session = "joined" => commands = << >>
  BY DEF InputInv
<1>2. CASE Client
  BY <1>2, ClientStep
<1>3. CASE AcceptStream
  <2>1. /\ session = "active" /\ stream = "opened" /\ stream' = "accepted"
        /\ UNCHANGED <<clientVars, wire, granted, ime, pressed, session,
                       commands, desktop, clean, typed, arrived>>
    BY <1>3 DEF AcceptStream
  <2>2. /\ held' \subseteq Inputs /\ composing' \in BOOLEAN
        /\ granted' \subseteq {"keyboard", "mouse"}
        /\ session' \in {"active", "over", "joined"}
    BY <1>1, <2>1 DEF TypeOK, clientVars
  <2>3. UNCHANGED <<flips, nextId, keyed, reported, wire, ime, pressed,
                    commands, desktop, clean, typed, arrived>>
    BY <2>1 DEF clientVars
  <2>4. TypeOK' /\ DesktopFollowsPressed' /\ EndsAgree'
    BY <1>1, <2>1, <2>2, <2>3, QuietStep
  <2> QED
    BY <2>1, <2>4 DEF InputInv
<1>4. ASSUME NEW bit \in {"keyboard", "mouse"}, Toggle(bit)
      PROVE  InputInv'
  <2>1. /\ session = "active"
        /\ granted' = IF bit \in granted THEN granted \ {bit}
                      ELSE granted \cup {bit}
        /\ UNCHANGED <<clientVars, wire, stream, ime, pressed, session,
                       commands, desktop, clean, typed, arrived>>
    BY <1>4 DEF Toggle
  <2>2. granted' \subseteq {"keyboard", "mouse"}
    BY <1>1, <2>1 DEF TypeOK
  <2>3. /\ held' \subseteq Inputs /\ composing' \in BOOLEAN
        /\ session' \in {"active", "over", "joined"}
    BY <1>1, <2>1 DEF TypeOK, clientVars
  <2>4. /\ UNCHANGED <<flips, nextId, keyed, reported, wire, ime, pressed,
                       commands, desktop, clean, typed, arrived>>
        /\ stream' = stream
    BY <2>1 DEF clientVars
  <2>5. TypeOK' /\ DesktopFollowsPressed' /\ EndsAgree'
    BY <1>1, <2>2, <2>3, <2>4, QuietStep
  <2> QED
    BY <2>1, <2>5 DEF InputInv
<1>5. CASE HandleMode \/ HandleKey \/ HandleText \/ HandleMouse
  <2>1. TypeOK' /\ DesktopFollowsPressed' /\ EndsAgree'
    BY <1>1, <1>5, HandleModeStep, HandleKeyStep, HandleTextStep,
       HandleMouseStep
  <2>2. session = "active" /\ session' = session
    BY <1>5 DEF HandleMode, HandleKey, HandleText, HandleMouse, Reads
  <2> QED
    BY <2>1, <2>2 DEF InputInv
<1>6. CASE StreamEnds
  <2>1. TypeOK' /\ DesktopFollowsPressed' /\ EndsAgree'
    BY <1>1, <1>6, StreamEndsStep
  <2>2. session = "active" /\ session' = session
    BY <1>6 DEF StreamEnds
  <2> QED
    BY <2>1, <2>2 DEF InputInv
<1>7. CASE SessionEnds \/ RefuseText
  BY <1>1, <1>7, SessionEndsStep DEF InputInv
<1>8. CASE Inject
  <2>1. TypeOK' /\ DesktopFollowsPressed' /\ EndsAgree'
    BY <1>1, <1>8, InjectStep
  <2>2. /\ commands # << >>
        /\ session' = session /\ stream' = stream /\ pressed' = pressed
    BY <1>8 DEF Inject, serverVars
  <2> QED
    BY <1>1, <2>1, <2>2 DEF InputInv
<1>9. CASE Joined
  <2>1. /\ session = "over" /\ session' = "joined" /\ commands = << >>
        /\ UNCHANGED <<clientVars, wire, stream, granted, ime, pressed,
                       commands, desktop, clean, typed, arrived>>
    BY <1>9 DEF Joined
  <2>2. /\ held' \subseteq Inputs /\ composing' \in BOOLEAN
        /\ granted' \subseteq {"keyboard", "mouse"}
        /\ session' \in {"active", "over", "joined"}
    BY <1>1, <2>1 DEF TypeOK, clientVars
  <2>3. /\ UNCHANGED <<flips, nextId, keyed, reported, wire, ime, pressed,
                       commands, desktop, clean, typed, arrived>>
        /\ stream' = stream
    BY <2>1 DEF clientVars
  <2>4. TypeOK' /\ DesktopFollowsPressed' /\ EndsAgree'
    BY <1>1, <2>2, <2>3, QuietStep
  <2>5. session' = "joined" /\ stream' = "ended" /\ pressed' = {} /\ commands' = << >>
    BY <1>1, <2>1
  <2> QED
    BY <2>4, <2>5 DEF InputInv
<1>10. CASE UNCHANGED vars
  BY <1>10 DEF vars, InputInv, TypeOK, DesktopFollowsPressed, EndsAgree
<1> QED
  BY <1>2, <1>3, <1>4, <1>5, <1>6, <1>7, <1>8, <1>9, <1>10 DEF Next, Server

(* The inductive invariant of keyboard and mouse holds always: the types,  *)
(* the server's and the client's bookkeeping of what is down, and that a   *)
(* session that is over has neither a stream nor anything pressed.         *)
THEOREM InputInvariant == Spec => []InputInv
<1>1. Init => InputInv
  BY InitInput
<1>2. InputInv /\ [Next]_vars => InputInv'
  BY InputStep
<1> QED
  BY <1>1, <1>2, PTL DEF Spec

(* release_all always knows everything that is, or is about to be, down on *)
(* the server's desktop.                                                   *)
THEOREM PressedIsExact == Spec => []DesktopFollowsPressed
<1>1. InputInv => DesktopFollowsPressed
  BY DEF InputInv
<1> QED
  BY <1>1, InputInvariant, PTL

(* Client and server agree on the buttons and on the keys that make no     *)
(* character, up to what is on the way.                                    *)
THEOREM EndsAlwaysAgree == Spec => []EndsAgree
<1>1. InputInv => EndsAgree
  BY DEF InputInv
<1> QED
  BY <1>1, InputInvariant, PTL

(* A session that was dropped leaves nothing down on the desktop: the      *)
(* queue is empty, so the desktop is what `pressed' says, and that is      *)
(* empty since release_all.                                                *)
THEOREM DesktopIsLeftClean == Spec => []NothingStaysDown
<1>1. InputInv => NothingStaysDown
  <2> SUFFICES ASSUME InputInv, session = "joined"
               PROVE  desktop = {}
    BY DEF NothingStaysDown
  <2>1. commands = << >> /\ pressed = {} /\ desktop \subseteq Inputs
    BY DEF InputInv, TypeOK
  <2>2. DownAfter(desktop, << >>) = {}
    BY <2>1 DEF InputInv, DesktopFollowsPressed
  <2>3. DownAfter(desktop, << >>) = desktop
    BY <2>1, DownEmpty
  <2> QED
    BY <2>2, <2>3
<1> QED
  BY <1>1, InputInvariant, PTL

-----------------------------------------------------------------------------
(* The modes on their way: queues that grow at one end.                    *)

(* v is w with more behind it.                                             *)
LEMMA GrownModes ==
  ASSUME NEW w, NEW v, NEW n \in Nat, NEW m \in Nat, DOMAIN w = 1 .. n,
         DOMAIN v = 1 .. m, n <= m, \A k \in 1 .. n : v[k] = w[k],
         NEW i \in Nat, i <= n + 1
  PROVE  /\ ModesIn(v, i) = ModesIn(w, i)
         /\ \A j : LastMode(v, i, j) <=> LastMode(w, i, j)
         /\ \A j \in Nat : \A after : Used(w, j, i, after) => Used(v, j, i, after)
<1>1. ModesIn(v, i) = ModesIn(w, i)
  BY DEF ModesIn
<1>2. \A j : LastMode(v, i, j) <=> LastMode(w, i, j)
  BY <1>1 DEF LastMode
<1>3. \A j \in Nat : \A after : Used(w, j, i, after) => Used(v, j, i, after)
  BY DEF Used
<1> QED
  BY <1>1, <1>2, <1>3

LEMMA GrownInForce ==
  ASSUME NEW w, NEW v, NEW n \in Nat, NEW m \in Nat, DOMAIN w = 1 .. n,
         DOMAIN v = 1 .. m, n <= m, \A k \in 1 .. n : v[k] = w[k],
         NEW i \in Nat, i <= n + 1, NEW im, NEW mode, InForce(w, im, i, mode)
  PROVE  InForce(v, im, i, mode)
<1>1. /\ ModesIn(v, i) = ModesIn(w, i)
      /\ \A j : LastMode(v, i, j) <=> LastMode(w, i, j)
      /\ \A j \in Nat : \A after : Used(w, j, i, after) => Used(v, j, i, after)
  BY GrownModes
<1>2. CASE ModesIn(w, i) = {} /\ im.pending = NoMode /\ mode = im.current
  BY <1>1, <1>2 DEF InForce
<1>3. CASE /\ ModesIn(w, i) = {} /\ im.pending # NoMode
           /\ mode = im.pending.mode /\ Used(w, 0, i, im.pending.after)
  BY <1>1, <1>3 DEF InForce
<1>4. CASE \E p \in DOMAIN w :
             LastMode(w, i, p) /\ mode = w[p].under /\ Used(w, p, i, w[p].id)
  <2>1. PICK p \in 1 .. n :
          LastMode(w, i, p) /\ mode = w[p].under /\ Used(w, p, i, w[p].id)
    BY <1>4
  <2>2. p \in DOMAIN v /\ p \in Nat /\ v[p] = w[p]
    BY <2>1
  <2> QED
    BY <1>1, <2>1, <2>2 DEF InForce
<1> QED
  BY <1>2, <1>3, <1>4 DEF InForce

LEMMA GrownReadIn ==
  ASSUME NEW w, NEW v, NEW n \in Nat, NEW m \in Nat, DOMAIN w = 1 .. n,
         DOMAIN v = 1 .. m, n <= m, \A k \in 1 .. n : v[k] = w[k],
         NEW i \in Nat, i <= n + 1, NEW im, NEW id, NEW mode, ReadIn(w, im, i, id, mode)
  PROVE  ReadIn(v, im, i, id, mode)
<1>1. /\ ModesIn(v, i) = ModesIn(w, i)
      /\ \A j : LastMode(v, i, j) <=> LastMode(w, i, j)
  BY GrownModes
<1>2. CASE ModesIn(w, i) = {} /\ mode = ModeFor(im, id).current
  BY <1>1, <1>2 DEF ReadIn
<1>3. CASE \E j \in DOMAIN w :
             /\ LastMode(w, i, j)
             /\ \/ id > w[j].id /\ mode = w[j].under
                \/ id <= w[j].id /\ InForce(w, im, j, mode)
  <2>1. PICK j \in 1 .. n :
          /\ LastMode(w, i, j)
          /\ \/ id > w[j].id /\ mode = w[j].under
             \/ id <= w[j].id /\ InForce(w, im, j, mode)
    BY <1>3
  <2>2. j \in DOMAIN v /\ j \in Nat /\ j <= n + 1 /\ v[j] = w[j]
    BY <2>1
  <2>3. InForce(w, im, j, mode) => InForce(v, im, j, mode)
    BY <2>2, GrownInForce
  <2> QED
    BY <1>1, <2>1, <2>2, <2>3 DEF ReadIn
<1> QED
  BY <1>2, <1>3 DEF ReadIn

(* What is behind it are events: they do not change the mode of what       *)
(* follows, and may be beyond a boundary.                                  *)
LEMMA EventsBehind ==
  ASSUME NEW w, NEW v, NEW n \in Nat, NEW m \in Nat, DOMAIN w = 1 .. n,
         DOMAIN v = 1 .. m, n <= m, \A k \in 1 .. n : v[k] = w[k],
         \A k \in (n + 1) .. m : v[k].kind # "mode",
         NEW i \in Nat, n + 1 <= i, i <= m + 1
  PROVE  /\ ModesIn(v, i) = ModesIn(w, n + 1)
         /\ \A j : LastMode(v, i, j) <=> LastMode(w, n + 1, j)
         /\ \A j \in Nat : \A after : Used(w, j, n + 1, after) => Used(v, j, i, after)
         /\ \A im, id, mode :
              ReadIn(w, im, n + 1, id, mode) => ReadIn(v, im, i, id, mode)
<1>1. ModesIn(v, i) = ModesIn(w, n + 1)
  <2>1. \A k : k \in ModesIn(v, i) <=> k \in ModesIn(w, n + 1)
    BY DEF ModesIn
  <2> QED
    BY <2>1
<1>2. \A j : LastMode(v, i, j) <=> LastMode(w, n + 1, j)
  BY <1>1 DEF LastMode
<1>3. \A j \in Nat : \A after : Used(w, j, n + 1, after) => Used(v, j, i, after)
  BY DEF Used
<1>4. ASSUME NEW im, NEW id, NEW mode, ReadIn(w, im, n + 1, id, mode)
      PROVE  ReadIn(v, im, i, id, mode)
  <2>1. CASE ModesIn(w, n + 1) = {} /\ mode = ModeFor(im, id).current
    BY <1>1, <2>1 DEF ReadIn
  <2>2. CASE \E j \in DOMAIN w :
               /\ LastMode(w, n + 1, j)
               /\ \/ id > w[j].id /\ mode = w[j].under
                  \/ id <= w[j].id /\ InForce(w, im, j, mode)
    <3>1. PICK j \in 1 .. n :
            /\ LastMode(w, n + 1, j)
            /\ \/ id > w[j].id /\ mode = w[j].under
               \/ id <= w[j].id /\ InForce(w, im, j, mode)
      BY <2>2
    <3>2. j \in DOMAIN v /\ j \in Nat /\ j <= n + 1 /\ v[j] = w[j]
      BY <3>1
    <3>3. InForce(w, im, j, mode) => InForce(v, im, j, mode)
      BY <3>2, GrownInForce
    <3> QED
      BY <1>2, <3>1, <3>2, <3>3 DEF ReadIn
  <2> QED
    BY <1>4, <2>1, <2>2 DEF ReadIn
<1> QED
  BY <1>1, <1>2, <1>3, <1>4

-----------------------------------------------------------------------------
(* The same queues, read at the other end.                                 *)

LEMMA TailIndices ==
  ASSUME NEW R, NEW w \in Seq(R), w # << >>
  PROVE  /\ Len(w) \in Nat \ {0} /\ DOMAIN w = 1 .. Len(w) /\ w[1] = Head(w)
         /\ DOMAIN Tail(w) = 1 .. (Len(w) - 1) /\ Len(Tail(w)) = Len(w) - 1
         /\ \A k \in 1 .. (Len(w) - 1) : Tail(w)[k] = w[k + 1]
  OBVIOUS

(* v is w without its first element.                                       *)
LEMMA ReadEvent ==
  ASSUME NEW w, NEW v, NEW n \in Nat, DOMAIN w = 1 .. (n + 1), DOMAIN v = 1 .. n,
         \A k \in 1 .. n : v[k] = w[k + 1], w[1].kind # "mode",
         NEW i \in Nat \ {0}, i <= n + 1
  PROVE  /\ ModesIn(v, i) = {} <=> ModesIn(w, i + 1) = {}
         /\ \A j \in Nat : LastMode(v, i, j) <=> LastMode(w, i + 1, j + 1)
         /\ \A j : LastMode(w, i + 1, j) => j \in 2 .. (n + 1)
<1>1. \A k \in Nat : k \in ModesIn(v, i) <=> k + 1 \in ModesIn(w, i + 1)
  BY DEF ModesIn
<1>2. \A k : k \in ModesIn(w, i + 1) => k \in 2 .. (n + 1) /\ k - 1 \in ModesIn(v, i)
  BY DEF ModesIn
<1>3. \A k : k \in ModesIn(v, i) => k \in 1 .. n
  BY DEF ModesIn
<1>4. ModesIn(v, i) = {} <=> ModesIn(w, i + 1) = {}
  <2>1. ASSUME NEW k \in ModesIn(v, i) PROVE ModesIn(w, i + 1) # {}
    <3>1. k \in Nat
      BY <1>3
    <3> QED
      BY <1>1, <3>1
  <2>2. ASSUME NEW k \in ModesIn(w, i + 1) PROVE ModesIn(v, i) # {}
    BY <1>2
  <2> QED
    BY <2>1, <2>2
<1>5. ASSUME NEW j \in Nat
      PROVE  LastMode(v, i, j) <=> LastMode(w, i + 1, j + 1)
  <2>1. ASSUME LastMode(v, i, j), NEW k \in ModesIn(w, i + 1) PROVE k <= j + 1
    BY <1>2, <2>1 DEF LastMode
  <2>2. ASSUME LastMode(w, i + 1, j + 1), NEW k \in ModesIn(v, i) PROVE k <= j
    <3>1. k \in Nat
      BY <1>3
    <3>2. k + 1 \in ModesIn(w, i + 1)
      BY <1>1, <3>1
    <3>3. k + 1 <= j + 1
      BY <2>2, <3>2 DEF LastMode
    <3> QED
      BY <3>1, <3>3
  <2> QED
    BY <1>1, <2>1, <2>2 DEF LastMode
<1> QED
  BY <1>2, <1>4, <1>5 DEF LastMode

LEMMA ReadUsed ==
  ASSUME NEW w, NEW v, NEW n \in Nat, DOMAIN w = 1 .. (n + 1), DOMAIN v = 1 .. n,
         \A k \in 1 .. n : v[k] = w[k + 1],
         NEW i \in Nat, NEW j \in Nat, NEW after
  PROVE  /\ Used(w, j + 1, i + 1, after) => Used(v, j, i, after)
         /\ Used(w, 0, i + 1, after) =>
              Used(v, 0, i, after) \/ (w[1].kind \in Moded /\ w[1].id > after)
<1>1. ASSUME NEW k \in 1 .. (n + 1), j + 1 < k, k < i + 1, w[k].kind \in Moded, w[k].id > after
      PROVE  Used(v, j, i, after)
  <2>1. k - 1 \in 1 .. n /\ j < k - 1 /\ k - 1 < i /\ v[k - 1] = w[k]
    BY <1>1
  <2> QED
    BY <1>1, <2>1 DEF Used
<1>2. ASSUME NEW k \in 1 .. (n + 1), k < i + 1, w[k].kind \in Moded, w[k].id > after, k # 1
      PROVE  Used(v, 0, i, after)
  <2>1. k - 1 \in 1 .. n /\ 0 < k - 1 /\ k - 1 < i /\ v[k - 1] = w[k]
    BY <1>2
  <2> QED
    BY <1>2, <2>1 DEF Used
<1> QED
  BY <1>1, <1>2 DEF Used

-----------------------------------------------------------------------------
(* The client's steps, as far as the modes are concerned.                  *)

(* n events go onto the wire, with the next ids, each in the mode that was *)
(* announced for it.                                                       *)
Sent(n) ==
  /\ DOMAIN wire' = 1 .. (Len(wire) + n) /\ Len(wire') = Len(wire) + n
  /\ \A k \in 1 .. Len(wire) : wire'[k] = wire[k]
  /\ \A k \in 1 .. n :
       /\ wire'[Len(wire) + k].kind # "mode"
       /\ wire'[Len(wire) + k].id = nextId + k - 1
       /\ wire'[Len(wire) + k].under = Announced(flips, nextId + k - 1)
  /\ nextId' = nextId + n
  /\ \/ keyed' = keyed /\ \A k \in 1 .. n : wire'[Len(wire) + k].kind \notin Moded
     \/ /\ n # 0 /\ keyed' = nextId + n - 1
        /\ wire'[Len(wire) + n].kind \in Moded
  /\ flips' = flips /\ ime' = ime /\ stream' = stream

LEMMA WireIndices ==
  ASSUME TypeOK
  PROVE  /\ Len(wire) \in Nat /\ DOMAIN wire = 1 .. Len(wire)
         /\ nextId \in Nat \ {0} /\ keyed \in Nat
         /\ \A i \in DOMAIN wire : wire[i].id \in Nat
<1>1. \A m \in Message : m.id \in Nat
  BY DEF Message
<1>2. wire \in Seq(Message)
  BY DEF TypeOK
<1>3. \A i \in DOMAIN wire : wire[i] \in Message
  BY <1>2
<1> QED
  BY <1>1, <1>2, <1>3 DEF TypeOK

LEMMA SentIds ==
  ASSUME TypeOK, IdsRise, NEW n \in Nat, Sent(n)
  PROVE  IdsRise' /\ keyed <= keyed'
<1> DEFINE N == Len(wire)
<1>1. /\ N \in Nat /\ DOMAIN wire = 1 .. N /\ nextId \in Nat \ {0} /\ keyed \in Nat
      /\ \A i \in 1 .. N : wire[i].id \in Nat
  BY WireIndices
<1>2. /\ DOMAIN wire' = 1 .. (N + n) /\ \A k \in 1 .. N : wire'[k] = wire[k]
      /\ nextId' = nextId + n
  BY DEF Sent
<1>3. /\ keyed < nextId
      /\ \A i \in 1 .. N : wire[i].kind # "mode" => wire[i].id < nextId
      /\ \A i \in 1 .. N : wire[i].kind \in Moded => wire[i].id <= keyed
      /\ \A i, j \in 1 .. N :
           i < j /\ wire[i].kind # "mode" /\ wire[j].kind # "mode" => wire[i].id < wire[j].id
  BY <1>1 DEF IdsRise
<1>4. \A k \in 1 .. n : wire'[N + k].id = nextId + k - 1
  BY DEF Sent
<1>5. \/ keyed' = keyed /\ \A k \in 1 .. n : wire'[N + k].kind \notin Moded
      \/ n # 0 /\ keyed' = nextId + n - 1
  BY DEF Sent
<1> HIDE DEF N
<1>6. keyed <= keyed' /\ keyed' < nextId' /\ keyed' \in Nat /\ nextId' \in Nat
  BY <1>1, <1>2, <1>3, <1>5
<1>7. ASSUME NEW i \in (N + 1) .. (N + n)
      PROVE  /\ wire'[i].id = nextId + (i - N) - 1
             /\ keyed' = keyed => wire'[i].kind \notin Moded
             /\ keyed' # keyed => wire'[i].id <= keyed'
  <2>1. i - N \in 1 .. n /\ N + (i - N) = i
    BY <1>1
  <2>2. wire'[i].id = nextId + (i - N) - 1
    BY <1>4, <2>1
  <2>3. n # 0 /\ keyed' = nextId + n - 1 => keyed' # keyed
    BY <1>1, <1>3
  <2>4. keyed' = keyed => wire'[i].kind \notin Moded
    BY <1>5, <2>1, <2>3
  <2>5. keyed' # keyed => wire'[i].id <= keyed'
    <3>1. keyed' # keyed => keyed' = nextId + n - 1
      BY <1>5
    <3>2. nextId + (i - N) - 1 <= nextId + n - 1
      BY <1>1, <2>1
    <3> QED
      BY <2>2, <3>1, <3>2
  <2> QED
    BY <2>2, <2>4, <2>5
<1>8. \A i \in 1 .. (N + n) : i \in 1 .. N \/ i \in (N + 1) .. (N + n)
  BY <1>1
<1>9. ASSUME NEW i \in 1 .. (N + n)
      PROVE  /\ wire'[i].kind # "mode" => wire'[i].id < nextId'
             /\ wire'[i].kind \in Moded => wire'[i].id <= keyed'
  <2>1. CASE i \in 1 .. N
    <3>1. wire'[i] = wire[i] /\ wire[i].id \in Nat /\ nextId <= nextId'
      BY <1>1, <1>2, <2>1
    <3>2. wire'[i].kind # "mode" => wire'[i].id < nextId'
      BY <1>1, <1>3, <1>6, <2>1, <3>1
    <3>3. wire'[i].kind \in Moded => wire'[i].id <= keyed'
      BY <1>1, <1>3, <1>6, <2>1, <3>1
    <3> QED
      BY <3>2, <3>3
  <2>2. CASE i \in (N + 1) .. (N + n)
    BY <1>1, <1>2, <1>6, <1>7, <2>2
  <2> QED
    BY <1>8, <2>1, <2>2
<1>10. ASSUME NEW i \in 1 .. (N + n), NEW j \in 1 .. (N + n), i < j,
              wire'[i].kind # "mode", wire'[j].kind # "mode"
       PROVE  wire'[i].id < wire'[j].id
  <2>1. CASE j \in 1 .. N
    <3>1. i \in 1 .. N
      BY <1>1, <1>10, <2>1
    <3> QED
      BY <1>2, <1>3, <1>10, <2>1, <3>1
  <2>2. CASE i \in 1 .. N /\ j \in (N + 1) .. (N + n)
    <3>1. wire'[i].id < nextId /\ wire'[i].id \in Nat
      BY <1>1, <1>2, <1>3, <1>10, <2>2
    <3>2. wire'[j].id >= nextId /\ wire'[j].id \in Nat
      BY <1>1, <1>7, <2>2
    <3> QED
      BY <1>1, <3>1, <3>2
  <2>3. CASE i \in (N + 1) .. (N + n) /\ j \in (N + 1) .. (N + n)
    BY <1>1, <1>7, <1>10, <2>3
  <2>4. i \in (N + 1) .. (N + n) => j \in (N + 1) .. (N + n)
    BY <1>1, <1>10
  <2> QED
    BY <1>8, <2>1, <2>2, <2>3, <2>4
<1> QED
  BY <1>2, <1>6, <1>9, <1>10 DEF IdsRise

LEMMA SentLatest ==
  ASSUME TypeOK, IdsRise, LatestMode, NEW n \in Nat, Sent(n)
  PROVE  LatestMode'
<1> DEFINE N == Len(wire)
<1>1. /\ N \in Nat /\ DOMAIN wire = 1 .. N /\ nextId \in Nat \ {0} /\ keyed \in Nat
      /\ keyed < nextId
  BY WireIndices DEF IdsRise
<1>2. /\ DOMAIN wire' = 1 .. (N + n) /\ Len(wire') = N + n
      /\ \A k \in 1 .. N : wire'[k] = wire[k]
      /\ flips' = flips /\ ime' = ime
  BY DEF Sent
<1>3. \/ keyed' = keyed
      \/ /\ n # 0 /\ keyed' = nextId + n - 1
         /\ wire'[N + n].kind \in Moded /\ wire'[N + n].id = nextId + n - 1
  <2>1. n # 0 => n \in 1 .. n
    OBVIOUS
  <2> QED
    BY <2>1 DEF Sent
<1>4. End = N + 1 /\ End' = N + n + 1
  BY <1>1, <1>2 DEF End
<1>5. \A k \in (N + 1) .. (N + n) : wire'[k].kind # "mode"
  <2> SUFFICES ASSUME NEW k \in (N + 1) .. (N + n) PROVE wire'[k].kind # "mode"
    OBVIOUS
  <2>1. k - N \in 1 .. n /\ N + (k - N) = k
    BY <1>1
  <2> QED
    BY <2>1 DEF Sent
<1> HIDE DEF N
<1>6. /\ ModesIn(wire', N + n + 1) = ModesIn(wire, N + 1)
      /\ \A j : LastMode(wire', N + n + 1, j) <=> LastMode(wire, N + 1, j)
      /\ \A j \in Nat : \A after :
           Used(wire, j, N + 1, after) => Used(wire', j, N + n + 1, after)
  BY <1>1, <1>2, <1>5, EventsBehind
<1>7. CASE flips = << >>
  BY <1>2, <1>4, <1>6, <1>7 DEF LatestMode
<1>8. CASE flips # << >>
  <2> DEFINE f == flips[Len(flips)]
  <2>0. f.after \in Nat
    <3>1. f \in Flip
      BY <1>8 DEF TypeOK
    <3> QED
      BY <3>1 DEF Flip
  <2>1. ASSUME NEW j \in Nat, j <= N, keyed > f.after => Used(wire, j, N + 1, f.after)
        PROVE  keyed' > f.after => Used(wire', j, N + n + 1, f.after)
    <3>1. CASE keyed' = keyed
      BY <1>6, <2>1, <3>1
    <3>2. CASE /\ n # 0 /\ keyed' = nextId + n - 1
               /\ wire'[N + n].kind \in Moded /\ wire'[N + n].id = nextId + n - 1
      <4>1. N + n \in DOMAIN wire' /\ j < N + n /\ N + n < N + n + 1
        BY <1>1, <1>2, <2>1, <3>2
      <4> QED
        BY <3>2, <4>1 DEF Used
    <3> QED
      BY <1>3, <3>1, <3>2
  <2>2. f' = f
    BY <1>2
  <2>3. CASE \E j \in DOMAIN wire :
               /\ LastMode(wire, End, j) /\ wire[j].id = f.after /\ wire[j].under = f.mode
               /\ keyed > f.after => Used(wire, j, End, f.after)
    <3>1. PICK j \in 1 .. N :
               /\ LastMode(wire, N + 1, j) /\ wire[j].id = f.after /\ wire[j].under = f.mode
               /\ keyed > f.after => Used(wire, j, N + 1, f.after)
      BY <1>1, <1>4, <2>3
    <3>2. j \in Nat /\ j <= N /\ j \in DOMAIN wire' /\ wire'[j] = wire[j]
      BY <1>1, <1>2, <3>1
    <3>3. keyed' > f.after => Used(wire', j, N + n + 1, f.after)
      BY <2>1, <3>1, <3>2
    <3>4. \E jj \in DOMAIN wire' :
               /\ LastMode(wire', End', jj) /\ wire'[jj].id = f.after /\ wire'[jj].under = f.mode
               /\ keyed' > f.after => Used(wire', jj, End', f.after)
      BY <1>4, <1>6, <3>1, <3>2, <3>3
    <3> QED
      BY <1>2, <1>8, <2>2, <3>4 DEF LatestMode
  <2>4. CASE /\ ModesIn(wire, End) = {} /\ ime.pending = [mode |-> f.mode, after |-> f.after]
             /\ keyed > f.after => Used(wire, 0, End, f.after)
    <3>1. keyed' > f.after => Used(wire', 0, N + n + 1, f.after)
      BY <1>1, <1>4, <2>1, <2>4
    <3> QED
      BY <1>2, <1>4, <1>6, <1>8, <2>2, <2>4, <3>1 DEF LatestMode
  <2>5. CASE /\ ModesIn(wire, End) = {} /\ ime = [current |-> f.mode, pending |-> NoMode]
             /\ keyed > f.after
    <3>1. keyed' > f.after
      BY <1>1, <1>3, <2>0, <2>5
    <3> QED
      BY <1>2, <1>4, <1>6, <1>8, <2>2, <2>5, <3>1 DEF LatestMode
  <2> QED
    BY <1>8, <2>3, <2>4, <2>5 DEF LatestMode
<1> QED
  BY <1>7, <1>8

LEMMA SentFollow ==
  ASSUME TypeOK, ModesFollow, NEW n \in Nat, Sent(n)
  PROVE  ModesFollow'
<1> DEFINE N == Len(wire)
<1>1. N \in Nat /\ DOMAIN wire = 1 .. N /\ nextId \in Nat \ {0}
  BY WireIndices
<1>2. /\ DOMAIN wire' = 1 .. (N + n) /\ Len(wire') = N + n
      /\ \A k \in 1 .. N : wire'[k] = wire[k]
      /\ flips' = flips /\ ime' = ime /\ nextId' = nextId + n
  BY DEF Sent
<1>3. End = N + 1 /\ End' = N + n + 1
  BY <1>1, <1>2 DEF End
<1>4. ASSUME NEW k \in (N + 1) .. (N + n)
      PROVE  /\ wire'[k].kind # "mode" /\ wire'[k].id = nextId + (k - N) - 1
             /\ wire'[k].under = Announced(flips, wire'[k].id)
  <2>1. k - N \in 1 .. n /\ N + (k - N) = k
    BY <1>1
  <2> QED
    BY <2>1 DEF Sent
<1> SUFFICES ASSUME Orderly'
             PROVE  /\ \A i \in DOMAIN wire' :
                         wire'[i].kind \in Moded => ReadIn(wire', ime', i, wire'[i].id, wire'[i].under)
                    /\ \A id \in Nat : id >= nextId' => ReadIn(wire', ime', End', id, Announced(flips', id))
  BY DEF ModesFollow
<1>5. Orderly
  BY <1>2 DEF Orderly
<1>6. /\ \A i \in 1 .. N : wire[i].kind \in Moded => ReadIn(wire, ime, i, wire[i].id, wire[i].under)
      /\ \A id \in Nat : id >= nextId => ReadIn(wire, ime, N + 1, id, Announced(flips, id))
  BY <1>1, <1>3, <1>5 DEF ModesFollow
<1> HIDE DEF N
<1>7. ASSUME NEW i \in Nat, N + 1 <= i, i <= N + n + 1, NEW id \in Nat, id >= nextId
      PROVE  ReadIn(wire', ime, i, id, Announced(flips, id))
  <2>1. \A im, d, mode : ReadIn(wire, im, N + 1, d, mode) => ReadIn(wire', im, i, d, mode)
    <3>1. N + n \in Nat /\ N <= N + n
      BY <1>1
    <3>2. \A k \in (N + 1) .. (N + n) : wire'[k].kind # "mode"
      BY <1>4
    <3> QED
      BY <1>1, <1>2, <1>7, <3>1, <3>2, EventsBehind
  <2> QED
    BY <1>6, <1>7, <2>1
<1>8. ASSUME NEW i \in 1 .. (N + n), wire'[i].kind \in Moded
      PROVE  ReadIn(wire', ime, i, wire'[i].id, wire'[i].under)
  <2>1. CASE i \in 1 .. N
    <3>1. ReadIn(wire, ime, i, wire[i].id, wire[i].under)
      BY <1>2, <1>6, <1>8, <2>1
    <3>2. i \in Nat /\ i <= N + 1 /\ N <= N + n /\ N + n \in Nat
      BY <1>1, <2>1
    <3>3. ReadIn(wire', ime, i, wire[i].id, wire[i].under)
      BY <1>1, <1>2, <3>1, <3>2, GrownReadIn
    <3> QED
      BY <1>2, <2>1, <3>3
  <2>2. CASE i \in (N + 1) .. (N + n)
    <3>1. i \in Nat /\ N + 1 <= i /\ i <= N + n + 1
      BY <1>1, <2>2
    <3>2. wire'[i].id \in Nat /\ wire'[i].id >= nextId
      BY <1>1, <1>4, <2>2
    <3>3. wire'[i].under = Announced(flips, wire'[i].id)
      BY <1>4, <2>2
    <3> QED
      BY <1>7, <3>1, <3>2, <3>3
  <2> QED
    BY <1>1, <2>1, <2>2
<1>9. ASSUME NEW id \in Nat, id >= nextId'
      PROVE  ReadIn(wire', ime, N + n + 1, id, Announced(flips, id))
  BY <1>1, <1>2, <1>7, <1>9
<1> QED
  BY <1>2, <1>3, <1>8, <1>9

(* At most one of the n events makes a character, and it was typed.        *)
TypedIn(n) ==
  /\ \/ typed' = typed /\ \A k \in 1 .. n : ~ Counts(wire'[Len(wire) + k])
     \/ /\ typed' = typed + 1
        /\ \E c \in 1 .. n :
             /\ Counts(wire'[Len(wire) + c])
             /\ \A k \in 1 .. n : Counts(wire'[Len(wire) + k]) => k = c
  /\ arrived' = arrived /\ clean' = clean

LEMMA ComingIsFinite ==
  ASSUME NEW w, NEW n \in Nat, DOMAIN w = 1 .. n
  PROVE  IsFiniteSet(Coming(w)) /\ Cardinality(Coming(w)) \in Nat
<1>1. IsFiniteSet(1 .. n)
  BY FS_Interval
<1>2. Coming(w) \subseteq 1 .. n
  BY DEF Coming
<1>3. IsFiniteSet(Coming(w))
  BY <1>1, <1>2, FS_Subset
<1> QED
  BY <1>3, FS_CardinalityType

LEMMA ComingGrown ==
  ASSUME NEW w, NEW v, NEW n \in Nat, NEW m \in Nat, DOMAIN w = 1 .. n,
         DOMAIN v = 1 .. (n + m), \A k \in 1 .. n : v[k] = w[k]
  PROVE  /\ (\A k \in 1 .. m : ~ Counts(v[n + k])) => Coming(v) = Coming(w)
         /\ \A c \in 1 .. m :
              Counts(v[n + c]) /\ (\A k \in 1 .. m : Counts(v[n + k]) => k = c)
                => Cardinality(Coming(v)) = Cardinality(Coming(w)) + 1
<1>1. ASSUME NEW i \in 1 .. (n + m), i \notin 1 .. n PROVE i - n \in 1 .. m /\ n + (i - n) = i
  BY <1>1
<1>2. ASSUME NEW i \in 1 .. n PROVE i \in Coming(v) <=> i \in Coming(w)
  BY DEF Coming
<1>3. ASSUME \A k \in 1 .. m : ~ Counts(v[n + k]) PROVE Coming(v) = Coming(w)
  <2>1. ASSUME NEW i PROVE i \in Coming(v) <=> i \in Coming(w)
    <3>1. i \in Coming(v) => i \in 1 .. n
      BY <1>1, <1>3 DEF Coming
    <3>2. i \in Coming(w) => i \in 1 .. n
      BY DEF Coming
    <3> QED
      BY <1>2, <3>1, <3>2
  <2> QED
    BY <2>1
<1>4. ASSUME NEW c \in 1 .. m, Counts(v[n + c]), \A k \in 1 .. m : Counts(v[n + k]) => k = c
      PROVE  Cardinality(Coming(v)) = Cardinality(Coming(w)) + 1
  <2>1. n + c \notin 1 .. n /\ n + c \in 1 .. (n + m)
    OBVIOUS
  <2>2. n + c \notin Coming(w) /\ n + c \in Coming(v)
    BY <1>4, <2>1 DEF Coming
  <2>3. ASSUME NEW i PROVE i \in Coming(v) <=> i \in Coming(w) \cup {n + c}
    <3>1. i \in Coming(v) => i \in 1 .. n \/ i = n + c
      BY <1>1, <1>4 DEF Coming
    <3>2. i \in Coming(w) => i \in 1 .. n
      BY DEF Coming
    <3> QED
      BY <1>2, <2>2, <3>1, <3>2
  <2>4. Coming(v) = Coming(w) \cup {n + c}
    BY <2>3
  <2>5. IsFiniteSet(Coming(w))
    BY ComingIsFinite
  <2> QED
    BY <2>2, <2>4, <2>5, FS_AddElement
<1> QED
  BY <1>3, <1>4

LEMMA SentCharacters ==
  ASSUME TypeOK, CharactersKept, NEW n \in Nat, Sent(n), TypedIn(n)
  PROVE  CharactersKept'
<1>1. Len(wire) \in Nat /\ DOMAIN wire = 1 .. Len(wire)
  BY WireIndices
<1>2. /\ DOMAIN wire' = 1 .. (Len(wire) + n) /\ \A k \in 1 .. Len(wire) : wire'[k] = wire[k]
      /\ flips' = flips /\ arrived' = arrived /\ clean' = clean
  BY DEF Sent, TypedIn
<1>3. Cardinality(Coming(wire)) \in Nat /\ typed \in Nat /\ arrived \in Nat
  BY <1>1, ComingIsFinite DEF TypeOK
<1> SUFFICES ASSUME Orderly', clean'
             PROVE  typed' = arrived' + Cardinality(Coming(wire'))
  BY DEF CharactersKept
<1>4. typed = arrived + Cardinality(Coming(wire))
  BY <1>2 DEF CharactersKept, Orderly
<1>5. CASE typed' = typed /\ \A k \in 1 .. n : ~ Counts(wire'[Len(wire) + k])
  <2>1. Coming(wire') = Coming(wire)
    BY <1>1, <1>2, <1>5, ComingGrown
  <2> QED
    BY <1>2, <1>4, <1>5, <2>1
<1>6. CASE /\ typed' = typed + 1
           /\ \E c \in 1 .. n :
                /\ Counts(wire'[Len(wire) + c])
                /\ \A k \in 1 .. n : Counts(wire'[Len(wire) + k]) => k = c
  <2>1. Cardinality(Coming(wire')) = Cardinality(Coming(wire)) + 1
    BY <1>1, <1>2, <1>6, ComingGrown
  <2> QED
    BY <1>2, <1>3, <1>4, <1>6, <2>1
<1> QED
  BY <1>5, <1>6 DEF TypedIn

(* A step of the client that sends events keeps the invariant.             *)
LEMMA SentKeeps ==
  ASSUME TypeOK, ModesInv, NEW n \in Nat, Sent(n), TypedIn(n)
  PROVE  ModesInv'
<1>1. stream' = stream
  BY DEF Sent
<1> QED
  BY <1>1, SentIds, SentLatest, SentFollow, SentCharacters DEF ModesInv

(* One event, two events.                                                  *)
LEMMA SentOne ==
  ASSUME TypeOK, NEW m, wire' = Append(wire, m),
         m.kind # "mode", m.id = nextId, m.under = Announced(flips, nextId),
         nextId' = nextId + 1,
         \/ keyed' = keyed /\ m.kind \notin Moded
         \/ keyed' = nextId /\ m.kind \in Moded,
         flips' = flips, ime' = ime, stream' = stream
  PROVE  Sent(1) /\ wire'[Len(wire) + 1] = m
<1>1. Len(wire) \in Nat /\ nextId \in Nat /\ wire \in Seq(Message)
  BY WireIndices DEF TypeOK
<1>2. /\ DOMAIN wire' = 1 .. (Len(wire) + 1) /\ Len(wire') = Len(wire) + 1
      /\ \A k \in 1 .. Len(wire) : wire'[k] = wire[k]
      /\ wire'[Len(wire) + 1] = m
  BY <1>1
<1>3. 1 .. 1 = {1} /\ nextId + 1 - 1 = nextId
  BY <1>1
<1> QED
  BY <1>2, <1>3 DEF Sent

LEMMA SentTwo ==
  ASSUME TypeOK, NEW a, NEW b, wire' = wire \o <<a, b>>,
         a.kind \in Moded, a.id = nextId, a.under = Announced(flips, nextId),
         b.kind \in Moded, b.id = nextId + 1, b.under = Announced(flips, nextId + 1),
         nextId' = nextId + 2, keyed' = nextId + 1,
         flips' = flips, ime' = ime, stream' = stream
  PROVE  /\ Sent(2)
         /\ wire'[Len(wire) + 1] = a /\ wire'[Len(wire) + 2] = b
<1>1. Len(wire) \in Nat /\ nextId \in Nat /\ wire \in Seq(Message)
  BY WireIndices DEF TypeOK
<1>2. /\ DOMAIN wire' = 1 .. (Len(wire) + 2) /\ Len(wire') = Len(wire) + 2
      /\ \A k \in 1 .. Len(wire) : wire'[k] = wire[k]
      /\ wire'[Len(wire) + 1] = a /\ wire'[Len(wire) + 2] = b
  BY <1>1
<1>3. /\ 1 .. 2 = {1, 2} /\ nextId + 1 - 1 = nextId /\ nextId + 2 - 1 = nextId + 1
  BY <1>1
<1>4. \A kind \in Moded : kind # "mode"
  BY DEF Moded
<1> QED
  BY <1>2, <1>3, <1>4 DEF Sent

LEMMA KeySent ==
  ASSUME TypeOK, NEW k \in Keys, NEW down \in BOOLEAN, Key(k, down)
  PROVE  Sent(1) /\ TypedIn(1)
<1> DEFINE m == Event("key", 0, k, down, Shortcut(held'))
<1>1. /\ m.kind = "key" /\ m.id = nextId /\ m.input = k /\ m.down = down
      /\ m.shortcut = Shortcut(held') /\ m.under = Announced(flips, nextId)
  BY DEF Event, TypeOK
<1>2. /\ wire' = Append(wire, m) /\ nextId' = nextId + 1 /\ keyed' = nextId
      /\ flips' = flips /\ ime' = ime /\ stream' = stream
      /\ typed' = typed /\ arrived' = arrived /\ clean' = clean
      /\ held' = OnInput(held, k, down)
      /\ down => k \notin CharacterKeys \/ Shortcut(held)
  BY DEF Key, serverVars
<1> HIDE DEF m
<1>3. Sent(1) /\ wire'[Len(wire) + 1] = m
  BY <1>1, <1>2, SentOne DEF Moded
<1>4. down /\ Shortcut(held) => Shortcut(held')
  BY <1>2 DEF Shortcut, OnInput
<1>5. ~ Counts(m)
  BY <1>1, <1>2, <1>4 DEF Counts
<1>6. 1 .. 1 = {1}
  OBVIOUS
<1> QED
  BY <1>2, <1>3, <1>5, <1>6 DEF TypedIn

LEMMA CharacterSent ==
  ASSUME TypeOK, NEW k \in CharacterKeys, Character(k)
  PROVE  \E n \in Nat : Sent(n) /\ TypedIn(n)
<1> DEFINE key == Event("key", 0, k, TRUE, FALSE)
           text == Event("text", 1, NoInput, FALSE, FALSE)
<1>1. /\ key.kind = "key" /\ key.id = nextId /\ key.input = k /\ key.down = TRUE
      /\ key.shortcut = FALSE /\ key.under = Announced(flips, nextId)
  BY DEF Event, TypeOK
<1>2. /\ text.kind = "text" /\ text.id = nextId + 1
      /\ text.under = Announced(flips, nextId + 1)
  BY DEF Event, TypeOK
<1>3. /\ flips' = flips /\ ime' = ime /\ stream' = stream
      /\ typed' = typed + 1 /\ arrived' = arrived /\ clean' = clean
      /\ \/ /\ key.under = "client"
            /\ wire' = wire \o <<key, text>>
            /\ nextId' = nextId + 2 /\ keyed' = nextId + 1
         \/ /\ key.under = "remote"
            /\ wire' = Append(wire, key)
            /\ nextId' = nextId + 1 /\ keyed' = nextId
  BY DEF Character, serverVars
<1> HIDE DEF key, text
<1>4. CASE /\ key.under = "client"
           /\ wire' = wire \o <<key, text>>
           /\ nextId' = nextId + 2 /\ keyed' = nextId + 1
  <2>1. Sent(2) /\ wire'[Len(wire) + 1] = key /\ wire'[Len(wire) + 2] = text
    BY <1>1, <1>2, <1>3, <1>4, SentTwo DEF Moded
  <2>2. ~ Counts(key) /\ Counts(text)
    BY <1>1, <1>2, <1>4 DEF Counts
  <2>3. 1 .. 2 = {1, 2} /\ 2 \in Nat
    OBVIOUS
  <2>4. TypedIn(2)
    BY <1>3, <2>1, <2>2, <2>3 DEF TypedIn
  <2> QED
    BY <2>1, <2>3, <2>4
<1>5. CASE /\ key.under = "remote"
           /\ wire' = Append(wire, key)
           /\ nextId' = nextId + 1 /\ keyed' = nextId
  <2>1. Sent(1) /\ wire'[Len(wire) + 1] = key
    BY <1>1, <1>3, <1>5, SentOne DEF Moded
  <2>2. Counts(key)
    BY <1>1, <1>5 DEF Counts
  <2>3. 1 .. 1 = {1} /\ 1 \in Nat
    OBVIOUS
  <2>4. TypedIn(1)
    BY <1>3, <2>1, <2>2, <2>3 DEF TypedIn
  <2> QED
    BY <2>1, <2>3, <2>4
<1> QED
  BY <1>3, <1>4, <1>5

LEMMA CommitSent ==
  ASSUME TypeOK, Commit
  PROVE  Sent(2) /\ TypedIn(2)
<1> DEFINE text == Event("text", 0, NoInput, FALSE, FALSE)
           done == Event("composition", 1, NoInput, FALSE, FALSE)
<1>1. text.kind = "text" /\ text.id = nextId /\ text.under = Announced(flips, nextId)
  BY DEF Event, TypeOK
<1>2. /\ done.kind = "composition" /\ done.id = nextId + 1
      /\ done.under = Announced(flips, nextId + 1)
  BY DEF Event, TypeOK
<1>3. /\ flips' = flips /\ ime' = ime /\ stream' = stream
      /\ typed' = typed + 1 /\ arrived' = arrived /\ clean' = clean
      /\ wire' = wire \o <<text, done>>
      /\ nextId' = nextId + 2 /\ keyed' = nextId + 1
  BY DEF Commit, serverVars
<1> HIDE DEF text, done
<1>4. Sent(2) /\ wire'[Len(wire) + 1] = text /\ wire'[Len(wire) + 2] = done
  BY <1>1, <1>2, <1>3, SentTwo DEF Moded
<1>5. Counts(text) /\ ~ Counts(done)
  BY <1>1, <1>2 DEF Counts
<1>6. 1 .. 2 = {1, 2}
  OBVIOUS
<1> QED
  BY <1>3, <1>4, <1>5, <1>6 DEF TypedIn

LEMMA CompositionSent ==
  ASSUME TypeOK, NEW ends \in BOOLEAN, Composition(ends)
  PROVE  Sent(1) /\ TypedIn(1)
<1> DEFINE m == Event("composition", 0, NoInput, FALSE, FALSE)
<1>1. m.kind = "composition" /\ m.id = nextId /\ m.under = Announced(flips, nextId)
  BY DEF Event, TypeOK
<1>2. /\ wire' = Append(wire, m) /\ nextId' = nextId + 1 /\ keyed' = nextId
      /\ flips' = flips /\ ime' = ime /\ stream' = stream
      /\ typed' = typed /\ arrived' = arrived /\ clean' = clean
  BY DEF Composition, serverVars
<1> HIDE DEF m
<1>3. Sent(1) /\ wire'[Len(wire) + 1] = m
  BY <1>1, <1>2, SentOne DEF Moded
<1>4. ~ Counts(m) /\ 1 .. 1 = {1}
  BY <1>1 DEF Counts
<1> QED
  BY <1>2, <1>3, <1>4 DEF TypedIn

LEMMA MouseSent ==
  ASSUME TypeOK, Pointer \/ \E b \in Buttons, down \in BOOLEAN : Button(b, down)
  PROVE  Sent(1) /\ TypedIn(1)
<1>1. ASSUME NEW m, m.kind \in {"button", "pointer"}, m.id = nextId,
             m.under = Announced(flips, nextId),
             wire' = Append(wire, m), nextId' = nextId + 1, keyed' = keyed,
             flips' = flips, ime' = ime, stream' = stream,
             typed' = typed, arrived' = arrived, clean' = clean
      PROVE  Sent(1) /\ TypedIn(1)
  <2>1. m.kind # "mode" /\ m.kind \notin Moded
    BY <1>1 DEF Moded
  <2>2. Sent(1) /\ wire'[Len(wire) + 1] = m
    BY <1>1, <2>1, SentOne
  <2>3. ~ Counts(m) /\ 1 .. 1 = {1}
    BY <1>1 DEF Counts
  <2> QED
    BY <1>1, <2>2, <2>3 DEF TypedIn
<1>2. CASE Pointer
  <2> DEFINE m == Event("pointer", 0, NoInput, FALSE, FALSE)
  <2>1. m.kind = "pointer" /\ m.id = nextId /\ m.under = Announced(flips, nextId)
    BY DEF Event, TypeOK
  <2>2. /\ wire' = Append(wire, m) /\ nextId' = nextId + 1 /\ keyed' = keyed
        /\ flips' = flips /\ ime' = ime /\ stream' = stream
        /\ typed' = typed /\ arrived' = arrived /\ clean' = clean
    BY <1>2 DEF Pointer, serverVars
  <2> HIDE DEF m
  <2> QED
    BY <1>1, <2>1, <2>2
<1>3. ASSUME NEW b \in Buttons, NEW down \in BOOLEAN, Button(b, down)
      PROVE  Sent(1) /\ TypedIn(1)
  <2> DEFINE m == Event("button", 0, b, down, FALSE)
  <2>1. m.kind = "button" /\ m.id = nextId /\ m.under = Announced(flips, nextId)
    BY DEF Event, TypeOK
  <2>2. /\ wire' = Append(wire, m) /\ nextId' = nextId + 1 /\ keyed' = keyed
        /\ flips' = flips /\ ime' = ime /\ stream' = stream
        /\ typed' = typed /\ arrived' = arrived /\ clean' = clean
    BY <1>3 DEF Button, serverVars
  <2> HIDE DEF m
  <2> QED
    BY <1>1, <2>1, <2>2
<1> QED
  BY <1>2, <1>3

(* The buttons come first, so the last release is that of a key if there   *)
(* is any.                                                                 *)
LEMMA LastRelease ==
  ASSUME NEW S, S \subseteq Inputs
  PROVE  LET ups == TakeReleases(S)
         IN  /\ Len(ups) \in Nat /\ \A i \in 1 .. Len(ups) : ups[i] \in Inputs
             /\ S \cap Keys # {} => Len(ups) # 0 /\ ups[Len(ups)] \in Keys
             /\ S \cap Keys = {} => \A i \in 1 .. Len(ups) : ups[i] \notin Keys
<1> DEFINE b == Listing(S \cap Buttons)
           k == Listing(S \cap Keys)
           ups == TakeReleases(S)
<1>1. b \in Seq(S \cap Buttons)
  BY FiniteInputs, ListingLists
<1>2. /\ k \in Seq(S \cap Keys)
      /\ \A x \in S \cap Keys : \E i \in 1 .. Len(k) : k[i] = x
  BY FiniteInputs, ListingLists
<1>3. ups = b \o k /\ ups \in Seq(S)
  BY ReleasesCover DEF TakeReleases
<1> HIDE DEF b, k, ups
<1>4. Len(b) \in Nat /\ Len(k) \in Nat /\ Len(ups) = Len(b) + Len(k)
  BY <1>1, <1>2, <1>3
<1>5. \A i \in 1 .. Len(ups) : ups[i] \in Inputs
  BY <1>3
<1>6. ASSUME S \cap Keys # {} PROVE Len(ups) # 0 /\ ups[Len(ups)] \in Keys
  <2>1. PICK x \in S \cap Keys : TRUE
    BY <1>6
  <2>2. Len(k) # 0
    BY <1>2, <1>4, <2>1
  <2>3. Len(k) \in 1 .. Len(k) /\ Len(ups) # 0
    BY <1>4, <2>2
  <2>4. ups[Len(ups)] = k[Len(k)]
    BY <1>1, <1>2, <1>3, <1>4, <2>3
  <2>5. k[Len(k)] \in S \cap Keys
    BY <1>2, <2>3
  <2> QED
    BY <2>3, <2>4, <2>5
<1>7. ASSUME S \cap Keys = {}, NEW i \in 1 .. Len(ups) PROVE ups[i] \notin Keys
  <2>1. ups[i] \in S
    BY <1>3
  <2> QED
    BY <1>7, <2>1
<1>8. Len(ups) \in Nat
  BY <1>4
<1> QED
  BY <1>5, <1>6, <1>7, <1>8 DEF ups

LEMMA FocusSent ==
  ASSUME TypeOK, FocusLost
  PROVE  \E n \in Nat : Sent(n) /\ TypedIn(n)
<1> DEFINE ups == TakeReleases(reported)
           n == Len(ups)
           ms == [i \in 1 .. n |->
                   Event(KindOf(ups[i]), i - 1, ups[i], FALSE, FALSE)]
<1>1. /\ n \in Nat /\ \A i \in 1 .. n : ups[i] \in Inputs
      /\ reported \cap Keys # {} => n # 0 /\ ups[n] \in Keys
      /\ reported \cap Keys = {} => \A i \in 1 .. n : ups[i] \notin Keys
  <2>1. reported \subseteq Inputs
    BY DEF TypeOK
  <2> QED
    BY <2>1, LastRelease
<1>2. /\ wire' = wire \o ms /\ nextId' = nextId + n
      /\ keyed' = IF reported \cap Keys = {} THEN keyed ELSE nextId' - 1
      /\ flips' = flips /\ ime' = ime /\ stream' = stream
      /\ typed' = typed /\ arrived' = arrived /\ clean' = clean
  BY DEF FocusLost, serverVars
<1> HIDE DEF ups, n
<1>3. ASSUME NEW i \in 1 .. n
      PROVE  /\ ms[i].kind = KindOf(ups[i]) /\ ms[i].id = nextId + i - 1
             /\ ms[i].down = FALSE /\ ms[i].under = Announced(flips, nextId + i - 1)
  <2>1. i - 1 \in Nat /\ nextId \in Nat
    BY <1>1 DEF TypeOK
  <2>2. nextId + (i - 1) = nextId + i - 1
    BY <1>1, <2>1
  <2>3. ms[i] = Event(KindOf(ups[i]), i - 1, ups[i], FALSE, FALSE)
    OBVIOUS
  <2>4. /\ ms[i].kind = KindOf(ups[i]) /\ ms[i].id = nextId + (i - 1)
        /\ ms[i].down = FALSE /\ ms[i].under = Announced(flips, nextId + (i - 1))
    BY <2>1, <2>3 DEF Event
  <2> QED
    BY <2>2, <2>4
<1> DEFINE R == {ms[i] : i \in 1 .. n}
<1>4. ms \in Seq(R) /\ Len(ms) = n
  <2>1. ms = [i \in 1 .. n |-> ms[i]] /\ \A i \in 1 .. n : ms[i] \in R
    OBVIOUS
  <2> HIDE DEF ms, R
  <2>2. ms \in [1 .. n -> R]
    BY <2>1
  <2> QED
    BY <1>1, <2>2
<1> HIDE DEF ms, R
<1>5. Len(wire) \in Nat /\ nextId \in Nat /\ wire \in Seq(Message)
  BY WireIndices DEF TypeOK
<1>6. /\ DOMAIN wire' = 1 .. (Len(wire) + n) /\ Len(wire') = Len(wire) + n
      /\ \A k \in 1 .. Len(wire) : wire'[k] = wire[k]
      /\ \A k \in 1 .. n : wire'[Len(wire) + k] = ms[k]
  <2>1. /\ Len(wire \o ms) = Len(wire) + Len(ms)
        /\ DOMAIN (wire \o ms) = 1 .. Len(wire \o ms)
        /\ \A k \in 1 .. Len(wire) : (wire \o ms)[k] = wire[k]
        /\ \A k \in 1 .. Len(ms) : (wire \o ms)[Len(wire) + k] = ms[k]
    <3>1. \A S, T : S \subseteq T => Seq(S) \subseteq Seq(T)
      OBVIOUS
    <3>2. wire \in Seq(Message \cup R) /\ ms \in Seq(Message \cup R)
      BY <1>4, <1>5, <3>1
    <3> QED
      BY <3>2
  <2> QED
    BY <1>2, <1>4, <2>1
<1>7. \A k \in 1 .. n : ms[k].kind \in {"key", "button"} /\ ms[k].kind # "mode"
  BY <1>3 DEF KindOf
<1>8. \/ keyed' = keyed /\ \A k \in 1 .. n : wire'[Len(wire) + k].kind \notin Moded
      \/ /\ n # 0 /\ keyed' = nextId + n - 1
         /\ wire'[Len(wire) + n].kind \in Moded
  <2>1. CASE reported \cap Keys = {}
    <3>1. \A k \in 1 .. n : ms[k].kind = "button"
      BY <1>1, <1>3, <2>1 DEF KindOf
    <3> QED
      BY <1>2, <1>6, <2>1, <3>1 DEF Moded
  <2>2. CASE reported \cap Keys # {}
    <3>1. n \in 1 .. n /\ ups[n] \in Keys
      BY <1>1, <2>2
    <3>2. ms[n].kind = "key"
      BY <1>3, <3>1 DEF KindOf
    <3> QED
      <4>1. wire'[Len(wire) + n].kind \in Moded
        BY <1>6, <3>1, <3>2 DEF Moded
      <4>2. n # 0 /\ keyed' = nextId + n - 1
        <5>1. keyed' = nextId' - 1 /\ nextId' = nextId + n
          BY <1>2, <2>2
        <5> QED
          BY <1>1, <1>5, <2>2, <5>1
      <4> QED
        BY <4>1, <4>2
  <2> QED
    BY <2>1, <2>2
<1>9. Sent(n)
  BY <1>2, <1>3, <1>6, <1>7, <1>8 DEF Sent
<1>10. TypedIn(n)
  <2>1. \A k \in 1 .. n : ~ Counts(ms[k])
    BY <1>3, <1>7 DEF Counts
  <2> QED
    BY <1>2, <1>6, <2>1 DEF TypedIn
<1> QED
  BY <1>1, <1>9, <1>10

-----------------------------------------------------------------------------
(* A mode change is announced.                                             *)

LEMMA AnnouncedLast ==
  ASSUME NEW fs \in Seq(Flip), fs # << >>, NEW id \in Nat, fs[Len(fs)].after < id
  PROVE  Announced(fs, id) = fs[Len(fs)].mode
<1> DEFINE past == {i \in DOMAIN fs : fs[i].after < id}
<1>1. Len(fs) \in Nat /\ DOMAIN fs = 1 .. Len(fs) /\ Len(fs) # 0
  OBVIOUS
<1>2. Len(fs) \in past /\ \A j \in past : j \in Nat /\ j <= Len(fs)
  BY <1>1
<1>3. \A i \in past : (\A j \in past : j <= i) <=> i = Len(fs)
  BY <1>1, <1>2
<1>4. (CHOOSE i \in past : \A j \in past : j <= i) = Len(fs)
  <2>1. \E i \in past : \A j \in past : j <= i
    BY <1>2, <1>3
  <2> DEFINE c == CHOOSE i \in past : \A j \in past : j <= i
  <2>2. c \in past /\ \A j \in past : j <= c
    BY <2>1
  <2> HIDE DEF past, c
  <2>3. c = Len(fs)
    BY <1>3, <2>2
  <2> QED
    BY <2>3 DEF c
<1>5. past # {}
  BY <1>2
<1> QED
  BY <1>4, <1>5 DEF Announced

LEMMA AnnouncedLater ==
  ASSUME NEW fs \in Seq(Flip), NEW f \in Flip, NEW id \in Nat, id <= f.after
  PROVE  Announced(Append(fs, f), id) = Announced(fs, id)
<1> DEFINE gs == Append(fs, f)
           past(q) == {i \in DOMAIN q : q[i].after < id}
<1>1. /\ Len(fs) \in Nat /\ DOMAIN fs = 1 .. Len(fs) /\ DOMAIN gs = 1 .. (Len(fs) + 1)
      /\ gs[Len(fs) + 1] = f /\ \A i \in 1 .. Len(fs) : gs[i] = fs[i]
  OBVIOUS
<1>2. f.after \in Nat
  BY DEF Flip
<1> HIDE DEF gs
<1>3. \A i : i \in past(gs) <=> i \in past(fs)
  BY <1>1, <1>2
<1>4. past(gs) = past(fs) /\ past(fs) \subseteq 1 .. Len(fs)
  BY <1>1, <1>3
<1>5. CASE past(fs) = {}
  <2>1. Announced(gs, id) = "client" /\ Announced(fs, id) = "client"
    BY <1>4, <1>5 DEF Announced
  <2> QED
    BY <2>1 DEF gs
<1>6. CASE past(fs) # {}
  <2> DEFINE c == CHOOSE i \in past(fs) : \A j \in past(fs) : j <= i
  <2>1. \E i \in past(fs) : \A j \in past(fs) : j <= i
    BY <1>1, <1>4, <1>6, LastPosition
  <2>2. c \in past(fs)
    BY <2>1
  <2>3. Announced(gs, id) = gs[c].mode /\ Announced(fs, id) = fs[c].mode
    BY <1>4, <1>6 DEF Announced
  <2> HIDE DEF c, past
  <2>4. gs[c] = fs[c]
    BY <1>1, <1>4, <2>2
  <2> QED
    BY <2>3, <2>4 DEF gs
<1> QED
  BY <1>5, <1>6

(* What a settled announcement replaces is in force at the wire's end.     *)
LEMMA SettledInForce ==
  ASSUME TypeOK, IdsRise, LatestMode, NEW id \in Nat, nextId <= id,
         \/ flips = << >>
         \/ flips # << >> /\ keyed > flips[Len(flips)].after
  PROVE  InForce(wire, ime, End, Announced(flips, id))
<1>1. nextId \in Nat /\ keyed \in Nat /\ keyed < nextId /\ flips \in Seq(Flip)
  BY WireIndices DEF IdsRise, TypeOK
<1>2. CASE flips = << >>
  <2>1. DOMAIN << >> = {}
    OBVIOUS
  <2>2. Announced(flips, id) = "client"
    BY <1>2, <2>1 DEF Announced
  <2>3. ModesIn(wire, End) = {} /\ ime.current = "client" /\ ime.pending = NoMode
    BY <1>2 DEF LatestMode
  <2> QED
    BY <2>2, <2>3 DEF InForce
<1>3. CASE flips # << >> /\ keyed > flips[Len(flips)].after
  <2> DEFINE f == flips[Len(flips)]
  <2>1. f \in Flip
    BY <1>1, <1>3
  <2>2. f.after \in Nat /\ f.mode \in Mode
    BY <2>1 DEF Flip
  <2>3. f.after < id
    BY <1>1, <1>3, <2>2
  <2>4. Announced(flips, id) = f.mode
    BY <1>1, <1>3, <2>3, AnnouncedLast
  <2>5. CASE \E j \in DOMAIN wire :
               /\ LastMode(wire, End, j) /\ wire[j].id = f.after /\ wire[j].under = f.mode
               /\ keyed > f.after => Used(wire, j, End, f.after)
    BY <1>3, <2>4, <2>5 DEF InForce
  <2>6. CASE /\ ModesIn(wire, End) = {} /\ ime.pending = [mode |-> f.mode, after |-> f.after]
             /\ keyed > f.after => Used(wire, 0, End, f.after)
    <3>1. ime.pending.mode = f.mode /\ ime.pending.after = f.after
      BY <2>6
    <3>2. ime.pending # NoMode
      BY <2>2, <3>1 DEF NoMode, Mode
    <3> QED
      BY <1>3, <2>4, <2>6, <3>1, <3>2 DEF InForce
  <2>7. CASE /\ ModesIn(wire, End) = {} /\ ime = [current |-> f.mode, pending |-> NoMode]
             /\ keyed > f.after
    BY <2>4, <2>7 DEF InForce
  <2> QED
    BY <1>3, <2>5, <2>6, <2>7 DEF LatestMode
<1> QED
  BY <1>2, <1>3

LEMMA AnnounceKeeps ==
  ASSUME TypeOK, ModesInv, NEW mode \in Mode,
         NEW after \in (nextId - 1) .. (nextId - 1 + MaxLead), AnnounceMode(mode, after)
  PROVE  ModesInv'
<1> DEFINE N == Len(wire)
           m == [kind |-> "mode", id |-> after, input |-> NoInput, down |-> FALSE,
                 shortcut |-> FALSE, under |-> mode]
           f == [mode |-> mode, after |-> after, settled |-> Settled(after)]
<1>1. /\ N \in Nat /\ DOMAIN wire = 1 .. N /\ nextId \in Nat \ {0} /\ keyed \in Nat
      /\ flips \in Seq(Flip) /\ wire \in Seq(Message)
  BY WireIndices DEF TypeOK
<1>2. /\ stream # "ended" /\ wire' = Append(wire, m) /\ flips' = Append(flips, f)
      /\ nextId' = nextId /\ keyed' = keyed /\ ime' = ime
      /\ typed' = typed /\ arrived' = arrived /\ clean' = clean
  BY DEF AnnounceMode, serverVars
<1>3. after \in Nat /\ nextId - 1 <= after
  BY <1>1, InputAssumption
<1>4. f \in Flip
  BY <1>3 DEF Flip, Settled
<1>5. m.kind = "mode" /\ m.id = after /\ m.under = mode
  OBVIOUS
<1>6. f.mode = mode /\ f.after = after /\ f.settled = Settled(after)
  OBVIOUS
<1> HIDE DEF m, f
<1>7. /\ DOMAIN wire' = 1 .. (N + 1) /\ Len(wire') = N + 1
      /\ \A k \in 1 .. N : wire'[k] = wire[k]
      /\ wire'[N + 1] = m
  BY <1>1, <1>2
<1>8. /\ Len(flips) \in Nat /\ flips' # << >> /\ flips'[Len(flips')] = f
      /\ DOMAIN flips' = 1 .. (Len(flips) + 1) /\ DOMAIN flips = 1 .. Len(flips)
      /\ flips'[Len(flips) + 1] = f
      /\ \A k \in 1 .. Len(flips) : flips'[k] = flips[k]
  <2>1. /\ Len(flips) \in Nat /\ DOMAIN flips = 1 .. Len(flips)
        /\ DOMAIN flips' = 1 .. (Len(flips) + 1) /\ Len(flips') = Len(flips) + 1
        /\ flips'[Len(flips) + 1] = f
        /\ \A k \in 1 .. Len(flips) : flips'[k] = flips[k]
    BY <1>1, <1>2, <1>4
  <2>2. flips' # << >>
    BY <1>1, <1>2, <1>4
  <2> QED
    BY <2>1, <2>2
<1>9. IdsRise /\ LatestMode /\ ModesFollow /\ CharactersKept
  BY <1>2 DEF ModesInv
<1>10. Orderly' => Orderly /\ Settled(after)
  <2> SUFFICES ASSUME Orderly' PROVE Orderly /\ Settled(after)
    OBVIOUS
  <2>1. \A i \in 1 .. (Len(flips) + 1) : flips'[i].settled
    BY <1>8 DEF Orderly
  <2>2. \A i \in 1 .. Len(flips) : flips[i].settled
    BY <1>8, <2>1
  <2>3. f.settled
    BY <1>8, <2>1
  <2> QED
    BY <1>6, <1>8, <2>2, <2>3 DEF Orderly
<1>11. End = N + 1 /\ End' = N + 2
  BY <1>1, <1>7 DEF End
<1> HIDE DEF N
<1>12. IdsRise'
  <2>1. \A i \in 1 .. (N + 1) : i \in 1 .. N \/ wire'[i].kind = "mode"
    BY <1>1, <1>5, <1>7
  <2>2. wire'[N + 1].kind \notin Moded
    BY <1>5, <1>7 DEF Moded
  <2>3. \A i \in 1 .. (N + 1) : i \in 1 .. N \/ i = N + 1
    BY <1>1
  <2>4. /\ keyed < nextId
        /\ \A i \in 1 .. N : wire[i].kind # "mode" => wire[i].id < nextId
        /\ \A i \in 1 .. N : wire[i].kind \in Moded => wire[i].id <= keyed
        /\ \A i, j \in 1 .. N :
             i < j /\ wire[i].kind # "mode" /\ wire[j].kind # "mode" => wire[i].id < wire[j].id
    BY <1>1, <1>9 DEF IdsRise
  <2>5. /\ \A i \in 1 .. (N + 1) : wire'[i].kind # "mode" => wire'[i].id < nextId
        /\ \A i \in 1 .. (N + 1) : wire'[i].kind \in Moded => wire'[i].id <= keyed
        /\ \A i, j \in 1 .. (N + 1) :
             i < j /\ wire'[i].kind # "mode" /\ wire'[j].kind # "mode" => wire'[i].id < wire'[j].id
    BY <1>7, <2>1, <2>2, <2>3, <2>4
  <2> QED
    BY <1>2, <1>7, <2>4, <2>5 DEF IdsRise
<1>13. LastMode(wire', N + 2, N + 1)
  BY <1>1, <1>5, <1>7 DEF LastMode, ModesIn
<1>14. LatestMode'
  <2>1. ~ (keyed > after)
    BY <1>1, <1>3, <1>9 DEF IdsRise
  <2>2. N + 1 \in DOMAIN wire'
    BY <1>1, <1>7
  <2>3. \E j \in DOMAIN wire' :
          /\ LastMode(wire', End', j) /\ wire'[j].id = f.after /\ wire'[j].under = f.mode
          /\ keyed' > f.after => Used(wire', j, End', f.after)
    BY <1>2, <1>5, <1>6, <1>7, <1>11, <1>13, <2>1, <2>2
  <2> QED
    BY <1>8, <2>3 DEF LatestMode
<1>15. ModesFollow'
  <2> SUFFICES ASSUME Orderly'
               PROVE  /\ \A i \in DOMAIN wire' :
                           wire'[i].kind \in Moded => ReadIn(wire', ime', i, wire'[i].id, wire'[i].under)
                      /\ \A id \in Nat : id >= nextId' => ReadIn(wire', ime', End', id, Announced(flips', id))
    BY DEF ModesFollow
  <2>1. ASSUME NEW i \in 1 .. (N + 1), wire'[i].kind \in Moded
        PROVE  ReadIn(wire', ime, i, wire'[i].id, wire'[i].under)
    <3>1. i # N + 1
      BY <1>5, <1>7, <2>1 DEF Moded
    <3>2. i \in 1 .. N /\ i \in Nat /\ i <= N + 1 /\ N + 1 \in Nat /\ N <= N + 1
      BY <1>1, <3>1
    <3>3. wire'[i] = wire[i]
      BY <1>7, <3>2
    <3>4. ReadIn(wire, ime, i, wire[i].id, wire[i].under)
      BY <1>1, <1>9, <1>10, <2>1, <3>2, <3>3 DEF ModesFollow
    <3>5. ReadIn(wire', ime, i, wire[i].id, wire[i].under)
      BY <1>1, <1>7, <3>2, <3>4, GrownReadIn
    <3> QED
      BY <3>3, <3>5
  <2>2. ASSUME NEW id \in Nat, id >= nextId
        PROVE  ReadIn(wire', ime, N + 2, id, Announced(flips', id))
    <3>1. CASE id > after
      <4>1. Announced(flips', id) = mode
        <5>1. flips' \in Seq(Flip)
          BY <1>1, <1>2, <1>4
        <5> QED
          BY <1>6, <1>8, <3>1, <5>1, AnnouncedLast
      <4>2. N + 1 \in DOMAIN wire' /\ wire'[N + 1].id = after /\ wire'[N + 1].under = mode
        BY <1>1, <1>5, <1>7
      <4> QED
        BY <1>13, <3>1, <4>1, <4>2 DEF ReadIn
    <3>2. CASE id <= after
      <4>1. Announced(flips', id) = Announced(flips, id)
        BY <1>1, <1>2, <1>4, <1>6, <3>2, AnnouncedLater
      <4>2. \/ flips = << >>
            \/ flips # << >> /\ keyed > flips[Len(flips)].after
        <5>1. after # nextId - 1
          BY <1>1, <1>3, <2>2, <3>2
        <5> QED
          BY <1>10, <5>1 DEF Settled
      <4>3. InForce(wire, ime, N + 1, Announced(flips, id))
        BY <1>1, <1>9, <1>11, <2>2, <4>2, SettledInForce
      <4>4. InForce(wire', ime, N + 1, Announced(flips, id))
        <5>1. N + 1 \in Nat /\ N <= N + 1
          BY <1>1
        <5> QED
          BY <1>1, <1>7, <4>3, <5>1, GrownInForce
      <4>5. N + 1 \in DOMAIN wire' /\ wire'[N + 1].id = after
        BY <1>1, <1>5, <1>7
      <4> QED
        BY <1>13, <3>2, <4>1, <4>4, <4>5 DEF ReadIn
    <3> QED
      BY <1>3, <3>1, <3>2
  <2> QED
    BY <1>2, <1>7, <1>11, <2>1, <2>2
<1>16. CharactersKept'
  <2>1. ~ Counts(m) /\ 1 .. 1 = {1} /\ 1 \in Nat
    BY <1>5 DEF Counts
  <2>2. Coming(wire') = Coming(wire)
    BY <1>1, <1>7, <2>1, ComingGrown
  <2> QED
    BY <1>2, <1>9, <1>10, <2>2 DEF CharactersKept
<1> QED
  BY <1>12, <1>14, <1>15, <1>16 DEF ModesInv

-----------------------------------------------------------------------------
(* The server's steps: it has read the first message.                      *)

(* The state of ImeModeSm after message m.                                 *)
ModeAfter(im, m) ==
  CASE m.kind = "mode" -> [current |-> im.current, pending |-> [mode |-> m.under, after |-> m.id]]
    [] m.kind \in Moded -> ModeFor(im, m.id)
    [] OTHER -> im

LEMMA ModeAfterCases ==
  ASSUME NEW im, NEW m
  PROVE  /\ m.kind = "mode" =>
              /\ ModeAfter(im, m).current = im.current
              /\ ModeAfter(im, m).pending = [mode |-> m.under, after |-> m.id]
         /\ m.kind \in Moded /\ im.pending # NoMode /\ m.id > im.pending.after =>
              /\ ModeAfter(im, m).current = im.pending.mode
              /\ ModeAfter(im, m).pending = NoMode
         /\ m.kind # "mode" /\ ~ (m.kind \in Moded /\ im.pending # NoMode /\ m.id > im.pending.after) =>
              ModeAfter(im, m) = im
<1>1. "mode" \notin Moded
  BY DEF Moded
<1>2. CASE m.kind = "mode"
  BY <1>1, <1>2 DEF ModeAfter
<1>3. CASE m.kind \in Moded
  BY <1>1, <1>3 DEF ModeAfter, ModeFor, Crosses
<1>4. CASE m.kind # "mode" /\ m.kind \notin Moded
  BY <1>4 DEF ModeAfter
<1> QED
  BY <1>2, <1>3, <1>4

LEMMA ReadEventInForce ==
  ASSUME NEW w, NEW v, NEW n \in Nat, DOMAIN w = 1 .. (n + 1), DOMAIN v = 1 .. n,
         \A k \in 1 .. n : v[k] = w[k + 1], w[1].kind # "mode",
         NEW i \in Nat \ {0}, i <= n + 1, NEW im, NEW mode, InForce(w, im, i + 1, mode)
  PROVE  InForce(v, ModeAfter(im, w[1]), i, mode)
<1>1. /\ ModesIn(v, i) = {} <=> ModesIn(w, i + 1) = {}
      /\ \A j \in Nat : LastMode(v, i, j) <=> LastMode(w, i + 1, j + 1)
      /\ \A j : LastMode(w, i + 1, j) => j \in 2 .. (n + 1)
  BY ReadEvent
<1>2. CASE ModesIn(w, i + 1) = {} /\ im.pending = NoMode /\ mode = im.current
  <2>1. ModeAfter(im, w[1]) = im
    BY <1>2, ModeAfterCases
  <2> QED
    BY <1>1, <1>2, <2>1 DEF InForce
<1>3. CASE /\ ModesIn(w, i + 1) = {} /\ im.pending # NoMode
           /\ mode = im.pending.mode /\ Used(w, 0, i + 1, im.pending.after)
  <2>1. CASE w[1].kind \in Moded /\ w[1].id > im.pending.after
    <3>1. ModeAfter(im, w[1]).current = im.pending.mode /\ ModeAfter(im, w[1]).pending = NoMode
      BY <1>3, <2>1, ModeAfterCases, ZenonT(30)
    <3> QED
      BY <1>1, <1>3, <3>1 DEF InForce
  <2>2. CASE ~ (w[1].kind \in Moded /\ w[1].id > im.pending.after)
    <3>1. ModeAfter(im, w[1]) = im
      BY <2>2, ModeAfterCases
    <3>2. Used(v, 0, i, im.pending.after)
      BY <1>3, <2>2, ReadUsed
    <3> QED
      BY <1>1, <1>3, <3>1, <3>2 DEF InForce
  <2> QED
    BY <2>1, <2>2
<1>4. CASE \E p \in DOMAIN w :
             LastMode(w, i + 1, p) /\ mode = w[p].under /\ Used(w, p, i + 1, w[p].id)
  <2>1. PICK p \in DOMAIN w :
             LastMode(w, i + 1, p) /\ mode = w[p].under /\ Used(w, p, i + 1, w[p].id)
    BY <1>4
  <2>2. p \in 2 .. (n + 1)
    BY <1>1, <2>1
  <2>3. p - 1 \in 1 .. n /\ p - 1 \in Nat /\ (p - 1) + 1 = p
    BY <2>2
  <2>4. v[p - 1] = w[p] /\ LastMode(v, i, p - 1)
    BY <1>1, <2>1, <2>3
  <2>5. Used(v, p - 1, i, w[p].id)
    <3>1. Used(w, (p - 1) + 1, i + 1, w[p].id)
      BY <2>1, <2>3
    <3> QED
      BY <2>3, <3>1, ReadUsed
  <2>6. \E q \in DOMAIN v : LastMode(v, i, q) /\ mode = v[q].under /\ Used(v, q, i, v[q].id)
    BY <2>1, <2>3, <2>4, <2>5
  <2> QED
    BY <2>6 DEF InForce
<1> QED
  BY <1>2, <1>3, <1>4 DEF InForce

LEMMA ReadEventMode ==
  ASSUME NEW w, NEW v, NEW n \in Nat, DOMAIN w = 1 .. (n + 1), DOMAIN v = 1 .. n,
         \A k \in 1 .. n : v[k] = w[k + 1], w[1].kind # "mode", w[1].id \in Nat,
         NEW i \in Nat \ {0}, i <= n + 1, NEW id \in Nat, w[1].kind \in Moded => w[1].id < id,
         NEW im, im.pending # NoMode => im.pending.after \in Nat,
         NEW mode, ReadIn(w, im, i + 1, id, mode)
  PROVE  ReadIn(v, ModeAfter(im, w[1]), i, id, mode)
<1>1. /\ ModesIn(v, i) = {} <=> ModesIn(w, i + 1) = {}
      /\ \A j \in Nat : LastMode(v, i, j) <=> LastMode(w, i + 1, j + 1)
      /\ \A j : LastMode(w, i + 1, j) => j \in 2 .. (n + 1)
  BY ReadEvent
<1>2. CASE ModesIn(w, i + 1) = {} /\ mode = ModeFor(im, id).current
  <2>1. ModeFor(ModeAfter(im, w[1]), id).current = ModeFor(im, id).current
    <3>1. CASE w[1].kind \in Moded /\ im.pending # NoMode /\ w[1].id > im.pending.after
      <4>1. ModeAfter(im, w[1]).current = im.pending.mode /\ ModeAfter(im, w[1]).pending = NoMode
        BY <3>1, ModeAfterCases, ZenonT(30)
      <4>2. ModeFor(ModeAfter(im, w[1]), id) = ModeAfter(im, w[1])
        BY <4>1 DEF ModeFor, Crosses
      <4>3. id > im.pending.after
        BY <3>1
      <4>4. ModeFor(im, id).current = im.pending.mode
        BY <3>1, <4>3 DEF ModeFor, Crosses
      <4> QED
        BY <4>1, <4>2, <4>4
    <3>2. CASE ~ (w[1].kind \in Moded /\ im.pending # NoMode /\ w[1].id > im.pending.after)
      BY <3>2, ModeAfterCases
    <3> QED
      BY <3>1, <3>2
  <2> QED
    BY <1>1, <1>2, <2>1 DEF ReadIn
<1>3. CASE \E j \in DOMAIN w :
             /\ LastMode(w, i + 1, j)
             /\ \/ id > w[j].id /\ mode = w[j].under
                \/ id <= w[j].id /\ InForce(w, im, j, mode)
  <2>1. PICK j \in DOMAIN w :
             /\ LastMode(w, i + 1, j)
             /\ \/ id > w[j].id /\ mode = w[j].under
                \/ id <= w[j].id /\ InForce(w, im, j, mode)
    BY <1>3
  <2>2. j \in 2 .. (n + 1)
    BY <1>1, <2>1
  <2>3. j - 1 \in 1 .. n /\ j - 1 \in Nat \ {0} /\ (j - 1) + 1 = j /\ j - 1 <= n + 1
    BY <2>2
  <2>4. v[j - 1] = w[j] /\ LastMode(v, i, j - 1)
    BY <1>1, <2>1, <2>3
  <2>5. InForce(w, im, j, mode) => InForce(v, ModeAfter(im, w[1]), j - 1, mode)
    <3> SUFFICES ASSUME InForce(w, im, j, mode)
                 PROVE  InForce(v, ModeAfter(im, w[1]), j - 1, mode)
      OBVIOUS
    <3>1. InForce(w, im, (j - 1) + 1, mode)
      BY <2>3
    <3> QED
      BY <2>3, <3>1, ReadEventInForce
  <2>6. \E q \in DOMAIN v :
          /\ LastMode(v, i, q)
          /\ \/ id > v[q].id /\ mode = v[q].under
             \/ id <= v[q].id /\ InForce(v, ModeAfter(im, w[1]), q, mode)
    BY <2>1, <2>3, <2>4, <2>5
  <2> QED
    BY <2>6 DEF ReadIn
<1> QED
  BY <1>2, <1>3 DEF ReadIn

(* A mode change at the front: it is the last one if no other follows.     *)
LEMMA ReadMode ==
  ASSUME NEW w, NEW v, NEW n \in Nat, DOMAIN w = 1 .. (n + 1), DOMAIN v = 1 .. n,
         \A k \in 1 .. n : v[k] = w[k + 1], w[1].kind = "mode",
         NEW i \in Nat \ {0}, i <= n + 1
  PROVE  /\ 1 \in ModesIn(w, i + 1)
         /\ LastMode(w, i + 1, 1) => ModesIn(v, i) = {}
         /\ \A j \in 1 .. (n + 1) : LastMode(w, i + 1, j) /\ j # 1 => j - 1 \in 1 .. n /\ LastMode(v, i, j - 1)
<1>1. 1 \in ModesIn(w, i + 1)
  BY DEF ModesIn
<1>2. \A k \in ModesIn(v, i) : k \in 1 .. n /\ k + 1 \in ModesIn(w, i + 1)
  BY DEF ModesIn
<1>3. \A k \in ModesIn(w, i + 1) : k \in 1 .. (n + 1) /\ (k # 1 => k - 1 \in ModesIn(v, i))
  BY DEF ModesIn
<1>4. ASSUME LastMode(w, i + 1, 1), NEW k \in ModesIn(v, i) PROVE FALSE
  <2>1. k + 1 <= 1 /\ k \in 1 .. n
    BY <1>2, <1>4 DEF LastMode
  <2> QED
    BY <2>1
<1>5. ASSUME NEW j \in 1 .. (n + 1), LastMode(w, i + 1, j), j # 1
      PROVE  j - 1 \in 1 .. n /\ LastMode(v, i, j - 1)
  <2>1. j \in ModesIn(w, i + 1)
    BY <1>5 DEF LastMode
  <2>2. j - 1 \in ModesIn(v, i) /\ j \in 1 .. (n + 1)
    BY <1>3, <1>5, <2>1
  <2>3. ASSUME NEW k \in ModesIn(v, i) PROVE k <= j - 1
    <3>1. k \in 1 .. n /\ k + 1 <= j
      BY <1>2, <1>5 DEF LastMode
    <3> QED
      BY <2>2, <3>1
  <2> QED
    BY <1>2, <2>2, <2>3 DEF LastMode
<1> QED
  BY <1>1, <1>3, <1>4, <1>5 DEF LastMode

LEMMA ReadModeInForce ==
  ASSUME NEW w, NEW v, NEW n \in Nat, DOMAIN w = 1 .. (n + 1), DOMAIN v = 1 .. n,
         \A k \in 1 .. n : v[k] = w[k + 1], w[1].kind = "mode", w[1].under \in Mode,
         NEW i \in Nat \ {0}, i <= n + 1, NEW im, NEW mode, InForce(w, im, i + 1, mode)
  PROVE  InForce(v, ModeAfter(im, w[1]), i, mode)
<1> DEFINE im2 == ModeAfter(im, w[1])
<1>1. /\ 1 \in ModesIn(w, i + 1)
      /\ LastMode(w, i + 1, 1) => ModesIn(v, i) = {}
      /\ \A j \in 1 .. (n + 1) : LastMode(w, i + 1, j) /\ j # 1 => j - 1 \in 1 .. n /\ LastMode(v, i, j - 1)
  BY ReadMode
<1>2. im2.pending = [mode |-> w[1].under, after |-> w[1].id]
  BY ModeAfterCases
<1>3. im2.pending.mode = w[1].under /\ im2.pending.after = w[1].id
  BY <1>2
<1>4. im2.pending # NoMode
  BY <1>3 DEF NoMode, Mode
<1>5. PICK p \in DOMAIN w :
             LastMode(w, i + 1, p) /\ mode = w[p].under /\ Used(w, p, i + 1, w[p].id)
  BY <1>1 DEF InForce
<1>6. CASE p = 1
  <2>1. Used(v, 0, i, w[1].id)
    <3>1. Used(w, 0 + 1, i + 1, w[1].id) /\ 0 \in Nat
      BY <1>5, <1>6
    <3> QED
      BY <3>1, ReadUsed
  <2> HIDE DEF im2
  <2>2. InForce(v, im2, i, mode)
    BY <1>1, <1>3, <1>4, <1>5, <1>6, <2>1 DEF InForce
  <2> QED
    BY <2>2 DEF im2
<1>7. CASE p # 1
  <2>1. p - 1 \in 1 .. n /\ LastMode(v, i, p - 1)
    BY <1>1, <1>5, <1>7
  <2>2. p - 1 \in Nat /\ (p - 1) + 1 = p
    BY <1>5, <2>1, SMTT(30)
  <2>3. v[p - 1] = w[p]
    BY <2>1, <2>2
  <2>4. Used(v, p - 1, i, w[p].id)
    <3>1. Used(w, (p - 1) + 1, i + 1, w[p].id)
      BY <1>5, <2>2
    <3> QED
      BY <2>2, <3>1, ReadUsed
  <2>5. \E q \in DOMAIN v : LastMode(v, i, q) /\ mode = v[q].under /\ Used(v, q, i, v[q].id)
    BY <1>5, <2>1, <2>3, <2>4
  <2> QED
    BY <2>5 DEF InForce
<1> QED
  BY <1>6, <1>7

LEMMA ReadModeMode ==
  ASSUME NEW w, NEW v, NEW n \in Nat, DOMAIN w = 1 .. (n + 1), DOMAIN v = 1 .. n,
         \A k \in 1 .. n : v[k] = w[k + 1], w[1].kind = "mode", w[1].under \in Mode,
         w[1].id \in Nat, NEW i \in Nat \ {0}, i <= n + 1, NEW id \in Nat,
         NEW im, NEW mode, ReadIn(w, im, i + 1, id, mode)
  PROVE  ReadIn(v, ModeAfter(im, w[1]), i, id, mode)
<1> DEFINE im2 == ModeAfter(im, w[1])
<1>1. /\ 1 \in ModesIn(w, i + 1)
      /\ LastMode(w, i + 1, 1) => ModesIn(v, i) = {}
      /\ \A j \in 1 .. (n + 1) : LastMode(w, i + 1, j) /\ j # 1 => j - 1 \in 1 .. n /\ LastMode(v, i, j - 1)
  BY ReadMode
<1>2. im2.pending = [mode |-> w[1].under, after |-> w[1].id] /\ im2.current = im.current
  BY ModeAfterCases
<1>3. im2.pending.mode = w[1].under /\ im2.pending.after = w[1].id
  BY <1>2
<1>4. im2.pending # NoMode
  BY <1>3 DEF NoMode, Mode
<1> HIDE DEF im2
<1>5. PICK j \in DOMAIN w :
             /\ LastMode(w, i + 1, j)
             /\ \/ id > w[j].id /\ mode = w[j].under
                \/ id <= w[j].id /\ InForce(w, im, j, mode)
  BY <1>1 DEF ReadIn
<1>6. CASE j = 1
  <2>1. ModesIn(v, i) = {}
    BY <1>1, <1>5, <1>6
  <2>2. CASE id > w[1].id /\ mode = w[1].under
    <3>1. ModeFor(im2, id).current = mode
      BY <1>3, <1>4, <2>2 DEF ModeFor, Crosses
    <3> QED
      BY <2>1, <3>1 DEF ReadIn, im2
  <2>3. CASE id <= w[1].id /\ InForce(w, im, 1, mode)
    <3>1. ModesIn(w, 1) = {}
      BY DEF ModesIn
    <3>2. \A after : ~ Used(w, 0, 1, after)
      BY DEF Used
    <3>3. mode = im.current
      BY <2>3, <3>1, <3>2 DEF InForce, LastMode
    <3>4. ModeFor(im2, id) = im2
      <4>1. ~ (id > im2.pending.after)
        BY <1>3, <2>3
      <4> QED
        BY <4>1 DEF ModeFor, Crosses
    <3> QED
      BY <1>2, <2>1, <3>3, <3>4 DEF ReadIn, im2
  <2> QED
    BY <1>5, <1>6, <2>2, <2>3
<1>7. CASE j # 1
  <2>1. j - 1 \in 1 .. n /\ LastMode(v, i, j - 1)
    BY <1>1, <1>5, <1>7
  <2>2. j - 1 \in Nat \ {0} /\ (j - 1) + 1 = j /\ j - 1 <= n + 1
    BY <1>5, <2>1, SMTT(30)
  <2>3. v[j - 1] = w[j]
    BY <2>1, <2>2
  <2>4. InForce(w, im, j, mode) => InForce(v, im2, j - 1, mode)
    <3> SUFFICES ASSUME InForce(w, im, j, mode)
                 PROVE  InForce(v, im2, j - 1, mode)
      OBVIOUS
    <3>1. InForce(w, im, (j - 1) + 1, mode)
      BY <2>2
    <3> QED
      BY <2>2, <3>1, ReadModeInForce DEF im2
  <2>5. \E q \in DOMAIN v :
          /\ LastMode(v, i, q)
          /\ \/ id > v[q].id /\ mode = v[q].under
             \/ id <= v[q].id /\ InForce(v, im2, q, mode)
    BY <1>5, <2>1, <2>3, <2>4
  <2> QED
    BY <2>5 DEF ReadIn, im2
<1> QED
  BY <1>6, <1>7

LEMMA ReadComing ==
  ASSUME NEW w, NEW v, NEW n \in Nat, DOMAIN w = 1 .. (n + 1), DOMAIN v = 1 .. n,
         \A k \in 1 .. n : v[k] = w[k + 1]
  PROVE  /\ Cardinality(Coming(v)) \in Nat
         /\ Counts(w[1]) => Cardinality(Coming(w)) = Cardinality(Coming(v)) + 1
         /\ ~ Counts(w[1]) => Cardinality(Coming(w)) = Cardinality(Coming(v))
<1> DEFINE rest == Coming(w) \ {1}
           next == [k \in Coming(v) |-> k + 1]
<1>1. IsFiniteSet(Coming(v)) /\ IsFiniteSet(Coming(w)) /\ Cardinality(Coming(v)) \in Nat
      /\ Cardinality(Coming(w)) \in Nat
  <2>1. n + 1 \in Nat
    OBVIOUS
  <2> QED
    BY <2>1, ComingIsFinite
<1>2. \A k \in Coming(v) : k \in 1 .. n /\ k + 1 \in rest
  BY DEF Coming
<1>3. \A k \in rest : k \in 2 .. (n + 1) /\ k - 1 \in Coming(v)
  BY DEF Coming
<1>4. next \in Bijection(Coming(v), rest)
  <2>1. next \in [Coming(v) -> rest]
    BY <1>2
  <2>2. \A a, b \in Coming(v) : next[a] = next[b] => a = b
    BY <1>2
  <2>3. ASSUME NEW t \in rest PROVE \E s \in Coming(v) : next[s] = t
    <3>1. t - 1 \in Coming(v) /\ (t - 1) + 1 = t
      BY <1>3
    <3> QED
      BY <3>1
  <2> HIDE DEF next, rest
  <2> QED
    BY <2>1, <2>2, <2>3 DEF Bijection, Injection, Surjection, IsInjective
<1>5. Cardinality(rest) = Cardinality(Coming(v))
  <2>1. ExistsBijection(Coming(v), rest)
    BY <1>4 DEF ExistsBijection
  <2> QED
    BY <1>1, <2>1, FS_Bijection
<1>6. 1 \in Coming(w) <=> Counts(w[1])
  BY DEF Coming
<1>7. Cardinality(rest) = IF 1 \in Coming(w) THEN Cardinality(Coming(w)) - 1 ELSE Cardinality(Coming(w))
  BY <1>1, FS_RemoveElement
<1> QED
  BY <1>1, <1>5, <1>6, <1>7

-----------------------------------------------------------------------------
(* The server reads the first message, whatever it is.                     *)
Taken ==
  /\ wire # << >> /\ wire' = Tail(wire) /\ ime' = ModeAfter(ime, Head(wire))
  /\ UNCHANGED <<flips, nextId, keyed, stream, typed>>

(* A character arrives if the message makes one.                           *)
ArrivesIf ==
  clean' => /\ clean
            /\ Orderly => arrived' = arrived + (IF Counts(Head(wire)) THEN 1 ELSE 0)

LEMMA TakenIndices ==
  ASSUME TypeOK, Taken
  PROVE  \E n \in Nat :
           /\ Len(wire) = n + 1 /\ Len(wire') = n
           /\ DOMAIN wire = 1 .. (n + 1) /\ DOMAIN wire' = 1 .. n
           /\ \A k \in 1 .. n : wire'[k] = wire[k + 1]
           /\ wire[1] = Head(wire)
           /\ wire[1].under \in Mode /\ \A k \in 1 .. (n + 1) : wire[k].id \in Nat
<1>1. wire \in Seq(Message) /\ wire # << >> /\ wire' = Tail(wire)
  BY DEF TypeOK, Taken
<1>2. /\ Len(wire) \in Nat \ {0} /\ DOMAIN wire = 1 .. Len(wire) /\ wire[1] = Head(wire)
      /\ DOMAIN Tail(wire) = 1 .. (Len(wire) - 1) /\ Len(Tail(wire)) = Len(wire) - 1
      /\ \A k \in 1 .. (Len(wire) - 1) : Tail(wire)[k] = wire[k + 1]
  BY <1>1, TailIndices
<1>3. \A k \in 1 .. Len(wire) : wire[k] \in Message
  BY <1>1
<1>4. \A m \in Message : m.under \in Mode /\ m.id \in Nat
  BY DEF Message
<1>5. PICK n \in Nat : Len(wire) = n + 1 /\ Len(wire) - 1 = n
  <2>1. Len(wire) - 1 \in Nat /\ Len(wire) = (Len(wire) - 1) + 1
    BY <1>2
  <2> QED
    BY <2>1
<1>6. 1 \in 1 .. (n + 1)
  OBVIOUS
<1> QED
  BY <1>1, <1>2, <1>3, <1>4, <1>5, <1>6

LEMMA TakenIds ==
  ASSUME TypeOK, IdsRise, Taken
  PROVE  IdsRise'
<1>1. PICK n \in Nat :
        /\ DOMAIN wire = 1 .. (n + 1) /\ DOMAIN wire' = 1 .. n
        /\ \A k \in 1 .. n : wire'[k] = wire[k + 1]
  BY TakenIndices
<1>2. nextId' = nextId /\ keyed' = keyed
  BY DEF Taken
<1>3. \A k \in 1 .. n : k + 1 \in 1 .. (n + 1)
  OBVIOUS
<1>4. \A i, j \in 1 .. n : i < j => i + 1 < j + 1
  OBVIOUS
<1>5. /\ keyed < nextId
      /\ \A i \in 1 .. (n + 1) : wire[i].kind # "mode" => wire[i].id < nextId
      /\ \A i \in 1 .. (n + 1) : wire[i].kind \in Moded => wire[i].id <= keyed
      /\ \A i, j \in 1 .. (n + 1) :
           i < j /\ wire[i].kind # "mode" /\ wire[j].kind # "mode" => wire[i].id < wire[j].id
  BY <1>1 DEF IdsRise
<1>6. /\ \A i \in 1 .. n : wire'[i].kind # "mode" => wire'[i].id < nextId
      /\ \A i \in 1 .. n : wire'[i].kind \in Moded => wire'[i].id <= keyed
  BY <1>1, <1>3, <1>5
<1>7. ASSUME NEW i \in 1 .. n, NEW j \in 1 .. n, i < j,
             wire'[i].kind # "mode", wire'[j].kind # "mode"
      PROVE  wire'[i].id < wire'[j].id
  BY <1>1, <1>3, <1>4, <1>5, <1>7
<1> QED
  BY <1>1, <1>2, <1>5, <1>6, <1>7 DEF IdsRise

LEMMA TakenLatest ==
  ASSUME TypeOK, IdsRise, LatestMode, Taken
  PROVE  LatestMode'
<1>1. PICK n \in Nat :
        /\ Len(wire) = n + 1 /\ Len(wire') = n
        /\ DOMAIN wire = 1 .. (n + 1) /\ DOMAIN wire' = 1 .. n
        /\ \A k \in 1 .. n : wire'[k] = wire[k + 1]
        /\ wire[1] = Head(wire)
        /\ wire[1].under \in Mode /\ \A k \in 1 .. (n + 1) : wire[k].id \in Nat
  BY TakenIndices
<1>2. flips' = flips /\ keyed' = keyed /\ ime' = ModeAfter(ime, wire[1])
  BY <1>1 DEF Taken
<1>3. End = (n + 1) + 1 /\ End' = n + 1 /\ n + 1 \in Nat \ {0} /\ n + 1 <= n + 1
  BY <1>1 DEF End
<1>4. keyed \in Nat /\ wire[1].id \in Nat /\ (wire[1].kind \in Moded => wire[1].id <= keyed)
  <2>1. 1 \in 1 .. (n + 1)
    OBVIOUS
  <2> QED
    BY <1>1, <2>1, WireIndices DEF IdsRise
<1>5. \A i, j \in Nat : \A after :
        Used(wire, j + 1, i + 1, after) => Used(wire', j, i, after)
  BY <1>1, ReadUsed
<1>6. CASE wire[1].kind # "mode"
  <2>1. /\ ModesIn(wire', n + 1) = {} <=> ModesIn(wire, (n + 1) + 1) = {}
        /\ \A j \in Nat : LastMode(wire', n + 1, j) <=> LastMode(wire, (n + 1) + 1, j + 1)
        /\ \A j : LastMode(wire, (n + 1) + 1, j) => j \in 2 .. (n + 1)
    BY <1>1, <1>3, <1>6, ReadEvent
  <2>2. CASE flips = << >>
    <3>1. ModesIn(wire, End) = {} /\ ime = [current |-> "client", pending |-> NoMode]
      BY <2>2 DEF LatestMode
    <3>2. ime.pending = NoMode
      BY <3>1
    <3>3. ime' = ime
      BY <1>2, <1>6, <3>2, ModeAfterCases
    <3> QED
      BY <1>2, <1>3, <2>1, <2>2, <3>1, <3>3 DEF LatestMode
  <2>3. CASE flips # << >>
    <3> DEFINE f == flips[Len(flips)]
    <3>0. f' = f
      BY <1>2
    <3>1. CASE \E j \in DOMAIN wire :
               /\ LastMode(wire, End, j) /\ wire[j].id = f.after /\ wire[j].under = f.mode
               /\ keyed > f.after => Used(wire, j, End, f.after)
      <4>1. PICK j \in DOMAIN wire :
               /\ LastMode(wire, (n + 1) + 1, j) /\ wire[j].id = f.after /\ wire[j].under = f.mode
               /\ keyed > f.after => Used(wire, j, (n + 1) + 1, f.after)
        BY <1>3, <3>1
      <4>2. j \in 2 .. (n + 1)
        BY <2>1, <4>1
      <4>3. j - 1 \in 1 .. n /\ j - 1 \in Nat /\ (j - 1) + 1 = j
        BY <4>2
      <4>4. wire'[j - 1] = wire[j] /\ LastMode(wire', n + 1, j - 1)
        BY <1>1, <2>1, <4>1, <4>3
      <4>5. keyed > f.after => Used(wire', j - 1, n + 1, f.after)
        BY <1>3, <1>5, <4>1, <4>3
      <4>6. \E q \in DOMAIN wire' :
               /\ LastMode(wire', End', q) /\ wire'[q].id = f.after /\ wire'[q].under = f.mode
               /\ keyed' > f.after => Used(wire', q, End', f.after)
        BY <1>1, <1>2, <1>3, <4>1, <4>3, <4>4, <4>5
      <4> QED
        BY <1>2, <2>3, <3>0, <4>6 DEF LatestMode
    <3>2. CASE /\ ModesIn(wire, End) = {} /\ ime.pending = [mode |-> f.mode, after |-> f.after]
               /\ keyed > f.after => Used(wire, 0, End, f.after)
      <4>1. ime.pending.mode = f.mode /\ ime.pending.after = f.after
        BY <3>2
      <4>2. f.mode \in Mode /\ f.after \in Nat
        <5>1. f \in Flip
          BY <2>3 DEF TypeOK
        <5> QED
          BY <5>1 DEF Flip
      <4>3. ime.pending # NoMode
        BY <4>1, <4>2 DEF NoMode, Mode
      <4>4. CASE wire[1].kind \in Moded /\ wire[1].id > f.after
        <5>1. /\ ModeFor(ime, wire[1].id) = [current |-> ime.pending.mode, pending |-> NoMode]
              /\ ime' = ModeFor(ime, wire[1].id)
          <6>1. "mode" \notin Moded
            BY DEF Moded
          <6> QED
            BY <1>2, <1>6, <4>1, <4>3, <4>4, <6>1 DEF ModeFor, Crosses, ModeAfter
        <5>2. ime' = [current |-> f.mode, pending |-> NoMode]
          BY <4>1, <5>1
        <5>3. keyed > f.after
          BY <1>4, <4>2, <4>4
        <5> QED
          BY <1>2, <1>3, <2>1, <2>3, <3>0, <3>2, <5>2, <5>3 DEF LatestMode
      <4>5. CASE ~ (wire[1].kind \in Moded /\ wire[1].id > f.after)
        <5>1. ime' = ime
          BY <1>2, <1>6, <4>1, <4>5, ModeAfterCases, ZenonT(30)
        <5>2. keyed > f.after => Used(wire', 0, n + 1, f.after)
          BY <1>1, <1>3, <3>2, <4>5, ReadUsed, SMTT(30)
        <5> QED
          BY <1>2, <1>3, <2>1, <2>3, <3>0, <3>2, <5>1, <5>2 DEF LatestMode
      <4> QED
        BY <4>4, <4>5
    <3>3. CASE /\ ModesIn(wire, End) = {} /\ ime = [current |-> f.mode, pending |-> NoMode]
               /\ keyed > f.after
      <4>1. ime.pending = NoMode
        BY <3>3
      <4>2. ime' = ime
        BY <1>2, <1>6, <4>1, ModeAfterCases
      <4> QED
        BY <1>2, <1>3, <2>1, <2>3, <3>0, <3>3, <4>2 DEF LatestMode
    <3> QED
      BY <2>3, <3>1, <3>2, <3>3 DEF LatestMode
  <2> QED
    BY <2>2, <2>3
<1>7. CASE wire[1].kind = "mode"
  <2>1. /\ 1 \in ModesIn(wire, (n + 1) + 1)
        /\ LastMode(wire, (n + 1) + 1, 1) => ModesIn(wire', n + 1) = {}
        /\ \A j \in 1 .. (n + 1) : LastMode(wire, (n + 1) + 1, j) /\ j # 1 =>
             j - 1 \in 1 .. n /\ LastMode(wire', n + 1, j - 1)
    BY <1>1, <1>3, <1>7, ReadMode
  <2> DEFINE f == flips[Len(flips)]
  <2>2. f' = f
    BY <1>2
  <2>3. flips # << >>
    BY <1>3, <2>1 DEF LatestMode
  <2>4. PICK j \in DOMAIN wire :
               /\ LastMode(wire, (n + 1) + 1, j) /\ wire[j].id = f.after /\ wire[j].under = f.mode
               /\ keyed > f.after => Used(wire, j, (n + 1) + 1, f.after)
    BY <1>3, <2>1, <2>3 DEF LatestMode
  <2>5. CASE j = 1
    <3>1. ime'.pending = [mode |-> f.mode, after |-> f.after]
      BY <1>2, <1>7, <2>4, <2>5, ModeAfterCases
    <3>2. keyed > f.after => Used(wire', 0, n + 1, f.after)
      <4>1. keyed > f.after => Used(wire, 0 + 1, (n + 1) + 1, f.after)
        BY <2>4, <2>5
      <4> QED
        BY <1>3, <1>5, <4>1
    <3>3. ModesIn(wire', n + 1) = {}
      BY <2>1, <2>4, <2>5
    <3> QED
      BY <1>2, <1>3, <2>2, <2>3, <3>1, <3>2, <3>3 DEF LatestMode
  <2>6. CASE j # 1
    <3>1. j - 1 \in 1 .. n /\ LastMode(wire', n + 1, j - 1)
      BY <1>1, <2>1, <2>4, <2>6
    <3>2. j - 1 \in Nat /\ (j - 1) + 1 = j
      BY <1>1, <2>4, <3>1
    <3>3. wire'[j - 1] = wire[j]
      BY <1>1, <3>1, <3>2
    <3>4. keyed > f.after => Used(wire', j - 1, n + 1, f.after)
      BY <1>3, <1>5, <2>4, <3>2
    <3>5. \E q \in DOMAIN wire' :
             /\ LastMode(wire', End', q) /\ wire'[q].id = f.after /\ wire'[q].under = f.mode
             /\ keyed' > f.after => Used(wire', q, End', f.after)
      BY <1>1, <1>2, <1>3, <2>4, <3>1, <3>3, <3>4
    <3> QED
      BY <1>2, <2>2, <2>3, <3>5 DEF LatestMode
  <2> QED
    BY <2>5, <2>6
<1> QED
  BY <1>6, <1>7

LEMMA TakenFollow ==
  ASSUME TypeOK, IdsRise, ModesFollow, Taken
  PROVE  ModesFollow'
<1>1. PICK n \in Nat :
        /\ Len(wire) = n + 1 /\ Len(wire') = n
        /\ DOMAIN wire = 1 .. (n + 1) /\ DOMAIN wire' = 1 .. n
        /\ \A k \in 1 .. n : wire'[k] = wire[k + 1]
        /\ wire[1] = Head(wire)
        /\ wire[1].under \in Mode /\ \A k \in 1 .. (n + 1) : wire[k].id \in Nat
  BY TakenIndices
<1>2. flips' = flips /\ nextId' = nextId /\ ime' = ModeAfter(ime, wire[1])
  BY <1>1 DEF Taken
<1>3. End = (n + 1) + 1 /\ End' = n + 1 /\ n + 1 \in Nat \ {0} /\ n + 1 <= n + 1
  BY <1>1 DEF End
<1>4. nextId \in Nat /\ wire[1].id \in Nat /\ 1 \in 1 .. (n + 1)
  <2>1. 1 \in 1 .. (n + 1)
    OBVIOUS
  <2> QED
    BY <1>1, <2>1, WireIndices
<1>5. ime.pending # NoMode => ime.pending.after \in Nat
  BY DEF TypeOK
<1>6. ASSUME NEW i \in Nat \ {0}, i <= n + 1, NEW id \in Nat, NEW mode,
             wire[1].kind \in Moded => wire[1].id < id,
             ReadIn(wire, ime, i + 1, id, mode)
      PROVE  ReadIn(wire', ime', i, id, mode)
  <2>1. CASE wire[1].kind = "mode"
    BY <1>1, <1>2, <1>4, <1>6, <2>1, ReadModeMode
  <2>2. CASE wire[1].kind # "mode"
    BY <1>1, <1>2, <1>4, <1>5, <1>6, <2>2, ReadEventMode
  <2> QED
    BY <2>1, <2>2
<1> SUFFICES ASSUME Orderly'
             PROVE  /\ \A i \in DOMAIN wire' :
                         wire'[i].kind \in Moded => ReadIn(wire', ime', i, wire'[i].id, wire'[i].under)
                    /\ \A id \in Nat : id >= nextId' => ReadIn(wire', ime', End', id, Announced(flips', id))
  BY DEF ModesFollow
<1>7. Orderly /\ "mode" \notin Moded
  BY <1>2 DEF Orderly, Moded
<1>8. /\ \A i \in 1 .. (n + 1) : wire[i].kind \in Moded => ReadIn(wire, ime, i, wire[i].id, wire[i].under)
      /\ \A id \in Nat : id >= nextId => ReadIn(wire, ime, (n + 1) + 1, id, Announced(flips, id))
  BY <1>1, <1>3, <1>7 DEF ModesFollow
<1>9. ASSUME NEW i \in 1 .. n, wire'[i].kind \in Moded
      PROVE  ReadIn(wire', ime', i, wire'[i].id, wire'[i].under)
  <2>1. i \in Nat \ {0} /\ i <= n + 1 /\ i + 1 \in 1 .. (n + 1) /\ 1 < i + 1
    OBVIOUS
  <2>2. wire'[i] = wire[i + 1] /\ wire[i + 1].id \in Nat
    BY <1>1, <2>1
  <2>3. wire[1].kind \in Moded => wire[1].id < wire[i + 1].id
    BY <1>1, <1>4, <1>7, <1>9, <2>1, <2>2 DEF IdsRise
  <2>4. ReadIn(wire, ime, i + 1, wire[i + 1].id, wire[i + 1].under)
    BY <1>8, <1>9, <2>1, <2>2
  <2> QED
    BY <1>6, <2>1, <2>2, <2>3, <2>4
<1>10. ASSUME NEW id \in Nat, id >= nextId
       PROVE  ReadIn(wire', ime', n + 1, id, Announced(flips, id))
  <2>1. wire[1].kind \in Moded => wire[1].id < nextId
    BY <1>1, <1>4, <1>7 DEF IdsRise
  <2>2. wire[1].kind \in Moded => wire[1].id < id
    BY <1>4, <1>10, <2>1
  <2>3. ReadIn(wire, ime, (n + 1) + 1, id, Announced(flips, id))
    BY <1>8, <1>10
  <2> QED
    BY <1>3, <1>6, <2>2, <2>3
<1> QED
  BY <1>1, <1>2, <1>3, <1>9, <1>10

LEMMA TakenCharacters ==
  ASSUME TypeOK, CharactersKept, Taken, ArrivesIf
  PROVE  CharactersKept'
<1>1. PICK n \in Nat :
        /\ DOMAIN wire = 1 .. (n + 1) /\ DOMAIN wire' = 1 .. n
        /\ \A k \in 1 .. n : wire'[k] = wire[k + 1]
        /\ wire[1] = Head(wire)
  BY TakenIndices
<1> SUFFICES ASSUME Orderly', clean'
             PROVE  typed' = arrived' + Cardinality(Coming(wire'))
  BY DEF CharactersKept
<1>2. Orderly /\ clean /\ typed' = typed
  BY DEF Orderly, Taken, ArrivesIf
<1>3. typed = arrived + Cardinality(Coming(wire))
  BY <1>2 DEF CharactersKept
<1>4. arrived' = arrived + (IF Counts(wire[1]) THEN 1 ELSE 0)
  BY <1>1, <1>2 DEF ArrivesIf
<1>5. /\ Cardinality(Coming(wire')) \in Nat
      /\ Counts(wire[1]) => Cardinality(Coming(wire)) = Cardinality(Coming(wire')) + 1
      /\ ~ Counts(wire[1]) => Cardinality(Coming(wire)) = Cardinality(Coming(wire'))
  BY <1>1, ReadComing
<1>6. arrived \in Nat
  BY DEF TypeOK
<1> QED
  BY <1>2, <1>3, <1>4, <1>5, <1>6

LEMMA TakenKeeps ==
  ASSUME TypeOK, ModesInv, stream # "ended", Taken, ArrivesIf
  PROVE  ModesInv'
  BY TakenIds, TakenLatest, TakenFollow, TakenCharacters DEF ModesInv

(* The first event is read in the mode announced for it.                   *)
LEMMA FirstMode ==
  ASSUME TypeOK, ModesFollow, Orderly, wire # << >>, Head(wire).kind \in Moded
  PROVE  ModeFor(ime, Head(wire).id).current = Head(wire).under
<1>1. /\ Len(wire) \in Nat \ {0} /\ DOMAIN wire = 1 .. Len(wire) /\ wire[1] = Head(wire)
  BY TailIndices DEF TypeOK
<1>2. ReadIn(wire, ime, 1, Head(wire).id, Head(wire).under)
  BY <1>1 DEF ModesFollow
<1>3. ModesIn(wire, 1) = {}
  BY <1>1 DEF ModesIn
<1> QED
  BY <1>2, <1>3 DEF ReadIn, LastMode

LEMMA HandleModeTaken ==
  ASSUME TypeOK, HandleMode
  PROVE  Taken /\ ArrivesIf /\ stream # "ended"
<1>1. /\ wire # << >> /\ wire' = Tail(wire) /\ Head(wire).kind = "mode"
      /\ stream = "accepted"
      /\ ime' = [ime EXCEPT !.pending = [mode |-> Head(wire).under, after |-> Head(wire).id]]
      /\ UNCHANGED <<flips, nextId, keyed, stream, typed, clean, arrived>>
  BY DEF HandleMode, Reads, clientVars
<1>2. ime' = [current |-> ime.current,
              pending |-> [mode |-> Head(wire).under, after |-> Head(wire).id]]
  BY <1>1 DEF TypeOK
<1>3. ime' = ModeAfter(ime, Head(wire))
  BY <1>1, <1>2 DEF ModeAfter, Moded
<1>4. ~ Counts(Head(wire)) /\ arrived \in Nat
  BY <1>1 DEF Counts, TypeOK
<1> QED
  BY <1>1, <1>3, <1>4 DEF Taken, ArrivesIf

LEMMA ModedAfter ==
  ASSUME NEW im, NEW m, m.kind \in Moded
  PROVE  ModeAfter(im, m) = ModeFor(im, m.id)
  BY DEF ModeAfter, Moded

LEMMA HandleKeyTaken ==
  ASSUME TypeOK, ModesInv, HandleKey
  PROVE  Taken /\ ArrivesIf /\ stream # "ended"
<1> DEFINE m == Head(wire)
           inject == ShouldInjectKey(ime'.current, m.input, m.shortcut)
<1>1. /\ wire # << >> /\ wire' = Tail(wire) /\ m.kind = "key" /\ stream = "accepted"
      /\ ime' = ModeFor(ime, m.id)
      /\ UNCHANGED <<flips, nextId, keyed, stream, typed>>
      /\ \/ "keyboard" \notin granted /\ Drops
         \/ /\ "keyboard" \in granted /\ ~ inject
            /\ UNCHANGED <<pressed, commands, clean, arrived>>
         \/ /\ "keyboard" \in granted /\ inject
            /\ arrived' = IF m.input \in CharacterKeys /\ m.down /\ ~ m.shortcut
                          THEN arrived + 1 ELSE arrived
            /\ clean' = clean
  BY DEF HandleKey, Reads, clientVars
<1>2. m.kind \in Moded
  BY <1>1 DEF Moded
<1>3. Taken
  BY <1>1, <1>2, ModedAfter DEF Taken
<1>4. m \in Message
  BY <1>1 DEF TypeOK
<1>5. m.under \in Mode
  BY <1>4 DEF Message
<1>6. ASSUME Orderly PROVE ime'.current = m.under
  BY <1>1, <1>2, <1>6, FirstMode DEF ModesInv
<1> HIDE DEF m
<1>7. ASSUME Orderly, m.input \in CharacterKeys, ~ m.shortcut
      PROVE  inject <=> m.under = "remote"
  BY <1>6, <1>7 DEF ShouldInjectKey
<1> HIDE DEF inject
<1>8. ASSUME clean', Orderly
      PROVE  clean /\ arrived' = arrived + (IF Counts(m) THEN 1 ELSE 0)
  <2>1. arrived \in Nat
    BY DEF TypeOK
  <2>2. CASE "keyboard" \notin granted /\ Drops
    BY <1>8, <2>2 DEF Drops
  <2>3. CASE /\ "keyboard" \in granted /\ ~ inject
             /\ UNCHANGED <<pressed, commands, clean, arrived>>
    <3>1. ~ Counts(m)
      BY <1>1, <1>7, <1>8, <2>3 DEF Counts
    <3> QED
      BY <1>8, <2>1, <2>3, <3>1
  <2>4. CASE /\ "keyboard" \in granted /\ inject
             /\ arrived' = IF m.input \in CharacterKeys /\ m.down /\ ~ m.shortcut
                           THEN arrived + 1 ELSE arrived
             /\ clean' = clean
    <3>1. Counts(m) <=> m.input \in CharacterKeys /\ m.down /\ ~ m.shortcut
      BY <1>1, <1>7, <1>8, <2>4 DEF Counts
    <3> QED
      BY <1>8, <2>1, <2>4, <3>1
  <2> QED
    BY <1>1, <2>2, <2>3, <2>4
<1>9. clean' => clean
  BY <1>1 DEF Drops
<1> QED
  BY <1>1, <1>3, <1>8, <1>9 DEF ArrivesIf, m

LEMMA HandleTextTaken ==
  ASSUME TypeOK, HandleText
  PROVE  Taken /\ ArrivesIf /\ stream # "ended"
<1> DEFINE m == Head(wire)
<1>1. /\ wire # << >> /\ wire' = Tail(wire) /\ m.kind \in {"text", "composition"}
      /\ stream = "accepted" /\ ime' = ModeFor(ime, m.id)
      /\ UNCHANGED <<flips, nextId, keyed, stream, typed>>
      /\ \/ "keyboard" \notin granted /\ Drops
         \/ m.kind = "text" /\ arrived' = arrived + 1 /\ clean' = clean
         \/ m.kind = "composition" /\ arrived' = arrived /\ clean' = clean
  BY DEF HandleText, Reads, clientVars
<1>2. m.kind \in Moded
  BY <1>1 DEF Moded
<1>3. Taken
  BY <1>1, <1>2, ModedAfter DEF Taken
<1>4. (m.kind = "text" => Counts(m)) /\ (m.kind = "composition" => ~ Counts(m))
  BY DEF Counts
<1>5. arrived \in Nat
  BY DEF TypeOK
<1> HIDE DEF m
<1>6. clean' => clean /\ arrived' = arrived + (IF Counts(m) THEN 1 ELSE 0)
  <2>1. arrived + (IF Counts(m) THEN 1 ELSE 0) = IF m.kind = "text" THEN arrived + 1 ELSE arrived
    BY <1>1, <1>4, <1>5
  <2>2. clean' => clean /\ arrived' = IF m.kind = "text" THEN arrived + 1 ELSE arrived
    <3>1. CASE "keyboard" \notin granted /\ Drops
      BY <3>1 DEF Drops
    <3>2. CASE m.kind = "text" /\ arrived' = arrived + 1 /\ clean' = clean
      BY <3>2
    <3>3. CASE m.kind = "composition" /\ arrived' = arrived /\ clean' = clean
      BY <3>3
    <3> QED
      BY <1>1, <3>1, <3>2, <3>3
  <2> QED
    BY <2>1, <2>2
<1> QED
  BY <1>1, <1>3, <1>6 DEF ArrivesIf, m

LEMMA HandleMouseTaken ==
  ASSUME TypeOK, HandleMouse
  PROVE  Taken /\ ArrivesIf /\ stream # "ended"
<1> DEFINE m == Head(wire)
<1>1. /\ wire # << >> /\ wire' = Tail(wire) /\ m.kind \in {"button", "pointer"}
      /\ stream = "accepted" /\ ime' = ime
      /\ UNCHANGED <<flips, nextId, keyed, stream, typed>>
      /\ clean' = FALSE \/ (arrived' = arrived /\ clean' = clean)
  BY DEF HandleMouse, Reads, Drops, clientVars
<1>2. ModeAfter(ime, m) = ime /\ ~ Counts(m)
  BY <1>1 DEF ModeAfter, Moded, Counts
<1>3. arrived \in Nat
  BY DEF TypeOK
<1> HIDE DEF m
<1>4. Taken
  BY <1>1, <1>2 DEF Taken, m
<1>5. clean' => clean /\ arrived' = arrived + (IF Counts(m) THEN 1 ELSE 0)
  <2>1. arrived + (IF Counts(m) THEN 1 ELSE 0) = arrived
    BY <1>2, <1>3
  <2>2. clean' => clean /\ arrived' = arrived
    BY <1>1
  <2> QED
    BY <2>1, <2>2
<1> QED
  BY <1>1, <1>4, <1>5 DEF ArrivesIf, m

(* What the invariant is about stays as it is; the stream may be accepted. *)
ModesKept ==
  /\ UNCHANGED <<flips, nextId, keyed, wire, ime, clean, typed, arrived>>
  /\ stream # "ended"

LEMMA ModesKeptKeeps ==
  ASSUME ModesInv, stream' = "ended" \/ ModesKept \/ UNCHANGED vars
  PROVE  ModesInv'
<1>1. CASE stream' = "ended"
  BY <1>1 DEF ModesInv
<1>2. CASE stream' # "ended" /\ ModesKept
  BY <1>2 DEF ModesInv, ModesKept, IdsRise, LatestMode, ModesFollow, CharactersKept, Orderly, End
<1>3. CASE stream' # "ended" /\ UNCHANGED vars
  BY <1>3 DEF ModesInv, vars, IdsRise, LatestMode, ModesFollow, CharactersKept, Orderly, End
<1> QED
  BY <1>1, <1>2, <1>3

LEMMA InitModes ==
  ASSUME Init
  PROVE  ModesInv
<1>1. /\ flips = << >> /\ nextId = 1 /\ keyed = 0 /\ wire = << >>
      /\ ime = [current |-> "client", pending |-> NoMode] /\ typed = 0 /\ arrived = 0
  BY DEF Init
<1>2. Len(wire) = 0 /\ DOMAIN wire = {} /\ DOMAIN wire = 1 .. 0 /\ DOMAIN flips = {} /\ End = 1
  BY <1>1 DEF End
<1>3. IdsRise
  BY <1>1, <1>2 DEF IdsRise
<1>4. ModesIn(wire, End) = {}
  BY <1>2 DEF ModesIn
<1>5. LatestMode
  BY <1>1, <1>4 DEF LatestMode
<1>6. ModesFollow
  <2>1. ASSUME NEW id \in Nat PROVE ReadIn(wire, ime, End, id, Announced(flips, id))
    <3>1. Announced(flips, id) = "client"
      BY <1>2 DEF Announced
    <3>2. ime.pending = NoMode /\ ime.current = "client"
      BY <1>1
    <3>3. ModeFor(ime, id).current = "client"
      BY <3>2 DEF ModeFor, Crosses
    <3> QED
      BY <1>4, <3>1, <3>3 DEF ReadIn
  <2> QED
    BY <1>2, <2>1 DEF ModesFollow
<1>7. CharactersKept
  <2>1. Coming(wire) = {}
    BY <1>2 DEF Coming
  <2>2. Cardinality(Coming(wire)) = 0
    BY <2>1, FS_EmptySet
  <2> QED
    BY <1>1, <2>2 DEF CharactersKept
<1> QED
  BY <1>3, <1>5, <1>6, <1>7 DEF ModesInv

LEMMA ClientKeepsModes ==
  ASSUME TypeOK, ModesInv, Client
  PROVE  ModesInv'
<1>1. ASSUME NEW k \in Keys, NEW down \in BOOLEAN, ComposingKey(k, down)
      PROVE  ModesInv'
  BY <1>1, ModesKeptKeeps DEF ComposingKey, ModesKept, serverVars
<1>2. ASSUME NEW k \in Keys, NEW down \in BOOLEAN, Key(k, down)
      PROVE  ModesInv'
  <2>1. 1 \in Nat
    OBVIOUS
  <2> QED
    BY <1>2, <2>1, KeySent, SentKeeps
<1>3. ASSUME NEW k \in CharacterKeys, Character(k)
      PROVE  ModesInv'
  BY <1>3, CharacterSent, SentKeeps
<1>4. CASE Pointer \/ \E b \in Buttons, down \in BOOLEAN : Button(b, down)
  <2>1. 1 \in Nat
    OBVIOUS
  <2> QED
    BY <1>4, <2>1, MouseSent, SentKeeps
<1>5. CASE StartComposition
  BY <1>5, ModesKeptKeeps DEF StartComposition, ModesKept, serverVars
<1>6. CASE Commit
  <2>1. 2 \in Nat
    OBVIOUS
  <2> QED
    BY <1>6, <2>1, CommitSent, SentKeeps
<1>7. ASSUME NEW ends \in BOOLEAN, Composition(ends)
      PROVE  ModesInv'
  <2>1. 1 \in Nat
    OBVIOUS
  <2> QED
    BY <1>7, <2>1, CompositionSent, SentKeeps
<1>8. CASE FocusLost
  BY <1>8, FocusSent, SentKeeps
<1>9. ASSUME NEW mode \in Mode, NEW after \in (nextId - 1) .. (nextId - 1 + MaxLead),
             AnnounceMode(mode, after)
      PROVE  ModesInv'
  BY <1>9, AnnounceKeeps
<1> QED
  BY <1>1, <1>2, <1>3, <1>4, <1>5, <1>6, <1>7, <1>8, <1>9 DEF Client

LEMMA ServerKeepsModes ==
  ASSUME TypeOK, ModesInv, Server \/ Inject \/ Joined,
         session # "active" => stream = "ended"
  PROVE  ModesInv'
<1>1. CASE AcceptStream
  BY <1>1, ModesKeptKeeps DEF AcceptStream, ModesKept, clientVars
<1>2. ASSUME NEW bit \in {"keyboard", "mouse"}, Toggle(bit)
      PROVE  ModesInv'
  <2>1. stream' = stream
    BY <1>2 DEF Toggle
  <2>2. CASE stream = "ended"
    BY <2>1, <2>2, ModesKeptKeeps
  <2>3. CASE stream # "ended"
    BY <1>2, <2>3, ModesKeptKeeps DEF Toggle, ModesKept, clientVars
  <2> QED
    BY <2>2, <2>3
<1>3. CASE HandleMode
  BY <1>3, HandleModeTaken, TakenKeeps
<1>4. CASE HandleKey
  BY <1>4, HandleKeyTaken, TakenKeeps
<1>5. CASE HandleText
  BY <1>5, HandleTextTaken, TakenKeeps
<1>6. CASE HandleMouse
  BY <1>6, HandleMouseTaken, TakenKeeps
<1>7. CASE StreamEnds \/ SessionEnds \/ RefuseText
  BY <1>7, ModesKeptKeeps DEF StreamEnds, SessionEnds, RefuseText
<1>8. CASE Inject
  <2>1. stream' = stream
    BY <1>8 DEF Inject, serverVars
  <2>2. CASE stream = "ended"
    BY <2>1, <2>2, ModesKeptKeeps
  <2>3. CASE stream # "ended"
    BY <1>8, <2>3, ModesKeptKeeps DEF Inject, ModesKept, clientVars, serverVars
  <2> QED
    BY <2>2, <2>3
<1>9. CASE Joined
  <2>1. stream' = stream /\ stream = "ended"
    BY <1>9 DEF Joined
  <2> QED
    BY <2>1, ModesKeptKeeps
<1> QED
  BY <1>1, <1>2, <1>3, <1>4, <1>5, <1>6, <1>7, <1>8, <1>9 DEF Server

(* Where the latest announcement is, and in which mode the server will     *)
(* read every event on the wire or still to be sent: ImeModeSm, whatever   *)
(* the order in which events are sent, modes announced and messages read.  *)
THEOREM ModesInvariant == Spec => []ModesInv
<1>1. Init => ModesInv
  BY InitModes
<1>2. InputInv /\ ModesInv /\ [Next]_vars => ModesInv'
  <2> SUFFICES ASSUME InputInv, ModesInv, [Next]_vars PROVE ModesInv'
    OBVIOUS
  <2>1. TypeOK /\ (session # "active" => stream = "ended")
    BY DEF InputInv
  <2>2. CASE UNCHANGED vars
    BY <2>2, ModesKeptKeeps
  <2>3. CASE Next
    BY <2>1, <2>3, ClientKeepsModes, ServerKeepsModes DEF Next
  <2> QED
    BY <2>2, <2>3
<1> QED
  BY <1>1, <1>2, InputInvariant, PTL DEF Spec

(* The server reads every event of an orderly client in the mode that the  *)
(* client announced for it (ImeModeSm::mode_for).                          *)
THEOREM ModeIsAsAnnounced == Spec => []ModeAsAnnounced
<1>1. InputInv /\ ModesInv => ModeAsAnnounced
  <2> SUFFICES ASSUME InputInv, ModesInv, Orderly, stream = "accepted", wire # << >>,
                      Head(wire).kind \in Moded
               PROVE  ModeFor(ime, Head(wire).id).current = Head(wire).under
    BY DEF ModeAsAnnounced, Moded
  <2>1. TypeOK /\ ModesFollow
    BY DEF InputInv, ModesInv
  <2> QED
    BY <2>1, FirstMode
<1> QED
  BY <1>1, InputInvariant, ModesInvariant, PTL

(* A character typed without CTRL, ALT or META at an orderly client is     *)
(* injected once, as a key or as text, whatever modes were announced.      *)
THEOREM EveryCharacterOnce == Spec => []CharactersOnce
<1>1. InputInv /\ ModesInv => CharactersOnce
  <2> SUFFICES ASSUME InputInv, ModesInv, Orderly, clean, stream = "accepted", wire = << >>
               PROVE  arrived = typed
    BY DEF CharactersOnce
  <2>1. typed = arrived + Cardinality(Coming(wire)) /\ arrived \in Nat
    BY DEF InputInv, ModesInv, CharactersKept, TypeOK
  <2>2. Coming(wire) = {}
    BY DEF Coming
  <2>3. Cardinality(Coming(wire)) = 0
    BY <2>2, FS_EmptySet
  <2> QED
    BY <2>1, <2>3
<1> QED
  BY <1>1, InputInvariant, ModesInvariant, PTL
=============================================================================
