--------------------------- MODULE EstablishProofs ---------------------------
(***************************************************************************)
(* Proofs about Establish, for every number of rounds, delays, clock       *)
(* offset, set of keys and number of client runs: the two ends of a        *)
(* session agree, a suspended session is in the session file, and the      *)
(* chosen clock offset is off by at most half of the shortest round trip.  *)
(*                                                                         *)
(* SetupAgrees and SuspendedIsSaved speak of the ends of the set-up;       *)
(* EstablishInv follows each message and each token on the way there.      *)
(***************************************************************************)
EXTENDS Establish, SequenceTheorems, WellFoundedInduction, TLAPS

-----------------------------------------------------------------------------
(* Time synchronisation *)

LEMMA NatMinimum ==
  ASSUME NEW T, T \subseteq Nat, T # {}
  PROVE  \E x \in T : \A y \in T : x <= y
<1>1. PICK x \in T : \A y \in T : ~(<<y, x>> \in OpToRel(<, Nat))
  BY NatLessThanWellFounded, WFMin
<1>2. ASSUME NEW y \in T PROVE x <= y
  <2>1. x \in Nat /\ y \in Nat
    OBVIOUS
  <2>2. ~(y < x)
    BY <1>1, <2>1 DEF OpToRel
  <2> QED
    BY <2>1, <2>2
<1> QED
  BY <1>2

(* best_of returns one of the rounds, and none was faster.                 *)
LEMMA BestIsFastest ==
  ASSUME NEW rounds \in Seq(Round), rounds # <<>>
  PROVE  \E i \in DOMAIN rounds :
            /\ best_of(rounds) = rounds[i]
            /\ \A j \in DOMAIN rounds : rounds[i].rtt_us <= rounds[j].rtt_us
<1> DEFINE N == Len(rounds)
           Best(i) == \A j \in DOMAIN rounds :
                          \/ rounds[i].rtt_us < rounds[j].rtt_us
                          \/ rounds[i].rtt_us = rounds[j].rtt_us /\ j <= i
<1>1. DOMAIN rounds = 1..N /\ N \in Nat \ {0}
  OBVIOUS
<1>2. \A i \in 1..N : rounds[i].rtt_us \in Nat
  <2>1. \A i \in 1..N : rounds[i] \in Round
    OBVIOUS
  <2> QED
    BY <2>1 DEF Round
<1>3. PICK m \in 1..N : \A j \in 1..N : rounds[m].rtt_us <= rounds[j].rtt_us
  <2> DEFINE T == {rounds[i].rtt_us : i \in 1..N}
  <2>1. T \subseteq Nat /\ T # {}
    BY <1>1, <1>2
  <2>2. PICK x \in T : \A y \in T : x <= y
    BY <2>1, NatMinimum
  <2> QED
    BY <2>2
<1>4. PICK i \in 1..N : /\ rounds[i].rtt_us = rounds[m].rtt_us
                        /\ \A j \in 1..N : rounds[j].rtt_us = rounds[m].rtt_us => j <= i
  <2> DEFINE T == {N - i : i \in {j \in 1..N : rounds[j].rtt_us = rounds[m].rtt_us}}
  <2>1. T \subseteq Nat /\ T # {}
    BY <1>1
  <2>2. PICK x \in T : \A y \in T : x <= y
    BY <2>1, NatMinimum
  <2>3. PICK i \in 1..N : rounds[i].rtt_us = rounds[m].rtt_us /\ x = N - i
    BY <2>2
  <2>4. ASSUME NEW j \in 1..N, rounds[j].rtt_us = rounds[m].rtt_us
        PROVE  j <= i
    <3>1. N - j \in T
      BY <2>4
    <3>2. N - i <= N - j
      BY <2>2, <2>3, <3>1
    <3> QED
      BY <1>1, <3>2
  <2> QED
    BY <2>3, <2>4
<1>5. Best(i)
  <2> SUFFICES ASSUME NEW j \in 1..N
               PROVE  \/ rounds[i].rtt_us < rounds[j].rtt_us
                      \/ rounds[i].rtt_us = rounds[j].rtt_us /\ j <= i
    BY <1>1
  <2> QED
    BY <1>2, <1>3, <1>4
<1> DEFINE k == CHOOSE k \in DOMAIN rounds : Best(k)
<1>6. k \in DOMAIN rounds /\ Best(k)
  BY <1>1, <1>5
<1>7. best_of(rounds) = rounds[k]
  BY DEF best_of
<1> HIDE DEF k
<1>8. ASSUME NEW j \in DOMAIN rounds
      PROVE  rounds[k].rtt_us <= rounds[j].rtt_us
  BY <1>1, <1>2, <1>6
<1> QED
  BY <1>6, <1>7, <1>8

LEMMA HalfNear ==
  ASSUME NEW x \in Int
  PROVE  Half(x) \in Int /\ 2 * Half(x) - x \in {-1, 0, 1}
<1>1. CASE x >= 0
  BY <1>1, SMTT(30) DEF Half
<1>2. CASE x < 0
  <2> DEFINE y == -x
  <2>1. y \in Int /\ y > 0 /\ Half(x) = -(y \div 2) /\ x = -y
    BY <1>2 DEF Half
  <2> HIDE DEF y
  <2>2. 2 * (y \div 2) - y \in {-1, 0}
    BY <2>1, SMTT(30)
  <2> QED
    BY <2>1, <2>2
<1> QED
  BY <1>1, <1>2

(* A round whose request took delay there and back is near, however long   *)
(* the server took in between.                                             *)
LEMMA RoundIsNear ==
  ASSUME NEW there \in Nat, NEW took \in Nat, NEW back \in Nat
  PROVE  LET t2 == there + ClockOffset
             t3 == t2 + took
             r == compute(0, t2, t3, t3 - ClockOffset + back)
         IN  r \in Round /\ Near(r)
<1> DEFINE t2 == there + ClockOffset
           t3 == t2 + took
           t4 == t3 - ClockOffset + back
           x == (t2 - 0) + (t3 - t4)
           r == compute(0, t2, t3, t4)
<1>1. ClockOffset \in Int
  BY EstablishAssumption
<1>2. x = 2 * ClockOffset + (there - back) /\ x \in Int
  BY <1>1
<1>3. (t4 - 0) - (t3 - t2) = there + back
  BY <1>1
<1> HIDE DEF t2, t3, t4, x
<1>4. r = [offset_us |-> Half(x), rtt_us |-> there + back]
  BY <1>3 DEF compute, x
<1>5. Half(x) \in Int /\ 2 * Half(x) - x \in {-1, 0, 1}
  BY <1>2, HalfNear
<1> DEFINE o == Half(x)
<1>6. r.offset_us = o /\ r.rtt_us = there + back
  BY <1>4
<1> HIDE DEF o, r
<1>7. o \in Int /\ 2 * o - x \in {-1, 0, 1}
  BY <1>5 DEF o
<1>8. 2 * Abs(o - ClockOffset) <= there + back + 1
  BY <1>1, <1>2, <1>7, SMTT(30) DEF Abs
<1>9. r \in Round
  BY <1>4, <1>7 DEF Round, o
<1> QED
  BY <1>6, <1>8, <1>9 DEF Near, r, t2, t3, t4

-----------------------------------------------------------------------------
(* Queues and messages *)

LEMMA SeqGrows ==
  ASSUME NEW S, NEW T, S \subseteq T, NEW s \in Seq(S)
  PROVE  s \in Seq(T)
<1>1. s = [i \in 1..Len(s) |-> s[i]] /\ Len(s) \in Nat
  OBVIOUS
<1>2. \A i \in 1..Len(s) : s[i] \in T
  OBVIOUS
<1> QED
  BY <1>1, <1>2, IsASeq

LEMMA WritesTyped ==
  ASSUME NEW queue, DOMAIN queue = Conns, NEW c \in Conns, NEW messages, NEW d \in Conns, NEW S,
         queue[d] \in Seq(S), d = c => messages \in Seq(S)
  PROVE  Writes(queue, c, messages)[d] \in Seq(S)
<1>1. CASE d = c /\ open[c]
  <2>1. Writes(queue, c, messages)[d] = queue[d] \o messages
    BY <1>1 DEF Writes
  <2>2. queue[d] \o messages \in Seq(S)
    BY <1>1, ConcatProperties, Zenon
  <2> QED
    BY <2>1, <2>2
<1>2. CASE ~(d = c /\ open[c])
  BY <1>2 DEF Writes
<1> QED
  BY <1>1, <1>2

LEMMA WritesDomain ==
  ASSUME NEW queue, NEW c, NEW messages
  PROVE  DOMAIN Writes(queue, c, messages) = DOMAIN queue
BY DEF Writes

LEMMA ReadsTyped ==
  ASSUME NEW queue, DOMAIN queue = Conns, NEW c \in Conns, queue[c] # <<>>, NEW d \in Conns, NEW S,
         queue[d] \in Seq(S)
  PROVE  Reads(queue, c)[d] \in Seq(S)
<1>1. CASE d = c
  <2>1. Reads(queue, c)[d] = Tail(queue[d])
    BY <1>1 DEF Reads
  <2>2. Tail(queue[d]) \in Seq(S)
    BY <1>1, HeadTailProperties
  <2> QED
    BY <2>1, <2>2
<1>2. CASE d # c
  BY <1>2 DEF Reads
<1> QED
  BY <1>1, <1>2

LEMMA ReadsDomain ==
  ASSUME NEW queue, NEW c
  PROVE  DOMAIN Reads(queue, c) = DOMAIN queue
BY DEF Reads

(* What the type of a client's message tells.                              *)
LEMMA ClientSent ==
  ASSUME NEW c \in Conns, NEW m \in FromClient(c)
  PROVE  /\ m.type = "AUTH_PUBKEY" => ~(c = here /\ client.resumed)
         /\ m.type = "SESSION_REAUTHENTICATE" /\ c = here
            => client.resumed /\ m \in OwnResume
<1>1. Prologue.type = "PROLOGUE" /\ TimeSyncRequest.type = "TIME_SYNC_REQUEST"
      /\ SessionClose.type = "SESSION_CLOSE" /\ ClientHello.type = "CLIENT_HELLO"
  BY DEF Prologue, TimeSyncRequest, SessionClose, ClientHello
<1>2. \A key \in Keys : Signed(key, c).type = "AUTH_PUBKEY"
  BY DEF Signed, AuthPubkey
<1>3. \A x \in ResumeMessages : x.type = "SESSION_REAUTHENTICATE"
  BY DEF ResumeMessages, SessionReauthenticate
<1>4. \/ m \in {Prologue, TimeSyncRequest, SessionClose, ClientHello}
      \/ (\E key \in Keys : m = Signed(key, c)) /\ ~(c = here /\ client.resumed)
      \/ m \in ResumeMessages /\ (c = here => client.resumed /\ m \in OwnResume)
  BY DEF FromClient, FreshMessages, OwnResume
<1> QED
  BY <1>1, <1>2, <1>3, <1>4

(* What the type of a server's message tells.                              *)
LEMMA ServerSent ==
  ASSUME NEW c \in Conns, NEW m \in FromServer(c)
  PROVE  /\ m.type = "SERVER_HELLO" => m = ServerHello(c)
         /\ m.type # "CLIENT_HELLO"
         /\ m.type = "AUTH_RESULT" /\ m.status = "Ok"
            => server[c].id # None /\ m = AuthResult("Ok", server[c].id, server[c].tok)
         /\ m.type = "TIME_SYNC_RESPONSE"
            => \E delay \in Delays, took \in Processing :
                  m = TimeSyncResponse(delay + ClockOffset, delay + ClockOffset + took)
<1>1. ServerHello(c).type = "SERVER_HELLO"
  BY DEF ServerHello
<1>2. \A id, tok, status : AuthResult(status, id, tok).type = "AUTH_RESULT"
                           /\ AuthResult(status, id, tok).status = status
  BY DEF AuthResult
<1>3. \A t2, t3 : TimeSyncResponse(t2, t3).type = "TIME_SYNC_RESPONSE"
  BY DEF TimeSyncResponse
<1>4. \/ m = ServerHello(c)
      \/ m = AuthResult("Denied", None, None)
      \/ \E delay \in Delays, took \in Processing :
            m = TimeSyncResponse(delay + ClockOffset, delay + ClockOffset + took)
      \/ server[c].id # None /\ m = AuthResult("Ok", server[c].id, server[c].tok)
  BY DEF FromServer, Responses
<1> QED
  BY <1>1, <1>2, <1>3, <1>4

(***************************************************************************)
(* The types of the fields, as facts the provers can use one by one.       *)
(***************************************************************************)
LEMMA TaskFields ==
  ASSUME NEW t \in Task
  PROVE  /\ t.pc \in ServerPc /\ t.sm \in State /\ t.id \in Int /\ t.tok \in Int
         /\ t.gen \in Int /\ t.resumed \in BOOLEAN
BY DEF Task

LEMMA ClientFields ==
  ASSUME TypeOK
  PROVE  /\ client.pc \in ClientPc /\ client.conn \in Nat /\ client.key \in Keys
         /\ client.sm \in State /\ client.id \in Int /\ client.tok \in Int
         /\ client.resumed \in BOOLEAN /\ client.gen \in Int /\ client.rounds \in Seq(Round)
BY DEF TypeOK, Process

LEMMA ConnsFacts ==
  /\ Conns \subseteq Nat \ {0} /\ None \notin Conns /\ None \in Int /\ None \notin Nat
  /\ \A c \in Conns : c <= MaxRuns
BY EstablishAssumption DEF Conns, None

(* A running client's connection is one of Conns.                          *)
LEMMA HereIsAConnection ==
  ASSUME EstablishInv, client.pc # "off"
  PROVE  here \in Conns /\ here = runs
BY DEF EstablishInv, ClientPhases, here

-----------------------------------------------------------------------------
(* The server's tasks *)

(* A task goes on, or ends, with the session it has.                       *)
TaskMoves(c, t) ==
    /\ t \in Task /\ server' = [server EXCEPT ![c] = t]
    /\ server[c].pc \notin {"none", "over"}
    /\ t.id = server[c].id /\ t.tok = server[c].tok
    /\ t.gen = server[c].gen /\ t.resumed = server[c].resumed
    /\ t.pc \in Live => server[c].pc \in Live
    /\ t.pc \in Early => server[c].pc \in Early
    /\ server[c].pc \in {"feedback", "active"} => t.pc \in {"feedback", "active", "over"}
    /\ t.pc # "over" => t.sm = ServerSm(t.pc, t.resumed)
    /\ t.pc = "active" => feedback[c]
    /\ \/ instance' = instance
       \/ /\ server[c].pc = "opening" /\ t.pc = "feedback"
          /\ \E v \in {None, server[c].gen} : instance' = [instance EXCEPT ![c] = v]
    /\ \/ store' = store
       \/ /\ server[c].pc = "active"
          /\ t.pc = "over"
          /\ store' = store \cup {[id |-> t.id, tok |-> t.tok, gen |-> t.gen, sm |-> "Suspended"]}
    /\ open' \in [Conns -> BOOLEAN]
    /\ up' = up \/ (up[c] # <<>> /\ up' = Reads(up, c))
    /\ down' = down \/ \E m \in FromServer(c) : down' = Writes(down, c, <<m>>)
    /\ issued' = issued /\ UNCHANGED serverOnly

LEMMA TaskMovesType ==
  ASSUME EstablishInv, NEW c \in Conns, NEW t, TaskMoves(c, t)
  PROVE  TypeOK'
<1> USE DEF TaskMoves
<1>1. TypeOK
  BY DEF EstablishInv
<1>2. UNCHANGED <<client, file, feedback, runs, failed, issued>>
  BY DEF serverOnly
<1>3. server' \in [Conns -> Task]
  BY <1>1 DEF TypeOK
<1>4. store' \subseteq Suspended
  <2>1. CASE store' = store
    BY <1>1, <2>1 DEF TypeOK
  <2>2. CASE store' # store
    <3>1. server[c].pc = "active" /\ store' = store \cup {[id |-> t.id, tok |-> t.tok, gen |-> t.gen, sm |-> "Suspended"]}
      BY <2>2
    <3>2. server[c].id # None
      BY <3>1 DEF EstablishInv, ServerPhases, Live
    <3>3. t.tok \in Nat
      BY <3>2 DEF EstablishInv, Tokens
    <3>4. t.id \in Int /\ t.gen \in Int
      BY TaskFields
    <3>5. [id |-> t.id, tok |-> t.tok, gen |-> t.gen, sm |-> "Suspended"] \in Suspended
      BY <3>3, <3>4 DEF Suspended
    <3> QED
      BY <1>1, <3>1, <3>5 DEF TypeOK
  <2> QED
    BY <2>1, <2>2
<1>5. DOMAIN up' = Conns /\ DOMAIN down' = Conns
  <2>1. DOMAIN up = Conns /\ DOMAIN down = Conns
    BY <1>1 DEF TypeOK
  <2>2. DOMAIN up' = Conns
    BY <2>1 DEF Reads
  <2>3. DOMAIN down' = Conns
    BY <2>1 DEF Writes
  <2> QED
    BY <2>2, <2>3
<1>6. instance' \in [Conns -> Int]
  <2>1. None \in Int /\ server[c].gen \in Int
    BY ConnsFacts, TaskFields
  <2> QED
    BY <1>1, <2>1 DEF TypeOK
<1> QED
  BY <1>1, <1>2, <1>3, <1>4, <1>5, <1>6 DEF TypeOK

LEMMA TaskMovesPhases ==
  ASSUME EstablishInv, NEW c \in Conns, NEW t, TaskMoves(c, t)
  PROVE  ClientPhases' /\ ServerPhases' /\ Agreement' /\ RoundsNear'
<1>1. UNCHANGED <<client, file, feedback, runs, failed, issued>>
  BY DEF TaskMoves, serverOnly
<1>2. ClientPhases' /\ RoundsNear'
  BY <1>1 DEF EstablishInv, ClientPhases, RoundsNear
<1>3. server \in [Conns -> Task] /\ instance \in [Conns -> Int] /\ DOMAIN up = Conns
  BY DEF EstablishInv, TypeOK
<1>4. \A d \in Conns : server'[d] = IF d = c THEN t ELSE server[d]
  BY <1>3 DEF TaskMoves
<1>5. \A d \in Conns : d # c => instance'[d] = instance[d] /\ up'[d] = up[d]
  BY <1>3 DEF TaskMoves, Reads
<1>6. ServerPhases'
  <2> SUFFICES ASSUME NEW d \in Conns
               PROVE  /\ server'[d].pc # "over" => server'[d].sm = ServerSm(server'[d].pc, server'[d].resumed)
                      /\ server'[d].pc \in Early => server'[d].id = None /\ ~server'[d].resumed
                      /\ server'[d].pc \in Live => server'[d].id # None
                      /\ instance'[d] # None => /\ server'[d].pc \in {"feedback", "active", "over"}
                                                /\ instance'[d] = server'[d].gen
                      /\ feedback[d] => instance'[d] # None /\ server'[d].id # None
                      /\ server'[d].pc = "active" => feedback[d]
                      /\ d > runs => server'[d].pc = "none" /\ up'[d] = <<>>
    BY <1>1 DEF ServerPhases
  <2>1. CASE d # c
    BY <1>4, <1>5, <2>1 DEF EstablishInv, ServerPhases
  <2>2. CASE d = c
    <3>1. server'[d] = t
      BY <1>4, <2>2
    <3>2. t.pc # "over" => t.sm = ServerSm(t.pc, t.resumed)
      BY DEF TaskMoves
    <3>3. t.pc \in Early => t.id = None /\ ~t.resumed
      BY DEF TaskMoves, EstablishInv, ServerPhases
    <3>4. t.pc \in Live => t.id # None
      BY DEF TaskMoves, EstablishInv, ServerPhases
    <3>5. instance'[c] # None => t.pc \in {"feedback", "active", "over"} /\ instance'[c] = t.gen
      <4>1. CASE instance' = instance
        <5>1. instance[c] # None => server[c].pc \in {"feedback", "active", "over"} /\ instance[c] = server[c].gen
          BY DEF EstablishInv, ServerPhases
        <5> QED
          BY <4>1, <5>1 DEF TaskMoves
      <4>2. CASE instance' # instance
        BY <1>3, <4>2 DEF TaskMoves
      <4> QED
        BY <4>1, <4>2
    <3>6. feedback[c] => instance'[c] # None /\ t.id # None
      <4> SUFFICES ASSUME feedback[c]
                   PROVE  instance'[c] # None /\ t.id # None
        OBVIOUS
      <4>1. instance[c] # None /\ server[c].id # None /\ server[c].pc # "opening"
        BY DEF EstablishInv, ServerPhases
      <4> QED
        BY <4>1 DEF TaskMoves
    <3>7. ~(c > runs)
      BY DEF TaskMoves, EstablishInv, ServerPhases
    <3>8. t.pc = "active" => feedback[c]
      BY DEF TaskMoves
    <3> QED
      BY <2>2, <3>1, <3>2, <3>3, <3>4, <3>5, <3>6, <3>7, <3>8
  <2> QED
    BY <2>1, <2>2
<1>7. Agreement'
  <2> SUFFICES ASSUME client.pc # "off"
               PROVE  Agreement'
    BY <1>1 DEF Agreement
  <2>1. here \in Conns
    BY HereIsAConnection
  <2>2. /\ server'[here].id = server[here].id /\ server'[here].tok = server[here].tok
        /\ server'[here].resumed = server[here].resumed
    BY <1>4, <2>1 DEF TaskMoves
  <2>3. instance[here] # None => instance'[here] = instance[here]
    <3>1. instance[here] # None => server[here].pc # "opening"
      BY <2>1 DEF EstablishInv, ServerPhases
    <3> QED
      BY <1>3, <1>5, <2>1, <3>1 DEF TaskMoves
  <2> QED
    BY <1>1, <2>2, <2>3 DEF EstablishInv, Agreement, here
<1> QED
  BY <1>2, <1>6, <1>7

(* What a client may send does not depend on the server's tasks.           *)
LEMMA ClientSendsTheSame ==
  ASSUME client' = client, NEW c
  PROVE  FromClient(c)' = FromClient(c)
BY DEF FromClient, OwnResume, here

LEMMA TaskMovesQueues ==
  ASSUME EstablishInv, NEW c \in Conns, NEW t, TaskMoves(c, t)
  PROVE  Queues'
<1>1. client' = client /\ server \in [Conns -> Task] /\ DOMAIN up = Conns /\ DOMAIN down = Conns
  BY DEF TaskMoves, serverOnly, EstablishInv, TypeOK
<1> SUFFICES ASSUME NEW d \in Conns
             PROVE  up'[d] \in Seq(FromClient(d)') /\ down'[d] \in Seq(FromServer(d)')
  BY DEF Queues
<1>2. FromClient(d)' = FromClient(d)
  BY <1>1, ClientSendsTheSame
<1>3. FromServer(d)' = FromServer(d)
  <2>1. server'[d].id = server[d].id /\ server'[d].tok = server[d].tok
    BY <1>1 DEF TaskMoves
  <2> QED
    BY <2>1 DEF FromServer
<1>4. up[d] \in Seq(FromClient(d)) /\ down[d] \in Seq(FromServer(d))
  BY DEF EstablishInv, Queues
<1>5. up'[d] \in Seq(FromClient(d))
  <2>1. CASE up' = up
    BY <1>4, <2>1
  <2>2. CASE up[c] # <<>> /\ up' = Reads(up, c)
    BY <1>1, <1>4, <2>2, ReadsTyped
  <2> QED
    BY <2>1, <2>2 DEF TaskMoves
<1>6. down'[d] \in Seq(FromServer(d))
  <2>1. CASE down' = down
    BY <1>4, <2>1
  <2>2. CASE down' # down
    <3>1. PICK m \in FromServer(c) : down' = Writes(down, c, <<m>>)
      BY <2>2 DEF TaskMoves
    <3>2. d = c => <<m>> \in Seq(FromServer(d))
      OBVIOUS
    <3> QED
      BY <1>1, <1>4, <3>1, <3>2, WritesTyped
  <2> QED
    BY <2>1, <2>2
<1> QED
  BY <1>2, <1>3, <1>5, <1>6

LEMMA TaskMovesTokens ==
  ASSUME EstablishInv, NEW c \in Conns, NEW t, TaskMoves(c, t)
  PROVE  Tokens'
<1>1. issued' = issued /\ server \in [Conns -> Task]
  BY DEF TaskMoves, serverOnly, EstablishInv, TypeOK
<1>2. \A d \in Conns : /\ server'[d].id = server[d].id /\ server'[d].tok = server[d].tok
                       /\ server'[d].pc \in Live => server[d].pc \in Live
  BY <1>1 DEF TaskMoves
<1>3. /\ \A d \in Conns : server[d].id # None => server[d].tok \in Nat /\ server[d].tok < issued
      /\ \A e \in store : e.id # None /\ e.tok < issued
      /\ \A b, d \in Conns : b # d /\ server[b].pc \in Live /\ server[d].pc \in Live
                             => server[b].tok # server[d].tok
      /\ \A d \in Conns, e \in store : server[d].pc \in Live => server[d].tok # e.tok
      /\ \A e, f \in store : e.tok = f.tok => e = f
  BY DEF EstablishInv, Tokens
<1>4. CASE store' = store
  BY <1>1, <1>2, <1>3, <1>4 DEF Tokens
<1>5. CASE store' # store
  <2> DEFINE n == [id |-> t.id, tok |-> t.tok, gen |-> t.gen, sm |-> "Suspended"]
  <2>1. server[c].pc = "active" /\ t.pc = "over" /\ store' = store \cup {n}
    BY <1>5 DEF TaskMoves
  <2>2. n.id = server[c].id /\ n.tok = server[c].tok
    BY DEF TaskMoves
  <2>3. server[c].pc \in Live /\ server[c].id # None
    BY <2>1 DEF Live, EstablishInv, ServerPhases
  <2>4. server'[c].pc \notin Live
    BY <1>1, <2>1 DEF TaskMoves, Live
  <2> HIDE DEF n
  <2>5. \A e \in store' : e.id # None /\ e.tok < issued
    BY <1>3, <2>1, <2>2, <2>3
  <2>6. \A d \in Conns, e \in store' : server'[d].pc \in Live => server'[d].tok # e.tok
    <3> SUFFICES ASSUME NEW d \in Conns, NEW e \in store', server'[d].pc \in Live
                 PROVE  server[d].tok # e.tok
      BY <1>2
    <3>1. d # c /\ server[d].pc \in Live
      BY <1>2, <2>4
    <3> QED
      BY <1>3, <2>1, <2>2, <2>3, <3>1
  <2>7. \A e, f \in store' : e.tok = f.tok => e = f
    BY <1>3, <2>1, <2>2, <2>3
  <2> QED
    BY <1>1, <1>2, <1>3, <2>5, <2>6, <2>7 DEF Tokens
<1> QED
  BY <1>4, <1>5

LEMMA TaskMovesSaved ==
  ASSUME EstablishInv, NEW c \in Conns, NEW t, TaskMoves(c, t)
  PROVE  Saved'
<1>1. /\ UNCHANGED <<client, file, feedback, failed>>
      /\ server \in [Conns -> Task]
  BY DEF TaskMoves, serverOnly, EstablishInv, TypeOK
<1>2. ASSUME NEW e \in Owed'
      PROVE  \E f \in Owed : f.id = e.id /\ f.tok = e.tok
  <2>1. CASE e \in store
    BY <2>1 DEF Owed
  <2>2. CASE e \in store' /\ e \notin store
    <3>1. /\ server[c].pc = "active"
          /\ e = [id |-> t.id, tok |-> t.tok, gen |-> t.gen, sm |-> "Suspended"]
      BY <2>2 DEF TaskMoves
    <3>2. e.id = server[c].id /\ e.tok = server[c].tok
      BY <3>1 DEF TaskMoves
    <3>3. feedback[c]
      BY <3>1 DEF EstablishInv, ServerPhases
    <3>4. server[c] \in Owed
      BY <3>1, <3>3 DEF Owed
    <3> QED
      BY <3>2, <3>4
  <2>3. CASE e \notin store'
    <3>1. PICK d \in Conns : /\ server'[d].pc \in {"feedback", "active"} /\ feedback[d]
                             /\ e = server'[d]
      BY <1>1, <1>2, <2>3 DEF Owed
    <3>2. server[d].pc \in {"feedback", "active", "over"}
      BY <3>1 DEF EstablishInv, ServerPhases
    <3>3. server[d].pc \in {"feedback", "active"} /\ server[d].id = e.id /\ server[d].tok = e.tok
      BY <1>1, <3>1, <3>2 DEF TaskMoves
    <3>4. server[d] \in Owed
      BY <3>1, <3>3 DEF Owed
    <3> QED
      BY <3>3, <3>4
  <2> QED
    BY <2>1, <2>2, <2>3
<1>3. \A e \in Owed' : e.tok \notin failed => file = [id |-> e.id, tok |-> e.tok]
  BY <1>2 DEF EstablishInv, Saved
<1>4. ASSUME \/ client.pc \in {"save", "write"}
             \/ client.pc \in {"reauthenticate", "resuming"} /\ server'[here].id # None
      PROVE  \A e \in Owed' : e.tok \in failed
  <2>1. here \in Conns
    BY <1>4, HereIsAConnection
  <2>2. server'[here].id = server[here].id
    BY <1>1, <2>1 DEF TaskMoves
  <2>3. \A e \in Owed : e.tok \in failed
    BY <1>4, <2>2 DEF EstablishInv, Saved
  <2> QED
    BY <1>2, <2>3
<1> QED
  BY <1>1, <1>3, <1>4 DEF Saved, here

LEMMA TaskMovesKeep ==
  ASSUME EstablishInv, NEW c \in Conns, NEW t, TaskMoves(c, t)
  PROVE  EstablishInv'
BY TaskMovesType, TaskMovesPhases, TaskMovesQueues, TaskMovesTokens, TaskMovesSaved
   DEF EstablishInv

(***************************************************************************)
(* A task gets a session, fresh or resumed, with a token never drawn       *)
(* before.  If its client is the one that runs now, it is a session of the *)
(* kind that client asked for, and one it resumes is no longer owed.       *)
(***************************************************************************)
SessionBegins(c, t) ==
    /\ t \in Task /\ server' = [server EXCEPT ![c] = t]
    /\ server[c].pc \in {"first", "auth"}
    /\ t.pc = "sync" /\ t.sm = ServerSm("sync", t.resumed)
    /\ t.id # None /\ t.tok = issued /\ issued' = issued + 1
    /\ c = here => /\ t.resumed = client.resumed
                   /\ client.resumed => t.id = client.id
                   /\ client.pc \in {"reauthenticate", "resuming"}
                      => \A e \in Owed' : e.tok \in failed
    /\ store' \subseteq store
    /\ up[c] # <<>> /\ up' = Reads(up, c)
    /\ down' = Writes(down, c, <<AuthResult("Ok", t.id, t.tok)>>)
    /\ UNCHANGED <<instance, open>> /\ UNCHANGED serverOnly

LEMMA SessionBeginsPhases ==
  ASSUME EstablishInv, NEW c \in Conns, NEW t, SessionBegins(c, t)
  PROVE  TypeOK' /\ ClientPhases' /\ ServerPhases' /\ Agreement' /\ RoundsNear'
<1>1. UNCHANGED <<client, file, feedback, runs, failed, instance, open>>
  BY DEF SessionBegins, serverOnly
<1>2. ClientPhases' /\ RoundsNear'
  BY <1>1 DEF EstablishInv, ClientPhases, RoundsNear
<1>3. /\ server \in [Conns -> Task] /\ DOMAIN up = Conns /\ DOMAIN down = Conns
      /\ store \subseteq Suspended /\ issued \in Nat
  BY DEF EstablishInv, TypeOK
<1>4. TypeOK'
  <2>1. server' \in [Conns -> Task] /\ issued' \in Nat /\ store' \subseteq Suspended
    BY <1>3 DEF SessionBegins
  <2>2. DOMAIN up' = Conns /\ DOMAIN down' = Conns
    BY <1>3 DEF SessionBegins, Reads, Writes
  <2> QED
    BY <1>1, <2>1, <2>2 DEF EstablishInv, TypeOK
<1>5. \A d \in Conns : server'[d] = IF d = c THEN t ELSE server[d]
  BY <1>3 DEF SessionBegins
<1>6. \A d \in Conns : d # c => up'[d] = up[d]
  BY <1>3 DEF SessionBegins, Reads
<1>7. server[c].id = None /\ instance[c] = None /\ ~feedback[c] /\ ~(c > runs)
  BY DEF SessionBegins, EstablishInv, ServerPhases, Early
<1>8. ServerPhases'
  <2> SUFFICES ASSUME NEW d \in Conns
               PROVE  /\ server'[d].pc # "over" => server'[d].sm = ServerSm(server'[d].pc, server'[d].resumed)
                      /\ server'[d].pc \in Early => server'[d].id = None /\ ~server'[d].resumed
                      /\ server'[d].pc \in Live => server'[d].id # None
                      /\ instance[d] # None => /\ server'[d].pc \in {"feedback", "active", "over"}
                                               /\ instance[d] = server'[d].gen
                      /\ feedback[d] => instance[d] # None /\ server'[d].id # None
                      /\ server'[d].pc = "active" => feedback[d]
                      /\ d > runs => server'[d].pc = "none" /\ up'[d] = <<>>
    BY <1>1 DEF ServerPhases
  <2>1. CASE d # c
    BY <1>5, <1>6, <2>1 DEF EstablishInv, ServerPhases
  <2>2. CASE d = c
    <3>1. server'[d] = t
      BY <1>5, <2>2
    <3>2. t.pc = "sync" /\ t.sm = ServerSm("sync", t.resumed) /\ t.id # None
      BY DEF SessionBegins
    <3> QED
      BY <1>7, <2>2, <3>1, <3>2 DEF Early
  <2> QED
    BY <2>1, <2>2
<1>9. Agreement'
  <2> SUFFICES ASSUME client.pc # "off"
               PROVE  Agreement'
    BY <1>1 DEF Agreement
  <2>1. here \in Conns
    BY HereIsAConnection
  <2>2. CASE here # c
    BY <1>1, <1>5, <2>1, <2>2 DEF EstablishInv, Agreement, here
  <2>3. CASE here = c
    <3>1. server'[here] = t
      BY <1>5, <2>1, <2>3
    <3>2. client.pc \notin HasResult /\ client.pc # "active"
      BY <1>7, <2>3 DEF EstablishInv, Agreement, HasResult
    <3>3. t.resumed = client.resumed /\ (client.resumed => t.id = client.id)
      BY <2>3 DEF SessionBegins
    <3> QED
      BY <1>1, <1>7, <2>3, <3>1, <3>2, <3>3 DEF Agreement, here
  <2> QED
    BY <2>2, <2>3
<1> QED
  BY <1>2, <1>4, <1>8, <1>9

LEMMA SessionBeginsQueues ==
  ASSUME EstablishInv, NEW c \in Conns, NEW t, SessionBegins(c, t)
  PROVE  Queues'
<1>1. client' = client /\ server \in [Conns -> Task] /\ DOMAIN up = Conns /\ DOMAIN down = Conns
  BY DEF SessionBegins, serverOnly, EstablishInv, TypeOK
<1> SUFFICES ASSUME NEW d \in Conns
             PROVE  up'[d] \in Seq(FromClient(d)') /\ down'[d] \in Seq(FromServer(d)')
  BY DEF Queues
<1>2. FromClient(d)' = FromClient(d)
  BY <1>1, ClientSendsTheSame
<1>3. FromServer(d) \subseteq FromServer(d)'
  <2>1. CASE d # c
    <3>1. server'[d] = server[d]
      BY <1>1, <2>1 DEF SessionBegins
    <3> QED
      BY <3>1 DEF FromServer
  <2>2. CASE d = c
    <3>1. server[d].id = None
      BY <2>2 DEF SessionBegins, EstablishInv, ServerPhases, Early
    <3> QED
      BY <3>1 DEF FromServer
  <2> QED
    BY <2>1, <2>2
<1>4. up[d] \in Seq(FromClient(d)) /\ down[d] \in Seq(FromServer(d))
  BY DEF EstablishInv, Queues
<1>5. up'[d] \in Seq(FromClient(d))
  BY <1>1, <1>4, ReadsTyped DEF SessionBegins
<1>6. down'[d] \in Seq(FromServer(d)')
  <2>1. down[d] \in Seq(FromServer(d)')
    BY <1>3, <1>4, SeqGrows
  <2>2. d = c => AuthResult("Ok", t.id, t.tok) \in FromServer(d)'
    <3>1. server'[c] = t /\ t.id # None
      BY <1>1 DEF SessionBegins
    <3> QED
      BY <3>1 DEF FromServer
  <2>3. d = c => <<AuthResult("Ok", t.id, t.tok)>> \in Seq(FromServer(d)')
    BY <2>2
  <2> QED
    BY <1>1, <2>1, <2>3, WritesTyped DEF SessionBegins
<1> QED
  BY <1>2, <1>5, <1>6

LEMMA SessionBeginsTokens ==
  ASSUME EstablishInv, NEW c \in Conns, NEW t, SessionBegins(c, t)
  PROVE  Tokens' /\ Saved'
<1>1. /\ UNCHANGED <<client, file, feedback, failed>> /\ server \in [Conns -> Task]
      /\ issued \in Nat /\ issued' = issued + 1 /\ store' \subseteq store
      /\ store \subseteq Suspended
  BY DEF SessionBegins, serverOnly, EstablishInv, TypeOK
<1>2. \A d \in Conns : d # c => server'[d] = server[d]
  BY <1>1 DEF SessionBegins
<1>3. server'[c] = t /\ t.tok = issued /\ t.pc = "sync"
  BY <1>1 DEF SessionBegins
<1>4. /\ \A d \in Conns : server[d].id # None => server[d].tok \in Nat /\ server[d].tok < issued
      /\ \A e \in store : e.id # None /\ e.tok \in Nat /\ e.tok < issued
      /\ \A b, d \in Conns : b # d /\ server[b].pc \in Live /\ server[d].pc \in Live
                             => server[b].tok # server[d].tok
      /\ \A d \in Conns, e \in store : server[d].pc \in Live => server[d].tok # e.tok
      /\ \A e, f \in store : e.tok = f.tok => e = f
  BY <1>1 DEF EstablishInv, Tokens, Suspended
<1>5. \A d \in Conns : server[d].pc \in Live => server[d].id # None
  BY DEF EstablishInv, ServerPhases
<1>6. Tokens'
  <2>1. \A d \in Conns : server'[d].id # None => server'[d].tok \in Nat /\ server'[d].tok < issued'
    BY <1>1, <1>2, <1>3, <1>4
  <2>2. \A e \in store' : e.id # None /\ e.tok < issued'
    BY <1>1, <1>4
  <2>3. \A b, d \in Conns : b # d /\ server'[b].pc \in Live /\ server'[d].pc \in Live
                            => server'[b].tok # server'[d].tok
    <3> SUFFICES ASSUME NEW b \in Conns, NEW d \in Conns, b # d,
                        server'[b].pc \in Live, server'[d].pc \in Live
                 PROVE  server'[b].tok # server'[d].tok
      OBVIOUS
    <3>1. CASE b = c
      BY <1>1, <1>2, <1>3, <1>4, <1>5, <3>1
    <3>2. CASE d = c
      BY <1>1, <1>2, <1>3, <1>4, <1>5, <3>2
    <3>3. CASE b # c /\ d # c
      BY <1>2, <1>4, <3>3
    <3> QED
      BY <3>1, <3>2, <3>3
  <2>4. \A d \in Conns, e \in store' : server'[d].pc \in Live => server'[d].tok # e.tok
    <3> SUFFICES ASSUME NEW d \in Conns, NEW e \in store', server'[d].pc \in Live
                 PROVE  server'[d].tok # e.tok
      OBVIOUS
    <3>1. e \in store /\ e.tok \in Nat /\ e.tok < issued
      BY <1>1, <1>4
    <3>2. CASE d = c
      BY <1>1, <1>3, <3>1, <3>2
    <3>3. CASE d # c
      BY <1>2, <1>4, <3>1, <3>3
    <3> QED
      BY <3>2, <3>3
  <2>5. \A e, f \in store' : e.tok = f.tok => e = f
    BY <1>1, <1>4
  <2> QED
    BY <2>1, <2>2, <2>3, <2>4, <2>5 DEF Tokens
<1>7. Owed' \subseteq Owed
  <2> SUFFICES ASSUME NEW e \in Owed', e \notin store'
               PROVE  e \in Owed
    BY <1>1 DEF Owed
  <2>1. PICK d \in Conns : /\ server'[d].pc \in {"feedback", "active"} /\ feedback[d]
                           /\ e = server'[d]
    BY <1>1 DEF Owed
  <2>2. d # c
    BY <1>3, <2>1
  <2> QED
    BY <1>2, <2>1, <2>2 DEF Owed
<1>8. ASSUME \/ client.pc \in {"save", "write"}
             \/ client.pc \in {"reauthenticate", "resuming"} /\ server'[here].id # None
      PROVE  \A e \in Owed' : e.tok \in failed
  <2>1. here \in Conns
    BY <1>8, HereIsAConnection
  <2>2. CASE here # c
    <3>1. server'[here] = server[here]
      BY <1>2, <2>1, <2>2
    <3>2. \A e \in Owed : e.tok \in failed
      BY <1>8, <3>1 DEF EstablishInv, Saved
    <3> QED
      BY <1>7, <3>2
  <2>3. CASE here = c
    <3>1. server[c].id = None
      BY DEF SessionBegins, EstablishInv, ServerPhases, Early
    <3>2. client.pc \notin {"save", "write"}
      BY <2>3, <3>1 DEF EstablishInv, Agreement, HasResult
    <3> QED
      BY <1>8, <2>3, <3>2 DEF SessionBegins
  <2> QED
    BY <2>2, <2>3
<1>9. Saved'
  <2>1. \A e \in Owed' : e.tok \notin failed => file = [id |-> e.id, tok |-> e.tok]
    BY <1>7 DEF EstablishInv, Saved
  <2> QED
    BY <1>1, <1>8, <2>1 DEF Saved, here
<1> QED
  BY <1>6, <1>9

LEMMA SessionBeginsKeep ==
  ASSUME EstablishInv, NEW c \in Conns, NEW t, SessionBegins(c, t)
  PROVE  EstablishInv'
BY SessionBeginsPhases, SessionBeginsQueues, SessionBeginsTokens DEF EstablishInv

LEMMA TaskFacts ==
  ASSUME EstablishInv, NEW c \in Conns
  PROVE  /\ server[c] \in Task /\ server \in [Conns -> Task] /\ open \in [Conns -> BOOLEAN]
         /\ [open EXCEPT ![c] = FALSE] \in [Conns -> BOOLEAN]
         /\ server[c].pc # "over" => server[c].sm = ServerSm(server[c].pc, server[c].resumed)
BY DEF EstablishInv, TypeOK, ServerPhases

(* The task ends: nothing but its pc, the wire and the store may change.   *)
LEMMA EndingMoves ==
  ASSUME EstablishInv, NEW c \in Conns, server[c].pc \notin {"none", "over"},
         server' = [server EXCEPT ![c].pc = "over"],
         open' \in [Conns -> BOOLEAN],
         UNCHANGED <<instance, issued>>, UNCHANGED serverOnly,
         store' = store
         \/ /\ server[c].pc = "active"
            /\ store' = store \cup {[id |-> server[c].id, tok |-> server[c].tok,
                                     gen |-> server[c].gen, sm |-> "Suspended"]},
         up' = up \/ (up[c] # <<>> /\ up' = Reads(up, c)),
         down' = down \/ \E m \in FromServer(c) : down' = Writes(down, c, <<m>>)
  PROVE  EstablishInv'
<1> DEFINE t == [server[c] EXCEPT !.pc = "over"]
<1>1. server' = [server EXCEPT ![c] = t]
  OBVIOUS
<1>2. /\ t \in Task /\ t.pc = "over" /\ t.id = server[c].id /\ t.tok = server[c].tok
      /\ t.gen = server[c].gen /\ t.resumed = server[c].resumed
  <2>1. server[c] \in Task
    BY TaskFacts
  <2> QED
    BY <2>1 DEF Task, ServerPc
<1> HIDE DEF t
<1>3. TaskMoves(c, t)
  BY <1>1, <1>2 DEF TaskMoves, Live, Early
<1> QED
  BY <1>3, TaskMovesKeep

LEMMA FirstIsSent ==
  ASSUME EstablishInv, NEW c \in Conns, up[c] # <<>>
  PROVE  First(c) \in FromClient(c)
<1>1. up[c] \in Seq(FromClient(c))
  BY DEF EstablishInv, Queues
<1> QED
  BY <1>1, HeadTailProperties DEF First

LEMMA AcceptsControlKeeps ==
  ASSUME EstablishInv, NEW c \in Conns, AcceptsControl(c)
  PROVE  EstablishInv'
<1> DEFINE t == [server[c] EXCEPT !.pc = "first"]
<1>1. /\ t \in Task /\ t.pc = "first" /\ t.id = server[c].id /\ t.tok = server[c].tok
      /\ t.gen = server[c].gen /\ t.resumed = server[c].resumed /\ t.sm = server[c].sm
  <2>1. server[c] \in Task
    BY TaskFacts
  <2> QED
    BY <2>1 DEF Task, ServerPc
<1>2. server[c].pc = "control" /\ server' = [server EXCEPT ![c] = t]
  BY DEF AcceptsControl
<1> HIDE DEF t
<1>3. t.sm = ServerSm(t.pc, t.resumed)
  BY <1>1, <1>2, TaskFacts DEF ServerSm
<1>4. TaskMoves(c, t)
  BY <1>1, <1>2, <1>3, TaskFacts DEF AcceptsControl, TaskMoves, Live, Early
<1> QED
  BY <1>4, TaskMovesKeep

LEMMA GetsClientHelloKeeps ==
  ASSUME EstablishInv, NEW c \in Conns, GetsClientHello(c)
  PROVE  EstablishInv'
<1> DEFINE t == [server[c] EXCEPT !.pc = "auth", !.sm = complete_handshake(@)]
<1>1. server[c].pc = "first" /\ server' = [server EXCEPT ![c] = t]
  BY TaskFacts DEF GetsClientHello
<1>2. complete_handshake(server[c].sm) = "Authenticating"
  BY <1>1, TaskFacts DEF ServerSm, complete_handshake, Moves
<1>3. /\ t \in Task /\ t.pc = "auth" /\ t.id = server[c].id /\ t.tok = server[c].tok
      /\ t.gen = server[c].gen /\ t.resumed = server[c].resumed /\ t.sm = "Authenticating"
  <2>1. server[c] \in Task
    BY TaskFacts
  <2>2. t = [server[c] EXCEPT !.pc = "auth", !.sm = "Authenticating"]
    BY <1>2
  <2>3. "auth" \in ServerPc /\ "Authenticating" \in State
    BY DEF ServerPc, State
  <2> HIDE DEF t
  <2> QED
    BY <2>1, <2>2, <2>3 DEF Task
<1> HIDE DEF t
<1>4. t.sm = ServerSm(t.pc, t.resumed)
  BY <1>3 DEF ServerSm
<1>5. ServerHello(c) \in FromServer(c)
  BY DEF FromServer
<1>6. TaskMoves(c, t)
  BY <1>1, <1>3, <1>4, <1>5, TaskFacts DEF GetsClientHello, TaskMoves, Live, Early
<1> QED
  BY <1>6, TaskMovesKeep

LEMMA AnswersTimeSyncKeeps ==
  ASSUME EstablishInv, NEW c \in Conns, AnswersTimeSync(c)
  PROVE  EstablishInv'
<1> DEFINE p == IF server[c].pc = "active" THEN "active" ELSE "gap"
           t == [server[c] EXCEPT !.pc = p]
<1>1. server[c].pc \in {"sync", "gap", "active"} /\ server' = [server EXCEPT ![c] = t]
  BY TaskFacts DEF AnswersTimeSync
<1>2. /\ t \in Task /\ t.pc = p /\ t.id = server[c].id /\ t.tok = server[c].tok
      /\ t.gen = server[c].gen /\ t.resumed = server[c].resumed /\ t.sm = server[c].sm
  <2>1. server[c] \in Task
    BY TaskFacts
  <2> QED
    BY <2>1 DEF Task, ServerPc
<1> HIDE DEF t
<1>3. t.sm = ServerSm(t.pc, t.resumed)
  BY <1>1, <1>2, TaskFacts DEF ServerSm
<1>4. \E m \in FromServer(c) : down' = Writes(down, c, <<m>>)
  <2>1. PICK delay \in Delays, took \in Processing :
            down' = Writes(down, c, <<TimeSyncResponse(delay + ClockOffset,
                                                       delay + ClockOffset + took)>>)
    BY DEF AnswersTimeSync
  <2>2. TimeSyncResponse(delay + ClockOffset, delay + ClockOffset + took) \in FromServer(c)
    BY DEF FromServer, Responses
  <2> QED
    BY <2>1, <2>2
<1>5. t.pc = "active" => feedback[c]
  BY <1>1, <1>2 DEF EstablishInv, ServerPhases
<1>6. UNCHANGED <<store, instance, open, issued>> /\ UNCHANGED serverOnly
      /\ up[c] # <<>> /\ up' = Reads(up, c)
  BY DEF AnswersTimeSync
<1>7. TaskMoves(c, t)
  BY <1>1, <1>2, <1>3, <1>4, <1>5, <1>6, TaskFacts DEF TaskMoves, Live, Early
<1> QED
  BY <1>7, TaskMovesKeep

LEMMA GapElapsesKeeps ==
  ASSUME EstablishInv, NEW c \in Conns, GapElapses(c)
  PROVE  EstablishInv'
<1> DEFINE t == [server[c] EXCEPT !.pc = "opening"]
<1>1. /\ t \in Task /\ t.pc = "opening" /\ t.id = server[c].id /\ t.tok = server[c].tok
      /\ t.gen = server[c].gen /\ t.resumed = server[c].resumed /\ t.sm = server[c].sm
  <2>1. server[c] \in Task
    BY TaskFacts
  <2> QED
    BY <2>1 DEF Task, ServerPc
<1>2. server[c].pc = "gap" /\ server' = [server EXCEPT ![c] = t]
  BY DEF GapElapses
<1> HIDE DEF t
<1>3. t.sm = ServerSm(t.pc, t.resumed)
  BY <1>1, <1>2, TaskFacts DEF ServerSm
<1>4. TaskMoves(c, t)
  BY <1>1, <1>2, <1>3, TaskFacts DEF GapElapses, wire, TaskMoves, Live, Early
<1> QED
  BY <1>4, TaskMovesKeep

LEMMA OpensInstanceKeeps ==
  ASSUME EstablishInv, NEW c \in Conns, OpensInstance(c)
  PROVE  EstablishInv'
<1> DEFINE s == IF server[c].resumed THEN server[c].sm ELSE on_channel_live(server[c].sm)
           t == [server[c] EXCEPT !.pc = "feedback", !.sm = s]
<1>1. server[c].pc = "opening" /\ server' = [server EXCEPT ![c] = t]
  BY TaskFacts DEF OpensInstance
<1>2. s = "Active"
  BY <1>1, TaskFacts DEF ServerSm, on_channel_live, Moves
<1>3. /\ t \in Task /\ t.pc = "feedback" /\ t.id = server[c].id /\ t.tok = server[c].tok
      /\ t.gen = server[c].gen /\ t.resumed = server[c].resumed /\ t.sm = "Active"
  <2>1. server[c] \in Task
    BY TaskFacts
  <2>2. t = [server[c] EXCEPT !.pc = "feedback", !.sm = "Active"]
    BY <1>2
  <2>3. "feedback" \in ServerPc /\ "Active" \in State
    BY DEF ServerPc, State
  <2> HIDE DEF t, s
  <2> QED
    BY <2>1, <2>2, <2>3 DEF Task
<1> HIDE DEF t, s
<1>4. t.sm = ServerSm(t.pc, t.resumed)
  BY <1>3 DEF ServerSm
<1>5. \E v \in {None, server[c].gen} : instance' = [instance EXCEPT ![c] = v]
  BY DEF OpensInstance
<1>6. UNCHANGED <<store, up, down, open, issued>> /\ UNCHANGED serverOnly
  BY DEF OpensInstance
<1>7. TaskMoves(c, t)
  BY <1>1, <1>3, <1>4, <1>5, <1>6, TaskFacts DEF TaskMoves, Live, Early
<1> QED
  BY <1>7, TaskMovesKeep

LEMMA AcceptsFeedbackKeeps ==
  ASSUME EstablishInv, NEW c \in Conns, AcceptsFeedback(c)
  PROVE  EstablishInv'
<1> DEFINE t == [server[c] EXCEPT !.pc = "active"]
<1>1. /\ t \in Task /\ t.pc = "active" /\ t.id = server[c].id /\ t.tok = server[c].tok
      /\ t.gen = server[c].gen /\ t.resumed = server[c].resumed /\ t.sm = server[c].sm
  <2>1. server[c] \in Task
    BY TaskFacts
  <2> QED
    BY <2>1 DEF Task, ServerPc
<1>2. server[c].pc = "feedback" /\ server' = [server EXCEPT ![c] = t] /\ feedback[c]
  BY DEF AcceptsFeedback
<1> HIDE DEF t
<1>3. t.sm = ServerSm(t.pc, t.resumed)
  BY <1>1, <1>2, TaskFacts DEF ServerSm
<1>4. TaskMoves(c, t)
  BY <1>1, <1>2, <1>3, TaskFacts DEF AcceptsFeedback, wire, TaskMoves, Live, Early
<1> QED
  BY <1>4, TaskMovesKeep

LEMMA EndsTaskKeeps ==
  ASSUME EstablishInv, NEW c \in Conns, server[c].pc \notin {"none", "over"},
         EndsTask(c), UNCHANGED serverOnly
  PROVE  EstablishInv'
<1>1. /\ server' = [server EXCEPT ![c].pc = "over"]
      /\ open' \in [Conns -> BOOLEAN]
      /\ UNCHANGED <<store, up, down, instance, issued>>
  BY TaskFacts DEF EndsTask, Over
<1> QED
  BY <1>1, EndingMoves

LEMMA NoticesLossKeeps ==
  ASSUME EstablishInv, NEW c \in Conns, NoticesLoss(c)
  PROVE  EstablishInv'
<1>1. /\ server[c].pc \notin {"none", "over"}
      /\ server' = [server EXCEPT ![c].pc = "over"]
      /\ UNCHANGED <<up, down, instance, open, issued>> /\ UNCHANGED serverOnly
  BY DEF NoticesLoss, wire
<1>2. server[c].pc = "active" => suspend(server[c].sm) = "Suspended"
  BY TaskFacts DEF ServerSm, suspend, Moves
<1>3. \/ store' = store
      \/ /\ server[c].pc = "active"
         /\ store' = store \cup {[id |-> server[c].id, tok |-> server[c].tok,
                                  gen |-> server[c].gen, sm |-> "Suspended"]}
  BY <1>2 DEF NoticesLoss, SuspendsFrom
<1> QED
  BY <1>1, <1>3, TaskFacts, EndingMoves

LEMMA GetsAuthPubkeyKeeps ==
  ASSUME EstablishInv, NEW c \in Conns, GetsAuthPubkey(c)
  PROVE  EstablishInv'
<1> DEFINE exporter == compute_exporter(c, channel_binding_context(ClientHello, ServerHello(c)))
           Verified == First(c).public_key = Trusted
                       /\ verify_exporter(First(c).public_key, exporter, First(c).signature)
<1>1. server[c].pc = "auth" /\ up[c] # <<>> /\ UNCHANGED serverOnly
  BY DEF GetsAuthPubkey
<1>2. CASE ~check_message(server[c].sm, First(c).type)
  BY <1>1, <1>2, EndsTaskKeeps DEF GetsAuthPubkey
<1>3. CASE check_message(server[c].sm, First(c).type) /\ ~Verified
  <2>1. /\ up' = Reads(up, c) /\ UNCHANGED <<store, instance, issued>>
        /\ down' = Writes(down, c, <<AuthResult("Denied", None, None)>>)
        /\ Over(c)
    BY <1>3 DEF GetsAuthPubkey
  <2>2. AuthResult("Denied", None, None) \in FromServer(c)
    BY DEF FromServer
  <2> QED
    BY <1>1, <2>1, <2>2, TaskFacts, EndingMoves DEF Over
<1>4. CASE check_message(server[c].sm, First(c).type) /\ Verified
  <2> DEFINE t == [server[c] EXCEPT !.pc = "sync", !.id = c, !.tok = issued,
                                    !.sm = complete_authentication(@)]
  <2>1. /\ up' = Reads(up, c) /\ UNCHANGED <<store, instance, open>> /\ issued' = issued + 1
        /\ down' = Writes(down, c, <<AuthResult("Ok", c, issued)>>)
        /\ server' = [server EXCEPT ![c].pc = "sync", ![c].id = c, ![c].tok = issued,
                                    ![c].sm = complete_authentication(@)]
    BY <1>4 DEF GetsAuthPubkey
  <2>2. server' = [server EXCEPT ![c] = t]
    BY <2>1, TaskFacts
  <2>3. server[c].sm = "Authenticating" /\ ~server[c].resumed
    BY <1>1, TaskFacts DEF ServerSm, EstablishInv, ServerPhases, Early
  <2>4. complete_authentication(server[c].sm) = "Authenticated"
    BY <2>3 DEF complete_authentication, Moves
  <2>5. t = [server[c] EXCEPT !.pc = "sync", !.id = c, !.tok = issued, !.sm = "Authenticated"]
    BY <2>4
  <2>6. c \in Int /\ c # None /\ issued \in Int
    BY ConnsFacts DEF EstablishInv, TypeOK
  <2> HIDE DEF t
  <2>7. t \in Task /\ t.pc = "sync" /\ t.id = c /\ t.tok = issued /\ t.sm = "Authenticated"
        /\ t.resumed = server[c].resumed
    BY <2>5, <2>6, TaskFacts DEF Task, ServerPc, State
  <2>8. t.sm = ServerSm("sync", t.resumed)
    BY <2>3, <2>7 DEF ServerSm
  <2>9. First(c).type = "AUTH_PUBKEY"
    BY <1>4, <2>3 DEF check_message
  <2>10. c = here => ~client.resumed
    BY <1>1, <2>9, FirstIsSent, ClientSent
  <2>11. c = here => client.pc \notin {"reauthenticate", "resuming"}
    BY <2>10 DEF EstablishInv, ClientPhases
  <2>12. client.resumed \in BOOLEAN
    BY ClientFields DEF EstablishInv
  <2>13. c = here => t.resumed = client.resumed
    BY <2>3, <2>7, <2>10, <2>12, TaskFacts DEF Task
  <2>14. SessionBegins(c, t)
    BY <1>1, <2>1, <2>2, <2>6, <2>7, <2>8, <2>10, <2>11, <2>13 DEF SessionBegins
  <2> QED
    BY <2>14, SessionBeginsKeep
<1> QED
  BY <1>2, <1>3, <1>4

LEMMA GetsReauthenticateKeeps ==
  ASSUME EstablishInv, NEW c \in Conns, GetsReauthenticate(c)
  PROVE  EstablishInv'
<1> DEFINE match == {e \in store : e.id = First(c).prior_session_id
                                   /\ e.tok = First(c).reconnect_token}
<1>1. /\ server[c].pc = "first" /\ up[c] # <<>> /\ First(c).type = "SESSION_REAUTHENTICATE"
      /\ up' = Reads(up, c) /\ UNCHANGED instance /\ UNCHANGED serverOnly
  BY DEF GetsReauthenticate
<1>2. CASE match = {}
  <2>1. /\ UNCHANGED <<store, issued>>
        /\ down' = Writes(down, c, <<AuthResult("Denied", None, None)>>)
        /\ Over(c)
    BY <1>2 DEF GetsReauthenticate
  <2>2. AuthResult("Denied", None, None) \in FromServer(c)
    BY DEF FromServer
  <2> QED
    BY <1>1, <2>1, <2>2, TaskFacts, EndingMoves DEF Over
<1>3. CASE match # {}
  <2>1. PICK e \in match :
            /\ store' = store \ {e}
            /\ down' = Writes(down, c, <<ResumeResult(e, issued)>>)
            /\ server' = [server EXCEPT ![c] = [pc |-> "sync", sm |-> resume(e.sm), id |-> e.id,
                              tok |-> issued, gen |-> e.gen + 1, resumed |-> TRUE]]
            /\ issued' = issued + 1
            /\ UNCHANGED open
    BY <1>3 DEF GetsReauthenticate
  <2> DEFINE t == [pc |-> "sync", sm |-> resume(e.sm), id |-> e.id, tok |-> issued,
                   gen |-> e.gen + 1, resumed |-> TRUE]
  <2>2. e \in store /\ e \in Suspended /\ issued \in Nat /\ store \subseteq Suspended
    BY DEF EstablishInv, TypeOK
  <2>3. e.id \in Int /\ e.gen \in Int /\ resume(e.sm) = "Active"
    BY <2>2 DEF Suspended, resume, Moves
  <2>4. e.id # None
    BY <2>2 DEF EstablishInv, Tokens
  <2>5. t \in Task
    BY <2>2, <2>3 DEF Task, ServerPc, State
  <2>6. t.pc = "sync" /\ t.id = e.id /\ t.tok = issued /\ t.resumed = TRUE
        /\ t.sm = ServerSm("sync", t.resumed)
    BY <2>3 DEF ServerSm
  <2>7. server' = [server EXCEPT ![c] = t]
    BY <2>1
  <2>8. server' = [d \in Conns |-> IF d = c THEN t ELSE server[d]]
    BY <2>7, TaskFacts
  <2> HIDE DEF t
  <2>9. c = here => client.resumed = TRUE /\ First(c) \in OwnResume
    <3>1. c = here => client.resumed /\ First(c) \in OwnResume
      BY <1>1, FirstIsSent, ClientSent
    <3> QED
      BY <3>1, ClientFields DEF EstablishInv
  <2>10. c = here => t.id = client.id
    BY <2>6, <2>9 DEF OwnResume
  <2>11. ASSUME c = here, client.pc \in {"reauthenticate", "resuming"}, NEW f \in Owed'
         PROVE  f.tok \in failed
    <3>1. e.tok = client.tok
      BY <2>9, <2>11 DEF OwnResume
    <3>2. file = [id |-> client.id, tok |-> client.tok]
      BY <2>11 DEF EstablishInv, ClientPhases
    <3>3. feedback' = feedback
      BY <1>1 DEF serverOnly
    <3>4. CASE f \in store'
      <4>1. f \in Owed /\ f \in store /\ f # e
        BY <2>1, <3>4 DEF Owed
      <4>2. f.tok # e.tok
        BY <2>2, <4>1 DEF EstablishInv, Tokens
      <4>3. f.tok \notin failed => file = [id |-> f.id, tok |-> f.tok]
        BY <4>1 DEF EstablishInv, Saved
      <4> QED
        BY <3>1, <3>2, <4>2, <4>3
    <3>5. CASE f \notin store'
      <4>1. PICK d \in Conns : /\ server'[d].pc \in {"feedback", "active"} /\ feedback[d]
                               /\ f = server'[d]
        BY <2>11, <3>3, <3>5 DEF Owed
      <4>2. d # c
        BY <2>6, <2>8, <4>1
      <4>3. f = server[d] /\ server[d].pc \in {"feedback", "active"} /\ feedback[d]
        BY <2>8, <4>1, <4>2
      <4>4. f \in Owed /\ server[d].pc \in Live
        BY <4>3 DEF Owed, Live
      <4>5. f.tok # e.tok
        BY <2>2, <4>3, <4>4 DEF EstablishInv, Tokens
      <4>6. f.tok \notin failed => file = [id |-> f.id, tok |-> f.tok]
        BY <4>4 DEF EstablishInv, Saved
      <4> QED
        BY <3>1, <3>2, <4>5, <4>6
    <3> QED
      BY <3>4, <3>5
  <2>12. ResumeResult(e, issued) = AuthResult("Ok", t.id, t.tok)
    BY <2>6 DEF ResumeResult
  <2>13. SessionBegins(c, t)
    BY <1>1, <2>1, <2>4, <2>5, <2>6, <2>7, <2>9, <2>10, <2>11, <2>12 DEF SessionBegins
  <2> QED
    BY <2>13, SessionBeginsKeep
<1> QED
  BY <1>2, <1>3

LEMMA ServerStepKeeps ==
  ASSUME EstablishInv, NEW c \in Conns, ServerStep(c)
  PROVE  EstablishInv'
<1>1. CASE AcceptsControl(c)
  BY <1>1, AcceptsControlKeeps
<1>2. CASE GetsClientHello(c)
  BY <1>2, GetsClientHelloKeeps
<1>3. CASE GetsAuthPubkey(c)
  BY <1>3, GetsAuthPubkeyKeeps
<1>4. CASE GetsReauthenticate(c)
  BY <1>4, GetsReauthenticateKeeps
<1>5. CASE AnswersTimeSync(c)
  BY <1>5, AnswersTimeSyncKeeps
<1>6. CASE GapElapses(c)
  BY <1>6, GapElapsesKeeps
<1>7. CASE OpensInstance(c)
  BY <1>7, OpensInstanceKeeps
<1>8. CASE AcceptsFeedback(c)
  BY <1>8, AcceptsFeedbackKeeps
<1>9. CASE ServerFails(c)
  BY <1>9, EndsTaskKeeps DEF ServerFails
<1>10. CASE GetsSessionClose(c)
  BY <1>10, EndsTaskKeeps DEF GetsSessionClose
<1>11. CASE NoticesLoss(c)
  BY <1>11, NoticesLossKeeps
<1> QED
  BY <1>1, <1>2, <1>3, <1>4, <1>5, <1>6, <1>7, <1>8, <1>9, <1>10, <1>11 DEF ServerStep

-----------------------------------------------------------------------------
(* The client *)

(***************************************************************************)
(* The client goes on, on its connection.  What it writes, it may write in *)
(* its new state.                                                          *)
(***************************************************************************)
ClientMoves ==
    /\ client' \in Process /\ client.pc # "off" /\ client'.pc # "off"
    /\ client'.conn = client.conn /\ client'.resumed = client.resumed
    /\ client.resumed => client'.id = client.id
    /\ client'.pc \in {"reauthenticate", "resuming"}
       => client.pc \in {"reauthenticate", "resuming"} /\ client'.tok = client.tok
    /\ client'.sm = ClientSm(client'.pc, client'.resumed)
    /\ client'.pc \in HasResult
       => /\ server[here].id # None
          /\ client'.id = server[here].id /\ client'.tok = server[here].tok
    /\ client'.pc = "active" => instance[here] # None /\ client'.gen = instance[here]
    /\ client.pc # "active"
    /\ file' \in SavedSession /\ failed' \subseteq Int /\ open' = open
    /\ up' = up \/ \E messages \in Seq(FromClient(here)') : up' = Writes(up, here, messages)
    /\ down' = down \/ (down[here] # <<>> /\ down' = Reads(down, here))
    /\ \/ feedback' = feedback
       \/ client'.pc = "active" /\ feedback' = [feedback EXCEPT ![here] = open[here]]
    /\ UNCHANGED clientOnly

LEMMA ClientMovesPhases ==
  ASSUME EstablishInv, ClientMoves
  PROVE  TypeOK' /\ ServerPhases' /\ Agreement'
<1>1. here \in Conns /\ here' = here /\ here = runs
  BY HereIsAConnection DEF ClientMoves, here
<1>2. UNCHANGED <<server, store, instance, runs, issued, open>>
  BY DEF ClientMoves, clientOnly
<1>3. /\ DOMAIN up = Conns /\ DOMAIN down = Conns /\ feedback \in [Conns -> BOOLEAN]
      /\ open \in [Conns -> BOOLEAN]
  BY DEF EstablishInv, TypeOK
<1>4. DOMAIN up' = Conns /\ DOMAIN down' = Conns
  BY <1>3 DEF ClientMoves, Reads, Writes
<1>5. feedback' \in [Conns -> BOOLEAN]
  BY <1>1, <1>3 DEF ClientMoves
<1>6. TypeOK'
  BY <1>2, <1>4, <1>5 DEF EstablishInv, TypeOK, ClientMoves
<1>7. \A c \in Conns : c # here => up'[c] = up[c] /\ feedback'[c] = feedback[c]
  BY <1>3 DEF ClientMoves, Writes
<1>8. ~feedback[here] /\ server[here].pc # "active"
  BY <1>1 DEF EstablishInv, Agreement, ServerPhases, ClientMoves
<1>9. feedback'[here] => client'.pc = "active" /\ instance[here] # None /\ server[here].id # None
  BY <1>8 DEF ClientMoves, HasResult
<1>10. ServerPhases'
  <2> SUFFICES ASSUME NEW c \in Conns
               PROVE  /\ feedback'[c] => instance[c] # None /\ server[c].id # None
                      /\ server[c].pc = "active" => feedback'[c]
                      /\ c > runs => up'[c] = <<>>
    BY <1>2 DEF EstablishInv, ServerPhases
  <2>1. CASE c # here
    BY <1>7, <2>1 DEF EstablishInv, ServerPhases
  <2>2. CASE c = here
    <3>1. ~(c > runs)
      BY <1>1, <2>2, ConnsFacts
    <3> QED
      BY <1>8, <1>9, <2>2, <3>1
  <2> QED
    BY <2>1, <2>2
<1>11. Agreement'
  <2>1. /\ server[here].id # None
           => /\ server[here].resumed = client.resumed
              /\ client.resumed => server[here].id = client.id
    BY DEF EstablishInv, Agreement, ClientMoves
  <2> QED
    BY <1>1, <1>2, <1>9, <2>1 DEF Agreement, ClientMoves
<1> QED
  BY <1>6, <1>10, <1>11

LEMMA ClientMovesQueues ==
  ASSUME EstablishInv, ClientMoves
  PROVE  Queues'
<1>1. here \in Conns /\ here' = here
  BY HereIsAConnection DEF ClientMoves, here
<1>2. server' = server /\ DOMAIN up = Conns /\ DOMAIN down = Conns
  BY DEF ClientMoves, clientOnly, EstablishInv, TypeOK
<1> SUFFICES ASSUME NEW d \in Conns
             PROVE  up'[d] \in Seq(FromClient(d)') /\ down'[d] \in Seq(FromServer(d)')
  BY DEF Queues
<1>3. OwnResume \subseteq OwnResume' \/ ~client.resumed
  BY DEF OwnResume, ClientMoves
<1>4. FromClient(d) \subseteq FromClient(d)'
  BY <1>1, <1>3 DEF FromClient, ClientMoves
<1>5. FromServer(d)' = FromServer(d)
  BY <1>2 DEF FromServer
<1>6. up[d] \in Seq(FromClient(d)) /\ down[d] \in Seq(FromServer(d))
  BY DEF EstablishInv, Queues
<1>7. up[d] \in Seq(FromClient(d)')
  BY <1>4, <1>6, SeqGrows
<1>8. up'[d] \in Seq(FromClient(d)')
  <2>1. CASE up' = up
    BY <1>7, <2>1
  <2>2. CASE up' # up
    <3>1. PICK messages \in Seq(FromClient(here)') : up' = Writes(up, here, messages)
      BY <2>2 DEF ClientMoves
    <3>2. d = here => messages \in Seq(FromClient(d)')
      BY <1>1, <3>1 DEF FromClient, FreshMessages, OwnResume
    <3> QED
      BY <1>1, <1>2, <1>7, <3>1, <3>2, WritesTyped
  <2> QED
    BY <2>1, <2>2
<1>9. down'[d] \in Seq(FromServer(d))
  <2>1. CASE down' = down
    BY <1>6, <2>1
  <2>2. CASE down[here] # <<>> /\ down' = Reads(down, here)
    BY <1>1, <1>2, <1>6, <2>2, ReadsTyped
  <2> QED
    BY <2>1, <2>2 DEF ClientMoves
<1> QED
  BY <1>5, <1>8, <1>9

LEMMA ClientMovesKeep ==
  ASSUME EstablishInv, ClientMoves, ClientPhases', Saved', RoundsNear'
  PROVE  EstablishInv'
<1>1. Tokens'
  BY DEF EstablishInv, Tokens, ClientMoves, clientOnly
<1> QED
  BY <1>1, ClientMovesPhases, ClientMovesQueues DEF EstablishInv

(* Nothing is owed that was not, and the client starts no touching.        *)
LEMMA SavedStays ==
  ASSUME EstablishInv,
         UNCHANGED <<server, store, feedback, file, failed>>,
         \/ client'.pc \in {"save", "write"}
         \/ client'.pc \in {"reauthenticate", "resuming"} /\ server[client'.conn].id # None
         => \A e \in Owed : e.tok \in failed
  PROVE  Saved'
<1>1. Owed' = Owed
  BY DEF Owed
<1> QED
  BY <1>1 DEF EstablishInv, Saved, here

LEMMA OffFields ==
  /\ Off \in Process /\ Off.pc = "off" /\ Off.conn = 0 /\ Off.sm = "Handshaking"
  /\ Off.resumed = FALSE /\ Off.rounds = <<>>
<1>1. Trusted \in Keys /\ None \in Int
  BY EstablishAssumption, ConnsFacts
<1>2. <<>> \in Seq(Round)
  OBVIOUS
<1>3. Off \in Process
  BY <1>1, <1>2 DEF Off, Process, ClientPc, State
<1> QED
  BY <1>3 DEF Off

(* The process ends, whatever it did: its connection's queues may hold     *)
(* what any client may have sent.                                          *)
LEMMA ExitKeeps ==
  ASSUME EstablishInv, client.pc # "off", client' = Off,
         open' = [open EXCEPT ![here] = FALSE],
         UNCHANGED <<down, feedback, file, failed>>, UNCHANGED clientOnly,
         up' = up \/ up' = Writes(up, here, <<SessionClose>>)
  PROVE  EstablishInv'
<1>1. here \in Conns /\ here = runs /\ here' = 0
  BY HereIsAConnection, OffFields DEF here
<1>2. UNCHANGED <<server, store, instance, runs, issued>>
  BY DEF clientOnly
<1>3. DOMAIN up = Conns /\ DOMAIN down = Conns /\ open \in [Conns -> BOOLEAN]
  BY DEF EstablishInv, TypeOK
<1>4. client'.pc = "off" /\ client'.conn = 0 /\ client'.sm = "Handshaking"
      /\ client'.resumed = FALSE /\ client'.rounds = <<>> /\ client' \in Process
  BY OffFields
<1>5. TypeOK'
  <2>1. DOMAIN up' = Conns
    BY <1>3 DEF Writes
  <2>2. open' \in [Conns -> BOOLEAN]
    BY <1>3
  <2> QED
    BY <1>2, <1>4, <2>1, <2>2 DEF EstablishInv, TypeOK
<1>6. ClientPhases'
  BY <1>4 DEF ClientPhases, ClientSm, HasResult
<1>7. ServerPhases'
  <2>1. \A c \in Conns : c > runs => up'[c] = up[c]
    BY <1>1, <1>3, ConnsFacts DEF Writes
  <2> QED
    BY <1>2, <2>1 DEF EstablishInv, ServerPhases
<1>8. Agreement'
  BY <1>4 DEF Agreement
<1>9. Queues'
  <2> SUFFICES ASSUME NEW d \in Conns
               PROVE  up'[d] \in Seq(FromClient(d)') /\ down[d] \in Seq(FromServer(d)')
    BY DEF Queues
  <2>1. d # here'
    BY <1>1, ConnsFacts
  <2>2. FromClient(d) \subseteq FromClient(d)'
    BY <2>1 DEF FromClient, OwnResume
  <2>3. FromServer(d)' = FromServer(d)
    BY <1>2 DEF FromServer
  <2>4. up[d] \in Seq(FromClient(d)) /\ down[d] \in Seq(FromServer(d))
    BY DEF EstablishInv, Queues
  <2>5. up[d] \in Seq(FromClient(d)')
    BY <2>2, <2>4, SeqGrows
  <2>6. SessionClose \in FromClient(d)'
    BY DEF FromClient
  <2>7. <<SessionClose>> \in Seq(FromClient(d)')
    BY <2>6
  <2>8. up'[d] \in Seq(FromClient(d)')
    <3>1. CASE up' = up
      BY <2>5, <3>1
    <3>2. CASE up' = Writes(up, here, <<SessionClose>>)
      BY <1>1, <1>3, <2>5, <2>7, <3>2, WritesTyped
    <3> QED
      BY <3>1, <3>2
  <2> QED
    BY <2>3, <2>4, <2>8
<1>10. Tokens'
  BY <1>2 DEF EstablishInv, Tokens
<1>11. Saved'
  BY <1>2, <1>4, SavedStays
<1>12. RoundsNear'
  BY <1>4 DEF RoundsNear
<1> QED
  BY <1>5, <1>6, <1>7, <1>8, <1>9, <1>10, <1>11, <1>12 DEF EstablishInv

LEMMA ExitsKeeps ==
  ASSUME EstablishInv, client.pc # "off", Exits, UNCHANGED clientOnly
  PROVE  EstablishInv'
BY ExitKeeps DEF Exits

(* What holds of a running client before it moves.                         *)
LEMMA ClientFacts ==
  ASSUME EstablishInv, client.pc # "off"
  PROVE  /\ client \in Process /\ here \in Conns /\ file \in SavedSession /\ failed \subseteq Int
         /\ client.sm = ClientSm(client.pc, client.resumed)
         /\ client.pc \in HasResult
            => /\ server[here].id # None
               /\ client.id = server[here].id /\ client.tok = server[here].tok
         /\ client.conn = runs
<1>1. client.sm = ClientSm(client.pc, client.resumed) /\ client.conn = runs
  BY DEF EstablishInv, ClientPhases
<1>2. client.pc \in HasResult
      => /\ server[here].id # None
         /\ client.id = server[here].id /\ client.tok = server[here].tok
  BY DEF EstablishInv, Agreement
<1> QED
  BY <1>1, <1>2, HereIsAConnection DEF EstablishInv, TypeOK

(* Only the client's pc changes.                                           *)
LEMMA NewClientPc ==
  ASSUME EstablishInv, client.pc # "off", NEW p \in ClientPc, client' = [client EXCEPT !.pc = p]
  PROVE  /\ client' \in Process /\ client'.pc = p /\ client'.conn = client.conn
         /\ client'.resumed = client.resumed /\ client'.id = client.id /\ client'.tok = client.tok
         /\ client'.sm = client.sm /\ client'.gen = client.gen /\ client'.rounds = client.rounds
<1>1. client \in Process
  BY ClientFacts
<1> QED
  BY <1>1 DEF Process

LEMMA SendsKeeps ==
  ASSUME EstablishInv, NEW from, NEW to, NEW messages, Sends(from, messages, to),
         <<from, to>> \in {<<"greet", "hello">>, <<"reauthenticate", "resuming">>,
                           <<"request", "response">>},
         messages \in Seq(FromClient(here))
  PROVE  EstablishInv'
<1>1. /\ client.pc = from /\ client.pc # "off" /\ to \in ClientPc
      /\ \/ from = "greet" /\ to = "hello"
         \/ from = "reauthenticate" /\ to = "resuming"
         \/ from = "request" /\ to = "response"
  BY DEF Sends, ClientPc
<1>2. /\ up' = Writes(up, here, messages) /\ client' = [client EXCEPT !.pc = to]
      /\ UNCHANGED <<file, down, feedback, open, failed>> /\ UNCHANGED clientOnly
  BY DEF Sends
<1>3. /\ client' \in Process /\ client'.pc = to /\ client'.conn = client.conn
      /\ client'.resumed = client.resumed /\ client'.id = client.id /\ client'.tok = client.tok
      /\ client'.sm = client.sm /\ client'.gen = client.gen /\ client'.rounds = client.rounds
  BY <1>1, <1>2, NewClientPc
<1>4. client'.sm = ClientSm(client'.pc, client'.resumed)
  BY <1>1, <1>3, ClientFacts DEF ClientSm, HasResult
<1>5. messages \in Seq(FromClient(here)')
  <2>1. OwnResume' = OwnResume /\ here' = here
    BY <1>1, <1>3 DEF OwnResume, here
  <2>2. FromClient(here)' = FromClient(here)
    BY <1>3, <2>1 DEF FromClient
  <2> QED
    BY <2>2
<1>6. ClientMoves
  <2>1. client'.pc \in HasResult
        => /\ server[here].id # None
           /\ client'.id = server[here].id /\ client'.tok = server[here].tok
    BY <1>1, <1>3, ClientFacts DEF HasResult
  <2> QED
    BY <1>1, <1>2, <1>3, <1>4, <1>5, <2>1, ClientFacts DEF ClientMoves
<1>7. ClientPhases'
  BY <1>1, <1>2, <1>3, <1>4 DEF EstablishInv, ClientPhases, clientOnly
<1>8. RoundsNear'
  BY <1>3 DEF EstablishInv, RoundsNear
<1>9. Saved'
  <2>1. UNCHANGED <<server, store, feedback, file, failed>>
    BY <1>2 DEF clientOnly
  <2>2. ASSUME \/ client'.pc \in {"save", "write"}
               \/ client'.pc \in {"reauthenticate", "resuming"} /\ server[client'.conn].id # None
        PROVE  \A e \in Owed : e.tok \in failed
    BY <1>1, <1>3, <2>2 DEF EstablishInv, Saved, here
  <2> QED
    BY <2>1, <2>2, SavedStays
<1> QED
  BY <1>6, <1>7, <1>8, <1>9, ClientMovesKeep

LEMMA SendsSomeKeep ==
  ASSUME EstablishInv, SendsClientHello \/ SendsReauthenticate \/ SendsTimeSync
  PROVE  EstablishInv'
<1>1. CASE SendsClientHello
  <2>1. Sends("greet", <<Prologue, ClientHello>>, "hello") /\ client.pc = "greet"
    BY <1>1 DEF SendsClientHello, Sends
  <2>2. ~client.resumed
    BY <2>1 DEF EstablishInv, ClientPhases
  <2>3. Prologue \in FromClient(here) /\ ClientHello \in FromClient(here)
    BY <2>2 DEF FromClient, FreshMessages
  <2>4. <<Prologue, ClientHello>> \in Seq(FromClient(here))
    BY <2>3
  <2> QED
    BY <2>1, <2>4, SendsKeeps
<1>2. CASE SendsReauthenticate
  <2> DEFINE m == SessionReauthenticate(client.id, client.tok)
  <2>1. Sends("reauthenticate", <<Prologue, m>>, "resuming") /\ client.pc = "reauthenticate"
    BY <1>2 DEF SendsReauthenticate, Sends
  <2>2. client.resumed /\ client.id \in Int /\ client.tok \in Int
    BY <2>1, ClientFields DEF EstablishInv, ClientPhases
  <2>3. m \in ResumeMessages
    BY <2>2 DEF ResumeMessages
  <2>4. m.prior_session_id = client.id /\ m.reconnect_token = client.tok
    BY DEF SessionReauthenticate
  <2> HIDE DEF m
  <2>5. Prologue \in FromClient(here) /\ m \in FromClient(here)
    BY <2>2, <2>3, <2>4 DEF FromClient, OwnResume
  <2>6. <<Prologue, m>> \in Seq(FromClient(here))
    BY <2>5
  <2> QED
    BY <2>1, <2>6, SendsKeeps
<1>3. CASE SendsTimeSync
  <2>1. Sends("request", <<TimeSyncRequest>>, "response")
    BY <1>3 DEF SendsTimeSync
  <2>2. TimeSyncRequest \in FromClient(here)
    BY DEF FromClient
  <2>3. <<TimeSyncRequest>> \in Seq(FromClient(here))
    BY <2>2
  <2> QED
    BY <2>1, <2>3, SendsKeeps
<1> QED
  BY <1>1, <1>2, <1>3

LEMMA AnswerIsSent ==
  ASSUME EstablishInv, client.pc # "off", down[here] # <<>>
  PROVE  Answer \in FromServer(here)
<1>1. here \in Conns
  BY HereIsAConnection
<1>2. down[here] \in Seq(FromServer(here))
  BY <1>1 DEF EstablishInv, Queues
<1> QED
  BY <1>2, HeadTailProperties DEF Answer

LEMMA GetsServerHelloKeeps ==
  ASSUME EstablishInv, GetsServerHello
  PROVE  EstablishInv'
<1>1. client.pc = "hello" /\ down[here] # <<>> /\ UNCHANGED clientOnly
  BY DEF GetsServerHello
<1>2. here \in Conns /\ client \in Process /\ client.sm = "Handshaking"
      /\ ~client.resumed /\ file = NoFile
  BY <1>1, ClientFacts DEF ClientSm, HasResult, EstablishInv, ClientPhases
<1>3. CASE ~check_message(client.sm, Answer.type)
  BY <1>1, <1>3, ExitsKeeps DEF GetsServerHello
<1>4. CASE check_message(client.sm, Answer.type)
  <2>1. Answer.type \in {"CLIENT_HELLO", "SERVER_HELLO"}
    BY <1>2, <1>4 DEF check_message, Hellos
  <2>2. Answer = ServerHello(here)
    BY <1>1, <1>2, <2>1, AnswerIsSent, ServerSent
  <2>3. complete_handshake(client.sm) = "Authenticating"
    BY <1>2 DEF complete_handshake, Moves
  <2>4. /\ client' = [client EXCEPT !.pc = "auth", !.sm = complete_handshake(@)]
        /\ up' = Writes(up, here, <<Signed(client.key, here)>>)
        /\ down' = Reads(down, here)
        /\ UNCHANGED <<file, feedback, open, failed>>
    BY <1>4, <2>2 DEF GetsServerHello, Signed
  <2>5. client' = [client EXCEPT !.pc = "auth", !.sm = "Authenticating"]
    BY <2>3, <2>4
  <2>6. /\ client' \in Process /\ client'.pc = "auth" /\ client'.conn = client.conn
        /\ client'.resumed = client.resumed /\ client'.id = client.id
        /\ client'.sm = "Authenticating" /\ client'.rounds = client.rounds
    BY <1>2, <2>5 DEF Process, ClientPc, State
  <2>7. client'.sm = ClientSm(client'.pc, client'.resumed)
    BY <2>6 DEF ClientSm, HasResult
  <2>8. Signed(client.key, here) \in FromClient(here)'
    <3>1. client.key \in Keys /\ here' = here
      BY <2>6, ClientFields DEF EstablishInv, here
    <3> QED
      BY <1>2, <2>6, <3>1 DEF FromClient, FreshMessages
  <2>9. <<Signed(client.key, here)>> \in Seq(FromClient(here)')
    BY <2>8
  <2>10. ClientMoves
    BY <1>1, <1>2, <2>4, <2>6, <2>7, <2>9, ClientFacts DEF ClientMoves, HasResult
  <2>11. ClientPhases'
    BY <1>1, <1>2, <2>4, <2>6, <2>7 DEF EstablishInv, ClientPhases, clientOnly
  <2>12. RoundsNear'
    BY <2>6 DEF EstablishInv, RoundsNear
  <2>13. Saved'
    <3>1. UNCHANGED <<server, store, feedback, file, failed>>
      BY <1>1, <2>4 DEF clientOnly
    <3> QED
      BY <2>6, <3>1, SavedStays
  <2> QED
    BY <2>10, <2>11, <2>12, <2>13, ClientMovesKeep
<1> QED
  BY <1>3, <1>4

(* With no session in the file, what is owed had its write fail.           *)
LEMMA NoFileOwesNothing ==
  ASSUME EstablishInv, file = NoFile, NEW e \in Owed
  PROVE  e.tok \in failed
<1>1. e.tok \in Nat
  <2>1. CASE e \in store
    BY <2>1 DEF EstablishInv, TypeOK, Suspended
  <2>2. CASE e \notin store
    <3>1. PICK c \in Conns : server[c].pc \in {"feedback", "active"} /\ e = server[c]
      BY <2>2 DEF Owed
    <3>2. server[c].id # None
      BY <3>1 DEF EstablishInv, ServerPhases, Live
    <3> QED
      BY <3>1, <3>2 DEF EstablishInv, Tokens
  <2> QED
    BY <2>1, <2>2
<1>2. NoFile.tok \notin Nat
  BY ConnsFacts DEF NoFile
<1>3. e.tok \notin failed => file = [id |-> e.id, tok |-> e.tok]
  BY DEF EstablishInv, Saved
<1> QED
  BY <1>1, <1>2, <1>3

LEMMA TakesResultKeeps ==
  ASSUME EstablishInv, NEW from \in {"auth", "resuming"}, NEW id, NEW sm,
         TakesResult(from, id, sm),
         from = "auth" => id = Answer.session_id /\ sm = complete_authentication(client.sm),
         from = "resuming" => id = client.id /\ sm = resume(client.sm)
  PROVE  EstablishInv'
<1>1. client.pc = from /\ client.pc # "off" /\ down[here] # <<>> /\ UNCHANGED clientOnly
  BY DEF TakesResult
<1>2. here \in Conns /\ client \in Process
  BY <1>1, ClientFacts
<1>3. CASE Answer.type # "AUTH_RESULT" \/ Answer.status # "Ok"
  BY <1>1, <1>3, ExitsKeeps DEF TakesResult
<1>4. CASE ~(Answer.type # "AUTH_RESULT" \/ Answer.status # "Ok")
  <2>1. server[here].id # None /\ Answer = AuthResult("Ok", server[here].id, server[here].tok)
    BY <1>1, <1>2, <1>4, AnswerIsSent, ServerSent
  <2>2. Answer.session_id = server[here].id /\ Answer.reconnect_token = server[here].tok
    BY <2>1 DEF AuthResult
  <2>3. /\ client' = [client EXCEPT !.pc = "save", !.tok = Answer.reconnect_token,
                                    !.id = id, !.sm = sm]
        /\ down' = Reads(down, here)
        /\ UNCHANGED <<file, up, feedback, open, failed>>
    BY <1>4 DEF TakesResult
  <2>4. /\ from = "auth" => ~client.resumed /\ client.sm = "Authenticating" /\ file = NoFile
        /\ from = "resuming" => client.resumed /\ client.sm = "Suspended"
    BY <1>1, ClientFacts DEF ClientSm, HasResult, EstablishInv, ClientPhases
  <2>5. id = server[here].id /\ (client.resumed => id = client.id)
    BY <1>1, <2>1, <2>2, <2>4 DEF EstablishInv, Agreement
  <2>6. sm = IF client.resumed THEN "Active" ELSE "Authenticated"
    BY <2>4 DEF complete_authentication, resume, Moves
  <2>7. server[here].id \in Int /\ server[here].tok \in Int
    BY <1>2, TaskFacts, TaskFields
  <2>8. sm \in State
    BY <2>6 DEF State
  <2>9. /\ client' \in Process /\ client'.pc = "save" /\ client'.conn = client.conn
        /\ client'.resumed = client.resumed /\ client'.id = id
        /\ client'.tok = server[here].tok
        /\ client'.sm = sm /\ client'.rounds = client.rounds
    BY <1>2, <2>2, <2>3, <2>5, <2>7, <2>8 DEF Process, ClientPc
  <2>10. client'.sm = ClientSm(client'.pc, client'.resumed)
    BY <2>6, <2>9 DEF ClientSm, HasResult
  <2>11. ClientMoves
    BY <1>1, <1>2, <2>1, <2>3, <2>5, <2>9, <2>10, ClientFacts DEF ClientMoves
  <2>12. ClientPhases'
    BY <1>1, <2>9, <2>10 DEF EstablishInv, ClientPhases, clientOnly
  <2>13. RoundsNear'
    BY <2>9 DEF EstablishInv, RoundsNear
  <2>14. \A e \in Owed : e.tok \in failed
    <3>1. CASE from = "auth"
      BY <2>4, <3>1, NoFileOwesNothing
    <3>2. CASE from = "resuming"
      BY <1>1, <2>1, <3>2 DEF EstablishInv, Saved
    <3> QED
      BY <3>1, <3>2
  <2>15. Saved'
    <3>1. UNCHANGED <<server, store, feedback, file, failed>>
      BY <1>1, <2>3 DEF clientOnly
    <3> QED
      BY <2>14, <3>1, SavedStays
  <2> QED
    BY <2>11, <2>12, <2>13, <2>15, ClientMovesKeep
<1> QED
  BY <1>3, <1>4

LEMMA GetsResultKeeps ==
  ASSUME EstablishInv, GetsAuthResult \/ GetsResumeResult
  PROVE  EstablishInv'
<1>1. CASE GetsAuthResult
  <2>1. TakesResult("auth", Answer.session_id, complete_authentication(client.sm))
    BY <1>1 DEF GetsAuthResult
  <2> QED
    BY <2>1, TakesResultKeeps
<1>2. CASE GetsResumeResult
  <2>1. TakesResult("resuming", client.id, resume(client.sm))
    BY <1>2 DEF GetsResumeResult
  <2> QED
    BY <2>1, TakesResultKeeps
<1> QED
  BY <1>1, <1>2

LEMMA TruncatesFileKeeps ==
  ASSUME EstablishInv, TruncatesFile
  PROVE  EstablishInv'
<1>1. /\ client.pc = "save" /\ client.pc # "off" /\ "write" \in ClientPc
      /\ file' = NoFile /\ client' = [client EXCEPT !.pc = "write"]
      /\ UNCHANGED <<up, down, feedback, open, failed>> /\ UNCHANGED clientOnly
  BY DEF TruncatesFile, ClientPc
<1>2. /\ client' \in Process /\ client'.pc = "write" /\ client'.conn = client.conn
      /\ client'.resumed = client.resumed /\ client'.id = client.id /\ client'.tok = client.tok
      /\ client'.sm = client.sm /\ client'.gen = client.gen /\ client'.rounds = client.rounds
  BY <1>1, NewClientPc
<1>3. client'.sm = ClientSm(client'.pc, client'.resumed)
  BY <1>1, <1>2, ClientFacts DEF ClientSm, HasResult
<1>4. file' \in SavedSession
  BY <1>1, ConnsFacts DEF NoFile, SavedSession
<1>5. ClientMoves
  BY <1>1, <1>2, <1>3, <1>4, ClientFacts DEF ClientMoves, HasResult
<1>6. ClientPhases'
  BY <1>1, <1>2, <1>3 DEF EstablishInv, ClientPhases, clientOnly
<1>7. RoundsNear'
  BY <1>2 DEF EstablishInv, RoundsNear
<1>8. Saved'
  <2>1. Owed' = Owed /\ failed' = failed
    BY <1>1 DEF Owed, clientOnly
  <2>2. \A e \in Owed : e.tok \in failed
    BY <1>1 DEF EstablishInv, Saved
  <2> QED
    BY <2>1, <2>2 DEF Saved
<1> QED
  BY <1>5, <1>6, <1>7, <1>8, ClientMovesKeep

LEMMA WritesFileKeeps ==
  ASSUME EstablishInv, WritesFile
  PROVE  EstablishInv'
<1>1. /\ client.pc = "write" /\ client.pc # "off" /\ "request" \in ClientPc
      /\ file' = [id |-> client.id, tok |-> client.tok]
      /\ client' = [client EXCEPT !.pc = "request"]
      /\ UNCHANGED <<up, down, feedback, open, failed>> /\ UNCHANGED clientOnly
  BY DEF WritesFile, ClientPc
<1>2. /\ client' \in Process /\ client'.pc = "request" /\ client'.conn = client.conn
      /\ client'.resumed = client.resumed /\ client'.id = client.id /\ client'.tok = client.tok
      /\ client'.sm = client.sm /\ client'.gen = client.gen /\ client'.rounds = client.rounds
  BY <1>1, NewClientPc
<1>3. client'.sm = ClientSm(client'.pc, client'.resumed)
  BY <1>1, <1>2, ClientFacts DEF ClientSm, HasResult
<1>4. file' \in SavedSession
  BY <1>1, ClientFields DEF EstablishInv, SavedSession
<1>5. ClientMoves
  BY <1>1, <1>2, <1>3, <1>4, ClientFacts DEF ClientMoves, HasResult
<1>6. ClientPhases'
  BY <1>1, <1>2, <1>3 DEF EstablishInv, ClientPhases, clientOnly
<1>7. RoundsNear'
  BY <1>2 DEF EstablishInv, RoundsNear
<1>8. Saved'
  <2>1. Owed' = Owed /\ failed' = failed
    BY <1>1 DEF Owed, clientOnly
  <2>2. \A e \in Owed : e.tok \in failed
    BY <1>1 DEF EstablishInv, Saved
  <2> QED
    BY <2>1, <2>2 DEF Saved
<1> QED
  BY <1>5, <1>6, <1>7, <1>8, ClientMovesKeep

LEMMA WriteFailsKeeps ==
  ASSUME EstablishInv, WriteFails
  PROVE  EstablishInv'
<1>1. /\ client.pc \in {"save", "write"} /\ client.pc # "off" /\ "request" \in ClientPc
      /\ failed' = failed \cup {client.tok}
      /\ client' = [client EXCEPT !.pc = "request"]
      /\ UNCHANGED <<file, up, down, feedback, open>> /\ UNCHANGED clientOnly
  BY DEF WriteFails, ClientPc
<1>2. /\ client' \in Process /\ client'.pc = "request" /\ client'.conn = client.conn
      /\ client'.resumed = client.resumed /\ client'.id = client.id /\ client'.tok = client.tok
      /\ client'.sm = client.sm /\ client'.gen = client.gen /\ client'.rounds = client.rounds
  BY <1>1, NewClientPc
<1>3. client'.sm = ClientSm(client'.pc, client'.resumed)
  BY <1>1, <1>2, ClientFacts DEF ClientSm, HasResult
<1>4. failed' \subseteq Int
  BY <1>1, ClientFacts, ClientFields DEF EstablishInv
<1>5. ClientMoves
  BY <1>1, <1>2, <1>3, <1>4, ClientFacts DEF ClientMoves, HasResult
<1>6. ClientPhases'
  BY <1>1, <1>2, <1>3 DEF EstablishInv, ClientPhases, clientOnly
<1>7. RoundsNear'
  BY <1>2 DEF EstablishInv, RoundsNear
<1>8. Saved'
  <2>1. Owed' = Owed
    BY <1>1 DEF Owed, clientOnly
  <2>2. \A e \in Owed : e.tok \in failed
    BY <1>1 DEF EstablishInv, Saved
  <2> QED
    BY <1>1, <2>1, <2>2 DEF Saved
<1> QED
  BY <1>5, <1>6, <1>7, <1>8, ClientMovesKeep

LEMMA GetsTimeSyncKeeps ==
  ASSUME EstablishInv, GetsTimeSync
  PROVE  EstablishInv'
<1>1. client.pc = "response" /\ client.pc # "off" /\ down[here] # <<>> /\ UNCHANGED clientOnly
  BY DEF GetsTimeSync
<1>2. here \in Conns /\ client \in Process /\ client.rounds \in Seq(Round)
  BY <1>1, ClientFacts, ClientFields DEF EstablishInv
<1>3. CASE Answer.type # "TIME_SYNC_RESPONSE"
  BY <1>1, <1>3, ExitsKeeps DEF GetsTimeSync
<1>4. CASE Answer.type = "TIME_SYNC_RESPONSE"
  <2>1. PICK there \in Delays, took \in Processing :
            Answer = TimeSyncResponse(there + ClockOffset, there + ClockOffset + took)
    BY <1>1, <1>2, <1>4, AnswerIsSent, ServerSent
  <2> DEFINE t2 == there + ClockOffset
             t3 == t2 + took
  <2>2. Answer.t1 = 0 /\ Answer.t2 = t2 /\ Answer.t3 = t3
    BY <2>1 DEF TimeSyncResponse
  <2>3. PICK back \in Delays :
            LET rounds == Append(client.rounds, compute(Answer.t1, Answer.t2, Answer.t3,
                                                        Answer.t3 - ClockOffset + back))
            IN client' = [client EXCEPT
                   !.rounds = rounds,
                   !.pc = IF Len(rounds) < Rounds THEN "request" ELSE "instance"]
    BY <1>4 DEF GetsTimeSync
  <2> DEFINE r == compute(0, t2, t3, t3 - ClockOffset + back)
             rounds == Append(client.rounds, r)
             p == IF Len(rounds) < Rounds THEN "request" ELSE "instance"
  <2>4. client' = [client EXCEPT !.rounds = rounds, !.pc = p]
    BY <2>2, <2>3
  <2>5. down' = Reads(down, here) /\ UNCHANGED <<file, up, feedback, open, failed>>
    BY <1>4 DEF GetsTimeSync
  <2>6. r \in Round /\ Near(r)
    BY RoundIsNear, EstablishAssumption
  <2> HIDE DEF r, t2, t3
  <2>7. rounds \in Seq(Round)
    BY <1>2, <2>6
  <2>8. p \in {"request", "instance"} /\ p \in ClientPc
    BY DEF ClientPc
  <2>9. \A i \in DOMAIN rounds : Near(rounds[i])
    <3> SUFFICES ASSUME NEW i \in DOMAIN rounds
                 PROVE  Near(rounds[i])
      OBVIOUS
    <3>1. \/ i \in DOMAIN client.rounds /\ rounds[i] = client.rounds[i]
          \/ rounds[i] = r
      BY <1>2, <2>6
    <3> QED
      BY <2>6, <3>1 DEF EstablishInv, RoundsNear
  <2> HIDE DEF rounds, p
  <2>10. /\ client' \in Process /\ client'.pc = p /\ client'.conn = client.conn
         /\ client'.resumed = client.resumed /\ client'.id = client.id /\ client'.tok = client.tok
         /\ client'.sm = client.sm /\ client'.gen = client.gen /\ client'.rounds = rounds
    BY <1>2, <2>4, <2>7, <2>8 DEF Process
  <2>11. client'.sm = ClientSm(client'.pc, client'.resumed)
    BY <1>1, <2>8, <2>10, ClientFacts DEF ClientSm, HasResult
  <2>12. ClientMoves
    BY <1>1, <1>2, <2>5, <2>8, <2>10, <2>11, ClientFacts DEF ClientMoves, HasResult
  <2>13. ClientPhases'
    BY <1>1, <2>5, <2>8, <2>10, <2>11 DEF EstablishInv, ClientPhases, clientOnly
  <2>14. RoundsNear'
    BY <2>9, <2>10 DEF RoundsNear
  <2>15. Saved'
    <3>1. UNCHANGED <<server, store, feedback, file, failed>>
      BY <1>1, <2>5 DEF clientOnly
    <3> QED
      BY <2>8, <2>10, <3>1, SavedStays
  <2> QED
    BY <2>12, <2>13, <2>14, <2>15, ClientMovesKeep
<1> QED
  BY <1>3, <1>4

LEMMA AcceptsInstanceKeeps ==
  ASSUME EstablishInv, AcceptsInstance
  PROVE  EstablishInv'
<1> DEFINE s == IF client.resumed THEN client.sm ELSE on_channel_live(client.sm)
<1>1. /\ client.pc = "instance" /\ client.pc # "off" /\ instance[here] # None
      /\ client' = [client EXCEPT !.pc = "active", !.gen = instance[here], !.sm = s]
      /\ feedback' = [feedback EXCEPT ![here] = open[here]]
      /\ UNCHANGED <<file, up, down, open, failed>> /\ UNCHANGED clientOnly
  BY DEF AcceptsInstance
<1>2. here \in Conns /\ client \in Process
  BY <1>1, ClientFacts
<1>3. s = "Active"
  BY <1>1, ClientFacts DEF ClientSm, HasResult, on_channel_live, Moves
<1>4. client' = [client EXCEPT !.pc = "active", !.gen = instance[here], !.sm = "Active"]
  BY <1>1, <1>3
<1>5. instance[here] \in Int /\ feedback \in [Conns -> BOOLEAN]
  BY <1>2 DEF EstablishInv, TypeOK
<1> HIDE DEF s
<1>6. /\ client' \in Process /\ client'.pc = "active" /\ client'.conn = client.conn
      /\ client'.resumed = client.resumed /\ client'.id = client.id /\ client'.tok = client.tok
      /\ client'.sm = "Active" /\ client'.gen = instance[here] /\ client'.rounds = client.rounds
  BY <1>2, <1>4, <1>5 DEF Process, ClientPc, State
<1>7. client'.sm = ClientSm(client'.pc, client'.resumed)
  BY <1>6 DEF ClientSm, HasResult
<1>8. ClientMoves
  BY <1>1, <1>2, <1>6, <1>7, ClientFacts DEF ClientMoves, HasResult
<1>9. ClientPhases'
  BY <1>1, <1>6, <1>7 DEF EstablishInv, ClientPhases, clientOnly
<1>10. RoundsNear'
  BY <1>6 DEF EstablishInv, RoundsNear
<1>11. Saved'
  <2>1. UNCHANGED <<server, store, file, failed>>
    BY <1>1 DEF clientOnly
  <2>2. ASSUME NEW e \in Owed'
        PROVE  e.tok \notin failed => file = [id |-> e.id, tok |-> e.tok]
    <3>1. CASE e \in Owed
      BY <3>1 DEF EstablishInv, Saved
    <3>2. CASE e \notin Owed
      <4>1. PICK c \in Conns : /\ server[c].pc \in {"feedback", "active"} /\ feedback'[c]
                               /\ e = server[c]
        BY <2>1, <2>2, <3>2 DEF Owed
      <4>2. ~feedback[c]
        BY <3>2, <4>1 DEF Owed
      <4>3. c = here
        BY <1>1, <1>2, <1>5, <4>1, <4>2
      <4>4. e.id = client.id /\ e.tok = client.tok
        BY <1>1, <4>1, <4>3, ClientFacts DEF HasResult
      <4> QED
        BY <1>1, <4>4 DEF EstablishInv, ClientPhases
    <3> QED
      BY <3>1, <3>2
  <2> QED
    BY <1>6, <2>1, <2>2 DEF Saved
<1> QED
  BY <1>8, <1>9, <1>10, <1>11, ClientMovesKeep

LEMMA StartsKeeps ==
  ASSUME EstablishInv, NEW key \in Keys, Starts(key)
  PROVE  EstablishInv'
<1> DEFINE n == runs + 1
           sus == suspend(on_channel_live(complete_authentication(complete_handshake("Handshaking"))))
<1>1. /\ client.pc = "off" /\ runs < MaxRuns /\ runs' = n
      /\ open' = [open EXCEPT ![n] = TRUE]
      /\ server' = [server EXCEPT ![n].pc = "control"]
      /\ UNCHANGED <<file, store, up, down, instance, feedback, issued, failed>>
  BY DEF Starts
<1>2. client' = IF file = NoFile
                THEN [Off EXCEPT !.pc = "greet", !.conn = n, !.key = key]
                ELSE [Off EXCEPT !.pc = "reauthenticate", !.conn = n, !.key = key,
                                 !.id = file.id, !.tok = file.tok, !.resumed = TRUE, !.sm = sus]
  BY DEF Starts
<1>3. runs \in Nat /\ MaxRuns \in Nat /\ n \in Nat
  BY EstablishAssumption DEF EstablishInv, TypeOK
<1>4. n \in Conns /\ n > runs /\ n \in 0..MaxRuns
  BY <1>1, <1>3 DEF Conns
<1>5. sus = "Suspended"
  BY DEF suspend, on_channel_live, complete_authentication, complete_handshake, Moves
<1>6. here = 0
  BY <1>1 DEF EstablishInv, ClientPhases, here
<1> HIDE DEF n, sus
<1>7. file \in SavedSession /\ file = [id |-> file.id, tok |-> file.tok]
      /\ file.id \in Int /\ file.tok \in Int
  BY DEF EstablishInv, TypeOK, SavedSession
<1>8. /\ client' \in Process /\ client'.conn = n /\ client'.rounds = <<>>
      /\ \/ client'.pc = "greet" /\ client'.sm = "Handshaking" /\ client'.resumed = FALSE
            /\ file = NoFile
         \/ /\ client'.pc = "reauthenticate" /\ client'.sm = "Suspended" /\ client'.resumed = TRUE
            /\ client'.id = file.id /\ client'.tok = file.tok
  <2>1. Off \in Process
    BY OffFields
  <2>2. CASE file = NoFile
    <3>1. client' = [Off EXCEPT !.pc = "greet", !.conn = n, !.key = key]
      BY <1>2, <2>2
    <3>2. /\ client' \in Process /\ client'.conn = n /\ client'.rounds = Off.rounds
          /\ client'.pc = "greet" /\ client'.sm = Off.sm /\ client'.resumed = Off.resumed
      BY <1>3, <2>1, <3>1 DEF Process, ClientPc
    <3> QED
      BY <2>2, <3>2, OffFields
  <2>3. CASE file # NoFile
    <3>1. client' = [Off EXCEPT !.pc = "reauthenticate", !.conn = n, !.key = key,
                        !.id = file.id, !.tok = file.tok, !.resumed = TRUE, !.sm = "Suspended"]
      BY <1>2, <1>5, <2>3
    <3>2. /\ client' \in Process /\ client'.conn = n /\ client'.rounds = Off.rounds
          /\ client'.pc = "reauthenticate" /\ client'.sm = "Suspended" /\ client'.resumed = TRUE
          /\ client'.id = file.id /\ client'.tok = file.tok
      BY <1>3, <1>7, <2>1, <3>1 DEF Process, ClientPc, State
    <3> QED
      BY <3>2, OffFields
  <2> QED
    BY <2>2, <2>3
<1>9. server \in [Conns -> Task] /\ server[n] \in Task /\ open \in [Conns -> BOOLEAN]
  BY <1>4 DEF EstablishInv, TypeOK
<1>10. /\ server[n].pc = "none" /\ up[n] = <<>> /\ server[n].id = None /\ ~server[n].resumed
       /\ server[n].sm = "Handshaking" /\ instance[n] = None /\ ~feedback[n]
  <2>1. server[n].pc = "none" /\ up[n] = <<>>
    BY <1>4 DEF EstablishInv, ServerPhases
  <2> QED
    BY <1>4, <2>1 DEF EstablishInv, ServerPhases, ServerSm, Early
<1> DEFINE t == [server[n] EXCEPT !.pc = "control"]
<1>11. /\ t \in Task /\ t.pc = "control" /\ t.id = server[n].id /\ t.tok = server[n].tok
       /\ t.gen = server[n].gen /\ t.resumed = server[n].resumed /\ t.sm = server[n].sm
  BY <1>9 DEF Task, ServerPc
<1>12. server' = [server EXCEPT ![n] = t]
  BY <1>1, <1>9
<1> HIDE DEF t
<1>13. \A d \in Conns : server'[d] = IF d = n THEN t ELSE server[d]
  BY <1>9, <1>12
<1>14. TypeOK'
  <2>1. server' \in [Conns -> Task] /\ open' \in [Conns -> BOOLEAN]
    BY <1>1, <1>9, <1>11, <1>12
  <2> QED
    BY <1>1, <1>4, <1>8, <2>1 DEF EstablishInv, TypeOK
<1>15. ClientPhases'
  <2>1. client'.sm = ClientSm(client'.pc, client'.resumed)
    BY <1>8 DEF ClientSm, HasResult
  <2> QED
    BY <1>1, <1>4, <1>7, <1>8, <2>1 DEF ClientPhases
<1>16. ServerPhases'
  <2> SUFFICES ASSUME NEW d \in Conns
               PROVE  /\ server'[d].pc # "over" => server'[d].sm = ServerSm(server'[d].pc, server'[d].resumed)
                      /\ server'[d].pc \in Early => server'[d].id = None /\ ~server'[d].resumed
                      /\ server'[d].pc \in Live => server'[d].id # None
                      /\ instance[d] # None => /\ server'[d].pc \in {"feedback", "active", "over"}
                                               /\ instance[d] = server'[d].gen
                      /\ feedback[d] => instance[d] # None /\ server'[d].id # None
                      /\ server'[d].pc = "active" => feedback[d]
                      /\ d > n => server'[d].pc = "none" /\ up[d] = <<>>
    BY <1>1 DEF ServerPhases
  <2>1. CASE d # n
    <3>1. server'[d] = server[d]
      BY <1>13, <2>1
    <3>2. d > n => d > runs
      BY <1>3, <1>4, ConnsFacts
    <3> QED
      BY <3>1, <3>2 DEF EstablishInv, ServerPhases
  <2>2. CASE d = n
    <3>1. server'[d] = t /\ ~(d > n)
      BY <1>3, <1>13, <2>2
    <3>2. t.sm = ServerSm(t.pc, t.resumed) /\ t.pc \notin Live
      BY <1>10, <1>11 DEF ServerSm, Live
    <3> QED
      BY <1>10, <1>11, <2>2, <3>1, <3>2
  <2> QED
    BY <2>1, <2>2
<1>17. Agreement'
  <2>1. server'[n].id = None /\ feedback'[n] = FALSE
    BY <1>1, <1>4, <1>10, <1>11, <1>13 DEF EstablishInv, TypeOK
  <2>2. here' = n
    BY <1>8 DEF here
  <2> QED
    BY <1>8, <2>1, <2>2 DEF Agreement, HasResult
<1>18. Queues'
  <2> SUFFICES ASSUME NEW d \in Conns
               PROVE  up[d] \in Seq(FromClient(d)') /\ down[d] \in Seq(FromServer(d)')
    BY <1>1 DEF Queues
  <2>1. up[d] \in Seq(FromClient(d)) /\ down[d] \in Seq(FromServer(d))
    BY DEF EstablishInv, Queues
  <2>2. up[d] \in Seq(FromClient(d)')
    <3>1. CASE d = n
      <4>1. up[d] = <<>>
        BY <1>10, <3>1
      <4>2. \A S : <<>> \in Seq(S)
        OBVIOUS
      <4> QED
        BY <4>1, <4>2
    <3>2. CASE d # n
      <4>1. d # here' /\ d # here
        BY <1>6, <1>8, <3>2, ConnsFacts DEF here
      <4>2. FromClient(d) \subseteq FromClient(d)'
        BY <4>1 DEF FromClient
      <4> QED
        BY <2>1, <4>2, SeqGrows
    <3> QED
      BY <3>1, <3>2
  <2>3. FromServer(d)' = FromServer(d)
    <3>1. server'[d].id = server[d].id /\ server'[d].tok = server[d].tok
      BY <1>11, <1>13
    <3> QED
      BY <3>1 DEF FromServer
  <2> QED
    BY <2>1, <2>2, <2>3
<1>19. Tokens'
  <2>1. \A d \in Conns : /\ server'[d].id = server[d].id /\ server'[d].tok = server[d].tok
                         /\ server'[d].pc \in Live => server[d].pc \in Live
    BY <1>11, <1>13 DEF Live
  <2> QED
    BY <1>1, <2>1 DEF EstablishInv, Tokens
<1>20. Saved'
  <2>1. Owed' \subseteq Owed
    <3> SUFFICES ASSUME NEW e \in Owed', e \notin store
                 PROVE  e \in Owed
      BY DEF Owed
    <3>1. PICK d \in Conns : /\ server'[d].pc \in {"feedback", "active"} /\ feedback[d]
                             /\ e = server'[d]
      BY <1>1 DEF Owed
    <3>2. server'[d] = server[d]
      BY <1>11, <1>13, <3>1
    <3> QED
      BY <3>1, <3>2 DEF Owed
  <2>2. server'[here'].id = None /\ client'.pc \notin {"save", "write"}
    BY <1>4, <1>8, <1>10, <1>11, <1>13 DEF here
  <2> QED
    BY <1>1, <2>1, <2>2 DEF EstablishInv, Saved
<1>21. RoundsNear'
  BY <1>8 DEF RoundsNear
<1> QED
  BY <1>14, <1>15, <1>16, <1>17, <1>18, <1>19, <1>20, <1>21 DEF EstablishInv

LEMMA ExpiresKeeps ==
  ASSUME EstablishInv, Expires
  PROVE  EstablishInv'
<1>1. /\ UNCHANGED <<client, file, server, feedback, runs, failed, up, down, instance, open, issued>>
      /\ store' \subseteq store
  BY DEF Expires, wire, serverOnly
<1>2. TypeOK' /\ ClientPhases' /\ ServerPhases' /\ Agreement' /\ RoundsNear'
  BY <1>1 DEF EstablishInv, TypeOK, ClientPhases, ServerPhases, Agreement, RoundsNear, here
<1>3. Queues'
  BY <1>1 DEF EstablishInv, Queues, FromClient, FromServer, OwnResume, here
<1>4. Tokens'
  BY <1>1 DEF EstablishInv, Tokens
<1>5. Saved'
  <2>1. Owed' \subseteq Owed
    BY <1>1 DEF Owed
  <2> QED
    BY <1>1, <2>1 DEF EstablishInv, Saved, here
<1> QED
  BY <1>2, <1>3, <1>4, <1>5 DEF EstablishInv

(* The invariant does not speak of which connections are up.               *)
LEMMA OpenIsFree ==
  ASSUME EstablishInv, open' \in [Conns -> BOOLEAN],
         UNCHANGED <<client, file, server, store, up, down, instance, feedback, runs, issued, failed>>
  PROVE  EstablishInv'
<1>1. TypeOK' /\ ClientPhases' /\ ServerPhases' /\ Agreement' /\ RoundsNear'
  BY DEF EstablishInv, TypeOK, ClientPhases, ServerPhases, Agreement, RoundsNear, here
<1>2. Queues'
  BY DEF EstablishInv, Queues, FromClient, FromServer, OwnResume, here
<1>3. Tokens'
  BY DEF EstablishInv, Tokens
<1>4. Saved'
  BY DEF EstablishInv, Saved, Owed, here
<1> QED
  BY <1>1, <1>2, <1>3, <1>4 DEF EstablishInv

LEMMA ClientStepKeeps ==
  ASSUME EstablishInv, ClientStep \/ Crashes \/ ClosesGracefully
  PROVE  EstablishInv'
<1>1. CASE SendsClientHello \/ SendsReauthenticate \/ SendsTimeSync
  BY <1>1, SendsSomeKeep
<1>2. CASE GetsServerHello
  BY <1>2, GetsServerHelloKeeps
<1>3. CASE GetsAuthResult \/ GetsResumeResult
  BY <1>3, GetsResultKeeps
<1>4. CASE TruncatesFile
  BY <1>4, TruncatesFileKeeps
<1>5. CASE WritesFile
  BY <1>5, WritesFileKeeps
<1>6. CASE WriteFails
  BY <1>6, WriteFailsKeeps
<1>7. CASE GetsTimeSync
  BY <1>7, GetsTimeSyncKeeps
<1>8. CASE AcceptsInstance
  BY <1>8, AcceptsInstanceKeeps
<1>9. CASE ClientFails
  BY <1>9, ExitsKeeps DEF ClientFails
<1>10. CASE Crashes
  BY <1>10, ExitsKeeps DEF Crashes
<1>11. CASE ClosesGracefully
  <2>1. client.pc = "active" /\ client' = Off /\ open' = [open EXCEPT ![here] = FALSE]
        /\ UNCHANGED <<down, feedback, file, failed>> /\ UNCHANGED clientOnly
        /\ up' = Writes(up, here, <<SessionClose>>)
    BY <1>11 DEF ClosesGracefully
  <2> QED
    BY <2>1, ExitKeeps
<1> QED
  BY <1>1, <1>2, <1>3, <1>4, <1>5, <1>6, <1>7, <1>8, <1>9, <1>10, <1>11 DEF ClientStep

-----------------------------------------------------------------------------
(* The theorems *)

LEMMA EstablishInitially ==
  Init => EstablishInv
<1> SUFFICES ASSUME Init
             PROVE  EstablishInv
  OBVIOUS
<1>1. /\ client = Off /\ file = NoFile /\ store = {} /\ failed = {} /\ runs = 0 /\ issued = 0
      /\ server = [c \in Conns |-> NoTask]
      /\ up = [c \in Conns |-> <<>>] /\ down = [c \in Conns |-> <<>>]
      /\ instance = [c \in Conns |-> None]
      /\ feedback = [c \in Conns |-> FALSE] /\ open = [c \in Conns |-> FALSE]
  BY DEF Init
<1>2. NoTask \in Task /\ NoTask.pc = "none" /\ NoTask.sm = "Handshaking" /\ NoTask.id = None
      /\ NoTask.resumed = FALSE
  BY ConnsFacts DEF NoTask, Task, ServerPc, State
<1>3. client.pc = "off" /\ client.conn = 0 /\ client.sm = "Handshaking"
      /\ client.resumed = FALSE /\ client.rounds = <<>> /\ client \in Process
  BY <1>1, OffFields
<1>4. TypeOK
  <2>1. file \in SavedSession
    BY <1>1, ConnsFacts DEF NoFile, SavedSession
  <2>2. runs \in 0..MaxRuns /\ issued \in Nat
    BY <1>1, EstablishAssumption
  <2>3. instance \in [Conns -> Int] /\ server \in [Conns -> Task]
    BY <1>1, <1>2, ConnsFacts
  <2> QED
    BY <1>1, <1>3, <2>1, <2>2, <2>3 DEF TypeOK
<1>5. ClientPhases
  BY <1>3 DEF ClientPhases, ClientSm, HasResult
<1>6. ServerPhases
  BY <1>1, <1>2 DEF ServerPhases, ServerSm, Live
<1>7. Agreement
  BY <1>3 DEF Agreement
<1>8. Queues
  BY <1>1 DEF Queues
<1>9. Tokens
  BY <1>1, <1>2 DEF Tokens, Live
<1>10. Saved
  <2>1. Owed = {}
    BY <1>1, <1>2 DEF Owed
  <2> QED
    BY <2>1 DEF Saved
<1>11. RoundsNear
  BY <1>3 DEF RoundsNear
<1> QED
  BY <1>4, <1>5, <1>6, <1>7, <1>8, <1>9, <1>10, <1>11 DEF EstablishInv

LEMMA EstablishNext ==
  ASSUME EstablishInv, [Next]_vars
  PROVE  EstablishInv'
<1>1. ASSUME NEW key \in Keys, Starts(key)
      PROVE  EstablishInv'
  BY <1>1, StartsKeeps
<1>2. CASE ClientStep \/ Crashes \/ ClosesGracefully
  BY <1>2, ClientStepKeeps
<1>3. ASSUME NEW c \in Conns, ServerStep(c)
      PROVE  EstablishInv'
  BY <1>3, ServerStepKeeps
<1>4. CASE Expires
  BY <1>4, ExpiresKeeps
<1>5. CASE ConnectionLost
  <2>1. [open EXCEPT ![here] = FALSE] \in [Conns -> BOOLEAN]
    BY DEF EstablishInv, TypeOK
  <2> QED
    BY <1>5, <2>1, OpenIsFree DEF ConnectionLost
<1>6. CASE UNCHANGED vars
  <2>1. open' \in [Conns -> BOOLEAN]
    BY <1>6 DEF vars, wire, EstablishInv, TypeOK
  <2> QED
    BY <1>6, <2>1, OpenIsFree DEF vars, wire
<1> QED
  BY <1>1, <1>2, <1>3, <1>4, <1>5, <1>6 DEF Next

(***************************************************************************)
(* The inductive invariant, over every interleaving of the client's runs   *)
(* and crashes with the tasks that earlier connections left behind.        *)
(***************************************************************************)
THEOREM EstablishInvariant == Spec => []EstablishInv
BY EstablishInitially, EstablishNext, PTL DEF Spec

(* Two ends that have reached their main loops hold the same session: the  *)
(* id and token of AuthResult, the Instance's generation, both state       *)
(* machines Active.                                                        *)
THEOREM SetupsAgree == Spec => []SetupAgrees
<1>1. ASSUME EstablishInv
      PROVE  SetupAgrees
  <2> SUFFICES ASSUME client.pc = "active", server[here].pc = "active"
               PROVE  /\ client.id = server[here].id /\ client.tok = server[here].tok
                      /\ client.gen = server[here].gen /\ client.resumed = server[here].resumed
                      /\ client.sm = "Active" /\ server[here].sm = "Active"
    BY DEF SetupAgrees
  <2>1. here \in Conns
    BY <1>1, HereIsAConnection
  <2>2. /\ server[here].id # None /\ client.id = server[here].id /\ client.tok = server[here].tok
        /\ instance[here] # None /\ client.gen = instance[here]
        /\ server[here].resumed = client.resumed
    BY <1>1 DEF EstablishInv, Agreement, HasResult
  <2>3. instance[here] = server[here].gen
    BY <1>1, <2>1, <2>2 DEF EstablishInv, ServerPhases
  <2>4. client.sm = "Active"
    BY <1>1 DEF EstablishInv, ClientPhases, ClientSm
  <2>5. server[here].sm = "Active"
    BY <1>1, <2>1 DEF EstablishInv, ServerPhases, ServerSm
  <2> QED
    BY <2>2, <2>3, <2>4, <2>5
<1> QED
  BY <1>1, EstablishInvariant, PTL

(* Wherever the client crashed, the token of a suspended session is the    *)
(* one in the session file, unless std::fs::write failed for it.           *)
THEOREM SuspendedSessionIsSaved == Spec => []SuspendedIsSaved
<1>1. ASSUME EstablishInv
      PROVE  SuspendedIsSaved
  BY <1>1 DEF EstablishInv, Saved, Owed, SuspendedIsSaved
<1> QED
  BY <1>1, EstablishInvariant, PTL

(* best_of's offset is off by at most half of the shortest round trip.     *)
THEOREM ChosenOffsetIsBest == Spec => []OffsetIsBest
<1>1. ASSUME EstablishInv
      PROVE  OffsetIsBest
  <2> SUFFICES ASSUME client.rounds # <<>>, NEW i \in DOMAIN client.rounds
               PROVE  2 * Abs(best_of(client.rounds).offset_us - ClockOffset)
                      <= client.rounds[i].rtt_us + 1
    BY DEF OffsetIsBest
  <2>1. client.rounds \in Seq(Round)
    BY <1>1, ClientFields DEF EstablishInv
  <2>2. PICK k \in DOMAIN client.rounds :
            /\ best_of(client.rounds) = client.rounds[k]
            /\ \A j \in DOMAIN client.rounds : client.rounds[k].rtt_us <= client.rounds[j].rtt_us
    BY <2>1, BestIsFastest
  <2> DEFINE r == client.rounds[k]
             q == client.rounds[i]
  <2>3. r \in Round /\ q \in Round
    BY <2>1
  <2>4. Near(r)
    BY <1>1 DEF EstablishInv, RoundsNear
  <2>5. r.rtt_us <= q.rtt_us /\ best_of(client.rounds) = r
    BY <2>2
  <2>6. r.rtt_us \in Nat /\ q.rtt_us \in Nat /\ r.offset_us \in Int
    BY <2>3 DEF Round
  <2>7. 2 * Abs(r.offset_us - ClockOffset) \in Int
    BY <2>6, EstablishAssumption DEF Abs
  <2> DEFINE a == 2 * Abs(r.offset_us - ClockOffset)
             x == r.rtt_us
             y == q.rtt_us
  <2>8. a <= x + 1
    BY <2>4 DEF Near
  <2>9. a \in Int /\ x \in Nat /\ y \in Nat /\ x <= y
    BY <2>5, <2>6, <2>7
  <2> HIDE DEF a, x, y
  <2>10. a <= y + 1
    BY <2>8, <2>9
  <2> QED
    BY <2>5, <2>10 DEF a, y
<1> QED
  BY <1>1, EstablishInvariant, PTL
=============================================================================
