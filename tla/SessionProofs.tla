--------------------------- MODULE SessionProofs ----------------------------
(***************************************************************************)
(* Proofs about what a session keeps.                                      *)
(*                                                                         *)
(* Reconnection, for any number of connections, sessions and tokens and    *)
(* any grace period: a session has one owner, a token is used once,        *)
(* generations grow, a timer only ends its own episode, and the server     *)
(* implements SessionLifecycle (its safety part).                          *)
(*                                                                         *)
(* Permissions, for any number of sessions, bits and commands:             *)
(* PermissionsInv is inductive.  Agreement with the client rests on an     *)
(* update naming all the bits it grants, the order of the commands on the  *)
(* lock, which admits one drain at a time.                                 *)
(***************************************************************************)
EXTENDS Reconnection, Permissions, TLAPS

(* What the store holds under a session id.                                *)
LEMMA StoreEntry ==
  ASSUME TypeOK, NEW s \in Sessions
  PROVE  /\ Suspended(s) => /\ store[s] \in Entry
                            /\ store[s].tok \in Token
                            /\ store[s].gen \in Nat
                            /\ store[s].since \in Nat
         /\ ~Suspended(s) => store[s].tok = None
         /\ store[s].tok \in Int
<1>1. store[s] \in Entry \/ store[s] = NoEntry
  BY DEF TypeOK
<1>2. CASE store[s] = NoEntry
  BY <1>2 DEF Suspended, NoEntry, None
<1>3. CASE store[s] \in Entry
  <2>1. /\ store[s].tok \in Token /\ store[s].gen \in Nat
        /\ store[s].since \in Nat
    BY <1>3 DEF Entry
  <2>2. store[s].tok \in Int /\ store[s].tok # None
    BY <2>1, ReconnectionAssumption DEF Token, None
  <2>3. store[s] # NoEntry
    BY <2>2 DEF NoEntry
  <2>4. QED
    BY <1>3, <2>1, <2>2, <2>3 DEF Suspended
<1>4. QED
  BY <1>1, <1>2, <1>3

(* Time alone changes nothing the invariant relates.                       *)
LEMMA TickKeeps ==
  ASSUME ReconnectionInv, Tick \/ UNCHANGED vars
  PROVE  ReconnectionInv'
<1>1. UNCHANGED <<task, store, timers, issued, known, history>> /\ now' \in Nat
  BY DEF Tick, vars, ReconnectionInv, TypeOK
<1>2. QED
  BY <1>1 DEF ReconnectionInv, TypeOK, OneOwner, TokenSingleUse,
       NoProtocolViolation, GenerationsGrow, TokensUnspent, TokensDistinct,
       TimersOfEpisodes, MachinesFollow, GenerationsFollow, Owns, Suspended,
       task, history

(* A task that keeps its session or gives it up, and touches nothing else. *)
LEMMA GotoKeeps ==
  ASSUME ReconnectionInv, NEW c \in Conns, NEW from, NEW to, Goto(c, from, to),
         \/ <<from, to>> = <<"resuming", "setup">>
         \/ <<from, to>> = <<"ready", "active">>
         \/ from \in Owning /\ to \in {"lost", "ended", "rejected"}
  PROVE  ReconnectionInv'
<1>1. /\ pc[c] = from /\ from \in Owning
      /\ pc' = [pc EXCEPT ![c] = to]
      /\ to \in PcState \ {"violation", "idle"}
      /\ UNCHANGED <<now, sess, token, gen, sm, store, timers, issued, known,
                     answer, lastOpened, uses>>
  BY DEF Goto, history, Owning, PcState
<1>2. /\ pc \in [Conns -> PcState]
      /\ \A d \in Conns : pc'[d] = IF d = c THEN to ELSE pc[d]
  BY <1>1 DEF ReconnectionInv, TypeOK
<1>3. \A d \in Conns : pc'[d] \in Owning => pc[d] \in Owning
  BY <1>1, <1>2
<1>4. TypeOK'
  BY <1>1, <1>2 DEF ReconnectionInv, TypeOK
<1>5. OneOwner' /\ TokenSingleUse'
  BY <1>1, <1>3 DEF ReconnectionInv, OneOwner, TokenSingleUse, Owns, Suspended
<1>6. NoProtocolViolation'
  BY <1>1, <1>2 DEF ReconnectionInv, NoProtocolViolation
<1>7. GenerationsGrow' /\ GenerationsFollow' /\ MachinesFollow'
  BY <1>1, <1>2 DEF ReconnectionInv, GenerationsGrow, GenerationsFollow,
                    MachinesFollow, Suspended, Owning
<1>8. TokensUnspent' /\ TokensDistinct' /\ TimersOfEpisodes'
  BY <1>1, <1>3 DEF ReconnectionInv, TokensUnspent, TokensDistinct,
                    TimersOfEpisodes, Suspended
<1>9. QED
  BY <1>4, <1>5, <1>6, <1>7, <1>8 DEF ReconnectionInv

(* A rejected reconnection leaves the store and every session as they are. *)
LEMMA MismatchKeeps ==
  ASSUME ReconnectionInv, NEW c \in Conns, NEW s \in Sessions, NEW t,
         ReconnectMismatch(c, s, t)
  PROVE  ReconnectionInv'
<1>1. /\ pc[c] = "idle" /\ pc' = [pc EXCEPT ![c] = "rejected"]
      /\ answer' = [answer EXCEPT ![c] = "DENIED"]
      /\ UNCHANGED <<now, sess, token, gen, sm, store, timers, issued, known,
                     lastOpened, uses>>
  BY DEF ReconnectMismatch
<1>2. /\ pc \in [Conns -> PcState]
      /\ \A d \in Conns : pc'[d] = IF d = c THEN "rejected" ELSE pc[d]
  BY <1>1 DEF ReconnectionInv, TypeOK
<1>3. \A d \in Conns : pc'[d] \in Owning => pc[d] \in Owning
  BY <1>1, <1>2 DEF Owning
<1>4. TypeOK'
  BY <1>1, <1>2 DEF ReconnectionInv, TypeOK, PcState
<1>5. OneOwner' /\ TokenSingleUse'
  BY <1>1, <1>3 DEF ReconnectionInv, OneOwner, TokenSingleUse, Owns, Suspended
<1>6. NoProtocolViolation'
  BY <1>1, <1>2 DEF ReconnectionInv, NoProtocolViolation
<1>7. GenerationsGrow' /\ GenerationsFollow' /\ MachinesFollow'
  BY <1>1, <1>2 DEF ReconnectionInv, GenerationsGrow, GenerationsFollow,
                    MachinesFollow, Suspended
<1>8. TokensUnspent' /\ TokensDistinct' /\ TimersOfEpisodes'
  BY <1>1, <1>3 DEF ReconnectionInv, TokensUnspent, TokensDistinct,
                    TimersOfEpisodes, Suspended
<1>9. QED
  BY <1>4, <1>5, <1>6, <1>7, <1>8 DEF ReconnectionInv

(* Opening an Instance records its generation; the session stays put.      *)
LEMMA OpenKeeps ==
  ASSUME ReconnectionInv, NEW c \in Conns, Opened(c) \/ Reopened(c)
  PROVE  ReconnectionInv'
<1>1. /\ pc[c] \in {"setup", "reopening"}
      /\ pc' = [pc EXCEPT ![c] = IF pc[c] = "setup" THEN "ready" ELSE "active"]
      /\ sm' = IF pc[c] = "setup" THEN [sm EXCEPT ![c] = "Active"] ELSE sm
      /\ lastOpened' = [lastOpened EXCEPT ![sess[c]] = gen[c]]
      /\ UNCHANGED <<now, sess, token, gen, store, timers, issued, known,
                     answer, uses>>
  BY DEF Opened, Reopened
<1>2. /\ pc \in [Conns -> PcState] /\ gen \in [Conns -> Nat]
      /\ sm \in [Conns -> {"Handshaking", "Authenticated", "Active", "Suspended"}]
      /\ lastOpened \in [Sessions -> Nat \cup {None}]
      /\ sess[c] \in Sessions /\ sess[c] \in known
  BY <1>1 DEF ReconnectionInv, TypeOK, TokensUnspent, Owning
<1>3. /\ \A d \in Conns : d # c => pc'[d] = pc[d] /\ sm'[d] = sm[d]
      /\ pc'[c] \in {"ready", "active"}
      /\ pc[c] = "setup" => sm'[c] = "Active"
      /\ pc[c] = "reopening" => sm'[c] = sm[c]
  BY <1>1, <1>2
<1>4. \A d \in Conns : pc'[d] \in Owning <=> pc[d] \in Owning
  BY <1>1, <1>3 DEF Owning
<1>5. \A r \in Sessions :
        lastOpened'[r] = IF r = sess[c] THEN gen[c] ELSE lastOpened[r]
  BY <1>1, <1>2
<1>6. TypeOK'
  BY <1>1, <1>2, <1>3 DEF ReconnectionInv, TypeOK, PcState, Owning
<1>7. OneOwner' /\ TokenSingleUse' /\ NoProtocolViolation'
  BY <1>1, <1>3, <1>4 DEF ReconnectionInv, OneOwner, TokenSingleUse,
                          NoProtocolViolation, Owns, Suspended
<1>8. \A d \in Conns : pc[d] \in Owning /\ d # c => sess[d] # sess[c]
  BY <1>1, <1>2 DEF ReconnectionInv, OneOwner, Owns, Owning
<1>9. ~Suspended(sess[c])
  BY <1>1, <1>2 DEF ReconnectionInv, OneOwner, Owns, Owning
<1>10. GenerationsGrow'
  <2>1. ASSUME NEW d \in Conns, pc'[d] \in {"resuming", "setup", "reopening"}
        PROVE  gen'[d] > lastOpened'[sess'[d]]
    <3>1. d # c /\ pc[d] = pc'[d]
      BY <1>3, <2>1
    <3>2. sess[d] # sess[c] /\ sess[d] \in Sessions
      BY <1>8, <2>1, <3>1 DEF Owning, ReconnectionInv, TokensUnspent, TypeOK
    <3>3. QED
      BY <1>1, <1>5, <2>1, <3>1, <3>2 DEF ReconnectionInv, GenerationsGrow
  <2>2. QED
    BY <2>1 DEF GenerationsGrow
<1>11. GenerationsFollow'
  <2>1. ASSUME NEW d \in Conns, pc'[d] \in {"ready", "active"}
        PROVE  gen'[d] >= lastOpened'[sess'[d]]
    <3>1. CASE d = c
      BY <1>1, <1>2, <1>5, <3>1
    <3>2. CASE d # c
      <4>1. pc[d] = pc'[d] /\ sess[d] # sess[c] /\ sess[d] \in Sessions
        BY <1>3, <1>8, <2>1, <3>2 DEF Owning, ReconnectionInv, TokensUnspent, TypeOK
      <4>2. QED
        BY <1>1, <1>5, <2>1, <4>1 DEF ReconnectionInv, GenerationsFollow
    <3>3. QED
      BY <3>1, <3>2
  <2>2. ASSUME NEW r \in Sessions
        PROVE  /\ Suspended(r)' => store'[r].gen >= lastOpened'[r]
               /\ r \notin known' => lastOpened'[r] = None
    BY <1>1, <1>2, <1>5, <1>9 DEF ReconnectionInv, GenerationsFollow, Suspended
  <2>3. \A d \in Conns : pc'[d] = "idle" => gen'[d] = 0
    BY <1>1, <1>3 DEF ReconnectionInv, GenerationsFollow
  <2>4. QED
    BY <2>1, <2>2, <2>3 DEF GenerationsFollow
<1>12. MachinesFollow'
  BY <1>1, <1>3 DEF ReconnectionInv, MachinesFollow, Suspended
<1>13. TokensUnspent' /\ TokensDistinct' /\ TimersOfEpisodes'
  BY <1>1, <1>4 DEF ReconnectionInv, TokensUnspent, TokensDistinct,
                    TimersOfEpisodes, Suspended
<1>14. QED
  BY <1>6, <1>7, <1>10, <1>11, <1>12, <1>13 DEF ReconnectionInv

(* A reopen raises the generation of the task, above all opened ones.      *)
LEMMA ReopenKeeps ==
  ASSUME ReconnectionInv, NEW c \in Conns, Reopen(c)
  PROVE  ReconnectionInv'
<1>1. /\ pc[c] = "active" /\ pc' = [pc EXCEPT ![c] = "reopening"]
      /\ gen' = [gen EXCEPT ![c] = gen[c] + 1]
      /\ UNCHANGED <<now, sess, token, sm, store, timers, issued, known,
                     answer, lastOpened, uses>>
  BY DEF Reopen, history
<1>2. /\ pc \in [Conns -> PcState] /\ gen \in [Conns -> Nat]
      /\ lastOpened \in [Sessions -> Nat \cup {None}]
      /\ sess[c] \in Sessions
      /\ lastOpened[sess[c]] \in Int
  BY <1>1 DEF ReconnectionInv, TypeOK, TokensUnspent, Owning, None
<1>3. /\ \A d \in Conns : d # c => pc'[d] = pc[d] /\ gen'[d] = gen[d]
      /\ pc'[c] = "reopening" /\ gen'[c] = gen[c] + 1
  BY <1>1, <1>2
<1>4. \A d \in Conns : pc'[d] \in Owning <=> pc[d] \in Owning
  BY <1>1, <1>3 DEF Owning
<1>5. TypeOK'
  BY <1>1, <1>2 DEF ReconnectionInv, TypeOK, PcState, Owning
<1>6. OneOwner' /\ TokenSingleUse' /\ NoProtocolViolation'
  BY <1>1, <1>3, <1>4 DEF ReconnectionInv, OneOwner, TokenSingleUse,
                          NoProtocolViolation, Owns, Suspended
<1>7. gen[c] + 1 > lastOpened[sess[c]]
  <2>1. gen[c] >= lastOpened[sess[c]] /\ gen[c] \in Nat
    BY <1>1, <1>2 DEF ReconnectionInv, GenerationsFollow
  <2>2. QED
    BY <1>2, <2>1
<1>8. GenerationsGrow' /\ GenerationsFollow'
  BY <1>1, <1>3, <1>7 DEF ReconnectionInv, GenerationsGrow, GenerationsFollow,
                          Suspended
<1>9. MachinesFollow'
  BY <1>1, <1>3 DEF ReconnectionInv, MachinesFollow, Suspended
<1>10. TokensUnspent' /\ TokensDistinct' /\ TimersOfEpisodes'
  BY <1>1, <1>4 DEF ReconnectionInv, TokensUnspent, TokensDistinct,
                    TimersOfEpisodes, Suspended
<1>11. QED
  BY <1>5, <1>6, <1>8, <1>9, <1>10 DEF ReconnectionInv

(* A task that was idle takes session s with the next token: it becomes    *)
(* the only holder of both.                                                *)
LEMMA FreshTokenUnheld ==
  ASSUME ReconnectionInv, issued < MaxTokens
  PROVE  /\ issued \in Token /\ uses[issued] = 0
         /\ \A d \in Conns : pc[d] \in Owning => token[d] # issued
         /\ \A r \in Sessions : store[r].tok # issued
         /\ \A tm \in timers : tm.tok # issued
<1>1. issued \in Nat /\ MaxTokens \in Nat
  BY ReconnectionAssumption DEF ReconnectionInv, TypeOK
<1>2. issued \in Token
  BY <1>1 DEF Token
<1>3. uses[issued] = 0
  BY <1>1, <1>2 DEF ReconnectionInv, TokensUnspent
<1>4. ASSUME NEW d \in Conns, pc[d] \in Owning PROVE token[d] # issued
  BY <1>1, <1>4 DEF ReconnectionInv, TokensUnspent
<1>5. ASSUME NEW r \in Sessions PROVE store[r].tok # issued
  <2>1. CASE Suspended(r)
    BY <1>1, <2>1 DEF ReconnectionInv, TokensUnspent
  <2>2. CASE ~Suspended(r)
    BY <1>1, <2>2, StoreEntry DEF ReconnectionInv, None
  <2>3. QED
    BY <2>1, <2>2
<1>6. ASSUME NEW tm \in timers PROVE tm.tok # issued
  BY <1>1 DEF ReconnectionInv, TimersOfEpisodes
<1>7. QED
  BY <1>2, <1>3, <1>4, <1>5, <1>6

(* A fresh handshake draws an unused session and an unused token.          *)
LEMMA HandshakeKeeps ==
  ASSUME ReconnectionInv, NEW c \in Conns, NEW s \in Sessions, Handshake(c, s)
  PROVE  ReconnectionInv'
<1>1. /\ pc[c] = "idle" /\ s \notin known /\ issued < MaxTokens
      /\ pc' = [pc EXCEPT ![c] = "setup"]
      /\ sess' = [sess EXCEPT ![c] = s]
      /\ token' = [token EXCEPT ![c] = issued]
      /\ sm' = [sm EXCEPT ![c] = "Authenticated"]
      /\ issued' = issued + 1
      /\ known' = known \cup {s}
      /\ answer' = [answer EXCEPT ![c] = "OK"]
      /\ UNCHANGED <<now, gen, store, timers, lastOpened, uses>>
  BY DEF Handshake
<1>2. /\ TypeOK
      /\ issued \in Nat /\ issued + 1 \in 0 .. MaxTokens /\ known \subseteq Sessions
  BY <1>1, ReconnectionAssumption DEF ReconnectionInv, TypeOK
<1>3. /\ issued \in Token /\ uses[issued] = 0
      /\ \A d \in Conns : pc[d] \in Owning => token[d] # issued
      /\ \A r \in Sessions : store[r].tok # issued
      /\ \A tm \in timers : tm.tok # issued
  BY <1>1, FreshTokenUnheld
<1>4. /\ \A d \in Conns : d # c => /\ pc'[d] = pc[d] /\ sess'[d] = sess[d]
                                   /\ token'[d] = token[d] /\ sm'[d] = sm[d]
      /\ pc'[c] = "setup" /\ sess'[c] = s /\ token'[c] = issued
  BY <1>1, <1>2 DEF TypeOK
<1>5. TypeOK'
  BY <1>1, <1>2, <1>3 DEF TypeOK, PcState, Owning
<1>6. ~Suspended(s) /\ \A d \in Conns : ~Owns(d, s)
  BY <1>1 DEF ReconnectionInv, TokensUnspent, Owns
<1>7. OneOwner'
  BY <1>1, <1>4, <1>6 DEF ReconnectionInv, OneOwner, Owns, Suspended
<1>8. TokenSingleUse' /\ NoProtocolViolation'
  BY <1>1, <1>4 DEF ReconnectionInv, TokenSingleUse, NoProtocolViolation
<1>9. lastOpened[s] = None /\ gen[c] = 0
  BY <1>1 DEF ReconnectionInv, GenerationsFollow
<1>10. GenerationsGrow' /\ GenerationsFollow'
  BY <1>1, <1>2, <1>4, <1>9
     DEF ReconnectionInv, GenerationsGrow, GenerationsFollow, Suspended, None
<1>11. MachinesFollow'
  BY <1>1, <1>4 DEF ReconnectionInv, MachinesFollow, Suspended
<1>12. TokensUnspent'
  <2>1. ASSUME NEW d \in Conns, pc'[d] \in Owning
        PROVE  /\ token'[d] \in Token /\ token'[d] < issued'
               /\ uses'[token'[d]] = 0 /\ sess'[d] \in known'
    <3>1. CASE d = c
      BY <1>1, <1>2, <1>3, <1>4, <3>1
    <3>2. CASE d # c
      <4>1. /\ token[d] \in Token /\ token[d] < issued /\ uses[token[d]] = 0
            /\ sess[d] \in known
        BY <1>4, <2>1, <3>2 DEF ReconnectionInv, TokensUnspent
      <4>2. token[d] \in Int
        BY <4>1 DEF Token
      <4>3. QED
        BY <1>1, <1>2, <1>4, <3>2, <4>1, <4>2
    <3>3. QED
      BY <3>1, <3>2
  <2>2. ASSUME NEW r \in Sessions, Suspended(r)'
        PROVE  store'[r].tok < issued' /\ uses'[store'[r].tok] = 0 /\ r \in known'
    <3>1. Suspended(r) /\ store'[r] = store[r]
      BY <1>1, <2>2 DEF Suspended
    <3>2. store[r].tok < issued /\ uses[store[r].tok] = 0 /\ r \in known
      BY <3>1 DEF ReconnectionInv, TokensUnspent
    <3>3. store[r].tok \in Int
      BY <1>2, StoreEntry
    <3>4. QED
      BY <1>1, <1>2, <3>1, <3>2, <3>3
  <2>3. ASSUME NEW t \in Token, t >= issued' PROVE uses'[t] = 0
    BY <1>1, <1>2, <2>3 DEF ReconnectionInv, TokensUnspent, Token
  <2>4. QED
    BY <2>1, <2>2, <2>3 DEF TokensUnspent
<1>13. TokensDistinct'
  BY <1>1, <1>3, <1>4 DEF ReconnectionInv, TokensDistinct, Suspended
<1>14. TimersOfEpisodes'
  <2>1. ASSUME NEW tm \in timers PROVE tm.tok < issued + 1
    BY <1>2 DEF ReconnectionInv, TimersOfEpisodes, TypeOK, Timer, Token
  <2>2. QED
    BY <1>1, <1>3, <1>4, <2>1 DEF ReconnectionInv, TimersOfEpisodes
<1>15. QED
  BY <1>5, <1>7, <1>8, <1>10, <1>11, <1>12, <1>13, <1>14 DEF ReconnectionInv

(* A reconnection that matches takes the session out of the store, spends  *)
(* its token and continues above its generation.                           *)
LEMMA MatchKeeps ==
  ASSUME ReconnectionInv, NEW c \in Conns, NEW s \in Sessions,
         ReconnectMatch(c, s)
  PROVE  ReconnectionInv'
<1>0. store[s].sm = "Suspended"
  BY DEF ReconnectMatch, ReconnectionInv, MachinesFollow
<1>1. /\ pc[c] = "idle" /\ Suspended(s) /\ issued < MaxTokens
      /\ store' = [store EXCEPT ![s] = NoEntry]
      /\ uses' = [uses EXCEPT ![store[s].tok] = uses[store[s].tok] + 1]
      /\ sess' = [sess EXCEPT ![c] = s]
      /\ pc' = [pc EXCEPT ![c] = "resuming"]
      /\ sm' = [sm EXCEPT ![c] = "Active"]
      /\ token' = [token EXCEPT ![c] = issued]
      /\ gen' = [gen EXCEPT ![c] = store[s].gen + 1]
      /\ issued' = issued + 1
      /\ answer' = [answer EXCEPT ![c] = "OK"]
      /\ UNCHANGED <<now, timers, known, lastOpened>>
  BY <1>0 DEF ReconnectMatch
<1>2. /\ TypeOK
      /\ issued \in Nat /\ issued + 1 \in 0 .. MaxTokens /\ known \subseteq Sessions
  BY <1>1, ReconnectionAssumption DEF ReconnectionInv, TypeOK
<1>3. /\ issued \in Token /\ uses[issued] = 0
      /\ \A d \in Conns : pc[d] \in Owning => token[d] # issued
      /\ \A r \in Sessions : store[r].tok # issued
      /\ \A tm \in timers : tm.tok # issued
  BY <1>1, FreshTokenUnheld
<1>4. /\ \A d \in Conns : d # c => /\ pc'[d] = pc[d] /\ sess'[d] = sess[d]
                                   /\ token'[d] = token[d] /\ sm'[d] = sm[d]
                                   /\ gen'[d] = gen[d]
      /\ pc'[c] = "resuming" /\ sess'[c] = s /\ token'[c] = issued
      /\ sm'[c] = "Active" /\ gen'[c] = store[s].gen + 1
      /\ \A r \in Sessions : store'[r] = IF r = s THEN NoEntry ELSE store[r]
  BY <1>1, <1>2 DEF TypeOK
<1>5. /\ store[s].tok \in Token /\ store[s].gen \in Nat
      /\ store[s].tok < issued /\ uses[store[s].tok] = 0 /\ s \in known
  BY <1>1, <1>2, StoreEntry DEF ReconnectionInv, TokensUnspent
<1>6. \A t \in Token : uses'[t] = IF t = store[s].tok THEN 1 ELSE uses[t]
  BY <1>1, <1>2, <1>5 DEF TypeOK
<1>7. \A r \in Sessions : Suspended(r)' => r # s /\ Suspended(r)
  BY <1>4 DEF Suspended
<1>8. TypeOK'
  BY <1>1, <1>2, <1>3, <1>5 DEF TypeOK, PcState, Owning
<1>9. \A d \in Conns : ~Owns(d, s)
  BY <1>1 DEF ReconnectionInv, OneOwner
<1>10. OneOwner'
  BY <1>1, <1>4, <1>7, <1>9 DEF ReconnectionInv, OneOwner, Owns, Owning
<1>11. TokenSingleUse' /\ NoProtocolViolation'
  BY <1>1, <1>4, <1>6 DEF ReconnectionInv, TokenSingleUse, NoProtocolViolation
<1>12. GenerationsGrow' /\ GenerationsFollow'
  <2>1. store[s].gen >= lastOpened[s] /\ lastOpened[s] \in Int
    BY <1>1, <1>2 DEF ReconnectionInv, GenerationsFollow, TypeOK, None
  <2>2. store[s].gen + 1 > lastOpened[s]
    BY <1>5, <2>1
  <2>3. QED
    BY <1>1, <1>4, <1>7, <2>2
       DEF ReconnectionInv, GenerationsGrow, GenerationsFollow
<1>13. MachinesFollow'
  BY <1>1, <1>4, <1>7 DEF ReconnectionInv, MachinesFollow
<1>14. TokensUnspent'
  <2>1. ASSUME NEW d \in Conns, pc'[d] \in Owning
        PROVE  /\ token'[d] \in Token /\ token'[d] < issued'
               /\ uses'[token'[d]] = 0 /\ sess'[d] \in known'
    <3>1. CASE d = c
      BY <1>1, <1>2, <1>3, <1>4, <1>5, <1>6, <3>1
    <3>2. CASE d # c
      <4>1. /\ pc[d] \in Owning
            /\ token[d] \in Token /\ token[d] < issued /\ uses[token[d]] = 0
            /\ sess[d] \in known
        BY <1>4, <2>1, <3>2 DEF ReconnectionInv, TokensUnspent
      <4>2. token[d] # store[s].tok
        BY <1>1, <4>1 DEF ReconnectionInv, TokensDistinct
      <4>3. token[d] \in Int
        BY <4>1 DEF Token
      <4>4. QED
        BY <1>1, <1>2, <1>4, <1>6, <3>2, <4>1, <4>2, <4>3
    <3>3. QED
      BY <3>1, <3>2
  <2>2. ASSUME NEW r \in Sessions, Suspended(r)'
        PROVE  store'[r].tok < issued' /\ uses'[store'[r].tok] = 0 /\ r \in known'
    <3>1. r # s /\ Suspended(r) /\ store'[r] = store[r]
      BY <1>4, <1>7, <2>2
    <3>2. store[r].tok < issued /\ uses[store[r].tok] = 0 /\ r \in known
      BY <3>1 DEF ReconnectionInv, TokensUnspent
    <3>3. store[r].tok \in Int /\ store[r].tok \in Token
      BY <1>2, <3>1, StoreEntry
    <3>4. store[r].tok # store[s].tok
      BY <1>1, <3>1 DEF ReconnectionInv, TokensDistinct
    <3>5. QED
      BY <1>1, <1>2, <1>6, <3>1, <3>2, <3>3, <3>4
  <2>3. ASSUME NEW t \in Token, t >= issued' PROVE uses'[t] = 0
    <3>1. t \in Int /\ t >= issued /\ store[s].tok \in Int
      BY <1>1, <1>2, <1>5, <2>3 DEF Token
    <3>2. t # store[s].tok
      BY <1>2, <1>5, <3>1
    <3>3. QED
      BY <1>6, <3>1, <3>2 DEF ReconnectionInv, TokensUnspent
  <2>4. QED
    BY <2>1, <2>2, <2>3 DEF TokensUnspent
<1>15. TokensDistinct'
  BY <1>1, <1>3, <1>4, <1>7 DEF ReconnectionInv, TokensDistinct
<1>16. TimersOfEpisodes'
  <2>1. ASSUME NEW tm \in timers
        PROVE  /\ tm.tok < issued + 1 /\ tm.tok # None /\ tm.sid \in Sessions
    BY <1>2, ReconnectionAssumption
       DEF ReconnectionInv, TimersOfEpisodes, TypeOK, Timer, Token, None
  <2>2. NoEntry.tok = None
    BY DEF NoEntry
  <2>3. QED
    BY <1>1, <1>3, <1>4, <2>1, <2>2 DEF ReconnectionInv, TimersOfEpisodes
<1>17. QED
  BY <1>8, <1>10, <1>11, <1>12, <1>13, <1>14, <1>15, <1>16 DEF ReconnectionInv

(* A lost session moves, with its unspent token, from its task to the      *)
(* store, where nothing was; its timer is the first to carry that token.   *)
LEMMA LostKeeps ==
  ASSUME ReconnectionInv, NEW c \in Conns, SessionLost(c)
  PROVE  ReconnectionInv'
<1> DEFINE s == sess[c]
           e == [tok |-> token[c], gen |-> gen[c], sm |-> "Suspended",
                 since |-> now]
           tm0 == [sid |-> s, tok |-> token[c], due |-> now + Grace]
<1>0. sm[c] = "Active" /\ pc[c] \in {"active", "reopening"}
  BY DEF SessionLost, ReconnectionInv, MachinesFollow
<1>1. /\ pc' = [pc EXCEPT ![c] = "lost"]
      /\ sm' = [sm EXCEPT ![c] = "Suspended"]
      /\ store' = [store EXCEPT ![s] = e]
      /\ timers' = timers \cup {tm0}
      /\ UNCHANGED <<now, sess, token, gen, issued, known, answer, lastOpened,
                     uses>>
  BY <1>0 DEF SessionLost, history
<1>2. /\ TypeOK /\ now \in Nat /\ gen[c] \in Nat /\ Grace \in Nat
      /\ issued \in Nat /\ known \subseteq Sessions
  BY ReconnectionAssumption DEF ReconnectionInv, TypeOK
<1>3. /\ pc[c] \in Owning
      /\ token[c] \in Token /\ token[c] < issued /\ uses[token[c]] = 0
      /\ s \in known /\ s \in Sessions
  BY <1>0, <1>2 DEF ReconnectionInv, TokensUnspent, Owning
<1>4. e \in Entry /\ tm0 \in Timer
  BY <1>2, <1>3 DEF Entry, Timer
<1>5. /\ e.tok = token[c] /\ e.gen = gen[c] /\ e.sm = "Suspended" /\ e.since = now
      /\ tm0.sid = s /\ tm0.tok = token[c] /\ tm0.due = now + Grace
  OBVIOUS
<1>6. token[c] # None
  BY <1>3, ReconnectionAssumption DEF Token, None
<1>7. e # NoEntry
  BY <1>5, <1>6 DEF NoEntry
<1> HIDE DEF s, e, tm0
<1>8. /\ \A d \in Conns : d # c => pc'[d] = pc[d] /\ sm'[d] = sm[d]
      /\ pc'[c] = "lost"
      /\ \A r \in Sessions : store'[r] = IF r = s THEN e ELSE store[r]
  BY <1>1, <1>2 DEF TypeOK
<1>9. \A d \in Conns : pc'[d] \in Owning => pc[d] \in Owning /\ d # c
  BY <1>8 DEF Owning
<1>10. \A r \in Sessions : Suspended(r)' <=> r = s \/ Suspended(r)
  BY <1>7, <1>8 DEF Suspended
<1>11. \A d \in Conns : pc[d] \in Owning /\ d # c => sess[d] # s /\ token[d] # token[c]
  BY <1>3 DEF ReconnectionInv, OneOwner, TokensDistinct, Owns, s
<1>12. ~Suspended(s)
  BY <1>3 DEF ReconnectionInv, OneOwner, Owns, s
<1>13. TypeOK'
  BY <1>1, <1>2, <1>3, <1>4 DEF TypeOK, PcState
<1>14. OneOwner'
  BY <1>1, <1>9, <1>10, <1>11 DEF ReconnectionInv, OneOwner, Owns
<1>15. TokenSingleUse' /\ NoProtocolViolation'
  BY <1>1, <1>8 DEF ReconnectionInv, TokenSingleUse, NoProtocolViolation
<1>16. GenerationsGrow'
  BY <1>1, <1>8 DEF ReconnectionInv, GenerationsGrow
<1>17. GenerationsFollow'
  <2>1. gen[c] >= lastOpened[s]
    <3>1. CASE pc[c] = "active"
      BY <3>1 DEF ReconnectionInv, GenerationsFollow, s
    <3>2. CASE pc[c] = "reopening"
      <4>1. gen[c] > lastOpened[s] /\ lastOpened[s] \in Int
        BY <1>2, <1>3, <3>2 DEF ReconnectionInv, GenerationsGrow, TypeOK, None, s
      <4>2. QED
        BY <1>2, <4>1
    <3>3. QED
      BY <1>0, <3>1, <3>2
  <2>2. QED
    BY <1>1, <1>5, <1>8, <1>10, <2>1 DEF ReconnectionInv, GenerationsFollow
<1>18. MachinesFollow'
  BY <1>1, <1>5, <1>8, <1>10 DEF ReconnectionInv, MachinesFollow
<1>19. TokensUnspent'
  BY <1>1, <1>3, <1>5, <1>8, <1>9, <1>10 DEF ReconnectionInv, TokensUnspent
<1>20. TokensDistinct'
  <2>1. \A r \in Sessions : Suspended(r) => store[r].tok # token[c]
    BY <1>3 DEF ReconnectionInv, TokensDistinct
  <2>2. QED
    BY <1>1, <1>5, <1>8, <1>9, <1>10, <1>11, <2>1
       DEF ReconnectionInv, TokensDistinct
<1>21. TimersOfEpisodes'
  <2>1. ASSUME NEW tm \in timers
        PROVE  /\ tm.tok < issued /\ tm.tok # token[c] /\ tm.sid \in Sessions
               /\ \A d \in Conns : pc[d] \in Owning => token[d] # tm.tok
               /\ store[tm.sid].tok = tm.tok =>
                    tm.due = store[tm.sid].since + Grace
    BY <1>2, <1>3 DEF ReconnectionInv, TimersOfEpisodes, TypeOK, Timer
  <2>2. ASSUME NEW tm \in timers
        PROVE  /\ tm.tok < issued'
               /\ \A d \in Conns : pc'[d] \in Owning => token'[d] # tm.tok
               /\ store'[tm.sid].tok = tm.tok =>
                    tm.due = store'[tm.sid].since + Grace
    BY <1>1, <1>5, <1>8, <1>9, <2>1
  <2>3. /\ tm0.tok < issued'
        /\ \A d \in Conns : pc'[d] \in Owning => token'[d] # tm0.tok
        /\ tm0.due = store'[tm0.sid].since + Grace
    BY <1>1, <1>3, <1>5, <1>8, <1>9, <1>11
  <2>4. QED
    BY <1>1, <2>2, <2>3 DEF TimersOfEpisodes
<1>22. QED
  BY <1>13, <1>14, <1>15, <1>16, <1>17, <1>18, <1>19, <1>20, <1>21
     DEF ReconnectionInv

(* A timer removes the episode its token names, at its time, or nothing.   *)
LEMMA TimerKeeps ==
  ASSUME ReconnectionInv, NEW s \in Sessions, NEW t \in Token, TimerFires(s, t)
  PROVE  /\ ReconnectionInv'
         /\ store' = store \/ /\ store' = [store EXCEPT ![s] = NoEntry]
                              /\ Suspended(s)
                              /\ now >= store[s].since + Grace
<1>1. PICK tm \in timers :
        /\ tm.sid = s /\ tm.tok = t /\ now >= tm.due
        /\ timers' = timers \ {tm}
        /\ ExpireIfTokenMatches(s, t)
        /\ UNCHANGED <<now, task, issued, known, history>>
  BY DEF TimerFires
<1>2. TypeOK /\ t # None
  BY ReconnectionAssumption DEF ReconnectionInv, Token, None
<1>3. \/ store' = store
      \/ store[s].tok = t /\ store' = [store EXCEPT ![s] = NoEntry]
  BY <1>1 DEF ExpireIfTokenMatches
<1>4. store[s].tok = t => Suspended(s) /\ now >= store[s].since + Grace
  <2>1. store[s].tok = t => tm.due = store[s].since + Grace
    BY <1>1 DEF ReconnectionInv, TimersOfEpisodes
  <2>2. store[s].tok = t => Suspended(s)
    BY <1>2, StoreEntry
  <2>3. QED
    BY <1>1, <2>1, <2>2
<1>5. \A r \in Sessions : store'[r] = store[r] \/ (r = s /\ store'[r] = NoEntry)
  BY <1>2, <1>3 DEF TypeOK
<1>6. \A r \in Sessions : Suspended(r)' => Suspended(r) /\ store'[r] = store[r]
  BY <1>5 DEF Suspended
<1>7. UNCHANGED <<now, pc, sess, token, gen, sm, issued, known, answer,
                  lastOpened, uses>>
  BY <1>1 DEF task, history
<1>8. TypeOK'
  BY <1>1, <1>2, <1>3, <1>7 DEF TypeOK
<1>9. OneOwner' /\ TokenSingleUse' /\ NoProtocolViolation' /\ GenerationsGrow'
  BY <1>6, <1>7 DEF ReconnectionInv, OneOwner, TokenSingleUse,
                    NoProtocolViolation, GenerationsGrow, Owns
<1>10. MachinesFollow' /\ GenerationsFollow'
  BY <1>6, <1>7 DEF ReconnectionInv, MachinesFollow, GenerationsFollow
<1>11. TokensUnspent' /\ TokensDistinct'
  BY <1>6, <1>7 DEF ReconnectionInv, TokensUnspent, TokensDistinct
<1>12. TimersOfEpisodes'
  <2>1. ASSUME NEW u \in timers PROVE u.sid \in Sessions /\ u.tok # None
    BY <1>2, ReconnectionAssumption DEF TypeOK, Timer, Token, None
  <2>2. NoEntry.tok = None
    BY DEF NoEntry
  <2>3. QED
    BY <1>1, <1>5, <1>7, <2>1, <2>2 DEF ReconnectionInv, TimersOfEpisodes
<1>13. QED
  BY <1>3, <1>4, <1>8, <1>9, <1>10, <1>11, <1>12 DEF ReconnectionInv

(* Every step keeps the invariant.                                         *)
LEMMA StepKeeps ==
  ASSUME ReconnectionInv, [Next]_vars
  PROVE  ReconnectionInv'
<1>1. ASSUME NEW c \in Conns, ConnStep(c) PROVE ReconnectionInv'
  <2>1. CASE ResumeWritten(c) \/ ResumeWriteFails(c) \/ FeedbackAccepted(c)
    BY <2>1, GotoKeeps
       DEF ResumeWritten, ResumeWriteFails, FeedbackAccepted, Owning
  <2>2. CASE SetupFails(c) \/ SessionEnds(c)
    BY <2>2, GotoKeeps DEF SetupFails, SessionEnds, Owning
  <2>3. ASSUME NEW s \in Sessions, Handshake(c, s) PROVE ReconnectionInv'
    BY <2>3, HandshakeKeeps
  <2>4. ASSUME NEW s \in Sessions, NEW t, Reconnect(c, s, t) PROVE ReconnectionInv'
    BY <2>4, MatchKeeps, MismatchKeeps DEF Reconnect
  <2>5. QED
    BY <1>1, <2>1, <2>2, <2>3, <2>4, OpenKeeps, ReopenKeeps, LostKeeps
       DEF ConnStep
<1>2. QED
  BY <1>1, TickKeeps, TimerKeeps DEF Next

(* The invariant holds in every reachable state.                           *)
THEOREM ReconnectionInvariant == Spec => []ReconnectionInv
<1>1. Init => ReconnectionInv
  BY ReconnectionAssumption
     DEF Init, ReconnectionInv, TypeOK, OneOwner, TokenSingleUse,
         NoProtocolViolation, GenerationsGrow, TokensUnspent, TokensDistinct,
         TimersOfEpisodes, MachinesFollow, GenerationsFollow, Owns, Suspended,
         Owning, PcState, None
<1>2. ReconnectionInv /\ [Next]_vars => ReconnectionInv'
  BY StepKeeps
<1>3. QED
  BY <1>1, <1>2, PTL DEF Spec

(* At most one place holds a session, for ever.                            *)
THEOREM SessionHasOneOwner == Spec => []OneOwner
<1>1. ReconnectionInv => OneOwner
  BY DEF ReconnectionInv
<1>2. QED
  BY <1>1, ReconnectionInvariant, PTL

(* No token resumes a session twice.                                       *)
THEOREM TokenUsedOnce == Spec => []TokenSingleUse
<1>1. ReconnectionInv => TokenSingleUse
  BY DEF ReconnectionInv
<1>2. QED
  BY <1>1, ReconnectionInvariant, PTL

(* Whatever order losses, resumptions and expiries take, no state machine  *)
(* of a connection refuses the transition its handler asks for.            *)
THEOREM ReconnectionNeverViolates == Spec => []NoProtocolViolation
<1>1. ReconnectionInv => NoProtocolViolation
  BY DEF ReconnectionInv
<1>2. QED
  BY <1>1, ReconnectionInvariant, PTL

(* Generations grow across reopens and reconnections.                      *)
THEOREM GenerationsOnlyGrow == Spec => []GenerationsGrow
<1>1. ReconnectionInv => GenerationsGrow
  BY DEF ReconnectionInv
<1>2. QED
  BY <1>1, ReconnectionInvariant, PTL

(* A suspended session is cut short by its own timer or a reconnection.    *)
THEOREM ExpiryIsEarned == Spec => ExpiryNeedsGrace
<1>1. ASSUME ReconnectionInv, [Next]_vars,
             NEW s \in Sessions, Suspended(s), ~Suspended(s)'
      PROVE  \/ now >= store[s].since + Grace
             \/ \E c \in Conns : pc[c] = "idle" /\ Owns(c, s)'
  <2>1. ASSUME store' = store PROVE FALSE
    BY <1>1, <2>1 DEF Suspended
  <2>2. ASSUME NEW c \in Conns, ConnStep(c)
        PROVE  \E d \in Conns : pc[d] = "idle" /\ Owns(d, s)'
    <3>1. PICK r \in Sessions : ReconnectMatch(c, r)
      <4>1. ~SessionLost(c)
        <5>1. SUFFICES ASSUME SessionLost(c) PROVE FALSE
          OBVIOUS
        <5>2. \/ store' = store
              \/ store' = [store EXCEPT ![sess[c]] =
                             [tok |-> token[c], gen |-> gen[c],
                              sm |-> "Suspended", since |-> now]]
          BY <5>1 DEF SessionLost
        <5>3. CASE store' = store
          BY <2>1, <5>3
        <5>4. CASE store' = [store EXCEPT ![sess[c]] =
                              [tok |-> token[c], gen |-> gen[c],
                               sm |-> "Suspended", since |-> now]]
          <6>1. store'[s] = store[s] \/ store'[s].sm = "Suspended"
            BY <1>1, <5>4 DEF ReconnectionInv, TypeOK
          <6>2. QED
            BY <1>1, <6>1 DEF Suspended, NoEntry
        <5>5. QED
          BY <5>2, <5>3, <5>4
      <4>2. QED
        BY <2>1, <2>2, <4>1
           DEF ConnStep, Handshake, Reconnect, ReconnectMismatch, ResumeWritten,
               ResumeWriteFails, Opened, FeedbackAccepted, SetupFails, Reopen,
               Reopened, SessionEnds, Goto
    <3>2. /\ pc[c] = "idle" /\ store' = [store EXCEPT ![r] = NoEntry]
          /\ store[r].sm = "Suspended"
      BY <1>1, <3>1 DEF ReconnectMatch, ReconnectionInv, MachinesFollow
    <3>3. r = s
      BY <1>1, <3>2 DEF ReconnectionInv, TypeOK, Suspended
    <3>4. pc'[c] = "resuming" /\ sess'[c] = s
      BY <1>1, <3>1, <3>2, <3>3 DEF ReconnectMatch, ReconnectionInv, TypeOK
    <3>5. QED
      BY <3>2, <3>4 DEF Owns, Owning
  <2>3. ASSUME NEW r \in Sessions, NEW t \in Token, TimerFires(r, t)
        PROVE  now >= store[s].since + Grace
    <3>1. /\ store' = [store EXCEPT ![r] = NoEntry]
          /\ now >= store[r].since + Grace
      BY <1>1, <2>1, <2>3, TimerKeeps
    <3>2. r = s
      BY <1>1, <3>1 DEF ReconnectionInv, TypeOK, Suspended
    <3>3. QED
      BY <3>1, <3>2
  <2>4. QED
    BY <1>1, <2>1, <2>2, <2>3 DEF Next, Tick, vars
<1>2. ReconnectionInv /\ [Next]_vars =>
        [\A s \in Sessions :
           Suspended(s) /\ ~Suspended(s)' =>
             \/ now >= store[s].since + Grace
             \/ \E c \in Conns : pc[c] = "idle" /\ Owns(c, s)']_vars
  BY <1>1
<1>3. QED
  BY <1>2, ReconnectionInvariant, PTL DEF Spec, ExpiryNeedsGrace

(* If only session s changes its status, the abstract variable changes at  *)
(* s only.                                                                 *)
LEMMA StatusMoves ==
  ASSUME NEW s \in Sessions, NEW from, NEW to,
         StatusOf(s) = from, StatusOf(s)' = to,
         \A r \in Sessions : r # s => StatusOf(r)' = StatusOf(r),
         UNCHANGED lastOpened
  PROVE  Lifecycle!Move(s, from, to)
<1>1. SessionStatus[s] = from
  BY DEF SessionStatus
<1>2. SessionStatus' = [SessionStatus EXCEPT ![s] = to]
  BY DEF SessionStatus
<1>3. QED
  BY <1>1, <1>2 DEF Lifecycle!Move

(* If no session changes its status and nothing is opened, the step is a   *)
(* stutter of the abstract specification.                                  *)
LEMMA StatusStays ==
  ASSUME \A r \in Sessions : StatusOf(r)' = StatusOf(r), UNCHANGED lastOpened
  PROVE  UNCHANGED Lifecycle!vars
BY DEF SessionStatus, Lifecycle!vars

(* Steps of a task that keep or give up its session.                       *)
LEMMA GotoRefines ==
  ASSUME ReconnectionInv, NEW c \in Conns, NEW from, NEW to, Goto(c, from, to),
         \/ <<from, to>> = <<"resuming", "setup">>
         \/ <<from, to>> = <<"ready", "active">>
         \/ from \in Owning /\ to \in {"lost", "ended", "rejected"}
  PROVE  [Lifecycle!Next]_(Lifecycle!vars)
<1> DEFINE s == sess[c]
<1>1. /\ pc[c] \in Owning /\ pc' = [pc EXCEPT ![c] = to]
      /\ UNCHANGED <<sess, store, known, lastOpened>>
  BY DEF Goto, history, Owning
<1>2. \A d \in Conns : pc'[d] = IF d = c THEN to ELSE pc[d]
  BY <1>1 DEF ReconnectionInv, TypeOK
<1>3. s \in Sessions /\ s \in known
  BY <1>1 DEF ReconnectionInv, TypeOK, TokensUnspent
<1>4. CASE to \in Owning
  <2>1. \A d \in Conns, r \in Sessions : Owns(d, r)' <=> Owns(d, r)
    BY <1>1, <1>2, <1>4 DEF Owns
  <2>2. \A r \in Sessions : StatusOf(r)' = StatusOf(r)
    BY <1>1, <2>1 DEF StatusOf, Suspended
  <2>3. QED
    BY <1>1, <2>2, StatusStays
<1>5. CASE to \notin Owning
  <2>1. \A d \in Conns, r \in Sessions : Owns(d, r)' <=> Owns(d, r) /\ d # c
    BY <1>1, <1>2, <1>5 DEF Owns
  <2>2. Owns(c, s) /\ ~Suspended(s) /\ \A d \in Conns : Owns(d, s) => d = c
    BY <1>1, <1>3 DEF Owns, ReconnectionInv, OneOwner
  <2>3. StatusOf(s) = "live" /\ StatusOf(s)' = "gone"
    BY <1>1, <1>3, <2>1, <2>2 DEF StatusOf, Suspended
  <2>4. \A r \in Sessions : r # s => StatusOf(r)' = StatusOf(r)
    <3>1. \A r \in Sessions : r # s => ~Owns(c, r)
      BY DEF Owns
    <3>2. QED
      BY <1>1, <2>1, <3>1 DEF StatusOf, Suspended
  <2>5. Lifecycle!Finish(s)
    BY <1>1, <1>3, <2>3, <2>4, StatusMoves DEF Lifecycle!Finish
  <2>6. QED
    BY <1>3, <2>5 DEF Lifecycle!Next
<1>6. QED
  BY <1>4, <1>5

(* Opening an Instance shows the client a higher generation.               *)
LEMMA OpenRefines ==
  ASSUME ReconnectionInv, NEW c \in Conns, Opened(c) \/ Reopened(c)
  PROVE  [Lifecycle!Next]_(Lifecycle!vars)
<1> DEFINE s == sess[c]
<1>1. /\ pc[c] \in {"setup", "reopening"}
      /\ pc' = [pc EXCEPT ![c] = IF pc[c] = "setup" THEN "ready" ELSE "active"]
      /\ lastOpened' = [lastOpened EXCEPT ![s] = gen[c]]
      /\ UNCHANGED <<sess, store, known>>
  BY DEF Opened, Reopened
<1>2. s \in Sessions /\ s \in known /\ pc \in [Conns -> PcState]
  BY <1>1 DEF ReconnectionInv, TypeOK, TokensUnspent, Owning
<1>3. \A d \in Conns : pc'[d] \in Owning <=> pc[d] \in Owning
  BY <1>1, <1>2 DEF Owning
<1>4. \A d \in Conns, r \in Sessions : Owns(d, r)' <=> Owns(d, r)
  BY <1>1, <1>3 DEF Owns
<1>5. \A r \in Sessions : StatusOf(r)' = StatusOf(r)
  BY <1>1, <1>4 DEF StatusOf, Suspended
<1>6. SessionStatus' = SessionStatus
  BY <1>5 DEF SessionStatus
<1>7. Owns(c, s) /\ ~Suspended(s)
  BY <1>1, <1>2 DEF Owns, Owning, ReconnectionInv, OneOwner
<1>8. SessionStatus[s] = "live"
  BY <1>2, <1>7 DEF SessionStatus, StatusOf
<1>9. lastOpened'[s] = gen[c] /\ gen[c] > lastOpened[s]
  BY <1>1, <1>2 DEF ReconnectionInv, GenerationsGrow, TypeOK
<1>10. Lifecycle!Show(s)
  BY <1>1, <1>6, <1>8, <1>9 DEF Lifecycle!Show
<1>11. QED
  BY <1>2, <1>10 DEF Lifecycle!Next

(* A handshake establishes, a matching reconnection resumes.               *)
LEMMA TakeRefines ==
  ASSUME ReconnectionInv, NEW c \in Conns, NEW s \in Sessions,
         Handshake(c, s) \/ ReconnectMatch(c, s)
  PROVE  [Lifecycle!Next]_(Lifecycle!vars)
<1>1. store[s].sm = "Suspended" \/ ~ReconnectMatch(c, s)
  BY DEF ReconnectMatch, ReconnectionInv, MachinesFollow
<1>2. /\ pc[c] = "idle" /\ pc'[c] \in Owning /\ sess'[c] = s
      /\ \A d \in Conns : d # c => pc'[d] = pc[d] /\ sess'[d] = sess[d]
      /\ UNCHANGED lastOpened
  BY <1>1 DEF Handshake, ReconnectMatch, ReconnectionInv, TypeOK, Owning
<1>3. \A r \in Sessions :
        /\ \A d \in Conns : d # c => (Owns(d, r)' <=> Owns(d, r))
        /\ ~Owns(c, r) /\ (Owns(c, r)' <=> r = s)
  BY <1>2 DEF Owns, Owning
<1>4. CASE Handshake(c, s)
  <2>1. s \notin known /\ known' = known \cup {s} /\ store' = store
    BY <1>4 DEF Handshake
  <2>2. ~Suspended(s)
    BY <2>1 DEF ReconnectionInv, TokensUnspent
  <2>3. StatusOf(s) = "unknown" /\ StatusOf(s)' = "live"
    BY <1>3, <2>1, <2>2 DEF StatusOf, Suspended
  <2>4. \A r \in Sessions : r # s => StatusOf(r)' = StatusOf(r)
    BY <1>3, <2>1 DEF StatusOf, Suspended
  <2>5. Lifecycle!Establish(s)
    BY <1>2, <2>3, <2>4, StatusMoves DEF Lifecycle!Establish
  <2>6. QED
    BY <2>5 DEF Lifecycle!Next
<1>5. CASE ReconnectMatch(c, s)
  <2>1. /\ Suspended(s) /\ s \in known /\ known' = known
        /\ \A r \in Sessions : store'[r] = IF r = s THEN NoEntry ELSE store[r]
    BY <1>5 DEF ReconnectMatch, ReconnectionInv, TypeOK, TokensUnspent
  <2>2. StatusOf(s) = "suspended" /\ StatusOf(s)' = "live"
    BY <1>3, <2>1 DEF StatusOf, Suspended
  <2>3. \A r \in Sessions : r # s => StatusOf(r)' = StatusOf(r)
    BY <1>3, <2>1 DEF StatusOf, Suspended
  <2>4. Lifecycle!Resume(s)
    BY <1>2, <2>2, <2>3, StatusMoves DEF Lifecycle!Resume
  <2>5. QED
    BY <2>4 DEF Lifecycle!Next
<1>6. QED
  BY <1>4, <1>5

(* A lost session is suspended.                                            *)
LEMMA LostRefines ==
  ASSUME ReconnectionInv, NEW c \in Conns, SessionLost(c)
  PROVE  [Lifecycle!Next]_(Lifecycle!vars)
<1> DEFINE s == sess[c]
<1>1. sm[c] = "Active" /\ pc[c] \in {"active", "reopening"}
  BY DEF SessionLost, ReconnectionInv, MachinesFollow
<1>2. s \in Sessions /\ s \in known
  BY <1>1 DEF ReconnectionInv, TypeOK, TokensUnspent, Owning
<1>3. /\ \A d \in Conns : pc'[d] = IF d = c THEN "lost" ELSE pc[d]
      /\ \A r \in Sessions : r # s => store'[r] = store[r]
      /\ store'[s].sm = "Suspended"
      /\ UNCHANGED <<sess, known, lastOpened>>
  BY <1>1, <1>2 DEF SessionLost, ReconnectionInv, TypeOK, history
<1>4. store'[s] # NoEntry
  BY <1>3 DEF NoEntry
<1>5. \A d \in Conns, r \in Sessions : r # s => (Owns(d, r)' <=> Owns(d, r))
  BY <1>3 DEF Owns, Owning
<1>6. Owns(c, s) /\ ~Suspended(s)
  BY <1>1, <1>2 DEF Owns, Owning, ReconnectionInv, OneOwner
<1>7. StatusOf(s) = "live" /\ StatusOf(s)' = "suspended"
  BY <1>2, <1>3, <1>4, <1>6 DEF StatusOf, Suspended
<1>8. \A r \in Sessions : r # s => StatusOf(r)' = StatusOf(r)
  BY <1>3, <1>5 DEF StatusOf, Suspended
<1>9. Lifecycle!Suspend(s)
  BY <1>2, <1>3, <1>7, <1>8, StatusMoves DEF Lifecycle!Suspend
<1>10. QED
  BY <1>2, <1>9 DEF Lifecycle!Next

(* A timer expires the session its token names, or does nothing.           *)
LEMMA TimerRefines ==
  ASSUME ReconnectionInv, NEW s \in Sessions, NEW t \in Token, TimerFires(s, t)
  PROVE  [Lifecycle!Next]_(Lifecycle!vars)
<1>1. UNCHANGED <<pc, sess, known, lastOpened>>
  BY DEF TimerFires, task, history
<1>2. \A d \in Conns, r \in Sessions : Owns(d, r)' <=> Owns(d, r)
  BY <1>1 DEF Owns
<1>3. CASE store' = store
  <2>1. \A r \in Sessions : StatusOf(r)' = StatusOf(r)
    BY <1>1, <1>2, <1>3 DEF StatusOf, Suspended
  <2>2. QED
    BY <1>1, <2>1, StatusStays
<1>4. CASE store' = [store EXCEPT ![s] = NoEntry] /\ Suspended(s)
  <2>1. \A r \in Sessions : store'[r] = IF r = s THEN NoEntry ELSE store[r]
    BY <1>4 DEF ReconnectionInv, TypeOK
  <2>2. s \in known /\ \A d \in Conns : ~Owns(d, s)
    BY <1>4 DEF ReconnectionInv, OneOwner, TokensUnspent
  <2>3. StatusOf(s) = "suspended" /\ StatusOf(s)' = "gone"
    BY <1>1, <1>2, <1>4, <2>1, <2>2 DEF StatusOf, Suspended
  <2>4. \A r \in Sessions : r # s => StatusOf(r)' = StatusOf(r)
    BY <1>1, <1>2, <2>1 DEF StatusOf, Suspended
  <2>5. Lifecycle!Expire(s)
    BY <1>1, <2>3, <2>4, StatusMoves DEF Lifecycle!Expire
  <2>6. QED
    BY <2>5 DEF Lifecycle!Next
<1>5. QED
  BY <1>3, <1>4, TimerKeeps

(* Steps that change no task's hold on a session.                          *)
LEMMA OthersRefine ==
  ASSUME ReconnectionInv,
         \/ Tick \/ UNCHANGED vars
         \/ \E c \in Conns : Reopen(c)
         \/ \E c \in Conns, s \in Sessions : \E t : ReconnectMismatch(c, s, t)
  PROVE  [Lifecycle!Next]_(Lifecycle!vars)
<1>1. UNCHANGED <<sess, store, known, lastOpened>>
  BY DEF Tick, vars, task, history, Reopen, ReconnectMismatch
<1>2. \A d \in Conns : pc'[d] \in Owning <=> pc[d] \in Owning
  BY DEF Tick, vars, task, Reopen, ReconnectMismatch, Owning, ReconnectionInv,
         TypeOK
<1>3. \A d \in Conns, r \in Sessions : Owns(d, r)' <=> Owns(d, r)
  BY <1>1, <1>2 DEF Owns
<1>4. \A r \in Sessions : StatusOf(r)' = StatusOf(r)
  BY <1>1, <1>3 DEF StatusOf, Suspended
<1>5. QED
  BY <1>1, <1>4, StatusStays

(* Every behaviour of the server is one of SessionLifecycle, its fairness  *)
(* aside.                                                                  *)
THEOREM ReconnectionImplementsLifecycle == Spec => Lifecycle!Safety
<1>1. Init => Lifecycle!Init
  BY DEF Init, Lifecycle!Init, SessionStatus, StatusOf, None
<1>2. ReconnectionInv /\ [Next]_vars => [Lifecycle!Next]_(Lifecycle!vars)
  <2> SUFFICES ASSUME ReconnectionInv, [Next]_vars
               PROVE  [Lifecycle!Next]_(Lifecycle!vars)
    OBVIOUS
  <2>1. ASSUME NEW c \in Conns, ConnStep(c)
        PROVE  [Lifecycle!Next]_(Lifecycle!vars)
    <3>1. CASE ResumeWritten(c) \/ ResumeWriteFails(c) \/ FeedbackAccepted(c)
      BY <3>1, GotoRefines
         DEF ResumeWritten, ResumeWriteFails, FeedbackAccepted, Owning
    <3>2. CASE SetupFails(c) \/ SessionEnds(c)
      BY <3>2, GotoRefines DEF SetupFails, SessionEnds, Owning
    <3>3. ASSUME NEW s \in Sessions, Handshake(c, s)
          PROVE  [Lifecycle!Next]_(Lifecycle!vars)
      BY <3>3, TakeRefines
    <3>4. ASSUME NEW s \in Sessions, NEW t, Reconnect(c, s, t)
          PROVE  [Lifecycle!Next]_(Lifecycle!vars)
      BY <3>4, TakeRefines, OthersRefine DEF Reconnect
    <3>5. QED
      BY <2>1, <3>1, <3>2, <3>3, <3>4, OpenRefines, OthersRefine, LostRefines
         DEF ConnStep
  <2>2. QED
    BY <2>1, OthersRefine, TimerRefines DEF Next
<1>3. QED
  BY <1>1, <1>2, ReconnectionInvariant, PTL DEF Spec, Lifecycle!Safety

-----------------------------------------------------------------------------
(* The permissions.                                                        *)

(* An update leaves exactly the bits it names Granted, whatever state the  *)
(* others were in (apply_update, permission_sm.rs:81).                     *)
LEMMA UpdateGrants ==
  ASSUME NEW states \in [Bits -> BitState], NEW u,
         u.granted \subseteq Bits
  PROVE  /\ ApplyUpdate(states, u) \in [Bits -> BitState]
         /\ GrantedBits(ApplyUpdate(states, u)) = u.granted
  BY DEF ApplyUpdate, GrantedBits, BitState

LEMMA NewGrants ==
  ASSUME NEW mask \in SUBSET Bits
  PROVE  /\ NewStates(mask) \in [Bits -> BitState]
         /\ GrantedBits(NewStates(mask)) = mask
  BY DEF NewStates, GrantedBits, BitState

(* The update of a toggle is a set of bits (build_permission_toggle).      *)
LEMMA ToggleShape ==
  ASSUME NEW b \in Bits, NEW g \in BOOLEAN
  PROVE  BuildPermissionToggle(HandshakeMask, b, g).granted \subseteq Bits
  BY PermissionsAssumption DEF BuildPermissionToggle

LEMMA InitInv == PermissionsInit => PermissionsInv
  <1> SUFFICES ASSUME PermissionsInit PROVE PermissionsInv
    OBVIOUS
  <1>1. NewStates({}) \in [Bits -> BitState]
    BY NewGrants
  <1>2. PermissionsTypeOK
    BY <1>1, PermissionsAssumption DEF PermissionsInit, PermissionsTypeOK
  <1>3. ClientAgrees /\ LockHeldByDrainer
    BY PermissionsAssumption DEF PermissionsInit, ClientAgrees, LockHeldByDrainer, Running
  <1>4. CommandsInOrder /\ NumbersTyped
    BY DEF PermissionsInit, CommandsInOrder, NumbersTyped
  <1> QED
    BY <1>2, <1>3, <1>4 DEF PermissionsInv

(* Taking the head of the queue keeps the commands in order (Drain::next). *)
LEMMA PopKeepsOrder ==
  ASSUME PermissionsTypeOK, CommandsInOrder, NumbersTyped, queue # << >>,
         UNCHANGED typed, Pop
  PROVE  /\ queue' \in Seq(Command)
         /\ applied' \in Seq(1 .. MaxCommands)
         /\ CommandsInOrder' /\ NumbersTyped'
  <1>1. queue \in Seq(Command) /\ applied \in Seq(1 .. MaxCommands)
    BY DEF PermissionsTypeOK
  <1>2. Head(queue) = queue[1] /\ Head(queue) \in Command
    BY <1>1
  <1>3. Head(queue).id \in 1 .. MaxCommands
    BY <1>2 DEF Command
  <1>4. /\ Len(queue') = Len(queue) - 1
        /\ queue' \in Seq(Command)
        /\ \A i \in 1 .. Len(queue') : queue'[i] = queue[i + 1]
    BY <1>1 DEF Pop
  <1>5. /\ Len(applied') = Len(applied) + 1
        /\ applied' \in Seq(1 .. MaxCommands)
        /\ \A i \in 1 .. Len(applied) : applied'[i] = applied[i]
        /\ applied'[Len(applied) + 1] = queue[1].id
    BY <1>1, <1>2, <1>3 DEF Pop
  <1>6. Len(queue) \in Nat /\ Len(applied) \in Nat /\ Len(queue) >= 1
    BY <1>1
  <1>7. /\ \A i \in 1 .. Len(queue) : queue[i].id \in Nat
        /\ \A i \in 1 .. Len(applied) : applied[i] \in Nat
        /\ typed \in Nat /\ MaxCommands \in Nat
    BY <1>1, PermissionsAssumption DEF PermissionsTypeOK, Command
  <1>8. CommandsInOrder'
    <2>1. ASSUME NEW i \in 1 .. Len(applied'), NEW j \in 1 .. Len(applied'), i < j
          PROVE  applied'[i] < applied'[j]
      <3>1. i \in 1 .. Len(applied)
        BY <2>1, <1>5, <1>6
      <3>2. CASE j \in 1 .. Len(applied)
        BY <2>1, <3>1, <3>2, <1>5 DEF CommandsInOrder
      <3>3. CASE j = Len(applied) + 1
        <4>1. 1 \in 1 .. Len(queue)
          BY <1>6
        <4>2. applied[i] < queue[1].id
          BY <3>1, <4>1 DEF CommandsInOrder
        <4> QED
          BY <3>1, <3>3, <4>2, <1>5
      <3> QED
        BY <3>2, <3>3, <1>5, <1>6
    <2>2. ASSUME NEW i \in 1 .. Len(queue'), NEW j \in 1 .. Len(queue'), i < j
          PROVE  queue'[i].id < queue'[j].id
      <3>1. /\ i + 1 \in 1 .. Len(queue) /\ queue'[i] = queue[i + 1]
            /\ j + 1 \in 1 .. Len(queue) /\ queue'[j] = queue[j + 1]
            /\ i + 1 < j + 1
        BY <2>2, <1>4, <1>6
      <3>2. queue[i + 1].id < queue[j + 1].id
        BY <3>1 DEF CommandsInOrder
      <3> QED
        BY <3>1, <3>2
    <2>3. ASSUME NEW i \in 1 .. Len(applied'), NEW j \in 1 .. Len(queue')
          PROVE  applied'[i] < queue'[j].id
      <3>1. j + 1 \in 1 .. Len(queue) /\ queue'[j] = queue[j + 1]
        BY <1>4, <1>6
      <3>2. CASE i \in 1 .. Len(applied)
        BY <3>1, <3>2, <1>5 DEF CommandsInOrder
      <3>3. CASE i = Len(applied) + 1
        <4>1. 1 \in 1 .. Len(queue) /\ 1 < j + 1
          BY <1>6
        <4>2. queue[1].id < queue[j + 1].id
          BY <3>1, <4>1 DEF CommandsInOrder
        <4> QED
          BY <3>1, <3>3, <4>2, <1>5
      <3> QED
        BY <3>2, <3>3, <1>5, <1>6
    <2> QED
      BY <2>1, <2>2, <2>3 DEF CommandsInOrder
  <1>9. NumbersTyped'
    <2>1. ASSUME NEW i \in 1 .. Len(applied') PROVE applied'[i] <= typed'
      <3>1. 1 \in 1 .. Len(queue)
        BY <1>6
      <3>2. queue[1].id <= typed
        BY <3>1 DEF NumbersTyped
      <3>3. CASE i \in 1 .. Len(applied)
        BY <3>3, <1>5 DEF NumbersTyped
      <3>4. CASE i = Len(applied) + 1
        BY <3>4, <3>2, <1>5
      <3> QED
        BY <3>3, <3>4, <1>5, <1>6
    <2>2. ASSUME NEW i \in 1 .. Len(queue') PROVE queue'[i].id <= typed'
      <3>1. i + 1 \in 1 .. Len(queue) /\ queue'[i] = queue[i + 1]
        BY <1>4, <1>6
      <3> QED
        BY <3>1 DEF NumbersTyped
    <2> QED
      BY <2>1, <2>2 DEF NumbersTyped
  <1> QED
    BY <1>4, <1>5, <1>8, <1>9

(* A new command is numbered after all others.                             *)
LEMMA TypeKeepsOrder ==
  ASSUME PermissionsTypeOK, CommandsInOrder, NumbersTyped,
         NEW kind \in {"grant", "revoke", "clipboard"}, NEW b \in Bits,
         kind = "clipboard" => b = ClipRead,
         AdminTypes(kind, b)
  PROVE  /\ queue' \in Seq(Command) /\ typed' \in 0 .. MaxCommands
         /\ CommandsInOrder' /\ NumbersTyped'
  <1> DEFINE cmd == [id |-> typed + 1, kind |-> kind, bit |-> b]
  <1>1. queue \in Seq(Command) /\ applied \in Seq(1 .. MaxCommands)
    BY DEF PermissionsTypeOK
  <1>2. typed \in Nat /\ MaxCommands \in Nat /\ typed' = typed + 1
        /\ typed' \in 0 .. MaxCommands /\ typed + 1 \in 1 .. MaxCommands
    BY PermissionsAssumption DEF PermissionsTypeOK, AdminTypes
  <1>3. cmd \in Command /\ cmd.id = typed + 1
    BY <1>2 DEF Command
  <1>4. queue' = Append(queue, cmd)
    BY DEF AdminTypes
  <1> HIDE DEF cmd
  <1>5. /\ Len(queue') = Len(queue) + 1
        /\ queue' \in Seq(Command)
        /\ \A i \in 1 .. Len(queue) : queue'[i] = queue[i]
        /\ queue'[Len(queue) + 1] = cmd
    BY <1>1, <1>3, <1>4
  <1>6. Len(queue) \in Nat /\ Len(applied) \in Nat /\ applied' = applied
    BY <1>1 DEF AdminTypes
  <1>7. /\ \A i \in 1 .. Len(queue) : queue[i].id \in Nat
        /\ \A i \in 1 .. Len(applied) : applied[i] \in Nat
    BY <1>1, <1>2 DEF Command
  <1>8. ASSUME NEW i \in 1 .. Len(queue'), NEW j \in 1 .. Len(queue'), i < j
        PROVE  queue'[i].id < queue'[j].id
    <2>1. i \in 1 .. Len(queue)
      BY <1>8, <1>5, <1>6
    <2>2. CASE j \in 1 .. Len(queue)
      BY <2>1, <2>2, <1>8, <1>5 DEF CommandsInOrder
    <2>3. CASE j = Len(queue) + 1
      BY <2>1, <2>3, <1>2, <1>3, <1>5, <1>7 DEF NumbersTyped
    <2> QED
      BY <2>2, <2>3, <1>5, <1>6
  <1>9. ASSUME NEW i \in 1 .. Len(applied'), NEW j \in 1 .. Len(queue')
        PROVE  applied'[i] < queue'[j].id
    <2>1. CASE j \in 1 .. Len(queue)
      BY <2>1, <1>5, <1>6 DEF CommandsInOrder
    <2>2. CASE j = Len(queue) + 1
      BY <2>2, <1>2, <1>3, <1>5, <1>6, <1>7 DEF NumbersTyped
    <2> QED
      BY <2>1, <2>2, <1>5, <1>6
  <1>10. CommandsInOrder'
    BY <1>6, <1>8, <1>9 DEF CommandsInOrder
  <1>11. ASSUME NEW i \in 1 .. Len(queue') PROVE queue'[i].id <= typed'
    <2>1. CASE i \in 1 .. Len(queue)
      <3>1. queue[i].id <= typed /\ queue[i].id \in Nat
        BY <2>1, <1>7 DEF NumbersTyped
      <3> QED
        BY <2>1, <3>1, <1>2, <1>5
    <2>2. CASE i = Len(queue) + 1
      BY <2>2, <1>2, <1>3, <1>5
    <2> QED
      BY <2>1, <2>2, <1>5, <1>6
  <1>12. \A i \in 1 .. Len(applied') : applied'[i] <= typed'
    <2>1. ASSUME NEW i \in 1 .. Len(applied) PROVE applied[i] <= typed + 1
      <3>1. applied[i] <= typed /\ applied[i] \in Nat
        BY <1>7 DEF NumbersTyped
      <3> QED
        BY <3>1, <1>2
    <2> QED
      BY <2>1, <1>2, <1>6
  <1> QED
    BY <1>2, <1>5, <1>10, <1>11, <1>12 DEF NumbersTyped

(* One step keeps the invariant: a case per action.                        *)
LEMMA NextInv == PermissionsInv /\ [PermissionsNext]_permissionVars => PermissionsInv'
  <1> SUFFICES ASSUME PermissionsInv, [PermissionsNext]_permissionVars
               PROVE  PermissionsInv'
    OBVIOUS
  <1> USE DEF PermissionsInv
  <1>1. ASSUME NEW kind \in {"grant", "revoke", "clipboard"}, NEW b \in Bits,
               kind = "clipboard" => b = ClipRead, AdminTypes(kind, b)
        PROVE  PermissionsInv'
    <2>1. /\ queue' \in Seq(Command) /\ typed' \in 0 .. MaxCommands
          /\ CommandsInOrder' /\ NumbersTyped'
      BY <1>1, TypeKeepsOrder
    <2>2. PermissionsTypeOK'
      BY <1>1, <2>1 DEF PermissionsTypeOK, AdminTypes
    <2>3. ClientAgrees' /\ LockHeldByDrainer'
      BY <1>1 DEF AdminTypes, ClientAgrees, LockHeldByDrainer, Running, GrantedBits
    <2> QED
      BY <2>1, <2>2, <2>3
  <1>2. ASSUME NEW c \in Clients, Start(c)
        PROVE  PermissionsInv'
    <2>1. /\ NewStates(HandshakeMask) \in [Bits -> BitState]
          /\ GrantedBits(NewStates(HandshakeMask)) = HandshakeMask
      BY NewGrants, PermissionsAssumption
    <2>2. PermissionsTypeOK'
      BY <1>2, <2>1, PermissionsAssumption DEF PermissionsTypeOK, Start
    <2>3. ClientAgrees'
      BY <1>2, <2>1 DEF PermissionsTypeOK, Start, ClientAgrees, Running, GrantedBits
    <2>4. LockHeldByDrainer'
      BY <1>2 DEF PermissionsTypeOK, Start, LockHeldByDrainer
    <2>5. CommandsInOrder' /\ NumbersTyped'
      BY <1>2 DEF Start, CommandsInOrder, NumbersTyped
    <2> QED
      BY <2>2, <2>3, <2>4, <2>5
  <1>3. ASSUME NEW c \in Clients, Stop(c) \/ FrameTick(c) \/ Drained(c)
        PROVE  PermissionsInv'
    <2>1. PermissionsTypeOK'
      BY <1>3 DEF PermissionsTypeOK, Stop, FrameTick, Drained
    <2>2. ClientAgrees'
      <3>1. UNCHANGED <<perm, shown>>
        BY <1>3 DEF Stop, FrameTick, Drained
      <3>2. \A d \in Clients : Running(d)' => Running(d)
        BY <1>3 DEF PermissionsTypeOK, Stop, FrameTick, Drained, Running
      <3> QED
        BY <3>1, <3>2 DEF ClientAgrees, GrantedBits
    <2>3. LockHeldByDrainer'
      <3> USE PermissionsAssumption DEF PermissionsTypeOK, LockHeldByDrainer
      <3>1. CASE Stop(c)
        BY <3>1 DEF Stop
      <3>2. CASE FrameTick(c)
        BY <3>2 DEF FrameTick
      <3>3. CASE Drained(c)
        BY <3>3 DEF Drained
      <3> QED
        BY <1>3, <3>1, <3>2, <3>3
    <2>4. CommandsInOrder' /\ NumbersTyped'
      BY <1>3 DEF Stop, FrameTick, Drained, CommandsInOrder, NumbersTyped
    <2> QED
      BY <2>1, <2>2, <2>3, <2>4
  <1>4. ASSUME NEW c \in Clients, Toggle(c)
        PROVE  PermissionsInv'
    <2> DEFINE cmd == Head(queue)
               g == cmd.kind = "grant"
               update == BuildPermissionToggle(HandshakeMask, cmd.bit, g)
    <2>1. /\ phase[c] = "draining" /\ queue # << >> /\ cmd.kind # "clipboard"
          /\ perm' = [perm EXCEPT ![c] = ApplyUpdate(perm[c], update)]
          /\ UNCHANGED <<capturing, announced, typed>>
          /\ \/ /\ shown' = [shown EXCEPT ![c] = update.granted]
                /\ Pop
                /\ UNCHANGED <<lock, phase>>
             \/ /\ phase' = [phase EXCEPT ![c] = "suspended"]
                /\ lock' = NoClient
                /\ queue' = << >>
                /\ applied' = Append(applied, cmd.id)
                /\ UNCHANGED shown
      BY <1>4 DEF Toggle
    <2>2. cmd \in Command
      BY <2>1 DEF PermissionsTypeOK
    <2>3. cmd.bit \in Bits /\ cmd.kind \in {"grant", "revoke"} /\ g \in BOOLEAN
      BY <2>1, <2>2, PermissionsAssumption DEF Command
    <2> HIDE DEF g, cmd
    <2>4. update.granted \subseteq Bits
      BY <2>3, ToggleShape
    <2> HIDE DEF update
    <2>5. /\ ApplyUpdate(perm[c], update) \in [Bits -> BitState]
          /\ GrantedBits(ApplyUpdate(perm[c], update)) = update.granted
      BY <2>4, UpdateGrants DEF PermissionsTypeOK
    <2>6. perm' \in [Clients -> [Bits -> BitState]]
      BY <2>1, <2>5 DEF PermissionsTypeOK
    <2>8. CASE /\ shown' = [shown EXCEPT ![c] = update.granted]
               /\ Pop
               /\ UNCHANGED <<lock, phase>>
      <3>1. /\ queue' \in Seq(Command) /\ applied' \in Seq(1 .. MaxCommands)
            /\ CommandsInOrder' /\ NumbersTyped'
        BY <2>1, <2>8, PopKeepsOrder
      <3>2. PermissionsTypeOK'
        BY <2>1, <2>4, <2>6, <2>8, <3>1 DEF PermissionsTypeOK
      <3>3. ClientAgrees'
        BY <2>1, <2>5, <2>8 DEF PermissionsTypeOK, ClientAgrees, Running, GrantedBits
      <3>4. LockHeldByDrainer'
        BY <2>8 DEF LockHeldByDrainer
      <3> QED
        BY <3>1, <3>2, <3>3, <3>4
    <2>9. CASE /\ phase' = [phase EXCEPT ![c] = "suspended"]
               /\ lock' = NoClient
               /\ queue' = << >>
               /\ applied' = Append(applied, cmd.id)
               /\ UNCHANGED shown
      <3>1. /\ applied \in Seq(1 .. MaxCommands) /\ Len(applied) \in Nat
            /\ cmd.id \in 1 .. MaxCommands
        BY <2>2 DEF PermissionsTypeOK, Command
      <3>2. /\ applied' \in Seq(1 .. MaxCommands)
            /\ Len(applied') = Len(applied) + 1
            /\ \A i \in 1 .. Len(applied) : applied'[i] = applied[i]
            /\ applied'[Len(applied) + 1] = cmd.id
        BY <2>9, <3>1
      <3>3. /\ queue \in Seq(Command) /\ 1 \in 1 .. Len(queue)
            /\ cmd = queue[1]
        BY <2>1 DEF PermissionsTypeOK, cmd
      <3>4. PermissionsTypeOK'
        BY <2>1, <2>6, <2>9, <3>2 DEF PermissionsTypeOK
      <3>5. ClientAgrees'
        BY <2>1, <2>9 DEF PermissionsTypeOK, ClientAgrees, Running, GrantedBits
      <3>6. LockHeldByDrainer'
        BY <2>1, <2>9, PermissionsAssumption DEF PermissionsTypeOK, LockHeldByDrainer
      <3>7. ASSUME NEW i \in 1 .. Len(applied'), NEW j \in 1 .. Len(applied'),
                   i < j
            PROVE  applied'[i] < applied'[j]
        <4>1. i \in 1 .. Len(applied)
          BY <3>7, <3>1, <3>2
        <4>2. CASE j \in 1 .. Len(applied)
          BY <3>7, <4>1, <4>2, <3>2 DEF CommandsInOrder
        <4>3. CASE j = Len(applied) + 1
          BY <4>1, <4>3, <3>2, <3>3 DEF CommandsInOrder
        <4> QED
          BY <4>2, <4>3, <3>1, <3>2
      <3>8. ASSUME NEW i \in 1 .. Len(applied') PROVE applied'[i] <= typed'
        <4>1. CASE i \in 1 .. Len(applied)
          BY <2>1, <4>1, <3>2 DEF NumbersTyped
        <4>2. CASE i = Len(applied) + 1
          BY <2>1, <4>2, <3>2, <3>3 DEF NumbersTyped
        <4> QED
          BY <4>1, <4>2, <3>1, <3>2
      <3>9. Len(queue') = 0
        BY <2>9
      <3>10. CommandsInOrder' /\ NumbersTyped'
        BY <3>7, <3>8, <3>9 DEF CommandsInOrder, NumbersTyped
      <3> QED
        BY <3>4, <3>5, <3>6, <3>10
    <2> QED
      BY <2>1, <2>8, <2>9
  <1>5. ASSUME NEW c \in Clients, SendClipboard(c)
        PROVE  PermissionsInv'
    <2>1. /\ queue' \in Seq(Command) /\ applied' \in Seq(1 .. MaxCommands)
          /\ CommandsInOrder' /\ NumbersTyped'
      BY <1>5, PopKeepsOrder DEF SendClipboard
    <2>2. PermissionsTypeOK'
      <3>1. announced' \in [Clients -> BOOLEAN]
        BY <1>5 DEF PermissionsTypeOK, SendClipboard
      <3> QED
        BY <1>5, <2>1, <3>1 DEF PermissionsTypeOK, SendClipboard
    <2>3. ClientAgrees' /\ LockHeldByDrainer'
      BY <1>5 DEF SendClipboard, ClientAgrees, LockHeldByDrainer, Running,
                  GrantedBits
    <2> QED
      BY <2>1, <2>2, <2>3
  <1>6. ASSUME NEW c \in Clients,
               AcceptCapture(c) \/ CaptureEnds(c) \/ AnnounceEnds(c)
        PROVE  PermissionsInv'
    <2>1. capturing' \in [Clients -> BOOLEAN] /\ announced' \in [Clients -> BOOLEAN]
      BY <1>6 DEF PermissionsTypeOK, AcceptCapture, CaptureEnds, AnnounceEnds
    <2>2. PermissionsTypeOK'
      BY <1>6, <2>1 DEF PermissionsTypeOK, AcceptCapture, CaptureEnds, AnnounceEnds
    <2>3. UNCHANGED <<queue, lock, phase, perm, shown, typed, applied>>
      BY <1>6 DEF AcceptCapture, CaptureEnds, AnnounceEnds
    <2>4. ClientAgrees' /\ LockHeldByDrainer' /\ CommandsInOrder' /\ NumbersTyped'
      BY <2>3 DEF ClientAgrees, LockHeldByDrainer, CommandsInOrder, NumbersTyped,
                  Running, GrantedBits
    <2> QED
      BY <2>2, <2>4
  <1>7. CASE UNCHANGED permissionVars
    BY <1>7 DEF permissionVars, PermissionsTypeOK, ClientAgrees, LockHeldByDrainer, CommandsInOrder,
                NumbersTyped, Running, GrantedBits
  <1>8. ClipRead \in Bits
    BY PermissionsAssumption
  <1> QED
    BY <1>1, <1>2, <1>3, <1>4, <1>5, <1>6, <1>7, <1>8 DEF PermissionsNext

(* Every reachable state of Permissions satisfies the inductive invariant. *)
THEOREM PermissionsInvariant == PermissionsSpec => []PermissionsInv
  BY InitInv, NextInv, PTL DEF PermissionsSpec

(* Server and client agree on the effective permissions of every running   *)
(* session (the select loop of run_active_session, sardp-server.rs:1021).  *)
THEOREM PermissionsAgree == PermissionsSpec => []ClientAgrees
  <1>1. PermissionsInv => ClientAgrees
    BY DEF PermissionsInv
  <1> QED
    BY <1>1, PermissionsInvariant, PTL

(* Admin commands are carried out at most once and in order, although the  *)
(* queue is drained by whichever session ticks first.                      *)
THEOREM CommandsOnceInOrder == PermissionsSpec => []CommandsInOrder
  <1>1. PermissionsInv => CommandsInOrder
    BY DEF PermissionsInv
  <1> QED
    BY <1>1, PermissionsInvariant, PTL
=============================================================================
