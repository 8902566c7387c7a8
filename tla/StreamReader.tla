---------------------------- MODULE StreamReader ----------------------------
(***************************************************************************)
(* One incoming stream, from its prologue to its last message, as the      *)
(* accept functions and readers of the *_session.rs files see it.          *)
(*                                                                         *)
(* The bytes arrive in fragments of any size.  While the reading future is *)
(* one arm of a select! (see Selected), it is dropped with everything it   *)
(* holds in local variables whenever another arm completes, and created    *)
(* again; what is in the reader survives.                                  *)
(***************************************************************************)
EXTENDS StreamProtocols

CONSTANTS Streams,      \* what senders may write: see Sent
          Fragments,    \* sizes of the pieces in which bytes arrive
          MaxCancels    \* bound: how often another arm wins

\* What varint::encode accepts, up to varint::MAX.
Varint == {v \in Nat : (v \div 65536) \div 65536 < 1073741824}

Body == {b \in Seq(Byte) : Len(b) \in Varint}

(* A stream is as StreamProtocols builds it, with the kind its receiver    *)
(* expects.  The sender may write any types in any order, each length in   *)
(* any form that fits, and open the stream with any magic and kind.        *)
Magic == {m \in Seq(Byte) : Len(m) = 4}

Stream == [magic : Magic, kind : Byte, context_id : Varint, least : Widths,
           envelopes : Seq([type : DOMAIN type_id, body : Body, least : Widths]),
           expected : DOMAIN StreamKind]

\* The messages of which receivers compare a field have it: a stream whose
\* messages do not decode is left out.
Decodes(s) ==
    \A i \in DOMAIN s.envelopes :
        s.envelopes[i].type \in {"VIDEO_FRAME_HEADER", "AUDIO_FRAME_HEADER", "CLIPBOARD_FORMATS"}
        => s.envelopes[i].body # <<>>

\* An envelope of the allowed length is no shorter than a prologue.
Limits == {n \in Nat : n >= 4}

ASSUME ReaderAssumption ==
    /\ \A s \in Streams : s \in Stream /\ Decodes(s)
    /\ \A kind \in DOMAIN StreamKind : MaxLength[kind] \in Limits
    /\ Fragments \subseteq Nat \ {0}
    /\ \E n \in Fragments : \A k \in Fragments : k <= n
    /\ MaxCancels \in Nat

VARIABLES stream,    \* what is sent
          filled,    \* bytes taken from the connection
          start,     \* bytes parsed, so buf is start + 1 .. filled
          at,        \* "prologue", "messages", "closed"
          intro,     \* envelopes of the introduction read so far
          local,     \* the header in the future's local variable, if any
          parked,    \* VideoFrameReader.pending_header, if any
          got,       \* the messages delivered
          error,     \* why reading stopped, or "none"
          cancels,   \* how often the future was dropped
          lost       \* history: a header was dropped with its future

vars == <<stream, filled, start, at, intro, local, parked, got, error, cancels, lost>>

None == <<>>

\* What the sender of s has written after its prologue and n envelopes.
Written(s) ==
    LET written[n \in 0..Len(s.envelopes)] ==
            IF n = 0 THEN prologue_encode(s.magic, s.kind, 1, s.context_id, s.least)
            ELSE written[n - 1]
                 \o envelope_encode(type_id[s.envelopes[n].type], s.envelopes[n].body,
                                    s.envelopes[n].least)
    IN written

Bytes == Written(stream)[Len(stream.envelopes)]

buf == SubSeq(Bytes, start + 1, filled)

Introduces(kind, n) == n < Len(Receiver[kind].intro)

Framed(kind) == Receiver[kind].header # {}

\* The types allowed next, after n envelopes of the introduction and with or
\* without a frame header waiting for its payload.
Expected(kind, n, header) ==
    IF Introduces(kind, n) THEN {Receiver[kind].intro[n + 1]}
    ELSE IF Framed(kind) /\ header = None THEN Receiver[kind].header
    ELSE Receiver[kind].payload

-----------------------------------------------------------------------------
Limit == MaxLength[stream.expected]

Parsed == IF at = "prologue" THEN prologue_parse(buf) ELSE envelope_parse(buf, Limit)

\* fill_more: the parser wants more and some bytes are there.
fill_more ==
    /\ at # "closed" /\ Parsed.result = "incomplete"
    /\ \E n \in Fragments :
          /\ filled + n <= Len(Bytes)
          /\ filled' = filled + n
    /\ UNCHANGED <<stream, start, at, intro, local, parked, got, error, cancels, lost>>

Fails(why) ==
    /\ at' = "closed" /\ error' = why
    /\ UNCHANGED <<stream, filled, start, intro, local, parked, got, cancels, lost>>

\* The stream ends, or is reset, before the next item is complete.
EndsEarly ==
    /\ at # "closed" /\ Parsed.result = "incomplete"
    /\ Fails("EndsEarly")

ParseFails ==
    /\ at # "closed" /\ Parsed.result = "error"
    /\ Fails(Parsed.error)

\* accept_uni, the prologue and the check of its kind.
read_prologue ==
    /\ at = "prologue" /\ Parsed.result = "ok"
    /\ IF Parsed.kind # stream.expected THEN Fails("WrongStreamKind")
       ELSE /\ start' = start + Parsed.consumed
            /\ at' = "messages"
            /\ UNCHANGED <<stream, filled, intro, local, parked, got, error, cancels, lost>>

(* Mutant: the header stays in the future, as it did before it was parked. *)
ParksHeader_Never == FALSE

\* Only the video reader keeps a header in itself while it waits for the
\* payload.
ParksHeader == stream.expected = "Video"

\* The header a payload would complete.
Waiting == IF parked # None THEN parked ELSE local

Types == {t \in DOMAIN type_id : type_id[t] = Parsed.type_raw}

\* The next envelope is complete.  One of another type than expected, or a
\* payload of the wrong length, ends the reading.
Arrived(ok) ==
    /\ at = "messages" /\ Parsed.result = "ok"
    /\ ok = (Types \cap Expected(stream.expected, intro, Waiting) # {})

UnexpectedMessage == Arrived(FALSE) /\ Fails("UnexpectedMessage")

InIntroduction == Introduces(stream.expected, intro)

\* A requester is done when there is no format to ask for.
NothingToRequest(kind, body) == kind = "Clipboard" /\ Len(body) = 1

ReadIntroduction ==
    /\ Arrived(TRUE) /\ InIntroduction
    /\ IF ~RequestIdsAgree(Receiver[stream.expected].intro[intro + 1], stream.context_id,
                         Parsed.payload)
       THEN Fails("RequestIdMismatch")
       ELSE /\ start' = start + Parsed.consumed
            /\ intro' = intro + 1
            /\ at' = IF NothingToRequest(stream.expected, Parsed.payload) THEN "closed" ELSE at
            /\ UNCHANGED <<stream, filled, local, parked, got, error, cancels, lost>>

ReadHeader ==
    /\ Arrived(TRUE) /\ ~InIntroduction /\ Framed(stream.expected) /\ Waiting = None
    /\ start' = start + Parsed.consumed
    /\ local' = IF ParksHeader THEN None ELSE Parsed.payload
    /\ parked' = IF ParksHeader THEN Parsed.payload ELSE None
    /\ UNCHANGED <<stream, filled, at, intro, got, error, cancels, lost>>

Stops(kind, type) == kind \in {"Clipboard", "File"} /\ LastMessage(type)

\* A payload completes a frame; the other messages stand alone.
ReadMessage ==
    /\ Arrived(TRUE) /\ ~InIntroduction /\ (Framed(stream.expected) => Waiting # None)
    /\ IF ~LengthsAgree(Waiting, Parsed.payload) THEN Fails("FrameLengthMismatch")
       ELSE /\ start' = start + Parsed.consumed
            /\ got' = Append(got, <<Waiting, Parsed.payload>>)
            /\ local' = None /\ parked' = None
            /\ at' = IF \E t \in Types : Stops(stream.expected, t) THEN "closed" ELSE at
            /\ UNCHANGED <<stream, filled, intro, error, cancels, lost>>

\* CLIPBOARD_RESPONSE_TIMEOUT passes before the answer is complete.
ResponseTimeout ==
    /\ stream.expected = "Clipboard" /\ at = "messages" /\ ~InIntroduction
    /\ Parsed.result = "incomplete"
    /\ Fails("ResponseTimeout")

-----------------------------------------------------------------------------
\* Which part of the reading is an arm of a select!.  A video Instance is set
\* up outside it, up to its first frame, and the feedback stream up to its
\* prologue; the control stream is read by itself until the client is
\* authenticated; a task of its own reads the frames of an audio_capture
\* stream, the answer to a clipboard request and a file.
Selected ==
    CASE stream.expected = "Video"        -> got # <<>>
      [] stream.expected = "Feedback"     -> at # "prologue"
      [] stream.expected = "AudioCapture" -> at = "prologue"
      [] stream.expected = "Clipboard"    -> at = "prologue" \/ InIntroduction
      [] stream.expected = "Control"      -> Len(got) >= 2
      [] stream.expected = "File"         -> FALSE
      [] OTHER                            -> TRUE

\* Another arm completes.  A stream that is not set up yet goes with the
\* future that accepted it.
Cancel ==
    /\ at # "closed" /\ Selected
    /\ cancels < MaxCancels
    /\ cancels' = cancels + 1
    /\ lost' = (lost \/ local # None)
    /\ local' = None
    /\ IF at = "prologue" \/ InIntroduction
       THEN at' = "closed" /\ error' = "Dropped"
       ELSE UNCHANGED <<at, error>>
    /\ UNCHANGED <<stream, filled, start, intro, parked, got>>

Init ==
    /\ stream \in Streams
    /\ filled = 0 /\ start = 0
    /\ at = "prologue" /\ intro = 0
    /\ local = None /\ parked = None
    /\ got = <<>> /\ error = "none"
    /\ cancels = 0 /\ lost = FALSE

Next ==
    \/ fill_more \/ EndsEarly \/ ParseFails
    \/ read_prologue
    \/ UnexpectedMessage \/ ReadIntroduction \/ ReadHeader \/ ReadMessage
    \/ ResponseTimeout
    \/ Cancel

Spec == Init /\ [][Next]_vars
-----------------------------------------------------------------------------
(* Properties *)

\* What a receiver makes of the stream when all of it is there at once.
PrologueFault(s) ==
    CASE s.magic # MAGIC -> "MagicMismatch"
      [] s.magic = MAGIC /\ KindOfByte(s.kind) = {} -> "UnknownKind"
      [] s.magic = MAGIC /\ KindOfByte(s.kind) \notin {{}, {s.expected}} -> "WrongStreamKind"
      [] OTHER           -> "none"

\* One more envelope.
Receive(s, r, e) ==
    IF r.error # "none" \/ r.done THEN r
    ELSE IF Len(e.body) > MaxLength[s.expected] THEN [r EXCEPT !.error = "LengthExceedsLimit"]
    ELSE IF e.type \notin Expected(s.expected, r.n, r.header)
         THEN [r EXCEPT !.error = "UnexpectedMessage"]
    ELSE IF Introduces(s.expected, r.n)
         THEN IF RequestIdsAgree(e.type, s.context_id, e.body)
              THEN [r EXCEPT !.n = @ + 1, !.done = NothingToRequest(s.expected, e.body)]
              ELSE [r EXCEPT !.error = "RequestIdMismatch"]
    ELSE IF Framed(s.expected) /\ r.header = None THEN [r EXCEPT !.header = e.body]
    ELSE IF ~LengthsAgree(r.header, e.body) THEN [r EXCEPT !.error = "FrameLengthMismatch"]
    ELSE [r EXCEPT !.got = Append(@, <<r.header, e.body>>), !.header = None,
                   !.done = Stops(s.expected, e.type)]

\* After each number of envelopes.
Reading(s) ==
    LET reading[n \in 0..Len(s.envelopes)] ==
            IF n = 0
            THEN [n |-> 0, header |-> None, got |-> <<>>, error |-> PrologueFault(s), done |-> FALSE]
            ELSE Receive(s, reading[n - 1], s.envelopes[n])
    IN reading

AtOnce == Reading(stream)[Len(stream.envelopes)]

\* A header was dropped with its future: only an audio_playback reader loses
\* one, because it is read inside a select! and keeps it in the future.
HeaderLost == lost /\ stream.expected = "AudioPlayback"

\* The frames delivered are frames of the stream, a payload with the header
\* right before it, in the order of the stream.
FramesWhole ==
    \E place \in [DOMAIN got -> DOMAIN stream.envelopes] :
        /\ \A i, j \in DOMAIN got : i < j => place[i] < place[j]
        /\ \A i \in DOMAIN got :
              /\ place[i] > 1
              /\ got[i] = <<stream.envelopes[place[i] - 1].body, stream.envelopes[place[i]].body>>

\* However the bytes are cut and however often another arm wins, the messages
\* delivered are those sent, in order and whole, and reading stops with an
\* error only where the stream has one.  An audio_playback reader that lost a
\* header stops earlier; if the stream has an error behind that header it may
\* miss it, but it never delivers a payload with the header of another frame.
MessagesAsSent ==
    /\ (HeaderLost => AtOnce.error = "none") => IsPrefix(got, AtOnce.got)
    /\ HeaderLost => FramesWhole
    /\ error \notin {"none", "EndsEarly", "Dropped", "ResponseTimeout"} /\ ~HeaderLost
       => error = AtOnce.error /\ got = AtOnce.got

MaxFragment == CHOOSE n \in Fragments : \A k \in Fragments : k <= n

\* The reader never holds more than one envelope of the allowed length and
\* the last fragment: "oversized frames are rejected before they are
\* buffered in full" (envelope.rs), whatever length a peer declares and in
\* whichever form.
BufferBounded ==
    Len(buf) < 8 + 2 + Limit + MaxFragment

-----------------------------------------------------------------------------
(* The inductive invariant *)

Pair == Seq(Byte) \X Seq(Byte)

Fault == {"MagicMismatch", "UnknownKind", "WrongStreamKind", "LengthExceedsLimit",
          "UnexpectedMessage", "RequestIdMismatch", "FrameLengthMismatch"}

TypeOK ==
    /\ stream \in Streams
    /\ filled \in 0..Len(Bytes) /\ start \in 0..filled
    /\ at \in {"prologue", "messages", "closed"} 
    /\ error \in {"none", "EndsEarly", "Dropped", "ResponseTimeout"} \cup Fault
    /\ intro \in Nat /\ cancels \in Nat /\ lost \in BOOLEAN
    /\ local \in Seq(Byte) /\ parked \in Seq(Byte) /\ got \in Seq(Pair)

\* Where a header may wait, and where one is lost.
HeadersHeld ==
    /\ ParksHeader => local = None
    /\ ~ParksHeader => parked = None
    /\ ~Framed(stream.expected) => Waiting = None
    /\ InIntroduction => Waiting = None
    /\ lost => stream.expected = "AudioPlayback" /\ (at = "messages" => ~InIntroduction)
    /\ at = "prologue" => /\ start = 0 /\ intro = 0 /\ got = <<>> /\ Waiting = None /\ ~lost

\* The reader stands behind the n-th envelope, with what a receiver has that
\* got all of them at once; it lacks a header that was lost.
InStep(n) ==
    LET r == Reading(stream)[n]
    IN /\ start = Len(Written(stream)[n])
       /\ (lost => AtOnce.error = "none")
          => /\ r.error = "none" /\ ~r.done
             /\ intro = r.n /\ got = r.got
             /\ IF lost THEN Waiting = None /\ r.header # None ELSE Waiting = r.header

\* The frames lie among the first n envelopes, and a waiting header is the
\* last of them.
PlacedUpTo(n) ==
    \E place \in [DOMAIN got -> 2..n] :
        /\ \A i, j \in DOMAIN got : i < j => place[i] < place[j]
        /\ \A i \in DOMAIN got :
              /\ got[i] = <<stream.envelopes[place[i] - 1].body, stream.envelopes[place[i]].body>>
              /\ Waiting # None => place[i] < n
        /\ Waiting # None => n > 0 /\ Waiting = stream.envelopes[n].body

ReaderInv ==
    /\ TypeOK
    /\ HeadersHeld
    /\ at = "messages" => \E n \in 0..Len(stream.envelopes) :
                             InStep(n) /\ (stream.expected = "AudioPlayback" => PlacedUpTo(n))
    /\ at = "closed" => MessagesAsSent
    /\ at # "closed" => error = "none"
    /\ BufferBounded
=============================================================================
