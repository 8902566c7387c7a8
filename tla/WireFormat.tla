----------------------------- MODULE WireFormat -----------------------------
(***************************************************************************)
(* The bytes of a stream: QUIC variable-length integers, the prologue that *)
(* opens a stream and the envelopes that follow it.  A parser is given the *)
(* bytes that have arrived so far and answers with what it found and how   *)
(* many bytes that took, with Incomplete, or with an error.                *)
(***************************************************************************)
EXTENDS Integers, Sequences, SequencesExt

CONSTANT MaxLength    \* max_envelope_length of each stream kind

Byte == 0..255
Incomplete == [result |-> "incomplete"]
Malformed(why) == [result |-> "error", error |-> why]

-----------------------------------------------------------------------------
(* varint.rs *)

\* The shortest form that fits, of at least the given length; the two highest
\* bits tell its length.  varint::encode takes the shortest of all; another
\* sender may take a longer one, which varint::decode accepts as well.
Widths == {1, 2, 4, 8}

varint_encode(value, least) ==
    LET high == (value \div 65536) \div 65536
    IN IF value < 64 /\ least = 1 THEN <<value>>
       ELSE IF value < 16384 /\ least <= 2 THEN <<64 + value \div 256, value % 256>>
       ELSE IF value < 1073741824 /\ least <= 4
            THEN <<128 + value \div 16777216, (value \div 65536) % 256,
                   (value \div 256) % 256, value % 256>>
       ELSE <<192 + high \div 16777216, (high \div 65536) % 256,
              (high \div 256) % 256, high % 256,
              (value \div 16777216) % 256, (value \div 65536) % 256,
              (value \div 256) % 256, value % 256>>

\* The value after k bytes behind the first.
varint_value(buf, len) ==
    LET value[k \in 0..len - 1] ==
            IF k = 0 THEN buf[1] % 64 ELSE value[k - 1] * 256 + buf[k + 1]
    IN value

varint_decode(buf) ==
    LET len == <<1, 2, 4, 8>>[buf[1] \div 64 + 1]
    IN IF buf = <<>> \/ Len(buf) < len THEN Incomplete
       ELSE [result |-> "ok", consumed |-> len, value |-> varint_value(buf, len)[len - 1]]

-----------------------------------------------------------------------------
(* stream_kind.rs, messages.rs *)

StreamKind == [Control |-> 1, Input |-> 2, Video |-> 3, Feedback |-> 4, Clipboard |-> 5,
               File |-> 6, AudioPlayback |-> 7, AudioCapture |-> 8]

\* The kind a byte stands for, if it is one of the table.
KindOfByte(byte) == {kind \in DOMAIN StreamKind : StreamKind[kind] = byte}

type_id == [CLIENT_HELLO |-> 1, SERVER_HELLO |-> 2, AUTH_PUBKEY |-> 3, AUTH_RESULT |-> 4,
            VIDEO_STREAM_GENERATION |-> 5, ENCODER_CONFIG |-> 6, VIDEO_FRAME_HEADER |-> 7,
            VIDEO_FRAME_PAYLOAD |-> 8, TIME_SYNC_REQUEST |-> 9, TIME_SYNC_RESPONSE |-> 10,
            TRANSPORT_FEEDBACK |-> 11, KEEP_ALIVE |-> 12, SESSION_CLOSE |-> 13,
            SESSION_REAUTHENTICATE |-> 14, PERMISSION_UPDATE |-> 15, ACTIVE_MONITOR |-> 16,
            CLIPBOARD_FORMATS |-> 17, CLIPBOARD_REQUEST |-> 18, CLIPBOARD_DATA |-> 19,
            CLIPBOARD_ERROR |-> 20, FILE_TRANSFER_REQUEST |-> 21, FILE_TRANSFER_ACCEPT |-> 22,
            FILE_TRANSFER_REJECT |-> 23, FILE_CHUNK |-> 24, FILE_TRANSFER_COMPLETE |-> 25,
            FILE_TRANSFER_ERROR |-> 26, AUDIO_CONFIG |-> 27, AUDIO_FRAME_HEADER |-> 28,
            AUDIO_FRAME_PAYLOAD |-> 29, AUDIO_SYNC_FEEDBACK |-> 30, KEY_EVENT |-> 31,
            TEXT_INPUT |-> 32, IME_COMPOSITION |-> 33, MOUSE_MOVE |-> 34, MOUSE_BUTTON |-> 35,
            WHEEL |-> 36, IME_MODE_CHANGE |-> 37, KEYFRAME_REQUEST |-> 38]

-----------------------------------------------------------------------------
(* prologue.rs *)

MAGIC == <<83, 65, 82, 68>>

prologue_encode(magic, kindByte, version, context_id, least) ==
    magic \o <<kindByte, version>> \o varint_encode(context_id, least)

\* The magic is checked as soon as its bytes are there, the kind before the
\* context id has arrived.
prologue_parse(buf) ==
    LET context == varint_decode(SubSeq(buf, 7, Len(buf)))
    IN IF Len(buf) < 4 THEN Incomplete
       ELSE IF SubSeq(buf, 1, 4) # MAGIC THEN Malformed("MagicMismatch")
       ELSE IF Len(buf) < 6 THEN Incomplete
       ELSE IF KindOfByte(buf[5]) = {} THEN Malformed("UnknownKind")
       ELSE IF context.result = "incomplete" THEN Incomplete
       ELSE [result |-> "ok", consumed |-> 6 + context.consumed,
             kind |-> CHOOSE k \in KindOfByte(buf[5]) : TRUE,
             version |-> buf[6], context_id |-> context.value]

-----------------------------------------------------------------------------
(* envelope.rs *)

envelope_encode(type_raw, payload, least) ==
    varint_encode(Len(payload), least) \o <<type_raw % 256, type_raw \div 256>> \o payload

(* Mutant: the limit is checked when the whole envelope has arrived.       *)
envelope_parse_LateLimit(buf, max_length) ==
    LET length == varint_decode(buf)
        header == length.consumed + 2
    IN IF length.result = "incomplete" \/ Len(buf) < header + length.value THEN Incomplete
       ELSE IF length.value > max_length THEN Malformed("LengthExceedsLimit")
       ELSE [result |-> "ok", consumed |-> header + length.value,
             type_raw |-> buf[length.consumed + 1] + 256 * buf[length.consumed + 2],
             payload |-> SubSeq(buf, header + 1, header + length.value)]

\* The limit is checked as soon as the length is known.
envelope_parse(buf, max_length) ==
    LET length == varint_decode(buf)
        header == length.consumed + 2
    IN IF length.result = "incomplete" THEN Incomplete
       ELSE IF length.value > max_length THEN Malformed("LengthExceedsLimit")
       ELSE IF Len(buf) < header + length.value THEN Incomplete
       ELSE [result |-> "ok", consumed |-> header + length.value,
             type_raw |-> buf[length.consumed + 1] + 256 * buf[length.consumed + 2],
             payload |-> SubSeq(buf, header + 1, header + length.value)]
=============================================================================
