-------------------------- MODULE StreamProtocols ---------------------------
(***************************************************************************)
(* What travels on each kind of stream: the functions that write it, and   *)
(* what a receiver accepts, in which order.                                *)
(*                                                                         *)
(* A stream is its prologue and its envelopes; an envelope is a type and a *)
(* body.  The senders here write lengths in their shortest form, so that   *)
(* the least width they ask for is 1.  A body keeps the fields that receivers compare: a frame header   *)
(* is its payload_len, a clipboard message starts with its request_id, a   *)
(* file chunk with its offset and length.                                  *)
(***************************************************************************)
EXTENDS WireFormat

Opened(kind, context_id, envelopes) ==
    [magic |-> MAGIC, kind |-> StreamKind[kind], context_id |-> context_id, least |-> 1,
     envelopes |-> envelopes]

Message(type, body) == <<[type |-> type, body |-> body, least |-> 1]>>

-----------------------------------------------------------------------------
(* video_session.rs *)

VideoFrameHeader(payload) == <<Len(payload)>>
VideoStreamGeneration(generation) == <<generation>>

send_video_frame(payload) ==
    Message("VIDEO_FRAME_HEADER", VideoFrameHeader(payload))
    \o Message("VIDEO_FRAME_PAYLOAD", payload)

\* A new Instance: its generation, its configuration, its first IDR.
open_video_instance(monitor_id, generation, encoder_config, idr) ==
    Opened("Video", monitor_id,
           Message("VIDEO_STREAM_GENERATION", VideoStreamGeneration(generation))
           \o Message("ENCODER_CONFIG", encoder_config) \o send_video_frame(idr))

(* audio_session.rs *)

AudioFrameHeader(payload) == <<Len(payload)>>

send_audio_frame(payload) ==
    Message("AUDIO_FRAME_HEADER", AudioFrameHeader(payload))
    \o Message("AUDIO_FRAME_PAYLOAD", payload)

open_audio_stream(kind, config) == Opened(kind, 0, Message("AUDIO_CONFIG", config))

Followed(opened, messages) == [opened EXCEPT !.envelopes = @ \o messages]

\* The server opens audio_playback at the first tick with AUDIO_PLAYBACK and
\* sends a frame at every such tick.
audio_interval(config, payloads) ==
    Followed(open_audio_stream("AudioPlayback", config),
             FoldLeft(LAMBDA sent, p : sent \o send_audio_frame(p), <<>>, payloads))

\* The client opens audio_capture once, if it was granted.
audio_capture_interval(config, payloads) ==
    [audio_interval(config, payloads) EXCEPT !.kind = StreamKind["AudioCapture"]]

(* feedback_session.rs, input_session.rs: the messages stand alone *)

open_feedback_stream == Opened("Feedback", 0, <<>>)
send_transport_feedback(feedback) == Message("TRANSPORT_FEEDBACK", feedback)
send_audio_sync_feedback(feedback) == Message("AUDIO_SYNC_FEEDBACK", feedback)
send_keyframe_request(request) == Message("KEYFRAME_REQUEST", request)

open_input_stream == Opened("Input", 0, <<>>)
InputMessage == {"KEY_EVENT", "TEXT_INPUT", "IME_COMPOSITION", "MOUSE_MOVE", "MOUSE_BUTTON",
                 "WHEEL", "IME_MODE_CHANGE"}
send_input(type, event) == Message(type, event)

(* clipboard_session.rs: the announcer's direction *)

ClipboardFormats(request_id, formats) == <<request_id>> \o formats
ClipboardData(request_id, data) == <<request_id>> \o data

announce_clipboard_formats(request_id, formats) ==
    Opened("Clipboard", request_id,
           Message("CLIPBOARD_FORMATS", ClipboardFormats(request_id, formats)))

send_clipboard_error(request_id, reason) == Message("CLIPBOARD_ERROR", <<request_id, reason>>)

POLICY_CLIPBOARD_FORMAT_TOO_LARGE == 6

\* The answer to a request; max_size is the policy's limit.
respond_to_clipboard_request(request_id, data, max_size) ==
    IF Len(data) > max_size
    THEN send_clipboard_error(request_id, POLICY_CLIPBOARD_FORMAT_TOO_LARGE)
    ELSE Message("CLIPBOARD_DATA", ClipboardData(request_id, data))

\* What both programs do: one format is announced, its request answered with
\* no limit on the size.
clipboard_announce_once(request_id, format, data) ==
    Followed(announce_clipboard_formats(request_id, <<format>>),
             respond_to_clipboard_request(request_id, data, Len(data)))

(* file_transfer_session.rs: an upload, on its own stream *)

FileChunk(offset, data) == <<offset, Len(data)>> \o data

open_file_stream(file_handle) == Opened("File", file_handle, <<>>)
send_file_chunk(offset, data) == Message("FILE_CHUNK", FileChunk(offset, data))
send_file_transfer_complete(checksum) == Message("FILE_TRANSFER_COMPLETE", checksum)

(* The client's direction of the control stream *)

open_control_stream == Opened("Control", 0, <<>>)
send_file_transfer_request(request) == Message("FILE_TRANSFER_REQUEST", request)

-----------------------------------------------------------------------------
(* Receivers: the messages that come first, once; the header of a frame,   *)
(* where messages are framed; and the messages themselves.                 *)

accept_video_instance ==
    [intro |-> <<"VIDEO_STREAM_GENERATION", "ENCODER_CONFIG">>,
     header |-> {"VIDEO_FRAME_HEADER"}, payload |-> {"VIDEO_FRAME_PAYLOAD"}]

accept_audio_stream ==
    [intro |-> <<"AUDIO_CONFIG">>,
     header |-> {"AUDIO_FRAME_HEADER"}, payload |-> {"AUDIO_FRAME_PAYLOAD"}]

accept_audio_capture_from_reader == accept_audio_stream

FeedbackReceiver ==
    [intro |-> <<>>, header |-> {},
     payload |-> {"TRANSPORT_FEEDBACK", "AUDIO_SYNC_FEEDBACK", "KEYFRAME_REQUEST"}]

InputReceiver == [intro |-> <<>>, header |-> {}, payload |-> InputMessage]

\* accept_clipboard_formats, then request_clipboard_data.
ClipboardRequester ==
    [intro |-> <<"CLIPBOARD_FORMATS">>, header |-> {},
     payload |-> {"CLIPBOARD_DATA", "CLIPBOARD_ERROR"}]

\* receive_file: chunks until the completion.
receive_file ==
    [intro |-> <<>>, header |-> {}, payload |-> {"FILE_CHUNK", "FILE_TRANSFER_COMPLETE"}]

\* Types the session loop does not handle are read and logged.  Which types
\* the connection's state allows is in ConnectionSm.
ControlReader == [intro |-> <<>>, header |-> {}, payload |-> DOMAIN type_id]

Receiver == [Video |-> accept_video_instance, AudioPlayback |-> accept_audio_stream,
             AudioCapture |-> accept_audio_capture_from_reader,
             Feedback |-> FeedbackReceiver, Input |-> InputReceiver,
             Clipboard |-> ClipboardRequester, File |-> receive_file,
             Control |-> ControlReader]

\* The message after which a receiver stops reading: the one answer to a
\* clipboard request, the completion of a file.
LastMessage(type) == type \in {"CLIPBOARD_DATA", "CLIPBOARD_ERROR", "FILE_TRANSFER_COMPLETE"}

\* A frame's payload has the length its header announces.
LengthsAgree(header, payload) == header = <<>> \/ header[1] = Len(payload)

\* ClipboardFormats carries the request id of its stream's prologue.
RequestIdsAgree(type, context_id, body) == type = "CLIPBOARD_FORMATS" => body[1] = context_id
=============================================================================
