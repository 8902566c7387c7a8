--------------------------- MODULE MCStreamReader ---------------------------
(***************************************************************************)
(* Streams for StreamReader: what the senders of StreamProtocols write,    *)
(* with payloads on both sides of the one-byte length, one stream with     *)
(* each kind of fault, and two whose lengths are not in the shortest form. *)
(***************************************************************************)
EXTENDS StreamReader

MCMaxLength == [Video |-> 66, AudioPlayback |-> 66, AudioCapture |-> 66, Feedback |-> 8,
                Input |-> 8, Clipboard |-> 8, File |-> 66, Control |-> 8]

Filled(length) == [i \in 1..length |-> i]
For(expected, sent) ==
    [magic |-> sent.magic, kind |-> sent.kind, context_id |-> sent.context_id,
     least |-> sent.least, envelopes |-> sent.envelopes, expected |-> expected]
Widened(sent, width) ==
    [sent EXCEPT !.least = width,
                 !.envelopes = [i \in DOMAIN @ |-> [@[i] EXCEPT !.least = width]]]

Instance(idr) == open_video_instance(1, 0, <<1, 2>>, Filled(idr))
AsVideo(sent) == For("Video", sent)
BadLength(announced, length) ==
    Message("VIDEO_FRAME_HEADER", <<announced>>) \o Message("VIDEO_FRAME_PAYLOAD", Filled(length))
Payloads == <<Filled(1), Filled(2), Filled(1)>>
Playback == audio_interval(<<1, 2>>, Payloads)

MCStreams ==
    {AsVideo(Followed(Instance(1), send_video_frame(Filled(63)) \o send_video_frame(Filled(64)))),
     AsVideo(Followed(Instance(0), send_video_frame(Filled(120)))),
     AsVideo(Followed(Instance(1), BadLength(2, 1))),
     AsVideo(Followed(Instance(1), Message("VIDEO_FRAME_PAYLOAD", Filled(1)))),
     AsVideo(Widened(Followed(Instance(1), send_video_frame(Filled(66))), 4)),
     For("Feedback", Widened(Followed(open_feedback_stream,
            send_transport_feedback(Filled(8)) \o send_transport_feedback(Filled(9))), 8)),
     AsVideo(Opened("Video", 1, send_video_frame(Filled(1)))),
     AsVideo([Instance(1) EXCEPT !.kind = 9]),
     AsVideo([Instance(1) EXCEPT !.magic = <<83, 65, 82, 69>>]),
     AsVideo(Playback),
     For("AudioPlayback", Instance(1)),
     For("AudioPlayback", Playback),
     For("AudioPlayback", Followed(open_audio_stream("AudioPlayback", <<1, 2>>),
            Message("AUDIO_FRAME_HEADER", <<4>>) \o send_audio_frame(Filled(2)))),
     For("AudioCapture", audio_capture_interval(<<1, 2>>, Payloads)),
     For("Feedback", Followed(open_feedback_stream,
            send_transport_feedback(Filled(3)) \o send_keyframe_request(Filled(1))
            \o send_audio_sync_feedback(Filled(2)) \o send_transport_feedback(Filled(9)))),
     For("Input", Followed(open_input_stream,
            send_input("KEY_EVENT", Filled(2)) \o send_input("IME_MODE_CHANGE", Filled(3))
            \o send_input("MOUSE_MOVE", Filled(1)) \o send_transport_feedback(Filled(1)))),
     For("Clipboard", clipboard_announce_once(70, 5, Filled(3))),
     For("File", Followed(open_file_stream(9),
            send_file_chunk(0, Filled(62)) \o send_file_chunk(62, Filled(1))
            \o send_file_transfer_complete(<<7>>) \o send_file_chunk(63, Filled(1)))),
     For("File", Followed(open_file_stream(1073741824), send_file_chunk(0, Filled(65)))),
     For("Control", Followed(open_control_stream,
            Message("CLIENT_HELLO", Filled(2)) \o Message("AUTH_PUBKEY", Filled(3))
            \o Message("KEEP_ALIVE", <<>>) \o send_file_transfer_request(Filled(4))
            \o Message("SESSION_CLOSE", Filled(1)) \o Message("ACTIVE_MONITOR", Filled(9)))),
     For("Clipboard", Followed(announce_clipboard_formats(7, <<5>>),
            respond_to_clipboard_request(7, Filled(5), 4))),
     For("Clipboard", announce_clipboard_formats(7, <<>>)),
     For("Clipboard", Followed([announce_clipboard_formats(7, <<5>>) EXCEPT !.context_id = 8],
            respond_to_clipboard_request(7, Filled(1), 4)))}
=============================================================================
