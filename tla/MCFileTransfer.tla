--------------------------- MODULE MCFileTransfer ---------------------------
(***************************************************************************)
(* Small instance of FileTransfer: two sessions that may upload; one may   *)
(* download as well, one sends audio.                                      *)
(***************************************************************************)
EXTENDS FileTransfer

MCPermissions == [s \in Sessions |-> IF s = "s1" THEN {"FILE_UP", "AUDIO_CAPTURE"} ELSE {"FILE_UP", "FILE_DOWN"}]

Chunk(offset, length, intact) ==
    [offset |-> offset, length |-> length, lengthMatches |-> TRUE, intact |-> intact]

\* Whole and half files, an overlap, a chunk past the end, an empty one,
\* wrong bytes, and a length that is not the data's.
MCChunks == {Chunk(0, 1, TRUE), Chunk(0, 2, TRUE), Chunk(1, 1, TRUE), Chunk(0, 0, TRUE),
             Chunk(1, 1, FALSE), [Chunk(0, 1, TRUE) EXCEPT !.lengthMatches = FALSE]}

\* The third request, for which the store is full until a handle leaves, is
\* explored with files of one byte, one stream and one chunk; the first two
\* without a stream for the third handle.
LimitOrChunks ==
    IF Len(task) < 3
    THEN \A s \in Sessions : \A i \in DOMAIN incoming[s] : incoming[s][i].handle < 3
    ELSE /\ opened < 2
         /\ \A i \in DOMAIN task : task[i].size = 1 /\ Len(task[i].file.ranges) < 2

=============================================================================
