---------------------------- MODULE FileTransfer ----------------------------
(***************************************************************************)
(* File transfer: the server's registry of issued file handles, the        *)
(* transfer tasks the session loops spawn, and the unidirectional streams  *)
(* both the tasks and the session loops accept from.                       *)
(*                                                                         *)
(* A session has one connection.  Its client asks for a transfer on the    *)
(* control stream; the loop checks the permission, issues a handle bound   *)
(* to the session and spawns a task.  An upload task accepts the next      *)
(* unidirectional stream of its connection, whichever one that is, looks   *)
(* up the handle the stream names, and reassembles the chunks.  The        *)
(* session loop accepts from the same queue, and refuses a file stream it  *)
(* happens to get.  A reaper sweeps handles whose time has passed.         *)
(*                                                                         *)
(* Timeouts of a task may fire at any moment of the wait they bound.  What *)
(* a stream carries is chosen when it is read, so a stream's sender may    *)
(* send any chunks at all: out of range, overlapping, of a length that is  *)
(* not the declared one, with the wrong bytes, or none.                    *)
(***************************************************************************)
EXTENDS Integers, FiniteSets, Sequences, FiniteSetsExt, Functions

CONSTANTS Sessions,        \* the sessions, each with a connection of its own
          Permissions,     \* [Sessions -> SUBSET {"FILE_UP", "FILE_DOWN", "AUDIO_CAPTURE"}]
          Sizes,           \* declared_size of the requests
          MaxRequests,     \* bound: requests, hence tasks and handles
          MaxStreams,      \* bound: streams the clients open
          MaxConcurrent,   \* MAX_CONCURRENT_FILE_TRANSFERS
          Ttl,             \* FILE_HANDLE_TTL
          Chunks,          \* the chunks a sender may send
          MaxChunks,       \* bound: chunks read from one stream
          MaxTime          \* bound: the clock

ASSUME FileConstants ==
    /\ Permissions \in [Sessions -> SUBSET {"FILE_UP", "FILE_DOWN", "AUDIO_CAPTURE"}]
    /\ Sizes \subseteq Nat
    /\ Chunks \subseteq [offset : Nat, length : Nat, lengthMatches : BOOLEAN, intact : BOOLEAN]
    /\ {MaxRequests, MaxStreams, MaxConcurrent, Ttl, MaxChunks, MaxTime} \subseteq Nat

VARIABLES now,        \* crate::clock
          handles,    \* the store: issued handle -> record
          task,       \* one record per spawned transfer, in spawn order
          incoming,   \* session -> streams opened and not yet accepted
          opened,     \* how many streams the clients opened (bound)
          errors,     \* <<session, handle>> of each FileTransferError sent on control
          issued      \* history: the record each handle was issued with

vars == <<now, handles, task, incoming, opened, errors, issued>>

Handles == 1..MaxRequests
Directions == {"Upload", "Download"}
NoStream == [kind |-> "none", handle |-> 0, session |-> "none"]

\* The PermissionSet bit a transfer needs.
required_permission_bit(direction) ==
    IF direction = "Upload" THEN "FILE_UP" ELSE "FILE_DOWN"

\* A new operation needs its bit Granted.
check_gate(session, bit) == bit \in Permissions[session]

-----------------------------------------------------------------------------
(* FileHandleStore *)

\* What a handle is bound to when it is issued.
FileHandleRecord(session, direction, size, expiry) ==
    [session |-> session, direction |-> direction, size |-> size, expiry_ts |-> expiry]

\* A fresh handle enters the store unless the store is full.
CanIssue == Cardinality(DOMAIN handles) < MaxConcurrent

NewHandle == Len(task) + 1

IssuedUntil == now + Ttl

try_issue(session, direction, size) ==
    LET record == FileHandleRecord(session, direction, size, IssuedUntil)
        Extend(f) == [h \in DOMAIN f \cup {NewHandle} |-> IF h = NewHandle THEN record ELSE f[h]]
    IN handles' = Extend(handles) /\ issued' = Extend(issued)

(* Mutant: the sweep keeps what has expired instead of what has not.       *)
Unexpired_Inverted == {h \in DOMAIN handles : handles[h].expiry_ts <= now}

\* The handles that survive a sweep.
Unexpired == {h \in DOMAIN handles : handles[h].expiry_ts >= now}

\* The store without handle h; nothing happens when it is already gone.
remove(h) == [k \in DOMAIN handles \ {h} |-> handles[k]]

(* Mutant: a handle that exists is good for any session.                   *)
validate_AnySession(h, session, direction) ==
    CASE h \notin DOMAIN handles                -> "Unknown"
      [] handles[h].direction # direction       -> "DirectionMismatch"
      [] now > handles[h].expiry_ts             -> "Expired"
      [] OTHER                                  -> "Ok"

\* "Ok", or why the handle is refused.  The comparison of the users, which
\* follows that of the sessions, never decides: a session keeps its user.
validate(h, session, direction) ==
    CASE h \notin DOMAIN handles                -> "Unknown"
      [] handles[h].session # session           -> "SessionMismatch"
      [] handles[h].direction # direction       -> "DirectionMismatch"
      [] now > handles[h].expiry_ts             -> "Expired"
      [] OTHER                                  -> "Ok"

-----------------------------------------------------------------------------
(* FileReassembly: the received ranges in arrival order, and the bytes.    *)

\* The content of the file that belongs to handle h: every other byte is
\* the zero a fresh buffer holds as well.
FileByte(h, offset) == IF offset % 2 = 0 THEN 0 ELSE h

NewReassembly(size) == [size |-> size, ranges |-> <<>>, data |-> [o \in 0..size - 1 |-> 0]]

\* Why the chunk is refused, or "Ok".
ChunkVerdict(r, chunk) ==
    LET end == chunk.offset + chunk.length
        Overlaps(range) == chunk.offset < range[1] + range[2] /\ end > range[1]
    IN CASE ~chunk.lengthMatches                        -> "OUT_OF_RANGE"
         [] end > r.size                                -> "OUT_OF_RANGE"
         [] \E i \in DOMAIN r.ranges : Overlaps(r.ranges[i]) -> "OVERLAP"
         [] OTHER                                       -> "Ok"

apply_chunk(r, chunk, h) ==
    [r EXCEPT !.ranges = Append(@, <<chunk.offset, chunk.length>>),
              !.data = [o \in DOMAIN @ |->
                  IF o \in chunk.offset..(chunk.offset + chunk.length - 1)
                  THEN (IF chunk.intact THEN FileByte(h, o) ELSE -1)
                  ELSE @[o]]]

(* Mutant: only the largest end is compared with the size.                 *)
is_complete_LastByte(r) ==
    \/ r.size = 0
    \/ \E k \in DOMAIN r.ranges : r.ranges[k][1] + r.ranges[k][2] >= r.size

\* The orders in which an unstable sort by offset may leave the ranges.
SortedByOffset(ranges) ==
    {p \in Bijection(DOMAIN ranges, DOMAIN ranges) :
        \A j, k \in DOMAIN ranges : j < k => ranges[p[j]][1] <= ranges[p[k]][1]}

\* What the ranges before the k-th cover, up to the first gap.
Covered(ranges, p, k) ==
    Max({0} \cup {ranges[p[j]][1] + ranges[p[j]][2] : j \in 1..k - 1})

\* No range of the sorted ones starts behind what is covered before it, and
\* together they cover the file.  Equal offsets may come in any order.
is_complete(r) ==
    \E p \in SortedByOffset(r.ranges) :
        /\ \A k \in DOMAIN r.ranges : r.ranges[p[k]][1] <= Covered(r.ranges, p, k)
        /\ Covered(r.ranges, p, Len(r.ranges) + 1) >= r.size

\* The checksum covers the sender's whole file: the buffer equals it.  A
\* digest is taken to determine its input.
verify_checksum(r, h, size) ==
    /\ r.size = size
    /\ \A o \in DOMAIN r.data : r.data[o] = FileByte(h, o)

-----------------------------------------------------------------------------
(* The session loop *)

NewTask(session, direction, size) ==
    [session |-> session, direction |-> direction, size |-> size, handle |-> NewHandle,
     pc |-> IF direction = "Upload" THEN "accepting" ELSE "sending",
     stream |-> NoStream, file |-> NewReassembly(size), reason |-> "none"]

\* The FILE_TRANSFER_REQUEST branch of run_active_session: without the
\* permission, or with the store full, a FileTransferReject is all that
\* happens.  Requests stop early enough for the last handle to expire.
FileTransferRequest(session, direction, size) ==
    /\ Len(task) < MaxRequests /\ IssuedUntil < MaxTime
    /\ check_gate(session, required_permission_bit(direction))
    /\ CanIssue
    /\ try_issue(session, direction, size)
    /\ task' = Append(task, NewTask(session, direction, size))
    /\ UNCHANGED <<now, incoming, opened, errors>>

\* The client opens a unidirectional stream: audio_capture if it was granted,
\* or a file stream that names any handle at all.
OpenStream(session, kind, h) ==
    /\ opened < MaxStreams
    /\ kind = "audio_capture" => "AUDIO_CAPTURE" \in Permissions[session]
    /\ opened' = opened + 1
    /\ incoming' = [incoming EXCEPT ![session] =
           Append(@, [kind |-> kind, handle |-> h, session |-> session])]
    /\ UNCHANGED <<now, handles, task, errors, issued>>

\* The loop's own accept arm gets the stream: a capture stream is read or
\* stopped, a file stream is stopped as an unexpected kind.
LoopAccepts(session) ==
    /\ incoming[session] # <<>>
    /\ incoming' = [incoming EXCEPT ![session] = Tail(@)]
    /\ UNCHANGED <<now, handles, task, opened, errors, issued>>

-----------------------------------------------------------------------------
(* The transfer tasks *)

\* A task that ended without a file keeps nothing but its outcome.
Ended(t, pc, reason) ==
    [t EXCEPT !.pc = pc, !.reason = reason,
              !.stream = IF pc = "done" THEN @ ELSE NoStream,
              !.file = IF pc = "done" THEN @ ELSE NewReassembly(0)]

End(i, pc, reason) == task' = [task EXCEPT ![i] = Ended(@, pc, reason)]

\* accept_uni of an upload task, raced by the loop and by its siblings.
TaskAccepts(i) ==
    LET s == task[i].session IN
    /\ task[i].pc = "accepting"
    /\ incoming[s] # <<>>
    /\ incoming' = [incoming EXCEPT ![s] = Tail(@)]
    /\ task' = [task EXCEPT ![i].pc = "prologue", ![i].stream = Head(incoming[s])]
    /\ UNCHANGED <<now, handles, opened, errors, issued>>

\* FILE_STREAM_ACCEPT_TIMEOUT, or a lost connection, during accept_uni: the
\* handle stays in the store.
AcceptTimesOut(i) ==
    /\ task[i].pc = "accepting"
    /\ End(i, "failed", "none")
    /\ UNCHANGED <<now, handles, incoming, opened, errors, issued>>

\* The prologue has been read, which no timeout bounds: only a file stream
\* whose handle belongs to this session and direction is received.  The
\* handle stays in the store in the other cases.
TaskVerifies(i) ==
    LET st == task[i].stream IN
    /\ task[i].pc = "prologue"
    /\ IF /\ st.kind = "file"
          /\ validate(st.handle, task[i].session, task[i].direction) = "Ok"
       THEN task' = [task EXCEPT ![i].pc = "receiving"]
       ELSE End(i, "failed", "none")
    /\ UNCHANGED <<now, handles, incoming, opened, errors, issued>>

(* Mutant: the handle the task was spawned for is removed.                 *)
EndReceiving_OwnHandle(i, pc, reason) ==
    /\ End(i, pc, reason)
    /\ handles' = remove(task[i].handle)
    /\ errors' = errors \cup
           (IF pc = "reported" THEN {<<task[i].session, task[i].stream.handle>>} ELSE {})
    /\ UNCHANGED <<now, incoming, opened, issued>>

\* The end of receive_file inside run_file_transfer: the handle of the
\* stream leaves the store, and the task reports over control if it must.
EndReceiving(i, pc, reason) ==
    /\ End(i, pc, reason)
    /\ handles' = remove(task[i].stream.handle)
    /\ errors' = errors \cup
           (IF pc = "reported" THEN {<<task[i].session, task[i].stream.handle>>} ELSE {})
    /\ UNCHANGED <<now, incoming, opened, issued>>

ReceiveChunk(i, chunk) ==
    LET verdict == ChunkVerdict(task[i].file, chunk) IN
    /\ task[i].pc = "receiving"
    /\ Len(task[i].file.ranges) < MaxChunks
    /\ IF verdict = "Ok"
       THEN /\ task' = [task EXCEPT ![i].file = apply_chunk(@, chunk, task[i].stream.handle)]
            /\ UNCHANGED <<now, handles, incoming, opened, errors, issued>>
       ELSE EndReceiving(i, "reported", verdict)

\* FileTransferComplete with the checksum of the sender's file, whose size
\* is the one declared for the stream's handle.
ReceiveComplete(i) ==
    LET r == task[i].file
        h == task[i].stream.handle
    IN /\ task[i].pc = "receiving"
       /\ CASE ~is_complete(r) -> EndReceiving(i, "reported", "INCOMPLETE")
            [] is_complete(r) /\ ~verify_checksum(r, h, issued[h].size)
                               -> EndReceiving(i, "reported", "CHECKSUM")
            [] OTHER           -> EndReceiving(i, "done", "none")

\* No message within FILE_TRANSFER_STALL_TIMEOUT of the last one.
Stall(i) ==
    /\ task[i].pc = "receiving"
    /\ EndReceiving(i, "reported", "STALL")

\* The stream ends early, is reset, carries an unexpected type, or the
\* connection is lost: the handle is removed, nothing is reported.
ReceiveFails(i) ==
    /\ task[i].pc = "receiving"
    /\ EndReceiving(i, "failed", "none")

\* A download whose stream cannot be opened: the handle stays in the store.
OpenFails(i) ==
    /\ task[i].pc = "sending"
    /\ End(i, "failed", "none")
    /\ UNCHANGED <<now, handles, incoming, opened, errors, issued>>

\* A download: the server sends its own bytes in order, and removes the
\* handle whether or not the write succeeded.
SendFile(i) ==
    /\ task[i].pc = "sending"
    /\ \E pc \in {"done", "failed"} : End(i, pc, "none")
    /\ handles' = remove(task[i].handle)
    /\ UNCHANGED <<now, incoming, opened, errors, issued>>

-----------------------------------------------------------------------------
(* The reaper and the clock *)

sweep_expired ==
    /\ Unexpired # DOMAIN handles
    /\ handles' = [h \in Unexpired |-> handles[h]]
    /\ UNCHANGED <<now, task, incoming, opened, errors, issued>>

Tick ==
    /\ now < MaxTime
    /\ now' = now + 1
    /\ UNCHANGED <<handles, task, incoming, opened, errors, issued>>

-----------------------------------------------------------------------------
Init ==
    /\ now = 0
    /\ handles = [h \in {} |-> 0]
    /\ task = << >>
    /\ incoming = [s \in Sessions |-> << >>]
    /\ opened = 0
    /\ errors = {}
    /\ issued = [h \in {} |-> 0]

TaskStep(i) ==
    \/ TaskAccepts(i) \/ AcceptTimesOut(i) \/ TaskVerifies(i)
    \/ \E chunk \in Chunks : ReceiveChunk(i, chunk)
    \/ ReceiveComplete(i) \/ Stall(i) \/ ReceiveFails(i) \/ OpenFails(i) \/ SendFile(i)

Next ==
    \/ \E s \in Sessions, d \in Directions, n \in Sizes : FileTransferRequest(s, d, n)
    \/ \E s \in Sessions : OpenStream(s, "audio_capture", 0)
    \/ \E s \in Sessions, h \in Handles : OpenStream(s, "file", h)
    \/ \E s \in Sessions : LoopAccepts(s)
    \/ \E i \in DOMAIN task : TaskStep(i)
    \/ sweep_expired
    \/ Tick

\* The clock and the reaper's interval run whatever the peers do.
Spec == Init /\ [][Next]_vars /\ WF_vars(Tick) /\ WF_vars(sweep_expired)
-----------------------------------------------------------------------------
(* Properties *)

\* A handle serves only the session it was issued to (DR-037): whatever
\* stream an upload task came to receive from a queue it shares with its
\* siblings, the handle was issued to the task's own session for an upload;
\* and an error reported on a session's control stream names a handle of
\* that session that can no longer be used.
OnlyOwnerServed ==
    /\ \A i \in DOMAIN task :
           /\ task[i].pc \in {"receiving", "done"}
           /\ task[i].direction = "Upload"
           => LET h == task[i].stream.handle IN
              /\ h \in DOMAIN issued
              /\ issued[h].session = task[i].session
              /\ issued[h].direction = "Upload"
    /\ \A e \in errors : /\ e[2] \in DOMAIN issued \ DOMAIN handles
                         /\ issued[e[2]].session = e[1]

\* An upload is reported as done only when every byte of the file its
\* handle stands for has arrived exactly once and unchanged, however the
\* chunks were cut and whichever task received them.
CompletedIsWhole ==
    \A i \in DOMAIN task : task[i].pc = "done" /\ task[i].direction = "Upload" =>
        LET r == task[i].file
            h == task[i].stream.handle
        IN /\ r.size = issued[h].size
           /\ \A o \in 0..r.size - 1 :
                  /\ r.data[o] = FileByte(h, o)
                  /\ Cardinality({k \in DOMAIN r.ranges :
                         o \in r.ranges[k][1]..(r.ranges[k][1] + r.ranges[k][2] - 1)}) = 1

\* A handle leaves the store only when its time has passed or when a task
\* that serves that very handle ends, so a task that received its sibling's
\* stream does not take away a handle that is still to be used.
HandlesLeaveForCause ==
    [][\A h \in DOMAIN handles \ DOMAIN handles' :
          \/ handles[h].expiry_ts < now
          \/ \E i \in DOMAIN task :
                /\ task[i].pc \in {"receiving", "sending"}
                /\ task'[i].pc \in {"done", "reported", "failed"}
                /\ h = IF task[i].direction = "Upload" THEN task[i].stream.handle
                                                        ELSE task[i].handle]_vars

\* Every handle leaves the store in the end, also when nobody ever opens its
\* stream or the task that should have served it failed: slots of the
\* concurrency limit are not lost.
StoreDrains == \A h \in Handles : h \in DOMAIN handles ~> h \notin DOMAIN handles
-----------------------------------------------------------------------------
(* The inductive invariant of the proofs *)

TaskState == {"accepting", "prologue", "receiving", "sending", "done", "reported", "failed"}
Stream == [kind : {"none", "audio_capture", "file"}, handle : Nat, session : Sessions \cup {"none"}]
Record == [session : Sessions, direction : Directions, size : Sizes, expiry_ts : Nat]
Reassembly == [size : Nat, ranges : Seq(Nat \X Nat), data : UNION {[0..n - 1 -> Int] : n \in Nat}]
Task == [session : Sessions, direction : Directions, size : Sizes, handle : Nat, pc : TaskState,
         stream : Stream, file : Reassembly,
         reason : {"none", "OUT_OF_RANGE", "OVERLAP", "INCOMPLETE", "CHECKSUM", "STALL"}]

\* The types of the store, the tasks, the streams and the reports.
TypeOK ==
    /\ now \in Nat /\ opened \in Nat
    /\ task \in Seq(Task)
    /\ handles \in [DOMAIN handles -> Record]
    /\ issued \in [DOMAIN issued -> Record]
    /\ incoming \in [Sessions -> Seq(Stream)]
    /\ errors \subseteq Sessions \X Nat

\* The store holds handles as they were issued, one per task at most, and a
\* handle is never issued again.
StoreAsIssued ==
    /\ DOMAIN issued = 1..Len(task)
    /\ DOMAIN handles \subseteq DOMAIN issued
    /\ \A h \in DOMAIN handles : handles[h] = issued[h]

\* Only uploads accept and receive, only downloads send.
DirectionOfTask ==
    \A i \in DOMAIN task :
        /\ task[i].pc = "sending" => task[i].direction = "Download"
        /\ task[i].pc \in {"accepting", "prologue", "receiving"} => task[i].direction = "Upload"

Overlap(a, b) == a[1] < b[1] + b[2] /\ b[1] < a[1] + a[2]

\* The accepted chunks of a file lie within it and do not overlap; the
\* buffer has the file's size.
ChunksFit(r) ==
    /\ DOMAIN r.data = 0..r.size - 1
    /\ \A k \in DOMAIN r.ranges : r.ranges[k][1] + r.ranges[k][2] <= r.size
    /\ \A j, k \in DOMAIN r.ranges : j # k => ~Overlap(r.ranges[j], r.ranges[k])

\* A done upload had no gap and passed its checksum.
DoneIsChecked ==
    \A i \in DOMAIN task : task[i].pc = "done" /\ task[i].direction = "Upload" =>
        /\ is_complete(task[i].file)
        /\ verify_checksum(task[i].file, task[i].stream.handle, issued[task[i].stream.handle].size)

FileInv ==
    /\ TypeOK
    /\ StoreAsIssued
    /\ DirectionOfTask
    /\ OnlyOwnerServed
    /\ DoneIsChecked
    /\ \A i \in DOMAIN task : ChunksFit(task[i].file)
=============================================================================
