------------------------- MODULE FileTransferProofs --------------------------
(***************************************************************************)
(* Proofs about FileTransfer, for any sessions, sizes, chunks, limits and  *)
(* times to live: a handle serves its own session only, it leaves the      *)
(* store for a cause only, and an upload that is done has the bytes of its *)
(* file, each of them received exactly once.                               *)
(*                                                                         *)
(* OnlyOwnerServed is not inductive: that a stream's handle was issued to  *)
(* the task's session is known through the store, so FileInv says that the *)
(* store holds what was issued and that no handle is issued twice.         *)
(***************************************************************************)
EXTENDS FileTransfer, TLAPS, FiniteSetTheorems, WellFoundedInduction

-----------------------------------------------------------------------------
(* What the operators give *)

(* A handle that validates is in the store, bound as asked.                *)
LEMMA ValidateOk ==
  ASSUME NEW h, NEW s, NEW d, validate(h, s, d) = "Ok"
  PROVE  h \in DOMAIN handles /\ handles[h].session = s /\ handles[h].direction = d
  BY DEF validate

LEMMA NewReassemblyType ==
  ASSUME NEW n \in Nat
  PROVE  NewReassembly(n) \in Reassembly /\ ChunksFit(NewReassembly(n))
<1> DEFINE d == [o \in 0..n - 1 |-> 0]
<1>1. d \in [0..n - 1 -> Int]
  OBVIOUS
<1>2. d \in UNION {[0..m - 1 -> Int] : m \in Nat}
  BY <1>1
<1>3. NewReassembly(n) = [size |-> n, ranges |-> <<>>, data |-> d]
  BY DEF NewReassembly
<1>5. DOMAIN d = 0..n - 1
  OBVIOUS
<1> HIDE DEF d
<1>4. <<>> \in Seq(Nat \X Nat)
  OBVIOUS
<1> QED
  BY <1>2, <1>3, <1>4, <1>5 DEF Reassembly, ChunksFit

(* The data of a reassembly keeps its domain.                              *)
LEMMA ApplyData ==
  ASSUME NEW r \in Reassembly, NEW chunk \in Chunks, NEW h \in Nat
  PROVE  /\ apply_chunk(r, chunk, h).data \in UNION {[0..n - 1 -> Int] : n \in Nat}
         /\ DOMAIN apply_chunk(r, chunk, h).data = DOMAIN r.data
<1>1. PICK n \in Nat : r.data \in [0..n - 1 -> Int]
  BY DEF Reassembly
<1> DEFINE d == [o \in DOMAIN r.data |->
                   IF o \in chunk.offset..(chunk.offset + chunk.length - 1)
                   THEN (IF chunk.intact THEN FileByte(h, o) ELSE -1)
                   ELSE r.data[o]]
<1>2. apply_chunk(r, chunk, h).data = d
  BY DEF apply_chunk, Reassembly
<1>3. ASSUME NEW o \in 0..n - 1
      PROVE  d[o] \in Int
  <2>1. r.data[o] \in Int /\ o \in DOMAIN r.data
    BY <1>1
  <2>2. FileByte(h, o) \in Int
    BY DEF FileByte
  <2> QED
    BY <2>1, <2>2
<1>4. d \in [0..n - 1 -> Int]
  BY <1>1, <1>3
<1> QED
  BY <1>2, <1>4

(* An accepted chunk is appended; the chunks still fit.                    *)
LEMMA ApplyFits ==
  ASSUME NEW r \in Reassembly, NEW chunk \in Chunks, NEW h \in Nat,
         ChunksFit(r), ChunkVerdict(r, chunk) = "Ok"
  PROVE  apply_chunk(r, chunk, h) \in Reassembly /\ ChunksFit(apply_chunk(r, chunk, h))
<1> DEFINE a == apply_chunk(r, chunk, h)
           c == <<chunk.offset, chunk.length>>
<1>1. chunk.offset \in Nat /\ chunk.length \in Nat
  BY FileConstants
<1>2. r.size \in Nat /\ r.ranges \in Seq(Nat \X Nat)
  BY DEF Reassembly
<1>3. /\ chunk.offset + chunk.length <= r.size
      /\ \A k \in DOMAIN r.ranges : ~(/\ chunk.offset < r.ranges[k][1] + r.ranges[k][2]
                                      /\ chunk.offset + chunk.length > r.ranges[k][1])
  BY <1>1, <1>2 DEF ChunkVerdict
<1>4. a = [r EXCEPT !.ranges = Append(r.ranges, c), !.data = a.data]
  BY DEF apply_chunk, Reassembly
<1>5. a.data \in UNION {[0..n - 1 -> Int] : n \in Nat} /\ DOMAIN a.data = DOMAIN r.data
  BY ApplyData
<1>6. c \in Nat \X Nat /\ c[1] = chunk.offset /\ c[2] = chunk.length
  BY <1>1
<1> HIDE DEF a, c
<1>7. a.size = r.size /\ a.ranges = Append(r.ranges, c)
  BY <1>4 DEF Reassembly
<1>8. a \in Reassembly
  <2>1. Append(r.ranges, c) \in Seq(Nat \X Nat)
    BY <1>2, <1>6
  <2> QED
    BY <1>4, <1>5, <2>1 DEF Reassembly
<1>9. /\ DOMAIN a.ranges = 1..Len(r.ranges) + 1
      /\ \A k \in 1..Len(r.ranges) : a.ranges[k] = r.ranges[k]
      /\ a.ranges[Len(r.ranges) + 1] = c
      /\ DOMAIN r.ranges = 1..Len(r.ranges) /\ Len(r.ranges) \in Nat
  BY <1>2, <1>6, <1>7
<1>10. \A k \in DOMAIN r.ranges : r.ranges[k][1] \in Nat /\ r.ranges[k][2] \in Nat
  BY <1>2
<1>11. \A k \in DOMAIN r.ranges : ~Overlap(c, r.ranges[k]) /\ ~Overlap(r.ranges[k], c)
  BY <1>1, <1>3, <1>6, <1>10 DEF Overlap
<1>12. ASSUME NEW k \in DOMAIN a.ranges
       PROVE  a.ranges[k][1] + a.ranges[k][2] <= a.size
  BY <1>3, <1>6, <1>7, <1>9 DEF ChunksFit
<1>13. ASSUME NEW j \in DOMAIN a.ranges, NEW k \in DOMAIN a.ranges, j # k
       PROVE  ~Overlap(a.ranges[j], a.ranges[k])
  <2>1. CASE j \in DOMAIN r.ranges /\ k \in DOMAIN r.ranges
    BY <1>9, <1>13, <2>1 DEF ChunksFit
  <2>2. CASE j = Len(r.ranges) + 1
    BY <1>9, <1>11, <1>13, <2>2
  <2>3. CASE k = Len(r.ranges) + 1
    BY <1>9, <1>11, <1>13, <2>3
  <2> QED
    BY <1>9, <2>1, <2>2, <2>3
<1>14. DOMAIN a.data = 0..a.size - 1
  BY <1>5, <1>7 DEF ChunksFit
<1> QED
  BY <1>8, <1>12, <1>13, <1>14 DEF ChunksFit, a

-----------------------------------------------------------------------------
(* Steps of the tasks *)

(* What FileInv says of one task.                                          *)
Good(t) ==
    /\ t \in Task
    /\ t.pc = "sending" => t.direction = "Download"
    /\ t.pc \in {"accepting", "prologue", "receiving"} => t.direction = "Upload"
    /\ ChunksFit(t.file)
    /\ t.pc \in {"receiving", "done"} /\ t.direction = "Upload" =>
           /\ t.stream.handle \in DOMAIN issued
           /\ issued[t.stream.handle].session = t.session
           /\ issued[t.stream.handle].direction = "Upload"
    /\ t.pc = "done" /\ t.direction = "Upload" =>
           /\ is_complete(t.file)
           /\ verify_checksum(t.file, t.stream.handle, issued[t.stream.handle].size)

LEMMA InvGood ==
  ASSUME FileInv, NEW i \in DOMAIN task
  PROVE  Good(task[i])
<1>1. task[i] \in Task
  BY DEF FileInv, TypeOK
<1> QED
  BY <1>1 DEF FileInv, DirectionOfTask, OnlyOwnerServed, DoneIsChecked, Good

(* One task changes, handles may leave the store, errors are added about   *)
(* handles of their session that are no longer in it.                      *)
LEMMA TaskStepKeeps ==
  ASSUME FileInv, NEW i \in DOMAIN task, NEW t, Good(t),
         task' = [task EXCEPT ![i] = t],
         NEW D, D \subseteq DOMAIN handles, handles' = [h \in D |-> handles[h]],
         errors \subseteq errors',
         \A e \in errors' \ errors :
             /\ e \in Sessions \X Nat
             /\ e[2] \in DOMAIN issued \ D
             /\ issued[e[2]].session = e[1],
         incoming' \in [Sessions -> Seq(Stream)],
         UNCHANGED <<now, opened, issued>>
  PROVE  FileInv'
<1>1. /\ task \in Seq(Task) /\ t \in Task
      /\ handles \in [DOMAIN handles -> Record]
  BY DEF FileInv, TypeOK, Good
<1>2. /\ task' \in Seq(Task) /\ Len(task') = Len(task) /\ DOMAIN task' = DOMAIN task
      /\ \A j \in DOMAIN task : task'[j] = IF j = i THEN t ELSE task[j]
  BY <1>1
<1>3. \A j \in DOMAIN task' : Good(task'[j])
  BY <1>2, InvGood
<1>4. DOMAIN handles' = D /\ \A h \in D : handles'[h] = handles[h]
  OBVIOUS
<1>5. handles' \in [DOMAIN handles' -> Record]
  BY <1>1, <1>4
<1>6. TypeOK'
  BY <1>2, <1>5 DEF FileInv, TypeOK
<1>7. StoreAsIssued'
  BY <1>2, <1>4 DEF FileInv, StoreAsIssued
<1>8. \A e \in errors' : e[2] \in DOMAIN issued \ D /\ issued[e[2]].session = e[1]
  BY <1>4 DEF FileInv, OnlyOwnerServed
<1>9. DirectionOfTask' /\ \A j \in DOMAIN task' : ChunksFit(task'[j].file)
  BY <1>3 DEF DirectionOfTask, Good
<1>10. OnlyOwnerServed'
  BY <1>3, <1>4, <1>8 DEF OnlyOwnerServed, Good
<1>11. DoneIsChecked'
  BY <1>3 DEF DoneIsChecked, Good
<1> QED
  BY <1>6, <1>7, <1>9, <1>10, <1>11 DEF FileInv

(* Facts about a task on its way.                                          *)
LEMMA FieldsOfTask ==
  ASSUME NEW t \in Task
  PROVE  /\ t.session \in Sessions /\ t.direction \in Directions /\ t.size \in Nat
         /\ t.stream \in Stream /\ t.stream.handle \in Nat /\ t.file \in Reassembly
<1>1. t.stream \in Stream
  BY DEF Task
<1> QED
  BY <1>1, FileConstants DEF Task, Stream

(* The end of a task, as a failure or with its file.                       *)
LEMMA EndedGood ==
  ASSUME FileInv, NEW t, Good(t), NEW pc \in {"done", "reported", "failed"},
         NEW reason \in {"none", "OUT_OF_RANGE", "OVERLAP", "INCOMPLETE", "CHECKSUM", "STALL"},
         pc = "done" => \/ t.direction = "Download"
                        \/ /\ t.pc = "receiving" /\ is_complete(t.file)
                           /\ verify_checksum(t.file, t.stream.handle, issued[t.stream.handle].size)
  PROVE  Good(Ended(t, pc, reason))
<1> DEFINE u == Ended(t, pc, reason)
<1>1. t \in Task
  BY DEF Good
<1>2. /\ NoStream \in Stream /\ NewReassembly(0) \in Reassembly
      /\ ChunksFit(NewReassembly(0)) /\ t.stream \in Stream /\ t.file \in Reassembly
  BY <1>1, NewReassemblyType, FieldsOfTask DEF NoStream, Stream
<1>3. /\ u \in Task /\ u.pc = pc /\ u.session = t.session /\ u.direction = t.direction
      /\ u.stream = IF pc = "done" THEN t.stream ELSE NoStream
      /\ u.file = IF pc = "done" THEN t.file ELSE NewReassembly(0)
  BY <1>1, <1>2 DEF Ended, Task, TaskState
<1> HIDE DEF u
<1> QED
  BY <1>2, <1>3 DEF Good, u

(* The store after remove(h), and an unchanged one, as restrictions.       *)
LEMMA Restrictions ==
  ASSUME FileInv, NEW h
  PROVE  /\ remove(h) = [k \in DOMAIN handles \ {h} |-> handles[k]]
         /\ handles = [k \in DOMAIN handles |-> handles[k]]
<1>1. handles \in [DOMAIN handles -> Record]
  BY DEF FileInv, TypeOK
<1> QED
  BY <1>1 DEF remove

(* A task in the middle of receive_file ends.                              *)
LEMMA EndReceivingKeeps ==
  ASSUME FileInv, NEW i \in DOMAIN task, task[i].pc = "receiving",
         NEW pc \in {"done", "reported", "failed"},
         NEW reason \in {"none", "OUT_OF_RANGE", "OVERLAP", "INCOMPLETE", "CHECKSUM", "STALL"},
         pc = "done" => /\ is_complete(task[i].file)
                        /\ verify_checksum(task[i].file, task[i].stream.handle,
                                           issued[task[i].stream.handle].size),
         EndReceiving(i, pc, reason)
  PROVE  FileInv'
<1> DEFINE t == Ended(task[i], pc, reason)
           h == task[i].stream.handle
<1>1. Good(task[i])
  BY InvGood
<1>2. Good(t)
  BY <1>1, EndedGood
<1>3. /\ task' = [task EXCEPT ![i] = t]
      /\ handles' = remove(h)
      /\ errors' = errors \cup (IF pc = "reported" THEN {<<task[i].session, h>>} ELSE {})
      /\ UNCHANGED <<now, incoming, opened, issued>>
  BY DEF EndReceiving, End
<1>4. /\ task[i] \in Task /\ h \in DOMAIN issued
      /\ issued[h].session = task[i].session
  BY <1>1 DEF Good
<1>5. task[i].session \in Sessions /\ h \in Nat
  BY <1>4, FieldsOfTask
<1>6. incoming' \in [Sessions -> Seq(Stream)]
  BY <1>3 DEF FileInv, TypeOK
<1>7. handles' = [k \in DOMAIN handles \ {h} |-> handles[k]]
  BY <1>3, Restrictions
<1> DEFINE D == DOMAIN handles \ {h}
<1>8. /\ errors \subseteq errors'
      /\ \A e \in errors' \ errors :
             /\ e \in Sessions \X Nat
             /\ e[2] \in DOMAIN issued \ D
             /\ issued[e[2]].session = e[1]
  BY <1>3, <1>4, <1>5
<1>9. D \subseteq DOMAIN handles /\ handles' = [k \in D |-> handles[k]]
  BY <1>7
<1> HIDE DEF t, h, D
<1> QED
  BY <1>2, <1>3, <1>6, <1>8, <1>9, TaskStepKeeps

(* A step that leaves the store and the reports alone.                     *)
LEMMA QuietTaskStepKeeps ==
  ASSUME FileInv, NEW i \in DOMAIN task, NEW t, Good(t), task' = [task EXCEPT ![i] = t],
         incoming' \in [Sessions -> Seq(Stream)],
         UNCHANGED <<now, handles, opened, errors, issued>>
  PROVE  FileInv'
<1>1. handles' = [k \in DOMAIN handles |-> handles[k]]
  BY Restrictions
<1> QED
  BY <1>1, TaskStepKeeps

LEMMA TaskStepsKeep ==
  ASSUME FileInv, NEW i \in DOMAIN task, TaskStep(i)
  PROVE  FileInv'
<1>0. /\ Good(task[i]) /\ task[i] \in Task /\ task \in Seq(Task)
      /\ incoming \in [Sessions -> Seq(Stream)]
  BY InvGood DEF Good, FileInv, TypeOK
<1>00. /\ task[i].session \in Sessions /\ task[i].stream \in Stream
       /\ task[i].stream.handle \in Nat /\ task[i].file \in Reassembly
  BY <1>0, FieldsOfTask
<1>1. CASE TaskAccepts(i)
  <2> DEFINE s == task[i].session
             t == [task[i] EXCEPT !.pc = "prologue", !.stream = Head(incoming[s])]
  <2>1. /\ task[i].pc = "accepting" /\ incoming[s] # <<>>
        /\ incoming' = [incoming EXCEPT ![s] = Tail(@)]
        /\ task' = [task EXCEPT ![i].pc = "prologue", ![i].stream = Head(incoming[s])]
        /\ UNCHANGED <<now, handles, opened, errors, issued>>
    BY <1>1 DEF TaskAccepts
  <2>2. task' = [task EXCEPT ![i] = t]
    BY <1>0, <2>1
  <2>3. incoming[s] \in Seq(Stream) /\ Head(incoming[s]) \in Stream /\ Tail(incoming[s]) \in Seq(Stream)
    BY <1>0, <1>00, <2>1
  <2>4. incoming' \in [Sessions -> Seq(Stream)]
    BY <1>0, <2>1, <2>3
  <2>5. /\ t \in Task /\ t.pc = "prologue" /\ t.direction = task[i].direction
        /\ t.file = task[i].file
    BY <1>0, <2>3 DEF Task, TaskState
  <2> HIDE DEF t, s
  <2>6. Good(t)
    BY <1>0, <2>1, <2>5 DEF Good
  <2> QED
    BY <2>1, <2>2, <2>4, <2>6, QuietTaskStepKeeps
<1>2. CASE AcceptTimesOut(i) \/ OpenFails(i)
  <2>1. Good(Ended(task[i], "failed", "none"))
    BY <1>0, EndedGood
  <2> QED
    BY <1>0, <1>2, <2>1, QuietTaskStepKeeps DEF AcceptTimesOut, OpenFails, End
<1>3. CASE TaskVerifies(i)
  <2> DEFINE h == task[i].stream.handle
             t == [task[i] EXCEPT !.pc = "receiving"]
  <2>1. /\ task[i].pc = "prologue"
        /\ UNCHANGED <<now, handles, incoming, opened, errors, issued>>
        /\ \/ /\ validate(h, task[i].session, task[i].direction) = "Ok"
              /\ task' = [task EXCEPT ![i].pc = "receiving"]
           \/ task' = [task EXCEPT ![i] = Ended(task[i], "failed", "none")]
    BY <1>3 DEF TaskVerifies, End
  <2>2. CASE task' = [task EXCEPT ![i] = Ended(task[i], "failed", "none")]
    <3>1. Good(Ended(task[i], "failed", "none"))
      BY <1>0, EndedGood
    <3> QED
      BY <1>0, <2>1, <2>2, <3>1, QuietTaskStepKeeps
  <2>3. CASE /\ validate(h, task[i].session, task[i].direction) = "Ok"
             /\ task' = [task EXCEPT ![i].pc = "receiving"]
    <3>1. task' = [task EXCEPT ![i] = t]
      BY <1>0, <2>3
    <3>2. /\ h \in DOMAIN handles /\ handles[h].session = task[i].session
          /\ handles[h].direction = task[i].direction
      BY <2>3, ValidateOk
    <3>3. h \in DOMAIN issued /\ handles[h] = issued[h]
      BY <3>2 DEF FileInv, StoreAsIssued
    <3>4. /\ t \in Task /\ t.pc = "receiving" /\ t.direction = task[i].direction
          /\ t.session = task[i].session /\ t.stream.handle = h /\ t.file = task[i].file
      BY <1>0 DEF Task, TaskState
    <3>5. task[i].direction = "Upload" /\ ChunksFit(task[i].file)
      BY <1>0, <2>1 DEF Good
    <3> HIDE DEF t, h
    <3>6. Good(t)
      BY <3>2, <3>3, <3>4, <3>5 DEF Good
    <3> QED
      BY <1>0, <2>1, <3>1, <3>6, QuietTaskStepKeeps
  <2> QED
    BY <2>1, <2>2, <2>3
<1>4. CASE \E chunk \in Chunks : ReceiveChunk(i, chunk)
  <2>1. PICK chunk \in Chunks : ReceiveChunk(i, chunk)
    BY <1>4
  <2> DEFINE verdict == ChunkVerdict(task[i].file, chunk)
             f == apply_chunk(task[i].file, chunk, task[i].stream.handle)
             t == [task[i] EXCEPT !.file = f]
  <2>2. /\ task[i].pc = "receiving"
        /\ \/ /\ verdict = "Ok"
              /\ task' = [task EXCEPT ![i].file = f]
              /\ UNCHANGED <<now, handles, incoming, opened, errors, issued>>
           \/ verdict # "Ok" /\ EndReceiving(i, "reported", verdict)
    BY <2>1 DEF ReceiveChunk
  <2>3. CASE verdict # "Ok" /\ EndReceiving(i, "reported", verdict)
    <3>1. verdict \in {"OUT_OF_RANGE", "OVERLAP", "Ok"}
      BY DEF ChunkVerdict
    <3> HIDE DEF verdict
    <3> QED
      BY <2>2, <2>3, <3>1, EndReceivingKeeps
  <2>4. CASE /\ verdict = "Ok"
             /\ task' = [task EXCEPT ![i].file = f]
             /\ UNCHANGED <<now, handles, incoming, opened, errors, issued>>
    <3>1. f \in Reassembly /\ ChunksFit(f)
      BY <1>0, <1>00, <2>4, ApplyFits DEF Good
    <3> HIDE DEF f
    <3>2. task' = [task EXCEPT ![i] = t]
      BY <1>0, <2>4
    <3>3. /\ t \in Task /\ t.file = f /\ t.pc = "receiving" /\ t.stream = task[i].stream
          /\ t.session = task[i].session /\ t.direction = task[i].direction
      BY <1>0, <2>2, <3>1 DEF Task
    <3> HIDE DEF t
    <3>4. Good(t)
      BY <1>0, <2>2, <3>1, <3>3 DEF Good
    <3> QED
      BY <1>0, <2>4, <3>2, <3>4, QuietTaskStepKeeps
  <2> QED
    BY <2>2, <2>3, <2>4
<1>5. CASE ReceiveComplete(i)
  <2> DEFINE ok == /\ is_complete(task[i].file)
                   /\ verify_checksum(task[i].file, task[i].stream.handle,
                                      issued[task[i].stream.handle].size)
  <2>1. /\ task[i].pc = "receiving"
        /\ \/ EndReceiving(i, "reported", "INCOMPLETE")
           \/ EndReceiving(i, "reported", "CHECKSUM")
           \/ ok /\ EndReceiving(i, "done", "none")
    BY <1>5 DEF ReceiveComplete
  <2> HIDE DEF ok
  <2>2. CASE EndReceiving(i, "reported", "INCOMPLETE")
    BY <2>1, <2>2, EndReceivingKeeps
  <2>3. CASE EndReceiving(i, "reported", "CHECKSUM")
    BY <2>1, <2>3, EndReceivingKeeps
  <2>4. CASE ok /\ EndReceiving(i, "done", "none")
    BY <2>1, <2>4, EndReceivingKeeps DEF ok
  <2> QED
    BY <2>1, <2>2, <2>3, <2>4
<1>6. CASE Stall(i)
  BY <1>6, EndReceivingKeeps DEF Stall
<1>7. CASE ReceiveFails(i)
  BY <1>7, EndReceivingKeeps DEF ReceiveFails
<1>8. CASE SendFile(i)
  <2>1. PICK pc \in {"done", "failed"} : End(i, pc, "none")
    BY <1>8 DEF SendFile
  <2>2. /\ task[i].direction = "Download"
        /\ task' = [task EXCEPT ![i] = Ended(task[i], pc, "none")]
        /\ UNCHANGED <<now, incoming, opened, errors, issued>>
    BY <1>0, <1>8, <2>1 DEF SendFile, End, Good
  <2>3. Good(Ended(task[i], pc, "none"))
    BY <1>0, <2>2, EndedGood
  <2>4. handles' = [k \in DOMAIN handles \ {task[i].handle} |-> handles[k]]
    BY <1>8, Restrictions DEF SendFile
  <2>5. incoming' \in [Sessions -> Seq(Stream)]
    BY <1>0, <2>2
  <2> QED
    BY <2>2, <2>3, <2>4, <2>5, TaskStepKeeps
<1> QED
  BY <1>1, <1>2, <1>3, <1>4, <1>5, <1>6, <1>7, <1>8 DEF TaskStep

-----------------------------------------------------------------------------
(* The other steps *)

(* A request that is accepted: the new handle and the new task.            *)
LEMMA RequestKeeps ==
  ASSUME FileInv, NEW s \in Sessions, NEW d \in Directions, NEW n \in Sizes,
         FileTransferRequest(s, d, n)
  PROVE  FileInv'
<1> DEFINE new == Len(task) + 1
           t == NewTask(s, d, n)
           record == FileHandleRecord(s, d, n, IssuedUntil)
<1>1. /\ task' = Append(task, t)
      /\ handles' = [h \in DOMAIN handles \cup {new} |-> IF h = new THEN record ELSE handles[h]]
      /\ issued' = [h \in DOMAIN issued \cup {new} |-> IF h = new THEN record ELSE issued[h]]
      /\ UNCHANGED <<now, incoming, opened, errors>>
  BY DEF FileTransferRequest, try_issue, NewHandle
<1>2. /\ task \in Seq(Task) /\ Len(task) \in Nat /\ DOMAIN task = 1..Len(task)
      /\ now \in Nat /\ DOMAIN issued = 1..Len(task)
  BY DEF FileInv, TypeOK, StoreAsIssued
<1>3. record \in Record
  BY <1>2, FileConstants DEF FileHandleRecord, IssuedUntil, Record
<1>4. n \in Nat /\ NewReassembly(n) \in Reassembly /\ ChunksFit(NewReassembly(n)) /\ NoStream \in Stream
  BY NewReassemblyType, FileConstants DEF NoStream, Stream
<1>5. /\ t \in Task /\ t.file = NewReassembly(n) /\ t.direction = d
      /\ t.pc = IF d = "Upload" THEN "accepting" ELSE "sending"
  BY <1>2, <1>4 DEF NewTask, NewHandle, Task, TaskState
<1> HIDE DEF t, record
<1>6. /\ task' \in Seq(Task) /\ Len(task') = new /\ DOMAIN task' = 1..new
      /\ task'[new] = t /\ \A i \in DOMAIN task : task'[i] = task[i]
      /\ new \notin 1..Len(task) /\ 1..new = 1..Len(task) \cup {new}
  BY <1>1, <1>2, <1>5
<1>7. /\ DOMAIN handles' = DOMAIN handles \cup {new} /\ DOMAIN issued' = 1..new
      /\ handles'[new] = record /\ issued'[new] = record
      /\ \A h \in DOMAIN issued : issued'[h] = issued[h]
      /\ \A h \in DOMAIN handles : h # new /\ handles'[h] = handles[h]
  BY <1>1, <1>2, <1>6 DEF FileInv, StoreAsIssued
<1> HIDE DEF new
<1>8. TypeOK'
  <2>1. /\ \A h \in DOMAIN handles' : handles'[h] \in Record
        /\ \A h \in DOMAIN issued' : issued'[h] \in Record
    BY <1>2, <1>3, <1>6, <1>7 DEF FileInv, TypeOK
  <2>2. handles' \in [DOMAIN handles' -> Record] /\ issued' \in [DOMAIN issued' -> Record]
    BY <1>1, <2>1
  <2> QED
    BY <1>1, <1>6, <2>2 DEF FileInv, TypeOK
<1>9. StoreAsIssued'
  BY <1>2, <1>6, <1>7 DEF FileInv, StoreAsIssued
<1>10. DirectionOfTask' /\ \A i \in DOMAIN task' : ChunksFit(task'[i].file)
  BY <1>2, <1>4, <1>5, <1>6 DEF FileInv, DirectionOfTask, Directions
<1>11. OnlyOwnerServed'
  <2>1. ASSUME NEW i \in DOMAIN task', task'[i].pc \in {"receiving", "done"},
               task'[i].direction = "Upload"
        PROVE  /\ task'[i].stream.handle \in DOMAIN issued'
               /\ issued'[task'[i].stream.handle].session = task'[i].session
               /\ issued'[task'[i].stream.handle].direction = "Upload"
    <3>1. i # new
      BY <1>5, <1>6, <2>1
    <3>2. i \in DOMAIN task /\ task'[i] = task[i]
      BY <1>2, <1>6, <3>1
    <3> QED
      BY <1>2, <1>6, <1>7, <2>1, <3>2 DEF FileInv, OnlyOwnerServed
  <2>2. \A e \in errors' : e[2] \in DOMAIN issued' \ DOMAIN handles' /\ issued'[e[2]].session = e[1]
    BY <1>1, <1>2, <1>6, <1>7 DEF FileInv, OnlyOwnerServed
  <2> QED
    BY <2>1, <2>2 DEF OnlyOwnerServed
<1>12. DoneIsChecked'
  <2> SUFFICES ASSUME NEW i \in DOMAIN task', task'[i].pc = "done", task'[i].direction = "Upload"
               PROVE  /\ is_complete(task'[i].file)
                      /\ verify_checksum(task'[i].file, task'[i].stream.handle,
                                         issued'[task'[i].stream.handle].size)
    BY DEF DoneIsChecked, verify_checksum
  <2>1. i # new
    BY <1>5, <1>6
  <2>2. i \in DOMAIN task /\ task'[i] = task[i]
    BY <1>2, <1>6, <2>1
  <2>3. task[i].stream.handle \in DOMAIN issued
    BY <2>2 DEF FileInv, OnlyOwnerServed
  <2> QED
    BY <1>7, <2>2, <2>3 DEF FileInv, DoneIsChecked
<1> QED
  BY <1>8, <1>9, <1>10, <1>11, <1>12 DEF FileInv

(* Streams come and go, time passes, expired handles leave.                *)
LEMMA WorldKeeps ==
  ASSUME FileInv, UNCHANGED <<task, errors, issued>>,
         now' \in Nat, opened' \in Nat, incoming' \in [Sessions -> Seq(Stream)],
         NEW D, D \subseteq DOMAIN handles, handles' = [h \in D |-> handles[h]]
  PROVE  FileInv'
<1>1. handles \in [DOMAIN handles -> Record]
  BY DEF FileInv, TypeOK
<1>2. DOMAIN handles' = D /\ \A h \in D : handles'[h] = handles[h] /\ handles[h] \in Record
  BY <1>1
<1>3. handles' \in [DOMAIN handles' -> Record]
  BY <1>2
<1> QED
  BY <1>2, <1>3 DEF FileInv, TypeOK, StoreAsIssued, DirectionOfTask, OnlyOwnerServed,
     DoneIsChecked, verify_checksum, ChunksFit, Overlap

LEMMA InitInv ==
  ASSUME Init
  PROVE  FileInv
<1>1. /\ DOMAIN handles = {} /\ DOMAIN issued = {} /\ task = << >> /\ errors = {}
      /\ DOMAIN task = {} /\ Len(task) = 0
  BY DEF Init
<1>2. TypeOK
  BY <1>1 DEF Init, TypeOK
<1> QED
  BY <1>1, <1>2 DEF FileInv, StoreAsIssued, DirectionOfTask, OnlyOwnerServed, DoneIsChecked

LEMMA NextKeeps ==
  ASSUME FileInv, [Next]_vars
  PROVE  FileInv'
<1>0. /\ now \in Nat /\ opened \in Nat /\ incoming \in [Sessions -> Seq(Stream)]
      /\ handles = [k \in DOMAIN handles |-> handles[k]]
  BY Restrictions DEF FileInv, TypeOK
<1>1. ASSUME NEW s \in Sessions, NEW d \in Directions, NEW n \in Sizes, FileTransferRequest(s, d, n)
      PROVE  FileInv'
  BY <1>1, RequestKeeps
<1>2. ASSUME NEW s \in Sessions, NEW kind \in {"audio_capture", "file"}, NEW h \in Nat,
             OpenStream(s, kind, h)
      PROVE  FileInv'
  <2> DEFINE st == [kind |-> kind, handle |-> h, session |-> s]
  <2>1. st \in Stream /\ incoming[s] \in Seq(Stream)
    BY <1>0 DEF Stream
  <2>2. /\ incoming' = [incoming EXCEPT ![s] = Append(incoming[s], st)]
        /\ opened' = opened + 1 /\ UNCHANGED <<now, handles, task, errors, issued>>
    BY <1>2 DEF OpenStream
  <2> HIDE DEF st
  <2>3. Append(incoming[s], st) \in Seq(Stream)
    BY <2>1
  <2>4. incoming' \in [Sessions -> Seq(Stream)] /\ opened' \in Nat /\ now' \in Nat
    BY <1>0, <2>2, <2>3
  <2> QED
    BY <1>0, <2>2, <2>4, WorldKeeps
<1>3. ASSUME NEW s \in Sessions, LoopAccepts(s)
      PROVE  FileInv'
  <2>1. /\ incoming[s] # <<>> /\ incoming' = [incoming EXCEPT ![s] = Tail(incoming[s])]
        /\ UNCHANGED <<now, handles, task, opened, errors, issued>>
    BY <1>3 DEF LoopAccepts
  <2>2. Tail(incoming[s]) \in Seq(Stream)
    BY <1>0, <2>1
  <2>3. incoming' \in [Sessions -> Seq(Stream)] /\ opened' \in Nat /\ now' \in Nat
    BY <1>0, <2>1, <2>2
  <2> QED
    BY <1>0, <2>1, <2>3, WorldKeeps
<1>4. ASSUME NEW i \in DOMAIN task, TaskStep(i)
      PROVE  FileInv'
  BY <1>4, TaskStepsKeep
<1>5. CASE sweep_expired
  BY <1>0, <1>5, WorldKeeps DEF sweep_expired, Unexpired
<1>6. CASE Tick
  <2>1. /\ now' \in Nat /\ opened' \in Nat /\ incoming' \in [Sessions -> Seq(Stream)]
        /\ UNCHANGED <<handles, task, errors, issued>>
    BY <1>0, <1>6 DEF Tick
  <2> QED
    BY <1>0, <2>1, WorldKeeps
<1>7. CASE UNCHANGED vars
  <2>1. /\ now' \in Nat /\ opened' \in Nat /\ incoming' \in [Sessions -> Seq(Stream)]
        /\ UNCHANGED <<handles, task, errors, issued>>
    BY <1>0, <1>7 DEF vars
  <2> QED
    BY <1>0, <2>1, WorldKeeps
<1>8. \A h \in Handles : h \in Nat
  BY FileConstants DEF Handles
<1> QED
  BY <1>1, <1>2, <1>3, <1>4, <1>5, <1>6, <1>7, <1>8 DEF Next

-----------------------------------------------------------------------------
(* The theorems *)

(* The inductive invariant of store, tasks and streams.                    *)
THEOREM FileInvariant == Spec => []FileInv
<1>1. Init => FileInv
  BY InitInv
<1>2. FileInv /\ [Next]_vars => FileInv'
  BY NextKeeps
<1> QED
  BY <1>1, <1>2, PTL DEF Spec

(* A handle serves only the session it was issued to.                      *)
THEOREM HandlesServeTheirOwner == Spec => []OnlyOwnerServed
<1>1. FileInv => OnlyOwnerServed
  BY DEF FileInv
<1> QED
  BY <1>1, FileInvariant, PTL

(* The end of receive_file takes away the handle of the task's stream.     *)
LEMMA EndReceivingCause ==
  ASSUME FileInv, NEW i \in DOMAIN task, task[i].pc = "receiving",
         NEW pc \in {"done", "reported", "failed"}, NEW reason,
         EndReceiving(i, pc, reason), NEW h \in DOMAIN handles \ DOMAIN handles'
  PROVE  /\ task[i].direction = "Upload" /\ h = task[i].stream.handle
         /\ task'[i].pc = pc
<1>1. task \in Seq(Task) /\ task[i] \in Task /\ task[i].direction = "Upload"
  BY InvGood DEF Good, FileInv, TypeOK
<1>2. task'[i] = Ended(task[i], pc, reason) /\ handles' = remove(task[i].stream.handle)
  BY <1>1 DEF EndReceiving, End
<1>3. Ended(task[i], pc, reason).pc = pc
  BY <1>1 DEF Ended, Task
<1> QED
  BY <1>1, <1>2, <1>3 DEF remove

(* Every step that takes a handle from the store has a cause for it.       *)
LEMMA LeaveForCause ==
  ASSUME FileInv, Next, NEW h \in DOMAIN handles \ DOMAIN handles'
  PROVE  \/ handles[h].expiry_ts < now
         \/ \E i \in DOMAIN task :
               /\ task[i].pc \in {"receiving", "sending"}
               /\ task'[i].pc \in {"done", "reported", "failed"}
               /\ h = IF task[i].direction = "Upload" THEN task[i].stream.handle
                                                       ELSE task[i].handle
<1> DEFINE Cause(i) == /\ task[i].pc \in {"receiving", "sending"}
                       /\ task'[i].pc \in {"done", "reported", "failed"}
                       /\ h = IF task[i].direction = "Upload" THEN task[i].stream.handle
                                                               ELSE task[i].handle
<1>1. ASSUME NEW s \in Sessions, NEW d \in Directions, NEW n \in Sizes, FileTransferRequest(s, d, n)
      PROVE  FALSE
  BY <1>1 DEF FileTransferRequest, try_issue
<1>2. ASSUME NEW s \in Sessions, NEW kind, NEW k, OpenStream(s, kind, k)
      PROVE  FALSE
  BY <1>2 DEF OpenStream
<1>3. ASSUME NEW s \in Sessions, LoopAccepts(s)
      PROVE  FALSE
  BY <1>3 DEF LoopAccepts
<1>4. ASSUME NEW i \in DOMAIN task, TaskStep(i)
      PROVE  Cause(i)
  <2>1. ASSUME NEW pc \in {"done", "reported", "failed"}, NEW reason,
               task[i].pc = "receiving", EndReceiving(i, pc, reason)
        PROVE  Cause(i)
    BY <2>1, EndReceivingCause
  <2>2. CASE TaskAccepts(i) \/ AcceptTimesOut(i) \/ OpenFails(i) \/ TaskVerifies(i)
    BY <2>2 DEF TaskAccepts, AcceptTimesOut, OpenFails, TaskVerifies
  <2>3. ASSUME NEW chunk \in Chunks, ReceiveChunk(i, chunk)
        PROVE  Cause(i)
    <3>1. /\ task[i].pc = "receiving"
          /\ \/ UNCHANGED handles
             \/ EndReceiving(i, "reported", ChunkVerdict(task[i].file, chunk))
      BY <2>3 DEF ReceiveChunk
    <3> QED
      BY <2>1, <3>1
  <2>4. CASE ReceiveComplete(i)
    <3>1. /\ task[i].pc = "receiving"
          /\ \/ EndReceiving(i, "reported", "INCOMPLETE")
             \/ EndReceiving(i, "reported", "CHECKSUM")
             \/ EndReceiving(i, "done", "none")
      BY <2>4 DEF ReceiveComplete
    <3> QED
      BY <2>1, <3>1
  <2>5. CASE Stall(i) \/ ReceiveFails(i)
    BY <2>1, <2>5 DEF Stall, ReceiveFails
  <2>6. CASE SendFile(i)
    <3>1. PICK pc \in {"done", "failed"} : End(i, pc, "none")
      BY <2>6 DEF SendFile
    <3>2. task \in Seq(Task) /\ task[i] \in Task /\ task[i].direction = "Download"
      BY <2>6, InvGood DEF Good, FileInv, TypeOK, SendFile
    <3>3. task'[i] = Ended(task[i], pc, "none")
      BY <3>1, <3>2 DEF End
    <3>4. task'[i].pc = pc
      BY <3>2, <3>3 DEF Ended, Task
    <3>5. task[i].pc = "sending" /\ h = task[i].handle
      BY <2>6 DEF SendFile, remove
    <3> QED
      BY <3>2, <3>4, <3>5
  <2> QED
    BY <1>4, <2>2, <2>3, <2>4, <2>5, <2>6 DEF TaskStep
<1>5. CASE sweep_expired
  <2>1. h \in DOMAIN handles /\ ~(handles[h].expiry_ts >= now)
    BY <1>5 DEF sweep_expired, Unexpired
  <2>2. handles[h] \in Record /\ now \in Nat
    BY <2>1 DEF FileInv, TypeOK
  <2> QED
    BY <2>1, <2>2 DEF Record
<1>6. CASE Tick
  BY <1>6 DEF Tick
<1> QED
  BY <1>1, <1>2, <1>3, <1>4, <1>5, <1>6 DEF Next

(* A handle leaves the store only when its time has passed or when a task  *)
(* that serves it ends: never because a sibling failed.                    *)
THEOREM StoreLosesForCause == Spec => HandlesLeaveForCause
<1>1. FileInv /\ [Next]_vars =>
        [\A h \in DOMAIN handles \ DOMAIN handles' :
          \/ handles[h].expiry_ts < now
          \/ \E i \in DOMAIN task :
                /\ task[i].pc \in {"receiving", "sending"}
                /\ task'[i].pc \in {"done", "reported", "failed"}
                /\ h = IF task[i].direction = "Upload" THEN task[i].stream.handle
                                                        ELSE task[i].handle]_vars
  BY LeaveForCause
<1> QED
  BY <1>1, FileInvariant, PTL DEF Spec, HandlesLeaveForCause

-----------------------------------------------------------------------------
(* What is_complete gives *)

(* The largest of a set of numbers below a bound.                          *)
LEMMA BoundedMax ==
  ASSUME NEW n \in Nat, NEW S, S \subseteq 0..n, S # {}
  PROVE  Max(S) \in S /\ \A x \in S : x <= Max(S)
<1> DEFINE T == {n - x : x \in S}
<1>1. T \subseteq Nat /\ T # {}
  <2>1. \A x \in S : n - x \in Nat
    OBVIOUS
  <2> QED
    BY <2>1, Zenon
<1>2. PICK t \in T : \A y \in T : ~(<<y, t>> \in OpToRel(<, Nat))
  BY <1>1, NatLessThanWellFounded, WFMin
<1>3. PICK m \in S : t = n - m
  BY <1>2
<1>4. ASSUME NEW x \in S PROVE x <= m
  <2>1. n - x \in T /\ n - x \in Nat /\ t \in Nat
    BY <1>1, <1>2
  <2>2. ~(n - x < t)
    BY <1>2, <2>1 DEF OpToRel
  <2> QED
    BY <1>3, <2>1, <2>2
<1>5. \E x \in S : \A y \in S : x >= y
  BY <1>4
<1>6. Max(S) \in S /\ \A y \in S : Max(S) >= y
  BY <1>5 DEF Max
<1> QED
  BY <1>6

(* Of a non-empty set of positions there is a first one.                   *)
LEMMA FirstPosition ==
  ASSUME NEW P, P \subseteq Nat, P # {}
  PROVE  \E i \in P : \A j \in P : i <= j
<1>1. PICK i \in P : \A j \in P : ~(<<j, i>> \in OpToRel(<, Nat))
  BY NatLessThanWellFounded, WFMin
<1>2. ASSUME NEW j \in P PROVE i <= j
  <2>1. i \in Nat /\ j \in Nat
    OBVIOUS
  <2>2. ~(j < i)
    BY <1>1, <2>1 DEF OpToRel
  <2> QED
    BY <2>1, <2>2
<1> QED
  BY <1>2

(* The walk over the sorted ranges leaves no gap: the first range that     *)
(* ends behind byte o starts at o or before, for it starts no later than   *)
(* what the ranges before it cover.                                        *)
LEMMA CompleteCovers ==
  ASSUME NEW r \in Reassembly, ChunksFit(r), is_complete(r), NEW o \in 0..r.size - 1
  PROVE  \E k \in DOMAIN r.ranges : o \in r.ranges[k][1]..(r.ranges[k][1] + r.ranges[k][2] - 1)
<1> DEFINE R == r.ranges
           n == Len(r.ranges)
<1>1. r.size \in Nat /\ R \in Seq(Nat \X Nat) /\ n \in Nat /\ DOMAIN R = 1..n
  BY DEF Reassembly
<1>2. \A k \in 1..n : R[k][1] \in Nat /\ R[k][2] \in Nat /\ R[k][1] + R[k][2] <= r.size
  BY <1>1, SMTT(30) DEF ChunksFit
<1>3. PICK p \in SortedByOffset(R) :
        /\ \A k \in 1..n : R[p[k]][1] <= Covered(R, p, k)
        /\ Covered(R, p, n + 1) >= r.size
  BY <1>1 DEF is_complete
<1>4. \A k \in 1..n : p[k] \in 1..n
  BY <1>1, <1>3 DEF SortedByOffset, Bijection, Injection, Surjection
<1> HIDE DEF R, n
<1> DEFINE e(j) == R[p[j]][1] + R[p[j]][2]
           S(k) == {0} \cup {e(j) : j \in 1..k - 1}
<1>5. ASSUME NEW k \in 1..n + 1
      PROVE  Covered(R, p, k) \in S(k) /\ S(k) \subseteq 0..r.size
  <2>1. \A j \in 1..k - 1 : e(j) \in 0..r.size
    <3> SUFFICES ASSUME NEW j \in 1..k - 1 PROVE e(j) \in 0..r.size
      OBVIOUS
    <3>1. j \in 1..n
      BY <1>1
    <3>2. p[j] \in 1..n
      BY <1>4, <3>1
    <3>3. R[p[j]][1] \in Nat /\ R[p[j]][2] \in Nat /\ R[p[j]][1] + R[p[j]][2] <= r.size
      BY <1>2, <3>2
    <3>4. \A a, b, z \in Nat : a + b <= z => a + b \in 0..z
      OBVIOUS
    <3> QED
      BY <1>1, <3>3, <3>4, Zenon
  <2>2. S(k) \subseteq 0..r.size /\ S(k) # {}
    BY <1>1, <2>1
  <2>3. Covered(R, p, k) = Max(S(k))
    BY DEF Covered
  <2> HIDE DEF S
  <2> QED
    BY <1>1, <2>2, <2>3, BoundedMax
<1> DEFINE P == {j \in 1..n : e(j) > o}
<1>6. P # {}
  <2>1. n + 1 \in 1..n + 1 /\ (n + 1) - 1 = n
    BY <1>1
  <2>2. Covered(R, p, n + 1) \in S(n + 1)
    BY <1>5, <2>1
  <2>3. Covered(R, p, n + 1) > o
    <3>1. Covered(R, p, n + 1) \in 0..r.size
      BY <1>5, <2>1, <2>2
    <3> QED
      BY <1>1, <1>3, <3>1
  <2>4. Covered(R, p, n + 1) # 0
    BY <1>1, <2>3
  <2>5. PICK j \in 1..n : Covered(R, p, n + 1) = e(j)
    BY <2>1, <2>2, <2>4
  <2> QED
    BY <2>3, <2>5
<1>7. PICK k \in P : \A j \in P : k <= j
  <2>1. P \subseteq Nat
    BY <1>1
  <2> HIDE DEF P
  <2> QED
    BY <1>6, <2>1, FirstPosition
<1>8. k \in 1..n /\ e(k) > o /\ k \in 1..n + 1
  BY <1>1
<1>9. Covered(R, p, k) <= o
  <2>1. Covered(R, p, k) \in S(k)
    BY <1>5, <1>8
  <2>2. CASE Covered(R, p, k) = 0
    BY <1>1, <2>2
  <2>3. ASSUME NEW j \in 1..k - 1, Covered(R, p, k) = e(j)
        PROVE  Covered(R, p, k) <= o
    <3>1. j \in 1..n /\ ~(k <= j)
      <4>1. k \in 1..n /\ n \in Nat
        BY <1>1, <1>8
      <4> HIDE DEF P
      <4> QED
        BY <4>1
    <3>2. j \notin P
      BY <1>7, <3>1
    <3>3. e(j) \in Nat
      BY <1>2, <1>4, <3>1
    <3>4. ~(e(j) > o)
      BY <3>1, <3>2
    <3> HIDE DEF e
    <3>5. o \in Nat
      BY <1>1
    <3> QED
      BY <2>3, <3>3, <3>4, <3>5
  <2> QED
    BY <2>1, <2>2, <2>3
<1>10. R[p[k]][1] <= o /\ p[k] \in 1..n /\ R[p[k]][1] \in Nat /\ R[p[k]][2] \in Nat
  <2>1. p[k] \in 1..n /\ R[p[k]][1] \in Nat /\ R[p[k]][2] \in Nat
    BY <1>2, <1>4, <1>8
  <2>2. Covered(R, p, k) \in 0..r.size /\ R[p[k]][1] <= Covered(R, p, k)
    BY <1>3, <1>5, <1>8
  <2> QED
    BY <1>1, <1>9, <2>1, <2>2
<1>11. o \in R[p[k]][1]..(R[p[k]][1] + R[p[k]][2] - 1)
  <2>1. \A a, b, c \in Nat : a <= c /\ a + b > c => c \in a..(a + b - 1)
    OBVIOUS
  <2>2. o \in Nat
    BY <1>1
  <2>3. R[p[k]][1] + R[p[k]][2] > o
    BY <1>8, Zenon
  <2> QED
    BY <1>10, <2>1, <2>2, <2>3, Zenon
<1> QED
  BY <1>1, <1>10, <1>11 DEF R

(* An upload that is done has the size and, byte for byte, the content of  *)
(* the file its handle was issued for, and every byte of it arrived in     *)
(* exactly one chunk, whatever the sender sent and whichever task received *)
(* it.                                                                     *)
THEOREM UploadsAreWhole == Spec => []CompletedIsWhole
<1>1. ASSUME FileInv PROVE CompletedIsWhole
  <2> SUFFICES ASSUME NEW i \in DOMAIN task, task[i].pc = "done", task[i].direction = "Upload"
      PROVE  LET r == task[i].file
                 h == task[i].stream.handle
             IN /\ r.size = issued[h].size
                /\ \A o \in 0..r.size - 1 :
                      /\ r.data[o] = FileByte(h, o)
                      /\ Cardinality({k \in DOMAIN r.ranges :
                            o \in r.ranges[k][1]..(r.ranges[k][1] + r.ranges[k][2] - 1)}) = 1
    BY DEF CompletedIsWhole
  <2> DEFINE r == task[i].file
             h == task[i].stream.handle
  <2>1. Good(task[i])
    BY <1>1, InvGood
  <2>2. /\ r.size = issued[h].size /\ is_complete(r) /\ DOMAIN r.data = 0..r.size - 1
        /\ \A o \in DOMAIN r.data : r.data[o] = FileByte(h, o)
        /\ ChunksFit(r) /\ task[i] \in Task
    BY <2>1 DEF Good, verify_checksum, ChunksFit
  <2>3. r \in Reassembly /\ r.ranges \in Seq(Nat \X Nat) /\ r.size \in Nat
    BY <2>2, FieldsOfTask DEF Reassembly
  <2>4. ASSUME NEW j \in DOMAIN r.ranges, NEW k \in DOMAIN r.ranges, NEW o \in Nat,
               o \in r.ranges[j][1]..(r.ranges[j][1] + r.ranges[j][2] - 1),
               o \in r.ranges[k][1]..(r.ranges[k][1] + r.ranges[k][2] - 1)
        PROVE  j = k
    <3>1. /\ r.ranges[j][1] \in Nat /\ r.ranges[j][2] \in Nat
          /\ r.ranges[k][1] \in Nat /\ r.ranges[k][2] \in Nat
      BY <2>3, SMTT(30)
    <3>2. Overlap(r.ranges[j], r.ranges[k])
      BY <2>4, <3>1 DEF Overlap
    <3> QED
      BY <2>2, <3>2 DEF ChunksFit
  <2>5. ASSUME NEW o \in 0..r.size - 1
        PROVE  Cardinality({k \in DOMAIN r.ranges :
                 o \in r.ranges[k][1]..(r.ranges[k][1] + r.ranges[k][2] - 1)}) = 1
    <3> DEFINE K == {k \in DOMAIN r.ranges :
                 o \in r.ranges[k][1]..(r.ranges[k][1] + r.ranges[k][2] - 1)}
    <3>1. PICK k \in DOMAIN r.ranges : o \in r.ranges[k][1]..(r.ranges[k][1] + r.ranges[k][2] - 1)
      BY <2>2, <2>3, CompleteCovers
    <3>2. o \in Nat
      BY <2>3
    <3>3. \A j \in K : j = k
      BY <2>4, <3>1, <3>2
    <3>4. K = {k}
      BY <3>1, <3>3
    <3> QED
      BY <3>4, FS_Singleton
  <2> QED
    BY <2>2, <2>5
<1>2. FileInv => CompletedIsWhole
  BY <1>1
<1> QED
  BY <1>2, FileInvariant, PTL
=============================================================================
