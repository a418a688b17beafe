------------------------- MODULE ConfigFile_proofs -------------------------
(***************************************************************************)
(* Proofs about ConfigFile: its types, that only a writer in place damages *)
(* the file, and that a rename puts the content of its own writer, for any *)
(* number of writers of each kind, failures and deaths.                    *)
(***************************************************************************)
EXTENDS ConfigFile, SequenceTheorems, TLAPS

Stages == {"idle", "damaged", "ready", "queued", "filled", "truncated"}

\* The parts of TypeOK, by the variables that change together.
FileType ==
    /\ file \in Content
    /\ attached \subseteq InPlace

TmpType == tmp \in [Atomic -> Object \cup {"absent"}]

WriterType ==
    /\ pc \in [Writer -> Stages]
    /\ data \in [Writer -> Readable]

QueueType ==
    /\ queue \in Seq(Task)
    /\ repairing \subseteq Task

BackupType ==
    /\ newest \in Readable
    /\ older \in BOOLEAN
    /\ backup \in {"idle", "writing"}
    /\ copied \in Readable

RestType ==
    /\ agent \in BOOLEAN
    /\ failures \in 0..MaxFailures

LEMMA TypeParts ==
    TypeOK <=> FileType /\ TmpType /\ WriterType /\ QueueType /\ BackupType /\ RestType
  BY DEF TypeOK, FileType, TmpType, WriterType, QueueType, BackupType, RestType, Stages

LEMMA TypePartsNext ==
    FileType' /\ TmpType' /\ WriterType' /\ QueueType' /\ BackupType' /\ RestType' => TypeOK'
  BY DEF TypeOK, FileType, TmpType, WriterType, QueueType, BackupType, RestType, Stages

\* A writer that is past its reading holds a complete object.
Held == \A w \in Writer : pc[w] \in {"ready", "queued", "filled", "truncated"} => data[w] \in Object

\* The temporary file is its writer's, or was deleted by the agent that started.
TmpOwn == \A w \in Atomic : pc[w] = "filled" => tmp[w] \in {data[w], "absent"}

\* A writer whose descriptor refers to the name is about to fill the file.
AttachedFills == \A w \in attached : pc[w] = "truncated"

\* One task at a time writes: the one at the head of the queue.
HeadWrites == \A t \in Task : pc[t] = "filled" => queue # <<>> /\ Head(queue) = t

Inv == TypeOK /\ Held /\ TmpOwn /\ HeadWrites /\ AttachedFills

-----------------------------------------------------------------------------
LEMMA Writers ==
    /\ Task \subseteq Writer /\ Switch \subseteq Writer /\ Atomic \subseteq Writer
    /\ InPlace \subseteq Writer /\ Setting \subseteq InPlace /\ Edit \subseteq InPlace
    /\ Setup \subseteq InPlace /\ Task \subseteq Atomic /\ Switch \subseteq Atomic
    /\ Task \cap InPlace = {} /\ Task \cap Switch = {} /\ Atomic \cap InPlace = {}
    /\ Atomic = Task \cup Switch
  BY FileAssumption DEF Writer, Atomic, InPlace

\* A step of one writer that stops short of writing keeps what Inv says of all.
LEMMA StepKeeps ==
    ASSUME Inv, NEW w \in Writer, NEW from, NEW to \in {"idle", "damaged", "ready", "queued", "truncated"},
           Step(w, from, to), data' \in [Writer -> Readable],
           \A v \in Writer \ {w} : data'[v] = data[v],
           to \in {"ready", "queued", "truncated"} => data'[w] \in Object,
           \A v \in Atomic \ {w} : tmp'[v] = tmp[v]
    PROVE  WriterType' /\ Held' /\ TmpOwn'
<1>1. pc \in [Writer -> Stages]
  BY TypeParts DEF Inv, WriterType
<1>2. pc'[w] = to /\ \A v \in Writer \ {w} : pc'[v] = pc[v]
  BY <1>1 DEF Step
<1>3. WriterType'
  BY <1>1, <1>2 DEF Step, WriterType, Stages
<1>4. Held'
  BY <1>2 DEF Inv, Held
<1>5. TmpOwn'
  BY <1>2, Writers DEF Inv, TmpOwn
<1> QED
  BY <1>3, <1>4, <1>5

\* ... and so does a queue that grows at its end.
LEMMA QueueGrows ==
    ASSUME Inv, NEW t \in Task, queue' = Append(queue, t),
           \A v \in Task \ {t} : pc'[v] = pc[v], pc'[t] # "filled"
    PROVE  queue' \in Seq(Task) /\ HeadWrites'
<1>1. queue \in Seq(Task)
  BY TypeParts DEF Inv, QueueType
<1>2. queue # <<>> => Head(queue') = Head(queue)
  BY <1>1
<1>3. queue' # <<>> /\ queue' \in Seq(Task)
  BY <1>1
<1> QED
  BY <1>2, <1>3 DEF Inv, HeadWrites

LEMMA QueueKept ==
    ASSUME Inv, NEW w \in Writer, \A v \in Writer \ {w} : pc'[v] = pc[v], pc'[w] # "filled",
           queue' = queue
    PROVE  HeadWrites'
  BY Writers DEF Inv, HeadWrites

\* The end of a write, with or without a rename.
LEMMA LeaveKeeps ==
    ASSUME Inv, NEW w \in Atomic, NEW to, Step(w, "filled", to), to # "filled", Leave(w)
    PROVE  QueueType' /\ HeadWrites'
<1>1. pc \in [Writer -> Stages] /\ queue \in Seq(Task) /\ repairing \subseteq Task
  BY TypeParts DEF Inv, WriterType, QueueType
<1>2. pc[w] = "filled" /\ pc'[w] = to /\ \A v \in Writer \ {w} : pc'[v] = pc[v]
  BY <1>1, Writers DEF Step
<1>3. CASE w \in Task
  <2>1. queue # <<>> /\ Head(queue) = w
    BY <1>2, <1>3 DEF Inv, HeadWrites
  <2>2. queue' \in Seq(Task)
    BY <1>1, <1>3, <2>1 DEF Leave
  <2>3. \A v \in Task : pc'[v] # "filled"
    BY <1>2, <2>1, Writers DEF Inv, HeadWrites
  <2> QED
    BY <1>1, <2>2, <2>3 DEF QueueType, HeadWrites, Leave
<1>4. CASE w \notin Task
  <2>1. queue' = queue
    BY <1>4 DEF Leave
  <2>2. HeadWrites'
    BY <1>2, <2>1, QueueKept, Writers
  <2> QED
    BY <1>1, <2>1, <2>2 DEF QueueType, Leave
<1> QED
  BY <1>3, <1>4

\* Steps of the writers that rename leave those in place alone.
LEMMA AttachedKept ==
    ASSUME Inv, NEW w \in Writer, pc[w] # "truncated", attached' \subseteq attached,
           \A v \in Writer \ {w} : pc'[v] = pc[v]
    PROVE  AttachedFills'
<1>1. attached \subseteq Writer
  BY TypeParts, Writers DEF Inv, FileType
<1> QED
  BY <1>1 DEF Inv, AttachedFills

-----------------------------------------------------------------------------
LEMMA InitInv == Init => Inv
<1> SUFFICES ASSUME Init PROVE Inv
  OBVIOUS
<1> USE DEF Init
<1>1. FileType
  BY DEF FileType, Content, Readable, Object, Json
<1>2. TmpType /\ WriterType /\ QueueType /\ RestType
  BY FileAssumption DEF TmpType, WriterType, QueueType, RestType, Stages, Readable, Object
<1>3. BackupType
  BY DEF BackupType, Readable, Object
<1>4. Held /\ TmpOwn /\ HeadWrites
  BY Writers DEF Held, TmpOwn, HeadWrites
<1>5. AttachedFills
  BY DEF AttachedFills
<1> QED
  BY <1>1, <1>2, <1>3, <1>4, <1>5, TypeParts DEF Inv

-----------------------------------------------------------------------------
LEMMA ReadInv == ASSUME Inv, NEW t \in Task, Read(t) PROVE Inv'
<1> USE Writers
<1>1. file \in Content /\ data \in [Writer -> Readable] /\ pc \in [Writer -> Stages]
  BY TypeParts DEF Inv, FileType, WriterType
<1>2. QueueType
  BY TypeParts DEF Inv
<1>3. UNCHANGED <<file, tmp, attached, agent, newest, older, backup, copied, failures>>
  BY DEF Read, diskVars, backupVars
<1>4. FileType' /\ TmpType' /\ BackupType' /\ RestType'
  BY <1>3, TypeParts DEF Inv, FileType, TmpType, BackupType, RestType
<1>5. file.object \in Readable
  BY <1>1 DEF Content
<1>9. AttachedFills'
  BY <1>1, <1>3, AttachedKept DEF Read, Step
<1>6. CASE Whole(file)
  <2>1. Step(t, "idle", "ready") /\ Hold(t, file.object) /\ UNCHANGED <<queue, repairing>>
    BY <1>6 DEF Read
  <2>2. file.object \in Object
    BY <1>5, <1>6 DEF Whole, Readable
  <2>3. WriterType' /\ Held' /\ TmpOwn'
    BY <1>1, <1>3, <1>5, <2>1, <2>2, StepKeeps DEF Hold
  <2>4. HeadWrites'
    BY <1>1, <2>1, QueueKept DEF Step
  <2> QED
    BY <1>2, <1>4, <1>9, <2>1, <2>3, <2>4, TypePartsNext DEF Inv, QueueType
<1>7. CASE ~Whole(file) /\ file.object # "none"
  <2>1. /\ Step(t, "idle", "queued") /\ Hold(t, file.object)
        /\ queue' = Append(queue, t) /\ repairing' = repairing \cup {t}
    BY <1>7 DEF Read
  <2>2. file.object \in Object
    BY <1>5, <1>7 DEF Readable
  <2>3. WriterType' /\ Held' /\ TmpOwn'
    BY <1>1, <1>3, <1>5, <2>1, <2>2, StepKeeps DEF Hold
  <2>4. queue' \in Seq(Task) /\ HeadWrites'
    BY <1>1, <2>1, QueueGrows DEF Step
  <2> QED
    BY <1>2, <1>4, <1>9, <2>1, <2>3, <2>4, TypePartsNext DEF Inv, QueueType
<1>8. CASE ~Whole(file) /\ file.object = "none"
  <2>1. Step(t, "idle", "damaged") /\ UNCHANGED <<data, queue, repairing>>
    BY <1>8 DEF Read
  <2>2. WriterType' /\ Held' /\ TmpOwn'
    BY <1>1, <1>3, <2>1, StepKeeps
  <2>3. HeadWrites'
    BY <1>1, <2>1, QueueKept DEF Step
  <2> QED
    BY <1>2, <1>4, <1>9, <2>1, <2>2, <2>3, TypePartsNext DEF Inv, QueueType
<1> QED
  BY <1>6, <1>7, <1>8

LEMMA RestoreInv == ASSUME Inv, NEW t \in Task, Restore(t) PROVE Inv'
<1> USE Writers
<1>1. data \in [Writer -> Readable] /\ pc \in [Writer -> Stages] /\ QueueType
  BY TypeParts DEF Inv, WriterType
<1>2. UNCHANGED <<file, tmp, attached, agent, newest, older, backup, copied, failures>>
  BY DEF Restore, diskVars, backupVars
<1>3. FileType' /\ TmpType' /\ BackupType' /\ RestType'
  BY <1>2, TypeParts DEF Inv, FileType, TmpType, BackupType, RestType
<1>6. AttachedFills'
  BY <1>1, <1>2, AttachedKept DEF Restore, Step
<1>4. CASE /\ newest \in Object /\ Step(t, "damaged", "queued") /\ Hold(t, newest)
           /\ queue' = Append(queue, t) /\ repairing' = repairing \cup {t}
  <2>1. WriterType' /\ Held' /\ TmpOwn'
    BY <1>1, <1>2, <1>4, StepKeeps DEF Hold, Readable
  <2>2. queue' \in Seq(Task) /\ HeadWrites'
    BY <1>1, <1>4, QueueGrows DEF Step
  <2> QED
    BY <1>1, <1>3, <1>4, <1>6, <2>1, <2>2, TypePartsNext DEF Inv, QueueType
<1>5. CASE Step(t, "damaged", "ready") /\ Hold(t, "bare") /\ UNCHANGED <<queue, repairing>>
  <2>1. WriterType' /\ Held' /\ TmpOwn'
    BY <1>1, <1>2, <1>5, StepKeeps DEF Hold, Readable, Object
  <2>2. HeadWrites'
    BY <1>1, <1>5, QueueKept DEF Step
  <2> QED
    BY <1>1, <1>3, <1>5, <1>6, <2>1, <2>2, TypePartsNext DEF Inv, QueueType
<1> QED
  BY <1>4, <1>5 DEF Restore

LEMMA UnchangedInv == ASSUME Inv, NEW t \in Task, Unchanged(t) PROVE Inv'
<1> USE Writers
<1>1. data \in [Writer -> Readable] /\ pc \in [Writer -> Stages] /\ QueueType
  BY TypeParts DEF Inv, WriterType
<1>2. UNCHANGED <<file, tmp, attached, agent, newest, older, backup, copied, failures, queue, repairing>>
  BY DEF Unchanged, diskVars, backupVars
<1>3. FileType' /\ TmpType' /\ BackupType' /\ RestType' /\ QueueType'
  BY <1>2, TypeParts DEF Inv, FileType, TmpType, BackupType, RestType, QueueType
<1>4. WriterType' /\ Held' /\ TmpOwn'
  BY <1>1, <1>2, StepKeeps DEF Unchanged, Hold, Readable
<1>5. HeadWrites'
  BY <1>1, <1>2, QueueKept DEF Unchanged, Step
<1>6. AttachedFills'
  BY <1>1, <1>2, AttachedKept DEF Unchanged, Step
<1> QED
  BY <1>3, <1>4, <1>5, <1>6, TypePartsNext DEF Inv

LEMMA EnqueueInv == ASSUME Inv, NEW t \in Task, Enqueue(t) PROVE Inv'
<1> USE Writers
<1>1. data \in [Writer -> Readable] /\ pc \in [Writer -> Stages] /\ QueueType
  BY TypeParts DEF Inv, WriterType
<1>2. UNCHANGED <<file, tmp, attached, agent, newest, older, backup, copied, failures, data, repairing>>
  BY DEF Enqueue, diskVars, backupVars
<1>3. FileType' /\ TmpType' /\ BackupType' /\ RestType'
  BY <1>2, TypeParts DEF Inv, FileType, TmpType, BackupType, RestType
<1>4. data[t] \in Object
  BY DEF Enqueue, Step, Inv, Held
<1>5. WriterType' /\ Held' /\ TmpOwn'
  BY <1>1, <1>2, <1>4, StepKeeps DEF Enqueue
<1>6. queue' \in Seq(Task) /\ HeadWrites'
  BY <1>1, QueueGrows DEF Enqueue, Step
<1>7. AttachedFills'
  BY <1>1, <1>2, AttachedKept DEF Enqueue, Step
<1> QED
  BY <1>1, <1>2, <1>3, <1>5, <1>6, <1>7, TypePartsNext DEF Inv, QueueType

LEMMA FillTmpInv == ASSUME Inv, NEW w \in Atomic, FillTmp(w) PROVE Inv'
<1> USE Writers
<1>1. /\ data \in [Writer -> Readable] /\ pc \in [Writer -> Stages] /\ QueueType
      /\ tmp \in [Atomic -> Object \cup {"absent"}]
  BY TypeParts DEF Inv, WriterType, TmpType
<1>2. UNCHANGED <<file, attached, agent, newest, older, backup, copied, failures, data, queue, repairing>>
  BY DEF FillTmp, backupVars
<1>3. FileType' /\ BackupType' /\ RestType' /\ QueueType'
  BY <1>2, TypeParts DEF Inv, FileType, BackupType, RestType, QueueType
<1>4. pc[w] \in {"queued", "ready"} /\ pc' = [pc EXCEPT ![w] = "filled"]
  BY DEF FillTmp, Step
<1>5. data[w] \in Object
  BY <1>4 DEF Inv, Held
<1>6. tmp' = [tmp EXCEPT ![w] = data[w]]
  BY DEF FillTmp, TmpPath
<1>7. TmpType' /\ TmpOwn'
  BY <1>1, <1>2, <1>4, <1>5, <1>6 DEF TmpType, TmpOwn, Inv
<1>8. WriterType' /\ Held'
  BY <1>1, <1>2, <1>4, <1>5 DEF WriterType, Held, Inv, Stages
<1>9. HeadWrites'
  <2>1. CASE w \in Task
    BY <1>1, <1>2, <1>4, <2>1 DEF FillTmp, HeadWrites, Inv
  <2>2. CASE w \notin Task
    BY <1>1, <1>2, <1>4, <2>2 DEF HeadWrites, Inv
  <2> QED
    BY <2>1, <2>2
<1>10. AttachedFills'
  BY <1>1, <1>2, <1>4, AttachedKept
<1> QED
  BY <1>3, <1>7, <1>8, <1>9, <1>10, TypePartsNext DEF Inv

\* What a rename puts is its writer's, and complete.
LEMMA RenamePuts ==
    ASSUME Inv, NEW w \in Atomic, Rename(w)
    PROVE  file' = Json(data[w]) /\ data[w] \in Object
<1>1. pc[w] = "filled" /\ tmp[w] # "absent" /\ file' = Json(tmp[w])
  BY DEF Rename, Step, TmpPath
<1>2. tmp[w] = data[w]
  BY <1>1 DEF Inv, TmpOwn
<1> QED
  BY <1>1, <1>2, Writers DEF Inv, Held

LEMMA RenameInv == ASSUME Inv, NEW w \in Atomic, Rename(w) PROVE Inv'
<1> USE Writers
<1> DEFINE to == IF w \in repairing THEN "ready" ELSE "idle"
           x == IF w \in repairing THEN data[w] ELSE "none"
<1>1. /\ data \in [Writer -> Readable] /\ pc \in [Writer -> Stages]
      /\ tmp \in [Atomic -> Object \cup {"absent"}]
  BY TypeParts DEF Inv, WriterType, TmpType
<1>2. UNCHANGED <<agent, newest, older, backup, copied, failures>>
  BY DEF Rename, backupVars
<1>3. BackupType' /\ RestType'
  BY <1>2, TypeParts DEF Inv, BackupType, RestType
<1>4. file' = Json(data[w]) /\ data[w] \in Object
  BY RenamePuts
<1>5. FileType'
  BY <1>4 DEF Rename, FileType, Content, Json, Readable
<1>6. tmp' = [tmp EXCEPT ![w] = "absent"]
  BY DEF Rename, TmpPath
<1>7. TmpType'
  BY <1>1, <1>6 DEF TmpType
<1>8. Step(w, "filled", to) /\ data' = [data EXCEPT ![w] = x] /\ Leave(w)
  BY DEF Rename, Hold
<1>9. QueueType' /\ HeadWrites'
  BY <1>8, LeaveKeeps
<1>10. x \in Readable /\ (to = "ready" => x \in Object)
  BY <1>4 DEF Readable
<1>11. /\ data' \in [Writer -> Readable] /\ data'[w] = x
       /\ \A v \in Writer \ {w} : data'[v] = data[v]
  BY <1>1, <1>8, <1>10
<1>12. \A v \in Atomic \ {w} : tmp'[v] = tmp[v]
  BY <1>1, <1>6
<1>13. WriterType' /\ Held' /\ TmpOwn'
  BY <1>8, <1>10, <1>11, <1>12, StepKeeps
<1>14. AttachedFills'
  BY DEF Rename, AttachedFills
<1> QED
  BY <1>3, <1>5, <1>7, <1>9, <1>13, <1>14, TypePartsNext DEF Inv

\* The two ends of a write without a rename.
LEMMA WriteLost ==
    ASSUME Inv, NEW w \in Atomic, Step(w, "filled", "idle"), Hold(w, "none"), Leave(w),
           tmp' = tmp \/ tmp' = [tmp EXCEPT ![w] = "absent"]
    PROVE  /\ TmpType' /\ WriterType' /\ QueueType' /\ Held' /\ TmpOwn' /\ HeadWrites'
           /\ attached' = attached => AttachedFills'
<1> USE Writers
<1>1. /\ data \in [Writer -> Readable] /\ pc \in [Writer -> Stages] /\ tmp \in [Atomic -> Object \cup {"absent"}]
  BY TypeParts DEF Inv, WriterType, TmpType
<1>2. TmpType' /\ \A v \in Atomic \ {w} : tmp'[v] = tmp[v]
  BY <1>1 DEF TmpType
<1>3. data' \in [Writer -> Readable] /\ \A v \in Writer \ {w} : data'[v] = data[v]
  BY <1>1 DEF Hold, Readable
<1>4. WriterType' /\ Held' /\ TmpOwn'
  BY <1>2, <1>3, StepKeeps
<1>5. QueueType' /\ HeadWrites'
  BY LeaveKeeps
<1>6. attached' = attached => AttachedFills'
  BY <1>1, AttachedKept DEF Step
<1> QED
  BY <1>2, <1>4, <1>5, <1>6

LEMMA RenameFailsInv == ASSUME Inv, NEW w \in Atomic, RenameFails(w) PROVE Inv'
<1>1. FileType' /\ BackupType' /\ RestType'
  BY TypeParts DEF Inv, FileType, BackupType, RestType, RenameFails, diskVars, backupVars
<1>2. TmpType' /\ WriterType' /\ QueueType' /\ Held' /\ TmpOwn' /\ HeadWrites'
  BY WriteLost DEF RenameFails, diskVars
<1>3. AttachedFills'
  BY WriteLost DEF RenameFails, diskVars
<1> QED
  BY <1>1, <1>2, <1>3, TypePartsNext DEF Inv

LEMMA WriteFailsInv == ASSUME Inv, NEW w \in Atomic, WriteFails(w) PROVE Inv'
<1>1. FileType' /\ BackupType' /\ RestType'
  BY TypeParts, FileAssumption DEF Inv, FileType, BackupType, RestType, WriteFails, backupVars
<1>2. TmpType' /\ WriterType' /\ QueueType' /\ Held' /\ TmpOwn' /\ HeadWrites'
  BY WriteLost DEF WriteFails, TmpPath
<1>3. AttachedFills'
  BY WriteLost DEF WriteFails, TmpPath
<1> QED
  BY <1>1, <1>2, <1>3, TypePartsNext DEF Inv

LEMMA WriteStepInv == ASSUME Inv, NEW w \in Atomic, WriteStep(w) PROVE Inv'
  BY FillTmpInv, RenameInv, RenameFailsInv DEF WriteStep

-----------------------------------------------------------------------------
\* The steps of the other writers before they write.
LEMMA OtherReads ==
    ASSUME Inv, NEW w \in Writer, NEW x \in Object, Step(w, "idle", "ready"), Hold(w, x),
           UNCHANGED <<diskVars, queue, repairing, agent, backupVars, failures>>
    PROVE  Inv'
<1> USE Writers
<1>1. data \in [Writer -> Readable] /\ pc \in [Writer -> Stages]
  BY TypeParts DEF Inv, WriterType
<1>2. UNCHANGED <<file, tmp, attached, agent, newest, older, backup, copied, failures, queue, repairing>>
  BY DEF diskVars, backupVars
<1>3. FileType' /\ TmpType' /\ BackupType' /\ RestType' /\ QueueType'
  BY <1>2, TypeParts DEF Inv, FileType, TmpType, BackupType, RestType, QueueType
<1>4. WriterType' /\ Held' /\ TmpOwn'
  BY <1>1, <1>2, StepKeeps DEF Hold, Readable
<1>5. HeadWrites'
  BY <1>1, <1>2, QueueKept DEF Step
<1>6. AttachedFills'
  BY <1>1, <1>2, AttachedKept DEF Step
<1> QED
  BY <1>3, <1>4, <1>5, <1>6, TypePartsNext DEF Inv

LEMMA WholeObject == ASSUME Inv, Whole(file) PROVE file.object \in Object
  BY TypeParts DEF Inv, FileType, Content, Readable, Whole

LEMMA OtherReadInv ==
    ASSUME Inv, NEW w \in Writer, ReadInPlace(w) \/ ReadForSetup(w) \/ ReadForSwitch(w)
    PROVE  Inv'
<1>1. CASE ReadInPlace(w)
  BY <1>1, OtherReads, WholeObject DEF ReadInPlace
<1>2. CASE ReadForSetup(w)
  BY <1>2, OtherReads DEF ReadForSetup, Object
<1>3. CASE ReadForSwitch(w)
  BY <1>3, OtherReads, WholeObject DEF ReadForSwitch, Object
<1> QED
  BY <1>1, <1>2, <1>3

LEMMA HalfwayContent ==
    ASSUME NEW stopped, file \in Content, attached \subseteq InPlace, StopHalfway(stopped)
    PROVE  file' \in Content /\ attached' \subseteq InPlace
<1>1. Json("none") \in Content
  BY DEF Json, Content, Readable
<1>2. file' = file \/ file' = Json("none")
  BY DEF StopHalfway
<1> QED
  BY <1>1, <1>2 DEF StopHalfway

LEMMA InPlaceInv ==
    ASSUME Inv, NEW w \in InPlace, Truncate(w) \/ Fill(w) \/ FillFails(w)
    PROVE  Inv'
<1> USE Writers
<1>1. /\ data \in [Writer -> Readable] /\ pc \in [Writer -> Stages]
      /\ file \in Content /\ attached \subseteq InPlace
  BY TypeParts DEF Inv, WriterType, FileType
<1>2. UNCHANGED <<tmp, queue, repairing, agent, newest, older, backup, copied>>
  BY DEF Truncate, Fill, FillFails, backupVars
<1>3. TmpType' /\ BackupType' /\ QueueType'
  BY <1>2, TypeParts DEF Inv, TmpType, BackupType, QueueType
<1>4. RestType'
  <2>1. failures \in 0..MaxFailures /\ agent' \in BOOLEAN
    BY <1>2, TypeParts DEF Inv, RestType
  <2>2. failures' = failures \/ (failures < MaxFailures /\ failures' = failures + 1)
    BY DEF Truncate, Fill, FillFails
  <2>3. failures' \in 0..MaxFailures
    BY <2>1, <2>2, FileAssumption
  <2> QED
    BY <2>1, <2>3 DEF RestType
<1>5. attached' \subseteq InPlace
  BY <1>1 DEF Truncate, Fill, FillFails, StopHalfway
<1>6. file' \in Content
  <2>1. CASE Truncate(w)
    BY <2>1 DEF Truncate, Json, Content, Readable
  <2>2. CASE Fill(w)
    BY <1>1, <2>2 DEF Fill, Content
  <2>3. CASE FillFails(w)
    BY <1>1, <2>3, HalfwayContent DEF FillFails
  <2> QED
    BY <2>1, <2>2, <2>3
<1>7. WriterType' /\ Held' /\ TmpOwn' /\ HeadWrites'
  <2>1. CASE Truncate(w)
    <3>1. Step(w, "ready", "truncated") /\ data' = data
      BY <2>1 DEF Truncate
    <3>2. data[w] \in Object
      BY <3>1 DEF Step, Inv, Held
    <3> QED
      BY <1>1, <1>2, <3>1, <3>2, StepKeeps, QueueKept DEF Step
  <2>2. CASE Fill(w) \/ FillFails(w)
    <3>1. Step(w, "truncated", "idle") /\ Hold(w, "none")
      BY <2>2 DEF Fill, FillFails
    <3>2. data' \in [Writer -> Readable] /\ \A v \in Writer \ {w} : data'[v] = data[v]
      BY <1>1, <3>1 DEF Hold, Readable
    <3> QED
      BY <1>1, <1>2, <3>1, <3>2, StepKeeps, QueueKept DEF Step
  <2> QED
    BY <2>1, <2>2
<1>8. AttachedFills'
  <2>1. attached \subseteq Writer /\ AttachedFills
    BY <1>1 DEF Inv
  <2>2. CASE Truncate(w)
    BY <1>1, <2>1, <2>2 DEF Truncate, Step, AttachedFills
  <2>3. CASE Fill(w) \/ FillFails(w)
    <3>1. attached' = attached \ {w} /\ pc' = [pc EXCEPT ![w] = "idle"]
      BY <2>3 DEF Fill, FillFails, StopHalfway, Step
    <3> QED
      BY <1>1, <2>1, <3>1 DEF AttachedFills
  <2> QED
    BY <2>2, <2>3
<1> QED
  BY <1>3, <1>4, <1>5, <1>6, <1>7, <1>8, TypePartsNext DEF Inv, FileType

-----------------------------------------------------------------------------
LEMMA BackupInv ==
    ASSUME Inv, StartBackup \/ FinishBackup \/ BackupFails
    PROVE  Inv'
<1>1. BackupType /\ file \in Content
  BY TypeParts DEF Inv, FileType
<1>2. UNCHANGED <<diskVars, writerVars, agent>>
  BY DEF StartBackup, FinishBackup, BackupFails
<1>3. /\ FileType' /\ TmpType' /\ WriterType' /\ QueueType'
      /\ Held' /\ TmpOwn' /\ HeadWrites' /\ AttachedFills'
  BY <1>2, TypeParts DEF Inv, FileType, TmpType, WriterType, QueueType, Held, TmpOwn, HeadWrites,
     AttachedFills, diskVars, writerVars
<1>4. RestType'
  <2>1. RestType /\ agent' = agent
    BY <1>2, TypeParts DEF Inv
  <2>2. failures' = failures \/ (failures < MaxFailures /\ failures' = failures + 1)
    BY DEF StartBackup, FinishBackup, BackupFails
  <2> QED
    BY <2>1, <2>2, FileAssumption DEF RestType
<1>5. "none" \in Readable
  BY DEF Readable
<1>6. BackupType'
  <2>1. CASE StartBackup
    BY <1>1, <1>5, <2>1 DEF StartBackup, BackupType, Content
  <2>2. CASE FinishBackup
    BY <1>1, <1>5, <2>2 DEF FinishBackup, BackupType
  <2>3. CASE BackupFails
    BY <1>1, <1>5, <2>3 DEF BackupFails, BackupType
  <2> QED
    BY <2>1, <2>2, <2>3
<1> QED
  BY <1>3, <1>4, <1>6, TypePartsNext DEF Inv

\* Writers that die hold nothing; the others are as they were.
LEMMA DieKeeps ==
    ASSUME Inv, NEW dead, Die(dead)
    PROVE  /\ FileType' /\ TmpType' /\ WriterType' /\ Held' /\ TmpOwn'
           /\ failures' \in 0..MaxFailures /\ newest' \in Readable /\ older' \in BOOLEAN
           /\ \A t \in Task : pc'[t] = "filled" => pc[t] = "filled" /\ t \notin dead
           /\ AttachedFills'
<1> USE Writers
<1>1. /\ data \in [Writer -> Readable] /\ pc \in [Writer -> Stages]
      /\ FileType /\ TmpType /\ BackupType /\ RestType
  BY TypeParts DEF Inv, WriterType
<1>2. FileType' /\ TmpType' /\ newest' \in Readable /\ older' \in BOOLEAN
  <2>1. file' \in Content /\ attached' \subseteq InPlace
    BY <1>1, HalfwayContent DEF Die, FileType
  <2> QED
    BY <1>1, <2>1 DEF Die, FileType, TmpType, BackupType
<1>3. failures' \in 0..MaxFailures
  BY <1>1, FileAssumption DEF Die, RestType
<1>4. /\ \A w \in Writer : w \in dead => pc'[w] = "idle"
      /\ \A w \in Writer : w \notin dead => pc'[w] = pc[w] /\ data'[w] = data[w]
  BY DEF Die
<1>5. WriterType'
  BY <1>1 DEF Die, WriterType, Stages, Readable
<1>6. Held' /\ TmpOwn'
  BY <1>4 DEF Die, Inv, Held, TmpOwn
<1>7. \A t \in Task : pc'[t] = "filled" => pc[t] = "filled" /\ t \notin dead
  BY <1>4
<1>8. AttachedFills'
  <2>1. attached' = attached \ dead /\ attached \subseteq Writer
    BY <1>1 DEF Die, StopHalfway, FileType
  <2> QED
    BY <1>4, <2>1 DEF Inv, AttachedFills
<1> QED
  BY <1>2, <1>3, <1>5, <1>6, <1>7, <1>8

LEMMA AgentDiesInv == ASSUME Inv, NEW dead, AgentDies(dead) PROVE Inv'
<1> DEFINE d == Task \cup Setting \cup dead
<1>1. Die(d)
  BY DEF AgentDies
<1>2. /\ FileType' /\ TmpType' /\ WriterType' /\ Held' /\ TmpOwn'
      /\ failures' \in 0..MaxFailures /\ newest' \in Readable /\ older' \in BOOLEAN
      /\ \A t \in Task : pc'[t] # "filled"
      /\ AttachedFills'
  <2> HIDE DEF d
  <2>1. Task \subseteq d
    BY DEF d
  <2> QED
    BY <1>1, <2>1, DieKeeps
<1>3. QueueType' /\ BackupType' /\ RestType'
  <2>1. QueueType'
    BY DEF AgentDies, QueueType
  <2>2. BackupType'
    BY <1>2 DEF AgentDies, BackupType, Readable
  <2>3. RestType'
    BY <1>2 DEF AgentDies, RestType
  <2> QED
    BY <2>1, <2>2, <2>3
<1>4. HeadWrites'
  BY <1>2 DEF HeadWrites
<1> QED
  BY <1>2, <1>3, <1>4, TypePartsNext DEF Inv

LEMMA OthersDieInv == ASSUME Inv, NEW dead, OthersDie(dead) PROVE Inv'
<1>1. /\ FileType' /\ TmpType' /\ WriterType' /\ Held' /\ TmpOwn'
      /\ failures' \in 0..MaxFailures /\ newest' \in Readable /\ older' \in BOOLEAN
      /\ \A t \in Task : pc'[t] = "filled" => pc[t] = "filled"
      /\ AttachedFills'
  BY DieKeeps DEF OthersDie
<1>2. QueueType' /\ BackupType' /\ RestType'
  BY <1>1, TypeParts DEF Inv, OthersDie, QueueType, BackupType, RestType
<1>3. HeadWrites'
  BY <1>1 DEF OthersDie, Inv, HeadWrites
<1> QED
  BY <1>1, <1>2, <1>3, TypePartsNext DEF Inv

LEMMA StartInv == ASSUME Inv, Start PROVE Inv'
<1>1. FileType' /\ WriterType' /\ QueueType' /\ BackupType' /\ RestType'
  BY TypeParts DEF Start, Inv, FileType, WriterType, QueueType, BackupType, RestType,
     writerVars, backupVars
<1>3. Held' /\ HeadWrites' /\ AttachedFills'
  BY DEF Start, Inv, Held, HeadWrites, AttachedFills, writerVars
<1>2. TmpType' /\ TmpOwn'
  BY DEF Start, TmpType, TmpOwn
<1> QED
  BY <1>1, <1>2, <1>3, TypePartsNext DEF Inv

-----------------------------------------------------------------------------
LEMMA NextInv == Inv /\ [Next]_vars => Inv'
<1> SUFFICES ASSUME Inv, [Next]_vars PROVE Inv'
  OBVIOUS
<1>1. ASSUME NEW t \in Task, Read(t) \/ TaskStep(t) PROVE Inv'
  BY <1>1, Writers, ReadInv, RestoreInv, UnchangedInv, EnqueueInv, WriteStepInv DEF TaskStep
<1>2. ASSUME NEW w \in Switch, ReadForSwitch(w) \/ WriteStep(w) PROVE Inv'
  BY <1>2, Writers, OtherReadInv, WriteStepInv
<1>3. ASSUME NEW w \in Atomic, WriteFails(w) PROVE Inv'
  BY <1>3, WriteFailsInv
<1>4. ASSUME NEW w \in Setting \cup Edit, ReadInPlace(w) PROVE Inv'
  BY <1>4, Writers, OtherReadInv
<1>5. ASSUME NEW w \in Setup, ReadForSetup(w) PROVE Inv'
  BY <1>5, Writers, OtherReadInv
<1>6. ASSUME NEW w \in InPlace, Truncate(w) \/ Fill(w) \/ FillFails(w) PROVE Inv'
  BY <1>6, InPlaceInv
<1>7. CASE StartBackup \/ FinishBackup \/ BackupFails
  BY <1>7, BackupInv
<1>8. CASE AgentDies({}) \/ AgentDies(Edit \cup Server)
  BY <1>8, AgentDiesInv
<1>9. CASE OthersDie(Edit) \/ OthersDie(Server)
  BY <1>9, OthersDieInv
<1>10. CASE Start
  BY <1>10, StartInv
<1>11. CASE UNCHANGED vars
  BY <1>11, TypeParts, TypePartsNext DEF Inv, vars, diskVars, writerVars, backupVars, FileType, TmpType,
     WriterType, QueueType, BackupType, RestType, Held, TmpOwn, HeadWrites, AttachedFills
<1> QED
  BY <1>1, <1>2, <1>3, <1>4, <1>5, <1>6, <1>7, <1>8, <1>9, <1>10, <1>11 DEF Next

THEOREM InvHolds == Spec => []Inv
<1>1. Init => Inv
  BY InitInv
<1>2. Inv /\ [Next]_vars => Inv'
  BY NextInv
<1> QED
  BY <1>1, <1>2, PTL DEF Spec

\* Type correctness of the writers of configuration.json, for any number of
\* tasks, requests, backups, failures and deaths.
THEOREM TypeCorrect == Spec => []TypeOK
<1>1. Inv => TypeOK
  BY DEF Inv
<1> QED
  BY <1>1, InvHolds, PTL

\* A rename puts the object of the writer that renames: no temporary file is
\* shared, and those deleted by the start of the agent are missed.
THEOREM RenamesOwn == Spec => RenamedIsOwn
<1>1. Inv => \A w \in Atomic : Rename(w) => file' = Json(data[w])
  BY RenamePuts
<1>2. Inv /\ [Next]_vars => [\A w \in Atomic : Rename(w) => file' = Json(data[w])]_vars
  BY <1>1
<1> QED
  BY <1>2, InvHolds, PTL DEF Spec, RenamedIsOwn

\* Only a writer in place that truncates the file, fills it or stops half way
\* makes a file that could be read one that cannot.
THEOREM AtomicWritersKeepWhole == Spec => OnlyInPlaceDamages
<1> DEFINE Damager(w) == Truncate(w) \/ (pc[w] = "truncated" /\ pc'[w] = "idle")
           A == Whole(file) /\ ~Whole(file') => \E w \in InPlace : Damager(w)
<1>1. Inv /\ [Next]_vars => [A]_vars
  <2> SUFFICES ASSUME Inv, [Next]_vars, Whole(file), ~Whole(file'),
                      \A w \in InPlace : ~Damager(w)
               PROVE  FALSE
    OBVIOUS
  <2>1. file' # file
    OBVIOUS
  <2>2. \A w \in Atomic : ~Rename(w)
    BY RenamePuts DEF Whole, Json, Object
  <2>3. ASSUME NEW t \in Task, Read(t) \/ Restore(t) \/ Unchanged(t) \/ Enqueue(t) PROVE FALSE
    BY <2>1, <2>3 DEF Read, Restore, Unchanged, Enqueue, diskVars
  <2>4. ASSUME NEW w \in Atomic, WriteStep(w) \/ WriteFails(w) PROVE FALSE
    BY <2>1, <2>2, <2>4 DEF WriteStep, FillTmp, RenameFails, WriteFails, diskVars
  <2>5. ASSUME NEW w \in Writer, ReadInPlace(w) \/ ReadForSetup(w) \/ ReadForSwitch(w) PROVE FALSE
    BY <2>1, <2>5 DEF ReadInPlace, ReadForSetup, ReadForSwitch, diskVars
  <2>6. ~(StartBackup \/ FinishBackup \/ BackupFails)
    BY <2>1 DEF StartBackup, FinishBackup, BackupFails, diskVars
  <2>7. ASSUME NEW dead, Die(dead) PROVE FALSE
    <3>1. PICK w \in attached : w \in dead
      BY <2>1, <2>7 DEF Die, StopHalfway
    <3>2. w \in InPlace /\ pc[w] = "truncated"
      BY <3>1, TypeParts DEF Inv, FileType, AttachedFills
    <3>3. pc'[w] = "idle"
      BY <2>7, <3>1, <3>2, Writers DEF Die
    <3> QED
      BY <3>2, <3>3
  <2>8. ~Start /\ ~UNCHANGED vars
    BY <2>1 DEF Start, vars, diskVars
  <2>9. ASSUME NEW w \in InPlace, Fill(w) \/ FillFails(w) PROVE FALSE
    <3>1. pc \in [Writer -> Stages] /\ Step(w, "truncated", "idle")
      BY <2>9, TypeParts DEF Inv, WriterType, Fill, FillFails
    <3>2. pc[w] = "truncated" /\ pc'[w] = "idle"
      BY <3>1, Writers DEF Step
    <3> QED
      BY <3>2
  <2>10. \A dead : ~AgentDies(dead) /\ ~OthersDie(dead)
    BY <2>7 DEF AgentDies, OthersDie
  <2>11. \A w \in InPlace : ~Truncate(w)
    OBVIOUS
  <2> HIDE DEF Damager
  <2> QED
    BY <2>3, <2>4, <2>5, <2>6, <2>8, <2>9, <2>10, <2>11, Writers DEF Next, TaskStep
<1> QED
  BY <1>1, InvHolds, PTL DEF Spec, OnlyInPlaceDamages
=============================================================================
