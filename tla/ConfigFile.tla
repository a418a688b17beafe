----------------------------- MODULE ConfigFile -----------------------------
(***************************************************************************)
(* webapp/configuration.json of a Pi, which three processes write: the     *)
(* sync agent by atomicWriteJson and safeReadConfig of safe-config-io.js,  *)
(* with the backups of local-backup.js; the local server by the atomic     *)
(* write of a profile switch and the plain one of the first password; and  *)
(* the admin server, like update_settings of the agent, by a plain         *)
(* writeFile, which truncates the file and then fills it.                  *)
(*                                                                         *)
(* Of a content only this is kept: the JSON object it starts with, if that *)
(* is complete, and whether anything follows it.  An object is "full", or  *)
(* "bare" when it was built on {} without what the site had.  Each system  *)
(* call is a step; what a step wrote survives the power.                   *)
(***************************************************************************)
EXTENDS Naturals, Sequences

CONSTANTS
    Task,        \* handlers of the agent that read, change and rename
    Setting,     \* update_settings commands of the agent
    Edit,        \* requests of the admin server
    Switch,      \* profile switches of the local server
    Setup,       \* first passwords set at the local server
    MaxFailures  \* bound: file operations that fail, deaths of a process

Atomic == Task \cup Switch
InPlace == Setting \cup Edit \cup Setup
Writer == Atomic \cup InPlace

ASSUME FileAssumption ==
    /\ Atomic \cap InPlace = {}
    /\ Task \cap Switch = {}
    /\ MaxFailures \in Nat

VARIABLES
    file,      \* the content of the file
    tmp,       \* the temporary file of each writer
    attached,  \* writers in place that have truncated what the name still refers to
    pc,        \* progress of each writer
    data,      \* the object it holds
    queue,     \* writeQueues: the tasks that write, one at a time
    repairing, \* tasks whose write is the one of safeReadConfig
    agent,     \* the process of the agent runs
    newest,    \* the object of the newest backup; "none": it cannot be read, or there is none
    older,     \* one of the backups before it is "full"
    backup,    \* progress of createBackup
    copied,    \* what it has read
    failures

writerVars == <<pc, data, queue, repairing>>
diskVars == <<file, tmp, attached>>
backupVars == <<newest, older, backup, copied>>
vars == <<diskVars, writerVars, agent, backupVars, failures>>

Object == {"bare", "full"}
Readable == Object \cup {"none"}
Content == [object : Readable, rest : BOOLEAN]

Whole(c) == c.object # "none" /\ ~c.rest
Json(x) == [object |-> x, rest |-> FALSE]

TypeOK ==
    /\ file \in Content
    /\ tmp \in [Atomic -> Object \cup {"absent"}]
    /\ attached \subseteq InPlace
    /\ pc \in [Writer -> {"idle", "damaged", "ready", "queued", "filled", "truncated"}]
    /\ data \in [Writer -> Readable]
    /\ queue \in Seq(Task)
    /\ repairing \subseteq Task
    /\ agent \in BOOLEAN
    /\ newest \in Readable
    /\ older \in BOOLEAN
    /\ backup \in {"idle", "writing"}
    /\ copied \in Readable
    /\ failures \in 0..MaxFailures

Init ==
    /\ file = Json("full")
    /\ tmp = [w \in Atomic |-> "absent"]
    /\ attached = {}
    /\ pc = [w \in Writer |-> "idle"]
    /\ data = [w \in Writer |-> "none"]
    /\ queue = <<>>
    /\ repairing = {}
    /\ agent = TRUE
    /\ newest \in {"none", "full"}
    /\ older = FALSE
    /\ backup = "idle"
    /\ copied = "none"
    /\ failures = 0

Step(w, from, to) == pc[w] = from /\ pc' = [pc EXCEPT ![w] = to]
Hold(w, x) == data' = [data EXCEPT ![w] = x]

-----------------------------------------------------------------------------
(* safeReadConfig *)

\* Mutant: what was read is used as it is.
ReadUnchecked(t) ==
    /\ agent
    /\ Step(t, "idle", "ready")
    /\ Hold(t, file.object)
    /\ UNCHANGED <<diskVars, queue, repairing, agent, backupVars, failures>>

\* What follows the first complete object is cut off, and the rest written.
Read(t) ==
    /\ agent
    /\ IF Whole(file)
       THEN Step(t, "idle", "ready") /\ Hold(t, file.object) /\ UNCHANGED <<queue, repairing>>
       ELSE IF file.object # "none"
       THEN /\ Step(t, "idle", "queued")
            /\ Hold(t, file.object)
            /\ queue' = Append(queue, t)
            /\ repairing' = repairing \cup {t}
       ELSE Step(t, "idle", "damaged") /\ UNCHANGED <<data, queue, repairing>>
    /\ UNCHANGED <<diskVars, agent, backupVars, failures>>

\* Mutant: the newest backup is restored as it is, without being parsed.
RestoreUnparsed(t) ==
    /\ Step(t, "damaged", "queued")
    /\ newest # "none" \/ older
    /\ Hold(t, newest)
    /\ queue' = Append(queue, t)
    /\ repairing' = repairing \cup {t}
    /\ UNCHANGED <<diskVars, agent, backupVars, failures>>

\* Mutant: the restored configuration is returned and not written.
RestoreUnwritten(t) ==
    /\ newest \in Object
    /\ Step(t, "damaged", "ready")
    /\ Hold(t, newest)
    /\ UNCHANGED <<diskVars, queue, repairing, agent, backupVars, failures>>

\* The newest backup, if it can be read and has categories; {} otherwise.
Restore(t) ==
    /\ \/ /\ newest \in Object
          /\ Step(t, "damaged", "queued")
          /\ Hold(t, newest)
          /\ queue' = Append(queue, t)
          /\ repairing' = repairing \cup {t}
       \/ /\ newest # "full"
          /\ Step(t, "damaged", "ready")
          /\ Hold(t, "bare")
          /\ UNCHANGED <<queue, repairing>>
    /\ UNCHANGED <<diskVars, agent, backupVars, failures>>

-----------------------------------------------------------------------------
(* atomicWriteJson *)

\* A handler that changes nothing does not write.
Unchanged(t) ==
    /\ Step(t, "ready", "idle")
    /\ Hold(t, "none")
    /\ UNCHANGED <<diskVars, queue, repairing, agent, backupVars, failures>>

Enqueue(t) ==
    /\ Step(t, "ready", "queued")
    /\ queue' = Append(queue, t)
    /\ UNCHANGED <<diskVars, data, repairing, agent, backupVars, failures>>

\* Mutant: one name for all writers.
TmpPathFixed(w) == CHOOSE x \in Atomic : TRUE

\* buildTmpPath: a name of its own.
TmpPath(w) == w

\* The tasks of the agent write one after the other, in the order of the queue.
\* The file is truncated and filled at once: nobody else opens it.
FillTmp(w) ==
    /\ IF w \in Task
       THEN queue # <<>> /\ Head(queue) = w /\ Step(w, "queued", "filled")
       ELSE Step(w, "ready", "filled")
    /\ tmp' = [tmp EXCEPT ![TmpPath(w)] = data[w]]
    /\ UNCHANGED <<file, attached, data, queue, repairing, agent, backupVars, failures>>

\* runExclusive: whatever became of the write, the next one follows.
Leave(w) ==
    /\ queue' = IF w \in Task THEN Tail(queue) ELSE queue
    /\ repairing' = repairing \ {w}

\* The name refers to another file from now on: what writers in place still
\* have open is gone, and they are not told.  After a repair, the handler goes on.
Rename(w) ==
    /\ tmp[TmpPath(w)] # "absent"
    /\ Step(w, "filled", IF w \in repairing THEN "ready" ELSE "idle")
    /\ file' = Json(tmp[TmpPath(w)])
    /\ tmp' = [tmp EXCEPT ![TmpPath(w)] = "absent"]
    /\ attached' = {}
    /\ Hold(w, IF w \in repairing THEN data[w] ELSE "none")
    /\ Leave(w)
    /\ UNCHANGED <<agent, backupVars, failures>>

\* The agent that starts has deleted the temporary file.
RenameFails(w) ==
    /\ tmp[TmpPath(w)] = "absent"
    /\ Step(w, "filled", "idle")
    /\ Hold(w, "none")
    /\ Leave(w)
    /\ UNCHANGED <<diskVars, agent, backupVars, failures>>

\* The card is full or broken: the temporary file is removed, the handler fails.
WriteFails(w) ==
    /\ failures < MaxFailures
    /\ failures' = failures + 1
    /\ Step(w, "filled", "idle")
    /\ tmp' = [tmp EXCEPT ![TmpPath(w)] = "absent"]
    /\ Hold(w, "none")
    /\ Leave(w)
    /\ UNCHANGED <<file, attached, agent, backupVars>>

-----------------------------------------------------------------------------
(* The other writers *)

\* A file that cannot be parsed makes the request fail.
ReadInPlace(w) ==
    /\ w \in Setting => agent
    /\ Whole(file)
    /\ Step(w, "idle", "ready")
    /\ Hold(w, file.object)
    /\ UNCHANGED <<diskVars, queue, repairing, agent, backupVars, failures>>

Server == Switch \cup Setup

\* The local server handles one message at a time, without an await.
ServerFree == \A v \in Server : pc[v] = "idle"

\* Without a password in the file, or if it cannot be parsed.
ReadForSetup(w) ==
    /\ ServerFree
    /\ file # Json("full")
    /\ Step(w, "idle", "ready")
    /\ Hold(w, "bare")
    /\ UNCHANGED <<diskVars, queue, repairing, agent, backupVars, failures>>

\* The profile, with the settings of the site if the file can be parsed.
ReadForSwitch(w) ==
    /\ ServerFree
    /\ Step(w, "idle", "ready")
    /\ Hold(w, IF Whole(file) THEN file.object ELSE "bare")
    /\ UNCHANGED <<diskVars, queue, repairing, agent, backupVars, failures>>

Truncate(w) ==
    /\ Step(w, "ready", "truncated")
    /\ file' = Json("none")
    /\ attached' = attached \cup {w}
    /\ UNCHANGED <<tmp, data, queue, repairing, agent, backupVars, failures>>

\* A longer content that another writer put there shows behind.
Fill(w) ==
    /\ Step(w, "truncated", "idle")
    /\ file' \in IF w \notin attached THEN {file}
                 ELSE [object : {data[w]}, rest : IF file.object = "none" THEN {FALSE} ELSE BOOLEAN]
    /\ attached' = attached \ {w}
    /\ Hold(w, "none")
    /\ UNCHANGED <<tmp, queue, repairing, agent, backupVars, failures>>

\* Writers in place that stop half way may have written a part over what others
\* put there meanwhile.
StopHalfway(stopped) ==
    /\ file' \in IF attached \cap stopped = {} THEN {file} ELSE {file, Json("none")}
    /\ attached' = attached \ stopped

FillFails(w) ==
    /\ failures < MaxFailures
    /\ failures' = failures + 1
    /\ Step(w, "truncated", "idle")
    /\ StopHalfway({w})
    /\ Hold(w, "none")
    /\ UNCHANGED <<tmp, queue, repairing, agent, backupVars>>

-----------------------------------------------------------------------------
(* createBackup *)

\* At the start and every day.  What is read is not parsed, and the backup is
\* written in place, under a name that sorts after the others.
StartBackup ==
    /\ agent
    /\ backup = "idle"
    /\ backup' = "writing"
    /\ copied' = IF Whole(file) THEN file.object ELSE "none"
    /\ newest' = "none"
    /\ older' = (older \/ newest = "full")
    /\ UNCHANGED <<diskVars, writerVars, agent, failures>>

\* cleanOldBackups: those older than seven days go.
FinishBackup ==
    /\ backup = "writing"
    /\ backup' = "idle"
    /\ newest' = copied
    /\ older' \in {older, FALSE}
    /\ copied' = "none"
    /\ UNCHANGED <<diskVars, writerVars, agent, failures>>

BackupFails ==
    /\ failures < MaxFailures
    /\ failures' = failures + 1
    /\ backup = "writing"
    /\ backup' = "idle"
    /\ copied' = "none"
    /\ UNCHANGED <<diskVars, writerVars, agent, newest, older>>

-----------------------------------------------------------------------------
(* Deaths and starts *)

\* Processes of the Pi die, by themselves or with the power.
Die(dead) ==
    /\ failures < MaxFailures
    /\ failures' = failures + 1
    /\ pc' = [w \in Writer |-> IF w \in dead THEN "idle" ELSE pc[w]]
    /\ data' = [w \in Writer |-> IF w \in dead THEN "none" ELSE data[w]]
    /\ StopHalfway(dead)
    /\ UNCHANGED <<tmp, newest, older>>

AgentDies(dead) ==
    /\ Die(Task \cup Setting \cup dead)
    /\ agent' = FALSE
    /\ queue' = <<>>
    /\ repairing' = {}
    /\ backup' = "idle"
    /\ copied' = "none"

OthersDie(dead) ==
    /\ Die(dead)
    /\ UNCHANGED <<queue, repairing, agent, backup, copied>>

\* start(): the temporary files of all processes are deleted.
Start ==
    /\ ~agent
    /\ agent' = TRUE
    /\ tmp' = [w \in Atomic |-> "absent"]
    /\ UNCHANGED <<file, attached, writerVars, backupVars, failures>>

-----------------------------------------------------------------------------
WriteStep(w) == FillTmp(w) \/ Rename(w) \/ RenameFails(w)
TaskStep(t) == Restore(t) \/ Unchanged(t) \/ Enqueue(t) \/ WriteStep(t)
Next ==
    \/ \E t \in Task : Read(t) \/ TaskStep(t)
    \/ \E w \in Switch : ReadForSwitch(w) \/ WriteStep(w)
    \/ \E w \in Atomic : WriteFails(w)
    \/ \E w \in Setting \cup Edit : ReadInPlace(w)
    \/ \E w \in Setup : ReadForSetup(w)
    \/ \E w \in InPlace : Truncate(w) \/ Fill(w) \/ FillFails(w)
    \/ StartBackup \/ FinishBackup \/ BackupFails
    \/ AgentDies({}) \/ AgentDies(Edit \cup Server) \/ OthersDie(Edit) \/ OthersDie(Server)
    \/ Start

Spec == Init /\ [][Next]_vars

\* File operations end, handlers of the agent read the file again and again
\* (checkExpiredVideos every hour, syncLocalState), and systemd starts it.
Fairness ==
    /\ WF_vars(\E t \in Task : Read(t))
    /\ \A t \in Task : WF_vars(TaskStep(t))
    /\ WF_vars(Start)

FairSpec == Spec /\ Fairness

-----------------------------------------------------------------------------
(* Properties *)

\* A file that can be read becomes one that cannot only by a writer in place that
\* truncates it, fills it or stops half way, whoever renames, repairs, backs up,
\* dies or starts meanwhile.
OnlyInPlaceDamages ==
    [][Whole(file) /\ ~Whole(file') =>
          \E w \in InPlace : Truncate(w) \/ (pc[w] = "truncated" /\ pc'[w] = "idle")]_vars

\* A rename puts the object of the writer that renames, not what another
\* process has put in the temporary file.
RenamedIsOwn ==
    [][\A w \in Atomic : Rename(w) => file' = Json(data[w])]_vars

\* When nobody writes in place from some moment on and the newest backup stays
\* a good one, the file can be read from some moment on, whatever failed before.
Healed ==
    <>[](attached = {} /\ newest = "full") => <>[]Whole(file)

\* safeReadConfig goes on with an empty configuration only if there is no
\* backup of a whole one.
EmptyOnlyWithoutBackup ==
    [][\A t \in Task : pc[t] = "damaged" /\ pc'[t] = "ready" => newest # "full" /\ ~older]_vars
=============================================================================
