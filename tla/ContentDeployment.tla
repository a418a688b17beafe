------------------------- MODULE ContentDeployment -------------------------
(***************************************************************************)
(* The deployment of one video to the Pi sites it targets: the row of      *)
(* content_deployments, startDeployment and                                *)
(* processPendingDeploymentsForSite of deployment.service.ts,              *)
(* handleDeployProgress of deploy-progress.handler.ts, the check of stuck  *)
(* deployments, and on each Pi the deploy_video handler with its map       *)
(* activeDeployments.                                                      *)
(*                                                                         *)
(* A command deploy_video occupies a slot of its site from the moment it   *)
(* is sent or queued until it ends or is lost.  The command channel is     *)
(* used for what CommandChannel shows of it: a command sent to a connected *)
(* site is on the wire until the site receives it or the connection ends,  *)
(* a queued one is sent later or withdrawn.  A command of                  *)
(* dispatchVariantUpdateToSites carries the video and no deployment id.    *)
(*                                                                         *)
(* Progress messages are a set per site and the updates they cause a set:  *)
(* the handler awaits a pooled query per message, so that updates commit   *)
(* in any order, and equal ones are one.                                   *)
(***************************************************************************)
EXTENDS Naturals, FiniteSets

CONSTANTS
    Site,         \* the sites of the target
    IsGroup,      \* target_type is 'group'
    Slot,         \* bound: commands for the video that one site holds at once
    NoSlot,       \* not a slot
    Run,          \* bound: runs of processPendingDeploymentsForSite at once
    MaxVariants,  \* bound: variant updates of the video
    MaxFailures   \* bound: failed queries

ASSUME DeploymentAssumption ==
    /\ Site # {}
    /\ IsGroup \in BOOLEAN
    /\ NoSlot \notin Slot
    /\ MaxVariants \in Nat
    /\ MaxFailures \in Nat

VARIABLES
    status,     \* content_deployments.status
    full,       \* content_deployments.progress is 100
    start,      \* progress of startDeployment
    targets,    \* the sites its loop has not reached
    delivered,  \* its successCount is positive
    run,        \* progress of each run of processPendingDeploymentsForSite
    runSite,    \* ... and its site
    connected,  \* the sites with an authenticated connection
    job,        \* phase of the command in each slot of each site
    unnamed,    \* the commands without a deployment id
    waitsFor,   \* the command whose promise a waiting one awaits
    active,     \* the entry of activeDeployments for the video, on each site
    messages,   \* deploy_progress messages on their way from each site
    writes,     \* updates of the row in flight
    fetched,    \* history: sites that reported or finished the download
    variants,   \* variant updates so far
    failures    \* failed queries so far

rowVars == <<status, full>>
startVars == <<start, targets, delivered>>
runVars == <<run, runSite>>
jobVars == <<job, unnamed, waitsFor, active>>
boundVars == <<variants, failures>>
vars == <<rowVars, startVars, runVars, connected, jobVars, messages, writes, fetched, boundVars>>

\* "ending": the rest of a download whose rounded progress is 100, the checksum
\* and the configuration; "broken": a download whose response ended early.
Running == {"started", "ending", "broken"}
Phase == {"free", "queued", "sent", "waiting"} \cup Running

\* "full": a progress of 100, with the flag completed or without.
Message == [kind : {"partial", "full", "error"}, named : BOOLEAN]
Write == {"partial", "full", "completed", "failed"}

TypeOK ==
    /\ status \in {"pending", "in_progress", "completed", "failed"}
    /\ full \in BOOLEAN
    /\ start \in {"select", "loop", "fail", "done"}
    /\ targets \subseteq Site
    /\ delivered \in BOOLEAN
    /\ run \in [Run -> {"idle", "select", "send", "update"}]
    /\ runSite \in [Run -> Site]
    /\ connected \subseteq Site
    /\ job \in [Site \X Slot -> Phase]
    /\ unnamed \subseteq Site \X Slot
    /\ waitsFor \in [Site \X Slot -> Slot \cup {NoSlot}]
    /\ active \in [Site -> Slot \cup {NoSlot}]
    /\ messages \in [Site -> SUBSET Message]
    /\ writes \subseteq Write
    /\ fetched \subseteq Site
    /\ variants \in 0..MaxVariants
    /\ failures \in 0..MaxFailures

\* The row has just been created and startDeployment called.
Init ==
    /\ status = "pending"
    /\ full = FALSE
    /\ start = "select"
    /\ targets = {}
    /\ delivered = FALSE
    /\ run = [r \in Run |-> "idle"]
    /\ runSite \in [Run -> Site]
    /\ connected \in SUBSET Site
    /\ job = [x \in Site \X Slot |-> "free"]
    /\ unnamed = {}
    /\ waitsFor = [x \in Site \X Slot |-> NoSlot]
    /\ active = [s \in Site |-> NoSlot]
    /\ messages = [s \in Site |-> {}]
    /\ writes = {}
    /\ fetched = {}
    /\ variants = 0
    /\ failures = 0

-----------------------------------------------------------------------------
(* The command channel *)

\* The end of a connection: what was on the wire is lost.
Lose(s, jobs) == [x \in Site \X Slot |->
    IF x[1] = s /\ jobs[x] = "sent" THEN "free" ELSE jobs[x]]

\* A slot that becomes free forgets its command.
KeepUnnamed(X) == unnamed' = {x \in X : job'[x] # "free"}

DropConnection(s) ==
    /\ connected' = connected \ {s}
    /\ messages' = [messages EXCEPT ![s] = {}]

\* sendOrQueue of a deploy_video command: sent to a connected site, queued for
\* another one or for one whose connection proves dead.
SendOrQueue(s, named) ==
    \E j \in Slot :
        /\ job[s, j] = "free"
        /\ \/ /\ s \in connected
              /\ job' = [job EXCEPT ![<<s, j>>] = "sent"]
              /\ UNCHANGED <<connected, messages>>
           \/ /\ job' = [Lose(s, job) EXCEPT ![<<s, j>>] = "queued"]
              /\ DropConnection(s)
        /\ KeepUnnamed(IF named THEN unnamed ELSE unnamed \cup {<<s, j>>})
        /\ UNCHANGED <<waitsFor, active>>

\* processPendingCommands sends a queued row.
SendQueued(s, j) ==
    /\ s \in connected
    /\ job[s, j] = "queued"
    /\ job' = [job EXCEPT ![<<s, j>>] = "sent"]
    /\ UNCHANGED <<rowVars, startVars, runVars, connected, unnamed, waitsFor, active,
                   messages, writes, fetched, boundVars>>

\* A queued row expires, is withdrawn, or has used up its attempts.
DropQueued(s, j) ==
    /\ job[s, j] = "queued"
    /\ job' = [job EXCEPT ![<<s, j>>] = "free"]
    /\ KeepUnnamed(unnamed)
    /\ UNCHANGED <<rowVars, startVars, runVars, connected, waitsFor, active,
                   messages, writes, fetched, boundVars>>

Disconnect(s) ==
    /\ s \in connected
    /\ DropConnection(s)
    /\ job' = Lose(s, job)
    /\ KeepUnnamed(unnamed)
    /\ UNCHANGED <<rowVars, startVars, runVars, waitsFor, active, writes, fetched, boundVars>>

\* An authentication starts a run for the pending deployments of the site.
Reconnect(s, r) ==
    /\ s \notin connected
    /\ run[r] = "idle"
    /\ connected' = connected \cup {s}
    /\ run' = [run EXCEPT ![r] = "select"]
    /\ runSite' = [runSite EXCEPT ![r] = s]
    /\ UNCHANGED <<rowVars, startVars, jobVars, messages, writes, fetched, boundVars>>

-----------------------------------------------------------------------------
(* startDeployment and dispatchViaRegistry *)

StartSelect ==
    /\ start = "select"
    /\ \/ start' = "loop" /\ targets' = Site
       \/ start' = "fail" /\ UNCHANGED targets    \* upload not ready, no target
    /\ UNCHANGED <<rowVars, delivered, runVars, connected, jobVars, messages, writes, fetched, boundVars>>

StartSend(s) ==
    /\ start = "loop"
    /\ s \in targets
    /\ SendOrQueue(s, TRUE)
    /\ targets' = targets \ {s}
    /\ delivered' = TRUE
    /\ UNCHANGED <<rowVars, start, runVars, writes, fetched, boundVars>>

\* A strategy that throws is caught in the loop.
StartSendFails(s) ==
    /\ start = "loop"
    /\ s \in targets
    /\ failures < MaxFailures
    /\ failures' = failures + 1
    /\ targets' = targets \ {s}
    /\ UNCHANGED <<rowVars, start, delivered, runVars, connected, jobVars, messages, writes, fetched, variants>>

\* The update to 'in_progress' has no condition; without any delivery only the
\* message of a row still pending is written.
StartEnds ==
    /\ start = "loop"
    /\ targets = {}
    /\ start' = "done"
    /\ status' = IF delivered THEN "in_progress" ELSE status
    /\ delivered' = FALSE
    /\ UNCHANGED <<full, targets, runVars, connected, jobVars, messages, writes, fetched, boundVars>>

\* A query fails: the error is caught and failDeployment follows.
StartQueryFails ==
    /\ start = "select" \/ (start = "loop" /\ targets = {})
    /\ failures < MaxFailures
    /\ failures' = failures + 1
    /\ start' = "fail"
    /\ delivered' = FALSE
    /\ UNCHANGED <<rowVars, targets, runVars, connected, jobVars, messages, writes, fetched, variants>>

FailDeployment ==
    /\ start = "fail"
    /\ start' = "done"
    /\ status' = "failed"
    /\ UNCHANGED <<full, targets, delivered, runVars, connected, jobVars, messages, writes, fetched, boundVars>>

\* That query fails too: the rejection is logged by the caller.
FailDeploymentFails ==
    /\ start = "fail"
    /\ failures < MaxFailures
    /\ failures' = failures + 1
    /\ start' = "done"
    /\ UNCHANGED <<rowVars, targets, delivered, runVars, connected, jobVars, messages, writes, fetched, variants>>

-----------------------------------------------------------------------------
(* processPendingDeploymentsForSite *)

\* Mutant: deployments in progress are taken for delivered.
AwaitsOnlyPending == status = "pending"

AwaitsDelivery == status \in {"pending", "in_progress"}

RunSelect(r) ==
    /\ run[r] = "select"
    /\ run' = [run EXCEPT ![r] = IF AwaitsDelivery THEN "send" ELSE "idle"]
    /\ UNCHANGED <<rowVars, startVars, runSite, connected, jobVars, messages, writes, fetched, boundVars>>

RunSend(r) ==
    /\ run[r] = "send"
    /\ SendOrQueue(runSite[r], TRUE)
    /\ run' = [run EXCEPT ![r] = "update"]
    /\ UNCHANGED <<rowVars, startVars, runSite, writes, fetched, boundVars>>

RunUpdate(r) ==
    /\ run[r] = "update"
    /\ run' = [run EXCEPT ![r] = "idle"]
    /\ status' = IF status = "pending" THEN "in_progress" ELSE status
    /\ UNCHANGED <<full, startVars, runSite, connected, jobVars, messages, writes, fetched, boundVars>>

RunFails(r) ==
    /\ run[r] # "idle"
    /\ failures < MaxFailures
    /\ failures' = failures + 1
    /\ run' = [run EXCEPT ![r] = "idle"]
    /\ UNCHANGED <<rowVars, startVars, runSite, connected, jobVars, messages, writes, fetched, variants>>

\* dispatchVariantUpdateToSites: a variant of the video was created or replaced.
VariantUpdate(s) ==
    /\ variants < MaxVariants
    /\ variants' = variants + 1
    /\ SendOrQueue(s, FALSE)
    /\ UNCHANGED <<rowVars, startVars, runVars, writes, fetched, failures>>

-----------------------------------------------------------------------------
(* The Pi: handleCommand and the deploy_video handler *)

\* A message of the current connection; without one it is flushed before the
\* server listens, and lost.
Emit(s, M) == messages' = [messages EXCEPT ![s] = IF s \in connected THEN @ \cup M ELSE @]

Report(s, j, kind) == [kind |-> kind, named |-> <<s, j>> \notin unnamed]

\* execute() starts the download, or awaits the promise in the map.
ReceiveCommand(s, j) ==
    /\ job[s, j] = "sent"
    /\ IF active[s] = NoSlot
       THEN /\ job' = [job EXCEPT ![<<s, j>>] = "started"]
            /\ active' = [active EXCEPT ![s] = j]
            /\ UNCHANGED waitsFor
       ELSE /\ job' = [job EXCEPT ![<<s, j>>] = "waiting"]
            /\ waitsFor' = [waitsFor EXCEPT ![<<s, j>>] = active[s]]
            /\ UNCHANGED active
    /\ UNCHANGED <<rowVars, startVars, runVars, connected, unnamed, messages, writes, fetched, boundVars>>

\* A command without checksum fails before the map is looked at.  Only a variant
\* update may lack one, and a failure without deployment id is not reported.
RefuseUnchecked(s, j) ==
    /\ job[s, j] = "sent"
    /\ <<s, j>> \in unnamed
    /\ job' = [job EXCEPT ![<<s, j>>] = "free"]
    /\ KeepUnnamed(unnamed)
    /\ UNCHANGED <<rowVars, startVars, runVars, connected, waitsFor, active,
                   messages, writes, fetched, boundVars>>

ReportPartial(s, j) ==
    /\ job[s, j] = "started"
    /\ Emit(s, {Report(s, j, "partial")})
    /\ UNCHANGED <<rowVars, startVars, runVars, connected, jobVars, writes, fetched, boundVars>>

\* The progress is rounded: it is 100 from 99.5% on, before the last bytes.  None
\* is reported for a download of unknown size.
DownloadNearlyEnds(s, j) ==
    /\ job[s, j] = "started"
    /\ job' = [job EXCEPT ![<<s, j>>] = "ending"]
    /\ fetched' = fetched \cup {s}
    /\ Emit(s, {Report(s, j, "full")}) \/ UNCHANGED messages
    /\ UNCHANGED <<rowVars, startVars, runVars, connected, unnamed, waitsFor, active, writes, boundVars>>

\* The connection of the download is reset after the response has begun.  A pipe
\* passes on neither error nor early close, so that the writer never finishes.
DownloadBreaks(s, j) ==
    /\ job[s, j] \in {"started", "ending"}
    /\ job' = [job EXCEPT ![<<s, j>>] = "broken"]
    /\ UNCHANGED <<rowVars, startVars, runVars, connected, unnamed, waitsFor, active, messages,
                   writes, fetched, boundVars>>

WaitersFor(s, j) == {k \in Slot : job[s, k] = "waiting" /\ waitsFor[s, k] = j}

\* The checksum is right and the configuration written: the promise is resolved,
\* the entry of the map deleted, and every waiter reports the same result.
DeploySucceeds(s, j) ==
    LET ended == {j} \cup WaitersFor(s, j)
    IN /\ job[s, j] = "ending"
       /\ job' = [x \in Site \X Slot |-> IF x[1] = s /\ x[2] \in ended THEN "free" ELSE job[x]]
       /\ KeepUnnamed(unnamed)
       /\ waitsFor' = [x \in Site \X Slot |-> IF x[1] = s /\ x[2] \in ended THEN NoSlot ELSE waitsFor[x]]
       /\ active' = [active EXCEPT ![s] = NoSlot]
       /\ Emit(s, {Report(s, k, "full") : k \in ended})
       /\ UNCHANGED <<rowVars, startVars, runVars, connected, writes, fetched, boundVars>>

\* Mutant: a waiter goes on waiting for the promise that was rejected.
FailureLeavesWaiters(s, j) ==
    /\ job[s, j] \in {"started", "ending"}
    /\ job' = [job EXCEPT ![<<s, j>>] = "free"]
    /\ KeepUnnamed(unnamed)
    /\ active' = [active EXCEPT ![s] = NoSlot]
    /\ Emit(s, IF <<s, j>> \in unnamed THEN {} ELSE {Report(s, j, "error")})
    /\ UNCHANGED <<rowVars, startVars, runVars, connected, waitsFor, writes, fetched, boundVars>>

\* The download, the checksum or the configuration fails: the promise is
\* rejected, the entry of the map deleted, and every waiter starts afresh without
\* looking at the map again; the entry is the last one's.
DeployFails(s, j) ==
    LET waiters == WaitersFor(s, j)
    IN /\ job[s, j] \in {"started", "ending"}
       /\ job' = [x \in Site \X Slot |->
                    IF x = <<s, j>> THEN "free"
                    ELSE IF x[1] = s /\ x[2] \in waiters THEN "started" ELSE job[x]]
       /\ KeepUnnamed(unnamed)
       /\ waitsFor' = [x \in Site \X Slot |-> IF x[1] = s /\ x[2] \in waiters THEN NoSlot ELSE waitsFor[x]]
       /\ \E last \in IF waiters = {} THEN {NoSlot} ELSE waiters : active' = [active EXCEPT ![s] = last]
       /\ Emit(s, IF <<s, j>> \in unnamed THEN {} ELSE {Report(s, j, "error")})
       /\ UNCHANGED <<rowVars, startVars, runVars, connected, writes, fetched, boundVars>>

\* The agent's process restarts: its commands are forgotten, its connection ends.
AgentRestart(s) ==
    /\ job' = [x \in Site \X Slot |-> IF x[1] = s /\ job[x] # "queued" THEN "free" ELSE job[x]]
    /\ KeepUnnamed(unnamed)
    /\ waitsFor' = [x \in Site \X Slot |-> IF x[1] = s THEN NoSlot ELSE waitsFor[x]]
    /\ active' = [active EXCEPT ![s] = NoSlot]
    /\ DropConnection(s)
    /\ UNCHANGED <<rowVars, startVars, runVars, writes, fetched, boundVars>>

-----------------------------------------------------------------------------
(* handleDeployProgress *)

\* Mutant: the kind of a message is written as the status.
KindAsStatus(m) == IF m.kind = "full" THEN "completed" ELSE m.kind

\* A progress of 100 counts as the end; without a deployment id the rows of the
\* video are set in progress, whatever the message says.
Update(m) ==
    IF m.named
    THEN CASE m.kind = "partial" -> "partial"
           [] m.kind = "full" -> "completed"
           [] m.kind = "error" -> "failed"
    ELSE IF m.kind = "partial" THEN "partial" ELSE "full"

\* An intermediate progress may be throttled.
HandleDeployProgress(s, m) ==
    /\ m \in messages[s]
    /\ messages' = [messages EXCEPT ![s] = @ \ {m}]
    /\ \/ writes' = writes \cup {Update(m)}
       \/ m.kind = "partial" /\ m.named /\ UNCHANGED writes
    /\ UNCHANGED <<rowVars, startVars, runVars, connected, jobVars, fetched, boundVars>>

\* No update has a condition on the status.
CommitWrite(w) ==
    /\ w \in writes
    /\ writes' = writes \ {w}
    /\ status' = IF w \in {"completed", "failed"} THEN w ELSE "in_progress"
    /\ full' = IF w = "failed" THEN full ELSE w # "partial"
    /\ UNCHANGED <<startVars, runVars, connected, jobVars, messages, fetched, boundVars>>

\* The query fails: it is only logged.
LoseWrite(w) ==
    /\ w \in writes
    /\ failures < MaxFailures
    /\ failures' = failures + 1
    /\ writes' = writes \ {w}
    /\ UNCHANGED <<rowVars, startVars, runVars, connected, jobVars, messages, fetched, variants>>

\* Mutant: a deployment without news for long is taken for completed.
StuckLong == status = "in_progress"

StuckAtFull == status = "in_progress" /\ full

\* checkStuckDeployments, for a row that targets one site.
AutoComplete ==
    /\ ~IsGroup
    /\ StuckAtFull
    /\ status' = "completed"
    /\ UNCHANGED <<full, startVars, runVars, connected, jobVars, messages, writes, fetched, boundVars>>

\* The central server restarts: its runs, updates and connections are lost.
ServerRestart ==
    /\ start' = "done"
    /\ targets' = {}
    /\ delivered' = FALSE
    /\ run' = [r \in Run |-> "idle"]
    /\ connected' = {}
    /\ messages' = [s \in Site |-> {}]
    /\ writes' = {}
    /\ job' = [x \in Site \X Slot |-> IF job[x] = "sent" THEN "free" ELSE job[x]]
    /\ KeepUnnamed(unnamed)
    /\ UNCHANGED <<rowVars, runSite, waitsFor, active, fetched, boundVars>>

StartNext ==
    \/ StartSelect \/ StartEnds \/ StartQueryFails \/ FailDeployment \/ FailDeploymentFails
    \/ \E s \in Site : StartSend(s) \/ StartSendFails(s)

RunNext(r) == RunSelect(r) \/ RunSend(r) \/ RunUpdate(r) \/ RunFails(r)

JobNext(s, j) ==
    \/ SendQueued(s, j) \/ ReceiveCommand(s, j) \/ RefuseUnchecked(s, j)
    \/ DownloadNearlyEnds(s, j) \/ DeploySucceeds(s, j) \/ DeployFails(s, j)

Next ==
    \/ StartNext
    \/ \E r \in Run : RunNext(r)
    \/ \E s \in Site, r \in Run : Reconnect(s, r)
    \/ \E s \in Site : Disconnect(s) \/ AgentRestart(s) \/ VariantUpdate(s)
    \/ \E s \in Site, j \in Slot : JobNext(s, j) \/ DropQueued(s, j) \/ ReportPartial(s, j) \/ DownloadBreaks(s, j)
    \/ \E s \in Site : \E m \in messages[s] : HandleDeployProgress(s, m)
    \/ \E w \in writes : CommitWrite(w) \/ LoseWrite(w)
    \/ AutoComplete
    \/ ServerRestart

Spec == Init /\ [][Next]_vars

\* Queries are answered, commands and messages on a connection arrive, and a
\* download that is not broken ends in one way or the other.
Fairness ==
    /\ WF_vars(StartNext)
    /\ \A r \in Run : WF_vars(RunNext(r))
    /\ \A s \in Site, j \in Slot : WF_vars(JobNext(s, j))
    /\ \A s \in Site, m \in Message : WF_vars(HandleDeployProgress(s, m))
    /\ \A w \in Write : WF_vars(CommitWrite(w))

FairSpec == Spec /\ Fairness

-----------------------------------------------------------------------------
(* Properties *)

\* A deployment is completed only after a Pi of its target has the bytes of the
\* video, or all but the last half percent: no lost, late or doubled message, no
\* restart and no message of another command completes it earlier.
CompletedMeansFetched == status = "completed" => fetched # {}

\* A command that waits for an earlier one of the same video waits for one that
\* runs, whatever commands were rejected and started afresh before: none is
\* left waiting for a promise that is settled.
WaitersAttended ==
    \A s \in Site, j \in Slot :
        job[s, j] = "waiting" => waitsFor[s, j] \in Slot /\ job[s, waitsFor[s, j]] \in Running

\* When the sites stay connected from some moment on, and no download is broken,
\* the deployment reaches a final status, although commands, messages, runs and
\* processes were lost before, unless a query failed.
NoneBroken == \A x \in Site \X Slot : job[x] # "broken"

DeploymentReported ==
    <>[](connected = Site /\ NoneBroken) => <>(status \in {"completed", "failed"} \/ failures > 0)
=============================================================================
