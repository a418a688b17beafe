-------------------------- MODULE UpdateDeployment --------------------------
(***************************************************************************)
(* A deployment of a release to one site, on top of PiUpdate:              *)
(* startDeployment, retryDeployment and processPendingDeploymentsForSite   *)
(* of update-deployment.service.ts, handleUpdateProgress and the result of *)
(* the command, and the heartbeat, which stores the version of the Pi and  *)
(* looks for a rollback that was not reported.                             *)
(*                                                                         *)
(* Commands are only counted, up to MaxCommands: those on their way and    *)
(* those queued for the site.  CommandChannel has the channel itself.      *)
(***************************************************************************)
EXTENDS Naturals, PiUpdate

CONSTANTS
    Target,     \* the release deployed
    MaxCommands,\* bound: commands queued, commands on their way
    MaxTries    \* bound: uses of retryDeployment, failed queries and restarts

ASSUME DeploymentAssumption ==
    /\ Target \in Offered \ {Installed}
    /\ {MaxCommands, MaxTries} \subseteq Nat

VARIABLES
    status,      \* update_deployments.status
    starter,     \* progress of startDeployment
    pender,      \* progress of processPendingOnReconnect
    connected,   \* the agent has a connection
    queued,      \* update_software commands in pending_commands
    wire,        \* those on their way to the agent
    recent,      \* one is pending or executing, and less than 120 s old
    reports,     \* update_progress and command_result on their way
    heartbeat,   \* the version in a heartbeat on its way, if there is one
    siteVersion, \* sites.software_version
    fresh,       \* it is completed, since less than an hour
    retries,     \* uses of retryDeployment
    failures     \* failed queries and restarts of the server

rowVars == <<status, fresh>>
runnerVars == <<starter, pender>>
commandVars == <<queued, wire, recent>>
linkVars == <<connected, reports, heartbeat>>
limitVars == <<retries, failures>>
serverVars == <<rowVars, runnerVars, commandVars, linkVars, siteVersion, limitVars>>
vars == <<piVars, serverVars>>

Kind == {"partial", "completed", "error"}

TypeOK ==
    /\ PiTypeOK
    /\ status \in {"pending", "in_progress", "completed", "failed"}
    /\ starter \in {"idle", "send", "update"}
    /\ pender \in {"idle", "drain", "select", "reconcile", "send", "update"}
    /\ connected \in BOOLEAN
    /\ {queued, wire} \subseteq 0..MaxCommands
    /\ recent \in BOOLEAN
    /\ reports \subseteq Kind
    /\ heartbeat \in Version \cup {NoVersion}
    /\ siteVersion \in Version
    /\ fresh \in BOOLEAN
    /\ {retries, failures} \subseteq 0..MaxTries

Init ==
    /\ PiInit
    /\ status = "pending"
    /\ starter = "send"
    /\ pender = "idle"
    /\ connected \in BOOLEAN
    /\ queued = 0
    /\ wire = 0
    /\ recent = FALSE
    /\ reports = {}
    /\ heartbeat = NoVersion
    /\ siteVersion = Installed
    /\ fresh = FALSE
    /\ retries = 0
    /\ failures = 0

-----------------------------------------------------------------------------
(* Sending: deployToSite *)

\* Mutant: the count is not bounded.
OneMoreAlways(n) == n + 1

OneMore(n) == IF n < MaxCommands THEN n + 1 ELSE n

SendOrQueue ==
    IF connected
    THEN wire' = OneMore(wire) /\ recent' = TRUE /\ UNCHANGED queued
    ELSE queued' = OneMore(queued) /\ UNCHANGED <<wire, recent>>

Became(result) == status' = result /\ fresh' = (result = "completed")

StartSend ==
    /\ starter = "send"
    /\ SendOrQueue
    /\ starter' = "update"
    /\ UNCHANGED <<piVars, rowVars, pender, linkVars, siteVersion, limitVars>>

\* The update has no condition: it may come after the result.
StartUpdate ==
    /\ starter = "update"
    /\ starter' = "idle"
    /\ Became("in_progress")
    /\ UNCHANGED <<piVars, pender, commandVars, linkVars, siteVersion, limitVars>>

StartFails ==
    /\ starter' = "idle"
    /\ Became("failed")
    /\ UNCHANGED <<piVars, pender, commandVars, linkVars, siteVersion, retries>>

\* No verified upload, no package or no target site.
StartRefused ==
    /\ starter = "send"
    /\ StartFails
    /\ UNCHANGED failures

\* A query of startDeployment fails: it is caught and the row set to failed.
StartQueryFails ==
    /\ starter # "idle"
    /\ retries + failures < MaxTries
    /\ failures' = failures + 1
    /\ StartFails

Retry ==
    /\ status = "failed"
    /\ starter = "idle"
    /\ retries + failures < MaxTries
    /\ retries' = retries + 1
    /\ status' = "pending"
    /\ starter' = "send"
    /\ UNCHANGED <<piVars, fresh, pender, commandVars, linkVars, siteVersion, failures>>

-----------------------------------------------------------------------------
(* A connection: processPendingOnReconnect *)

\* The run of an earlier connection has ended: bound on overlapping runs.
Connect ==
    /\ alive
    /\ ~connected
    /\ pender = "idle"
    /\ connected' = TRUE
    /\ pender' = "drain"
    /\ UNCHANGED <<piVars, rowVars, starter, commandVars, reports, heartbeat, siteVersion, limitVars>>

\* What was on its way to the agent is lost.  handleDisconnection fails the
\* tracked commands.
DropConnection ==
    /\ connected' = FALSE
    /\ wire' = 0
    /\ recent' = FALSE
    /\ UNCHANGED <<reports, heartbeat>>

Disconnect ==
    /\ connected
    /\ DropConnection
    /\ UNCHANGED <<piVars, rowVars, runnerVars, queued, siteVersion, limitVars>>

\* Of what the agent sent on a connection that is gone, the server may be handling
\* some already; the rest is lost.
Lost ==
    /\ ~connected
    /\ \/ (\E k \in reports : reports' = reports \ {k}) /\ UNCHANGED heartbeat
       \/ heartbeat # NoVersion /\ heartbeat' = NoVersion /\ UNCHANGED reports
    /\ UNCHANGED <<piVars, rowVars, runnerVars, commandVars, connected, siteVersion, limitVars>>

\* processPendingCommands, one row after the other.
Drain ==
    /\ pender = "drain"
    /\ IF connected /\ queued > 0
       THEN queued' = queued - 1 /\ wire' = OneMore(wire) /\ recent' = TRUE /\ UNCHANGED pender
       ELSE pender' = "select" /\ UNCHANGED commandVars
    /\ UNCHANGED <<piVars, rowVars, starter, linkVars, siteVersion, limitVars>>

\* Mutant: the version of the site is not looked at.
AlreadyInstalledMaybe == TRUE

AlreadyInstalled == siteVersion = Target

\* Mutant: only deployments that have not begun are sent again.
PendSelectPendingOnly ==
    /\ pender = "select"
    /\ pender' = CASE status # "pending" \/ recent -> "idle"
                   [] AlreadyInstalled -> "reconcile"
                   [] OTHER -> "send"
    /\ UNCHANGED <<piVars, rowVars, starter, commandVars, linkVars, siteVersion, limitVars>>

\* Nothing to do, a command in flight, or the Pi already runs the release.
PendSelect ==
    /\ pender = "select"
    /\ pender' = CASE status \notin {"pending", "in_progress"} \/ recent -> "idle"
                   [] AlreadyInstalled -> "reconcile"
                   [] OTHER -> "send"
    /\ UNCHANGED <<piVars, rowVars, starter, commandVars, linkVars, siteVersion, limitVars>>

Reconcile ==
    /\ pender = "reconcile"
    /\ pender' = "idle"
    /\ Became("completed")
    /\ UNCHANGED <<piVars, starter, commandVars, linkVars, siteVersion, limitVars>>

PendSend ==
    /\ pender = "send"
    /\ SendOrQueue
    /\ pender' = "update"
    /\ UNCHANGED <<piVars, rowVars, starter, linkVars, siteVersion, limitVars>>

PendUpdate ==
    /\ pender = "update"
    /\ pender' = "idle"
    /\ status' = IF status = "pending" THEN "in_progress" ELSE status
    /\ UNCHANGED <<piVars, fresh, starter, commandVars, linkVars, siteVersion, limitVars>>

\* A query fails: it is caught, and the deployments follow the queue all the same.
PendFails ==
    /\ pender # "idle"
    /\ retries + failures < MaxTries
    /\ failures' = failures + 1
    /\ pender' = IF pender = "drain" THEN "select" ELSE "idle"
    /\ UNCHANGED <<piVars, rowVars, starter, commandVars, linkVars, siteVersion, retries>>

\* The rows of the commands sent grow older than 120 s.
RecentExpires ==
    /\ recent
    /\ recent' = FALSE
    /\ UNCHANGED <<piVars, rowVars, runnerVars, queued, wire, linkVars, siteVersion, limitVars>>

\* The server restarts: its runs and connections end, and the commands it
\* tracked stay executing.
ServerRestarts ==
    /\ retries + failures < MaxTries
    /\ failures' = failures + 1
    /\ starter' = "idle"
    /\ pender' = "idle"
    /\ connected' = FALSE
    /\ wire' = 0
    /\ reports' = {}
    /\ heartbeat' = NoVersion
    /\ UNCHANGED <<piVars, rowVars, queued, recent, siteVersion, retries>>

-----------------------------------------------------------------------------
(* The Pi on its connection *)

Emit(k) == reports' = IF connected THEN reports \cup {k} ELSE reports

Unlinked == UNCHANGED <<rowVars, runnerVars, commandVars, linkVars, siteVersion, limitVars>>
Answered(k) == Emit(k) /\ UNCHANGED <<rowVars, runnerVars, commandVars, connected, heartbeat, siteVersion, limitVars>>

\* handleCommand and the lock: with a recent one, a success at once.  Without
\* one the update begins, beside others that still run.
ReceiveCommand ==
    /\ connected
    /\ wire > 0
    /\ wire' = wire - 1
    /\ \/ lock /\ Emit("completed") /\ UNCHANGED piVars
       \/ (\E r \in Slot : Accept(r, Target)) /\ UNCHANGED reports
    /\ UNCHANGED <<rowVars, runnerVars, queued, recent, connected, heartbeat, siteVersion, limitVars>>

ReportProgress ==
    /\ running # NoRuns
    /\ Answered("partial")
    /\ UNCHANGED piVars

Working(r) == (Claim(r) \/ Publishes(r)) /\ Unlinked

UpdateEnds(r) == Ends(r) /\ (Answered("completed") \/ Answered("error"))

Death ==
    /\ Dies
    /\ DropConnection
    /\ UNCHANGED <<rowVars, runnerVars, queued, siteVersion, limitVars>>

Unattended == (LockOld \/ Revive) /\ Unlinked

-----------------------------------------------------------------------------
(* handleUpdateProgress, handleCommandResult, handleHeartbeat *)

\* updateProgress, handleDeploymentResult: no update has a condition.
StatusOf(k) == CASE k = "partial" -> "in_progress"
                 [] k = "completed" -> "completed"
                 [] k = "error" -> "failed"

\* Handlers run side by side, so that reports take effect in any order.
HandleReport(k) ==
    /\ k \in reports
    /\ reports' = reports \ {k}
    /\ Became(StatusOf(k))
    /\ recent' \in IF k = "partial" THEN {recent} ELSE {recent, FALSE}
    /\ UNCHANGED <<piVars, runnerVars, queued, wire, connected, heartbeat, siteVersion, limitVars>>

SendHeartbeat ==
    /\ connected
    /\ heartbeat = NoVersion
    /\ heartbeat' = release
    /\ UNCHANGED <<piVars, rowVars, runnerVars, commandVars, connected, reports, siteVersion, limitVars>>

\* Mutant: the version is stored, no deployment is looked at.
RolledBackNever(v) == FALSE

\* A deployment completed within the hour, and another version on the Pi.
RolledBack(v) == fresh /\ v # Target

HandleHeartbeat ==
    /\ heartbeat # NoVersion
    /\ siteVersion' = heartbeat
    /\ IF RolledBack(heartbeat) THEN Became("failed") ELSE UNCHANGED rowVars
    /\ heartbeat' = NoVersion
    /\ UNCHANGED <<piVars, runnerVars, commandVars, connected, reports, limitVars>>

\* An hour without a heartbeat.
HourPasses ==
    /\ fresh
    /\ ~connected
    /\ heartbeat = NoVersion
    /\ fresh' = FALSE
    /\ UNCHANGED <<piVars, status, runnerVars, commandVars, linkVars, siteVersion, limitVars>>

StartStep == StartSend \/ StartUpdate \/ StartRefused
PendStep == Drain \/ PendSelect \/ Reconcile \/ PendSend \/ PendUpdate

Next ==
    \/ StartStep \/ StartQueryFails \/ Retry
    \/ PendStep \/ PendFails \/ RecentExpires \/ ServerRestarts
    \/ Connect \/ Disconnect \/ Lost
    \/ ReceiveCommand \/ ReportProgress \/ Death \/ Unattended
    \/ \E r \in Slot : Working(r) \/ UpdateEnds(r)
    \/ \E k \in Kind : HandleReport(k)
    \/ SendHeartbeat \/ HandleHeartbeat \/ HourPasses

Spec == Init /\ [][Next]_vars

Handling == StartStep \/ PendStep \/ ReceiveCommand \/ (\E k \in Kind : HandleReport(k))

\* One of these changes with every step of Handling.
handled == <<starter, pender, queued, wire, reports>>

\* Queries are answered and messages on a connection arrive, each execution on
\* the Pi ends, as PiUpdate promises, and heartbeats go on.
Fairness ==
    /\ WF_handled(Handling)
    /\ EachEnds
    /\ WF_heartbeat(SendHeartbeat \/ HandleHeartbeat)

FairSpec == Spec /\ Fairness

-----------------------------------------------------------------------------
(* Properties *)

\* A deployment is completed only if the Pi began to execute the command, in
\* whatever order results, restarts and reconnections come.
CompletedMeansBegun == status = "completed" => begun

\* When the site stays connected from some moment on, a deployment that stays
\* completed is one whose release the Pi reports, although answers of skipped
\* commands completed it earlier: heartbeats find those out, unless the Pi was
\* away for an hour in between.
CompletedIsReported ==
    <>[]connected => <>[](fresh => release = Target)

\* When the site stays connected from some moment on, the deployment reaches a
\* final status, whatever was lost or killed before; failed queries and restarts
\* of the server set aside.
DeploymentReported ==
    <>[]connected => <>(status \in {"completed", "failed"} \/ failures > 0)
=============================================================================
