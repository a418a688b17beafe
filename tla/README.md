# Formal model of NeoPro

NeoPro shows videos and scores on the screens of sports clubs. Each club has a
Raspberry Pi (a *site*) that works offline; a central server commands the fleet
over Socket.IO and keeps its state in PostgreSQL. This directory holds TLA+
modules of the parts of that system whose correctness depends on concurrency,
failure and order, the TLC configurations that check them, and TLAPS proofs.

Run `tlc -config X.cfg MCModule.tla` for a check and `tlapm Module_proofs.tla`
for a proof. `PROJECT.json` lists the runs, the lines each definition models,
the findings and the hazards.

## 1. Inventory

The central server is one Node.js process: the code between two `await`s is
atomic, everything else interleaves. Queries go through a pool of connections,
so two queries of different callers commit in any order. The sync agent on the
Pi is another Node.js process, restarted by systemd; it shares files with the
local server, the admin server and the players.

| Component | State | Operations | What is hard | What makes it correct |
|---|---|---|---|---|
| Agent connections (`socket.service.ts`, `health-monitor.handler.ts`, `heartbeat.handler.ts`) | `connectedSites`, `lastPongReceived`, `sites.status`, `last_seen_at` | authenticate, disconnect, ping/pong sweep (15 s), DB sync (60 s), heartbeat, clean-up, restart | old and new socket of one site overlap; awaits inside the authentication; fire-and-forget writes | an entry names a live, verified socket; dead entries go; the database converges |
| Command channel (`command-queue.service.ts`, `command-dispatch.handler.ts`, drain task, the agent's `command-dispatch.js`) | `pending_commands`, `remote_commands`, `pendingCommands` map | sendOrQueue, processPendingCommands, sendCommand, handleCommandResult, checkCommandTimeouts | overlapping runs; failure between two queries; result against timeout and disconnect | nothing leaves the queue unsent; bounded attempts; a success stays, but for the late update of its own sender |
| Database circuit breaker (`db-circuit-breaker.service.ts`, `database.ts`, its callers, `agent.js`) | state, `consecutiveFailures`, `lastFailureAt`; the agent's `authRetries` | isAvailable, recordSuccess, recordFailure, retry_later, auth_error | outcomes recorded late and by callers that never asked; probes that record nothing | it opens at the threshold, closes after the outage, and agents get in again |
| Content deployment (`deployment.service.ts`, `deploy-progress.handler.ts`, `pi-socket.strategy.ts`, `alerting-checks.service.ts`, the agent's `deploy-video.js`) | `content_deployments` rows; the agent's map `activeDeployments` | start, dispatch, pending on reconnect, progress, auto-completion, variant updates; download, checksum, report | several commands of one video at once; unordered updates without a condition; messages lost with the connection; a download that hangs | completed means fetched; nobody waits for a settled download; a site that stays connected gets a final status |
| Software updates (`update-deployment.service.ts`, the heartbeat handler; `orchestrated-deployment`, `canary-deployment`, `canary-monitor`) | `update_deployments` rows, `sites.software_version`, canary phases | start, retry, dispatch on reconnection, progress and result, reconciliation with the reported version, detection of a rollback | the agent restarts itself while it updates, so its answer is lost; commands are sent again to a Pi that is still working; stale heartbeats | completed means begun; a connected site gets a final status; a completion that lasts is one the Pi reports |
| OTA installation (`update-software.js`, `ota-install.js`, `validate-post-update.js`, `version-info.js`, `sync-agent-guardian.sh`) | four directories, `release.json`, backups, the golden snapshot, the lock file | check, backup, install, publish, verify, validate, roll back; restart; the guardian's count and restoration | the process dies in the middle of a copy, by the restart it scheduled itself or by the power; only a lock younger than 10 minutes keeps two updates apart | a success means the whole archive; a rollback restores what was saved; the agent comes back; each update ends |
| Configuration sync (`config-sync.handler.ts`, `config-history.controller.ts`, the agent's `update-config.js`) | `pending_config_version_id`, rows of `remote_commands`, `pendingCommands`; the mirror and its 60 s lock | save a version, trigger on save, reconnection and report, send, apply, answer, clear | triggers overlap; results of older versions arrive late; a command sent without tracking | no late result clears a newer version; a connected site receives the pending one |
| Configuration file of the Pi (`safe-config-io.js`, `local-backup.js`, the local and the admin server) | `configuration.json`, temporary files, `writeQueues`, backups | safe read with repair, atomic write, in-place write, backup, sweep of temporary files | three processes, two of which also truncate the file; deaths between system calls | only a writer in place damages it; a rename puts its own content; it is healed |
| Network watchdogs (`network-watchdog.js`, `internet-watchdog.js`, `safe-network-operations.js`, `hotspot-watchdog.js`) | escalation level, saved network state | escalate, recover, roll back a change | two watchdogs on one interface | a failed change is rolled back |
| Offline queue (`offline-queue.js`) | queue and dead-letter files | enqueue, process, dead-letter | read-modify-write without a lock | no code of the running program enqueues; see section 7 |
| Licence, match state, receivers, SaaS relay | caches and per-site states | grace period, relays | staleness | planned last |
| Interfaces, render workers | - | presentation, CRUD, media | - | not modelled |

Interactions: an authentication changes the registry of connections and then
starts a run of the queue, the pending deployments and the pending
configuration, and on the Pi a report of the local configuration, which triggers
the pending one once more. `sendCommand` reads the registry and may evict an entry;
`handleDisconnection` changes the registry and fails the tracked commands. Every
component queries the database, and every query reports to the circuit breaker,
which in turn decides whether agents may authenticate. Commands and results
travel on the socket; deployments, updates and configuration use the command
channel. On the Pi, an update restarts the agent, and with it every other handler
it runs, and the server learns of its outcome from heartbeats when its answer is
lost.

## 2. Modules

    SessionRegistry   what the connection layer promises (abstract)
      ^ implemented by Connection     ^ extended by CommandChannel
    PiUpdate          what a Pi promises about updates (abstract)
      ^ implemented by OtaInstall     ^ extended by UpdateDeployment
    DbCircuitBreaker, ContentDeployment, ConfigSync, ConfigFile on their own

Every module `M` but the two abstract ones has an instance for TLC, `MCM`, and
proofs, `M_proofs`.

**SessionRegistry** is the interface between connections and commands:
`registered` (the site's entry), `alive` sockets, `identified` ones (they carry a
site id) and `ready` ones (handlers attached). `CommandChannel` extends it, so it
is checked against every behaviour the interface allows, which is more than the
real connection layer does; `Connection` is shown to implement it.

**Connection** models one site (every map is keyed by the site). `auth[s]` is the
program counter of `authenticateAgent` for socket `s`: `selecting` and `updating`
are its two awaits. `dbWrites` holds the status updates that are issued and not
committed; those of the fire-and-forget kind may be lost. Clocks appear only
through the ages the code compares: 45 s and 60 s for a pong, 90 s for
`last_seen_at`. The agent has one client, so it opens a new connection only once
the earlier one is lost on its side, which the server may not have noticed
(`link[s] = "gone"`). A heartbeat refreshes the pong of the site, whichever socket
is in the map. A socket identity is reused only when nothing refers to it.

**CommandChannel** follows a command through `sendOrQueue` (`req`), the queue
(`queued`, `attempts`), runs of `processPendingCommands` (`drain`, with its
snapshot `todo` and its remote row `current`), the wire (`inbox`, `results`, one
FIFO per socket), the agent (`fate`) and the status of its remote row (`remote`).
Commands are their rank in the order (priority, created_at). The foreign key of
`remote_commands.pending_command_id` makes the insert fail for a deleted row.
Refused sends include the two kinds of zombie: a closed socket, evicted, and an
old pong, which closes the socket and so runs the disconnect handler. The side
effects of `update_config` are in `ConfigSync`, those of `update_software` in
`OtaInstall`, those of `deploy_video` in `ContentDeployment`.

**DbCircuitBreaker** has three kinds of callers: those that never ask (`Ungated`),
ticks of several queries (`Background`: alerting, scheduler) and ticks that record
the outcome once more (`Counting`: realtime-stats, saas-heartbeat). A query that was
in flight during an outage is `risky`: it may fail even after the outage. The
database size check and an authentication without credentials take the probe and
record nothing (`UnrecordedProbe`). `agent`, `told` and `authRetries` follow one
agent: `retry_later`, `auth_error`, the exit at five failures, the restart by
systemd. `consecutiveFailures` is kept up to the threshold: nothing compares it
beyond. `Threshold` is 3 as in the code; `MAX_AUTH_RETRIES` is the parameter
`AuthLimit`, 2 in the runs instead of 5, so that an outage reaches it.

**ContentDeployment** follows the row of one deployment (`status`, `full` for a
progress of 100) through `startDeployment` (`start`), runs of
`processPendingDeploymentsForSite` (`run`), the updates of
`handleDeployProgress` (`writes`, in any order: each message has its own pooled
query) and the timer of `checkStuckDeployments`. On each Pi a command occupies a
slot and goes through the phases `queued`, `sent`, `started` or `waiting` (for the
promise of the command in `active`, the entry of `activeDeployments`), `ending`,
`free`. It uses of the command channel what `CommandChannel` shows: sent to a
connected site or queued, lost with the connection, sent later from the queue.
A download is `broken` when its response is reset after the headers:
`response.data.pipe(writer)` then neither finishes nor fails, so that its promise
is never settled. A variant command without checksum is refused before the map is
looked at (`RefuseUnchecked`). `fetched` is a history variable: the sites
that reported 100 or finished a download.

**PiUpdate** is the interface between the server and an updating Pi. `running`
holds the release that each execution of the handler installs, in slots: an update
is refused only while there is a recent `lock`, which is written after it was
looked for, grows old whatever the executions do, and is removed by whichever of
them ends first. So they may run side by side. The reported `release` changes only
while one runs, and each of them ends (`EachEnds`).

**OtaInstall** is the handler of `update_software`, with a `run` for each update
(its `phase`, and `at`, the directory it copies), the lock file, the backups, the
restart or reboot that `startServices` schedules (`timer`), and the guardian with
its count and its golden snapshot. Of a directory matters which release it holds,
or that a copy into it was interrupted (`Broken`). `Archive` is what the archive of
a release has: a directory it lacks stays as it was, and one without `webapp` is
refused. Each copy of a directory is a step that may fail; the agent
may die and the power fail between any two, and in the middle of one. `before`,
`saved` and `alone` are history. Checks of the OS, downloads and checksums are a
success or a failure (`Prepared`, `Fail`), and take any time: `LockExpires` is
possible at every point.

Two executions share the four directories, the lock, the backups and the directory
in which archives are unpacked. What they leave on the disk is not followed: from
the overlap on both are in the phase `mixed`, whose steps put anything into the
directory of the agent (which the guardian depends on), publish the release of any
archive, back up, restart, and end. A command that finds a recent lock is answered
with success and changes nothing but a flag shared by all executions, whether a
reboot is to come: `ScheduleRestart` takes either value of it. The module
implements PiUpdate, with its liveness.

**UpdateDeployment** extends PiUpdate with the server: `startDeployment`
(`starter`), the run on reconnection (`pender`: the queue, the selection of rows,
the reconciliation with `sites.software_version`, the send, the update), reports
in any order, and heartbeats, which store the version and set a completion of the
last hour to failed when the version is another. Commands are counted. A command
that finds the lock is answered with success and skipped: that is how a row is
completed before, or without, its update. Executions on the Pi may overlap, as
`PiUpdate` lets them, and answer in any order. Of what was sent on a connection
that is gone, any part may still be handled (`Lost`).

**ConfigSync** follows the pending version of one site through the trigger
(`step`, `want`, `row`), of which several may overlap; the ones of
`handleSyncLocalState` (`Bare`) pass no `sendCommand`, so that their command is
emitted without an entry in `pendingCommands`. A row matters only as `active`.
`applied` is the set of versions the Pi has had. A trigger whose version has gone
from the history clears nothing (`VersionGone`): a foreign key
(`full-schema.sql:5460`) keeps the version that is pending.

**ConfigFile** has the writers of `configuration.json` as processes of system
calls. `Atomic` ones fill a temporary file and rename it; the tasks of the agent
do so one at a time, in the order of `writeQueues`. `InPlace` ones truncate the
file and fill it: `attached` holds those whose descriptor still refers to the
name, since a rename leaves them writing to a file that is gone. One that fails or
dies half way may have written a part over what another had put there
(`StopHalfway`). A content is the
JSON object it starts with and whether anything follows; an object is `full` or
`bare` (built on `{}`). `safeReadConfig` is `Read` and `Restore`: it cuts off what
follows the first object, else restores the newest backup, else goes on with
`{}`. Of the backups the newest is kept, and whether an older one is good, so that
their number is not bounded. `Start` is the sweep of temporary files when the
agent starts.

## 3. Runs

| Run | Bounds | Shows |
|---|---|---|
| `connection` | 2 sockets, 1 restart | `TypeOK`; `OnlyVerifiedSockets`: the map never names an unverified socket, a refused one is closed; `ImplementsRegistry`; `ZombieEntryEvicted`, `DbEventuallyOffline`, `DbEventuallyOnline` |
| `channel_failures` | 1 socket, a real-time and a queueable command, 1 run, 1 failure anywhere | `TypeOK`, `RowLeavesAfterSend`, `ExecutedOnce`: a row is executed once at most; `RealtimeSentAtOnce` |
| `channel_liveness` | 2 sockets, 1 command, 2 attempts | `SuccessStaysCompleted`, `TrackingEnds`, `QueueDrained`, `AttemptsBounded` |
| `breaker_recovery` | 2 ungated callers, 2 ticks, an agent, 1 SQL error, 1 restart | `TypeOK`, `ClosedBelowThreshold`, `RecoversAfterOutage`, `AgentAuthenticates` |
| `deployment_safety` | 1 site, 2 commands at once, 1 variant update | `TypeOK`; `CompletedMeansFetched`; `WaitersAttended` |
| `deployment_liveness` | 1 site, 2 commands at once, 1 failed query | `DeploymentReported` |
| `ota_install` | 4 releases, one whose archive lacks a directory and whose agent crashes; 2 updates, 1 fault: a death, a power failure or an overlap | `OtaTypeOK`, `ValidatedMeansInstalled`, `RollbackRestores`, `AgentComesBack`, `ImplementsPi` |
| `update_deployment` | 2 executions side by side, 1 command on its way and 1 queued, 1 retry, 1 failed query or restart | `TypeOK`, `CompletedMeansBegun`, `DeploymentReported`, `CompletedIsReported` |
| `config_sync` | 2 versions, 2 triggers (one of them `Bare`), 2 rows per version, 1 failure of any kind | `TypeOK`, `ClearedMeansApplied`, `PendingDelivered` |
| `config_file` | 2 tasks, 1 request of the admin server, 1 switch, 1 first password, 1 failure or death | `TypeOK`, `OnlyInPlaceDamages`, `RenamedIsOwn`, `Healed` |

Two sockets are the least for which an old and a new one overlap; the safety of
`Connection` is proved for any number. The restart is there because the database
survives it. The instances have one run of the queue at a time: with two that
overlap (a reconnection and the drain task) the state space is too large for
them. Every safety property of the channel is proved for any number of runs.
`MaxTracked` is 0 in `channel_liveness`, so that the eviction of the oldest
tracked command happens there, and 2 in `channel_failures`, which evicts nothing;
the proofs are for any value. `MaxFailures` bounds failed queries and
restarts together. In `DbCircuitBreaker` outages are not bounded; SQL errors and
connections lost during an authentication are, and must be: see section 6. The
slots of a Pi bound the commands it holds at once, not their number: a slot is
used again. Two are enough for one that downloads and one that waits; connections
and restarts are not bounded. The safety of several sites is proved; a second one
adds nothing to a deployment but another source of messages.

In `ota_install` two updates are needed, since the second finds the backups, the
snapshot and the version files of the first; one of the releases crashes, so that
the guardian acts. One fault is enough to die once at every point, or for the
second update to begin beside the first at every point; an agent that crashes by
itself, and the age of the lock, are not bounded. Deaths of the Pi are not bounded in
`update_deployment`, where they are steps of `PiUpdate`. Two versions are the
least of which one is older; two triggers, with one of each kind, the least that
overlap. The rows of a version are used again. In `config_file` there are two
tasks, for the queue of the agent, and a member of every other kind of writer but
`Setting`, which does what `Edit` does and dies with the agent. Writers act again
and again, so the number of writes is not bounded.

Deadlock is not checked for `CommandChannel`, `OtaInstall` and
`UpdateDeployment`: their requests and updates are finite in number, so a
behaviour in which all are served has nothing left to do.

### Violations: where the code and its texts disagree

| Run | The code | The text |
|---|---|---|
| `ota_rollback` | an update that fails before its own backup is rolled back to the backup of an earlier update, a release older than the installed one | `MODOP-C12-15-Deploiement-MAJ.md:152` |
| `config_recovery` | only the newest backup is tried; it may be a copy of the damaged file, or cut short, and then an empty configuration is used although a good backup is there | `safe-config-io.js:105-106` |

## 4. Fairness

`Connection`: `setInterval` timers fire (sweep, DB sync), clocks advance, the
engine's ping notices a vanished peer, a connected agent heartbeats: weak
fairness of each. Status updates may be lost, and a single one for ever; strong
fairness of `CommitStatus` says that of updates issued again and again one
commits. No fairness on authentications, results or agents' progress.

`CommandChannel`: queries of a run are answered and the drain task is periodic
(weak fairness of `DrainNext`), the timeout sweep is periodic, a status update in
flight commits. The liveness run has no failed queries: they would be another
bounded delay. Nothing is assumed of the agent: tracking ends without it.

`DbCircuitBreaker`: ticks fire, queries are answered or time out, clocks advance,
the agent keeps trying and systemd restarts it, and callers that never ask keep
querying. The last one is what the recovery rests on: when the probe went to a
caller that records nothing, only the outcome of such a query leaves HALF_OPEN.
`syncDbWithWebSocketState` is one, every 60 s.

`ContentDeployment`: queries are answered, commands and messages on a connection
arrive, queued commands of a connected site are sent, and a download ends unless
it is broken (weak fairness of each). No fairness on connections: the property
assumes that the sites stay connected from some moment on. None on the timer of
`checkStuckDeployments`, which is for rows at 100 only.

`OtaInstall`: one condition for each party: the handler goes on while its process
lives, systemd boots the agent, the guardian checks it (every 30 s). The first is
weak fairness of *some* execution going on, as a process gives it; that each of
them ends, as `PiFairSpec` of the abstract module asks, then follows, since
updates are finite in number. Nothing is assumed
of commands, deaths or failures.

`UpdateDeployment`: queries are answered and messages on a connection arrive
(`Handling`), each execution on the Pi ends (from `PiFairSpec`, which `OtaInstall` is
shown to implement), and heartbeats are sent and handled. No fairness on
connections, retries or the passing of the hour.

`ConfigSync`: the queries of a trigger are answered; commands are executed,
answered and handled, or timed out by the periodic check; the agent reports its
configuration every hour. The last one is what delivers a version whose trigger
was lost.

`ConfigFile`: a task that has begun goes on, handlers of the agent read the file
again (the check of expired videos, every hour and at the start), and systemd
starts the agent. Nothing is assumed of the other processes, of backups or of
failures.

## 5. Proofs

Each theorem holds for every value of the constants that satisfies the module's
assumption.

*Connection_proofs.* `TypeCorrect`: `TypeOK` is inductive. `VerifiedSockets`:
`OnlyVerifiedSockets` is inductive together with `TypeOK`: each of the actions
that reject a socket closes it in the same step, and the only action that writes
an entry is the one that ends the SELECT. `RefinesRegistry`: the initial state
maps to the initial state and each action maps to one action of the registry or
to a stutter, by the lemmas on what `HandleDisconnection` and `DropRegistered`
leave in the map; a step that evicts the entry of a live socket is a `Close`, one
that evicts a dead entry an `Evict`. The proof uses the `socket.id` guard.

*CommandChannel_proofs.* `AttemptsBound`: no row is attempted more than
`MaxAttempts - 1 + Cardinality(Drain)` times. `AttemptsBounded` alone is not
inductive: a run that read a row below the limit may increment it later. The
invariant `Reserved` gives each such run a reservation: for each command,
`attempts` plus the number of runs that still hold it stays within the bound once
the limit is reached. It needs only the part of the type invariant on the queue.
`TypeCorrect` needs it in turn: a row of `remote_commands` is named by its command
and its attempt number, which must stay within the bound.
`ChannelRefinesRegistry`: every step of the channel is a step of `SessionRegistry`
or a stutter. As `RefinesRegistry` says the same of `Connection`, the channel uses
the registry only as the connections provide it.

The other theorems of the channel follow from the invariant `Delivery`, whose parts
need one another:

- what is sent (`Sends`): the queue and its runs know a command only after its
  request has ended in `"queued"`, so a row that has left does not come back
  (`QueuedFirst`); the first row is sent by the request (`FirstSend`), the later ones
  after an increment (`LaterSends`); and as long as the command is queued, two runs
  about to send have rows of different numbers, neither of them sent before
  (`RunsSend`). Once the command has left the queue an increment changes nothing, and
  two runs may hold one number: that is harmless only because the insert of a row
  refers to the queued command and fails;
- what comes back (`Answers`): a command on the wire was emitted and is there once
  (`DeliveredOnce`); a result, and a write made from one, agree with the one fate of
  their row, and only a success makes a row completed (`Results`, `Written`); a
  tracked row was sent and has one entry (`TrackedSent`).

`NoRowTwice`: the agent executes a row once at most. `QueueDropsNothing`: only a
withdrawal and `DrainDelete` shorten the queue, and the row of the latter was sent.
`RealtimeOnce`: a real-time command never enters the queue, so its only row is the
first. `SuccessStays`: a row set to failed by its request was not sent, one with a
result has only that result, and the server's own updates to failed need an open
row. What is left is the update to `executing` of the request or run that still
holds the row (`Unmarked`), which has no condition; the property names it as the
one exception.

*DbCircuitBreaker_proofs.* `TypeCorrect` needs `RetriesBelowLimit`: the counter
of the agent stays in its range because a process that reaches the limit exits.
`ThresholdOpens`: `ClosedBelowThreshold`, whatever the callers record and in
which order.

*ContentDeployment_proofs.* `TypeCorrect`. `CompletedWasFetched`: as long as no
site has fetched the video, nothing on the way says so (`NothingFetched`): no
update that completes, no message of 100, no error message without deployment id
(whose update would set the progress), and no download that is ending.
`WaitersAreAttended`: `WaitersAttended` is inductive with `ActiveRuns`, that the
entry of the map is a running download, which is what the next command to find
the entry needs. A step that ends a download ends or sets going all who wait for
it; every other step leaves running downloads running.

*OtaInstall_proofs.* `OtaTypesCorrect`, `ValidatedCorrect` and `RollbackCorrect`
follow from one invariant, `OtaInv`. Its part `OwnInv(u)` is about an execution
that is alone: the directories before the current one of the installation hold the
new release if the archive has them, those before the current one of the backup
were saved, and those before the current one of the rollback are as they were
before the update (`InstallInv`, `BackupInv`, `RollbackInv`). It needs `AloneInv`,
that an execution that is alone is the only one, and `ProcessInv`, which says who
is up during an update: without it a death would leave a run without a process.
`OtaImplementsPi`: every step maps to a step of `PiUpdate` or a stutter, overlaps
and the ageing of the lock at any time included.

*UpdateDeployment_proofs.* `TypeCorrect`, and `CompletedAfterBegin`: before the
first update begins, nothing says that one has (`BegunFirst`): no report of a
completion, no lock to skip a command by, no version of the target in a
heartbeat or in the table. `UsesPi`: every step is a step of `PiUpdate` or leaves
the Pi alone, so what `OtaImplementsPi` says of the program on the Pi holds of the
Pi that the deployment sees.

*ConfigSync_proofs.* `TypeCorrect`, and `ClearedAfterApplied`:
`ClearedMeansApplied` is inductive with `Delivered`, that a result on its way and
a result whose handler has not reached its last query are of versions that were
applied.

*ConfigFile_proofs.* `TypeCorrect`, and from the same invariant `RenamesOwn` and
`AtomicWritersKeepWhole`. A writer past its reading holds a complete object
(`Held`), one whose descriptor refers to the name is about to fill it
(`AttachedFills`), its temporary file holds that object or was deleted (`TmpOwn`),
and the task that has filled one is at the head of the queue (`HeadWrites`, which
the end of a write needs to take the right one off).

Every invariant and every action property that a run checks and that holds is
proved. Only model-checked: the liveness properties, which rest on fairness and so
are outside the prover's reach, and the fairness that `ImplementsPi` asks for
besides the steps.

## 6. What the properties do not say

The models have these behaviours, each of them against a text of the repository,
that no run is about:

- An authentication of an older socket that ends late overwrites the entry of the
  connected one (`socket.service.ts:447`; the comment at `:701-705` says it
  cannot); the eviction of that entry leaves the agent connected but unregistered.
- A dead entry whose site is served on another socket is kept by the heartbeats of
  that socket, which refresh the pong of the site (`heartbeat.handler.ts:40`), until
  a send evicts it: the exception of `ZombieEntryEvicted`.
- A second update begins beside the first once the lock of that one is ten minutes
  old (`update-software.js:73-86`), where the comment at `:71` says that the lock
  prevents it; a download alone has a timeout of 30 minutes and several attempts.
  What the two leave on the disk is not followed.
- The disconnect of a stale socket fails the commands the newer connection is
  executing (`socket.service.ts:679`, against `:677`), and deletes its pong
  (`:715`); the next sweep sets it again.
- An agent told `retry_later` reconnects at once (`agent.js:888`, against
  `REFERENCE.md:824` and `agent.js:850`).
- When a download fails, all who waited for it download at once, into one file
  (`deploy-video.js:128`, against `:12-14`).
- A download whose response is reset after the headers never ends
  (`deploy-video.js:439`), where `03-video-deployment-sequence.md:161` says that it
  has a timeout of 10 minutes; every later command of the video waits for it.
- A configuration emitted without tracking (`config-sync.handler.ts:513`) and lost
  with the connection leaves an active row, which keeps every later trigger from
  sending the version, where `ADR-007:172` says it is sent on reconnection.
- Two triggers of one site may both send (`ADR-007:172`: "déduplication assurée");
  `update_config` of one version may be applied twice.
- Overlapping runs exceed `max_attempts` of `COMMAND_QUEUE.md:384`, by at most one
  per run: that bound is what `AttemptsBounded` states.
- An exhausted row stays in the table, where `command-queue.spec.md:102` says it is
  deleted.
- A row is deleted when its command has been emitted, where
  `command-queue.spec.md:123` says on the acknowledgement.
- Two failed queries open the circuit when their tick records them again;
  `REFERENCE.md:822` says three.
- A tick goes on querying after the circuit has opened (`REFERENCE.md:823` says
  zero queries), and a query issued before the outage may close the half-open
  circuit while the probe is in flight (`db-circuit-breaker.service.ts:65`).

And these limits:

- `RecoversAfterOutage` is checked with a bounded number of SQL errors. Every
  failed query restarts the cooldown, so errors less than 30 s apart keep the
  circuit open with a healthy database; then no agent authenticates.
- The update to `executing` of a command is unconditional, in the queue and in
  the configuration: committed after the result, it leaves the row `executing`, and
  a timeout, disconnect or eviction that commits later still sets it to failed: a
  success may become a failure that way, and only that way
  (`SuccessStaysCompleted`). Without one the row stays `executing` for ever. A
  restart of the server forgets the tracked commands; their rows stay
  `executing` too. In `ConfigSync` such a row is `Abandoned`, which
  `PendingDelivered` excepts: it blocks the version until `cleanup.task.ts:114`
  removes it.
- A final status of a deployment is not final: an intermediate progress whose
  update commits late, the end of `startDeployment`, or a variant update set it in
  progress again. `DeploymentReported` says that a final status is reached, not
  that it stays. A row of one site at 100 is completed again by the timer; a row of
  a group or below 100 stays, and the next connection sends its command again.
- The first site of a group that reports 100 completes the deployment of all.
- A progress of 100 completes the deployment before the checksum: when the check
  fails and the error is lost with the connection, it stays completed.
- A command may be executed twice: two runs may send it under two ids, and the
  agent has no memory of what it has executed.
- A rollback leaves `release.json` and `VERSION` at the new release, so that the
  Pi reports it: `CompletedIsReported` speaks of the reported version, which is
  all the server sees. A heartbeat sent before the installation and handled after
  the completion fails a good deployment.
- `RollbackRestores` excepts an update whose backup is incomplete, and a Pi where
  the guardian has left `sync-agent-crashed-...`, whose name sorts last and which
  the next rollback takes for a backup.
- Configurations of two versions may be applied in either order: the Pi may end
  with the older one and nothing pending. `ClearedMeansApplied` says that the last
  one was applied, not that it was applied last.
- `Healed` assumes that the newest backup becomes and stays a good one: the file of
  a Pi without backups, or whose newest backup is of a damaged file, is replaced by
  one built on `{}` as soon as a handler changes it. Such a file is whole; what it
  has lost is not found.

## 7. Not modelled

Dashboard and SaaS sockets, metrics, alerts, formatting. Of deployments: SaaS
targets, the scheduler, the edit and delete requests, and
`triggerMissingVideoDeployments`; `updateProgress`, `cancelDeployment`,
`markDeploymentFailed`, `retryFailedDeployments` and `retryDeployment` of contents
are called by tests only, as is `cancelDeployment` of updates. A deployment of a
video without checksum throws in the loop over the rows of a site
(`deployment.service.ts:355`) and keeps those after it from being sent; the module
follows one row.

Of updates: the canary and orchestrated strategies, which decide which sites are
started when; what overlapping updates leave in the four directories; that
all directories but `webapp` are merged with `cp -r`, so that files of an older
release may stay, and that a failing `npm install` is only logged
(`ota-install.js:222-387`): a directory "holds the release" when its copy ended.

Of configuration sync: the mirror `local_config_mirror` and its lock
(`config-sync.handler.ts:110` tests the lock and writes in separate queries, and
the result of one command clears the lock of another,
`command-dispatch.handler.ts:211`), the merge of contents, the watchers of the Pi.

Of the configuration file: what its objects hold. Two handlers that read, change
and write it lose one of the edits (`update-config.js:35` holds its copy over
several awaits); the module keeps only whether a content is whole. During an
update the file is away while `webapp` is replaced (`ota-install.js:203-229`),
and `safeReadConfig` then returns `{}`. `configuration.backup.json` of
`config-rollback.js`, the profile files and the atomic writers of the admin
server are left out.

The offline queue of the agent: nothing in the running program enqueues a command,
and `processOfflineQueue` calls `offlineQueue.processQueue`, which the service does
not define (its method is `processOnReconnect`), so a queue left on disk is never
drained: a fact one reads off the code without a model. The network watchdogs are
timers and ladders of shell commands, right or wrong by the state of a network the
source does not describe. Licence cache, match state, receivers and the SaaS relay
set a field and broadcast it within one callback. Interfaces, render workers and
CRUD controllers, most of the repository by lines, have no protocol of their own.

## 8. What is left

1. The canary and orchestrated strategies over `UpdateDeployment`.
2. The mirror and its lock, as an addition to `ConfigSync`, and the contents of
   two edits in `ConfigFile`.
3. `triggerMissingVideoDeployments` (its cap on deployments in flight is tested
   before several awaits), the scheduler's claim of a row, and the rows of one site
   together.
