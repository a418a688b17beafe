----------------------------- MODULE ConfigSync -----------------------------
(***************************************************************************)
(* The delivery of the pending configuration version of one site:          *)
(* triggerPendingConfigSync of config-sync.handler.ts, the requests that   *)
(* save a version, the sync_local_state of the agent, sendCommand, the     *)
(* results, timeouts and clean-up of the commands, and update_config on    *)
(* the Pi.                                                                 *)
(*                                                                         *)
(* Versions are numbered in the order in which they are saved, 0 is none.  *)
(* A row of remote_commands is active while it is 'pending' or             *)
(* 'executing', the only thing the code asks of it.  The rows of version v *)
(* are the <<v, k>>; one is used again once nothing refers to it any more. *)
(***************************************************************************)
EXTENDS Naturals

CONSTANTS
    Trigger,     \* runs of triggerPendingConfigSync that may overlap
    Bare,        \* those called by handleSyncLocalState, without sendCommandFn
    Copy,        \* rows of one version in use at one time
    NoCommand,   \* a trigger has no row yet
    Fault,       \* the kinds of failures considered
    MaxVersions, \* bound: versions saved
    MaxFailures  \* bound: failures

\* The rows of remote_commands that are told apart.
Command == (1..MaxVersions) \X Copy
VersionOf(c) == c[1]

ASSUME ConfigAssumption ==
    /\ Bare \subseteq Trigger
    /\ NoCommand \notin Command
    /\ Fault \subseteq {"connection", "agent", "server", "query", "command"}
    /\ MaxVersions \in Nat
    /\ MaxFailures \in Nat

VARIABLES
    pending,   \* sites.pending_config_version_id
    last,      \* the version saved last
    due,       \* a request or a reconnection is about to call the trigger
    step,      \* progress of each trigger
    want,      \* the version it read
    row,       \* the row it inserted
    active,    \* the rows that are 'pending' or 'executing'
    tracked,   \* the pendingCommands map
    clearing,  \* results whose handler has not reached clearPendingConfig
    link,      \* connection: "up", "lost" while the server takes it for up, "down"
    fate,      \* a command on its way or running on the Pi, or its result
    applied,   \* the versions the configuration file of the Pi has had
    failures

runVars == <<step, want, row>>
triggerVars == <<due, runVars>>
dbVars == <<pending, last, active>>
piVars == <<fate, applied>>
commandVars == <<tracked, clearing, fate>>
vars == <<dbVars, triggerVars, tracked, clearing, link, piVars, failures>>

TypeOK ==
    /\ pending \in 0..last
    /\ last \in 0..MaxVersions
    /\ due \in BOOLEAN
    /\ step \in [Trigger -> {"idle", "check", "insert", "mark", "refuse"}]
    /\ want \in [Trigger -> 0..MaxVersions]
    /\ \A t \in Trigger : want[t] = 0 <=> step[t] = "idle"
    /\ row \in [Trigger -> Command \cup {NoCommand}]
    /\ \A t \in Trigger : row[t] = NoCommand <=> step[t] \notin {"mark", "refuse"}
    /\ active \subseteq Command
    /\ tracked \subseteq Command
    /\ clearing \subseteq Command
    /\ link \in {"up", "lost", "down"}
    /\ fate \in [Command -> {"none", "sent", "ok", "error"}]
    /\ applied \subseteq 1..MaxVersions
    /\ failures \in 0..MaxFailures

Init ==
    /\ pending = 0
    /\ last = 0
    /\ due = FALSE
    /\ step = [t \in Trigger |-> "idle"]
    /\ want = [t \in Trigger |-> 0]
    /\ row = [t \in Trigger |-> NoCommand]
    /\ active = {}
    /\ tracked = {}
    /\ clearing = {}
    /\ link = "down"
    /\ fate = [c \in Command |-> "none"]
    /\ applied = {}
    /\ failures = 0

InFlight(c) ==
    \/ \E t \in Trigger : row[t] = c
    \/ fate[c] # "none"
    \/ c \in tracked \cup clearing

Free(v) == {c \in {v} \X Copy : c \notin active /\ ~InFlight(c)}

-----------------------------------------------------------------------------
(* Saving a version; connections *)

\* The version enters the history and becomes the pending one; two saves that
\* overlap are numbered by the second of these writes.
Save ==
    /\ last < MaxVersions
    /\ last' = last + 1
    /\ pending' = last + 1
    /\ due' = TRUE
    /\ UNCHANGED <<runVars, active, tracked, clearing, link, piVars, failures>>

\* handleDisconnection and its updates, whichever socket is closed.
FailTracked ==
    /\ tracked' = {}
    /\ active' = active \ tracked

\* What was on the wire is lost; the Pi may be executing a command already.
LoseSome ==
    \E L \in SUBSET {c \in Command : fate[c] # "none"} :
        fate' = [c \in Command |-> IF c \in L THEN "none" ELSE fate[c]]

\* The agent authenticates; an older socket may still be taken for connected.
\* Its late disconnect fails the tracked commands, as Timeout may do.
Connect ==
    /\ link # "up"
    /\ link' = "up"
    /\ due' = TRUE
    /\ UNCHANGED <<runVars, dbVars, tracked, clearing, piVars, failures>>

Fails(kind) ==
    /\ kind \in Fault
    /\ failures < MaxFailures
    /\ failures' = failures + 1

Disconnect ==
    /\ link = "up"
    /\ Fails("connection")
    /\ LoseSome
    /\ link' = "lost"
    /\ UNCHANGED <<dbVars, triggerVars, tracked, clearing, applied>>

HandleDisconnection ==
    /\ link = "lost"
    /\ link' = "down"
    /\ FailTracked
    /\ UNCHANGED <<pending, last, triggerVars, clearing, piVars, failures>>

AgentRestarts ==
    /\ Fails("agent")
    /\ link' = IF link = "up" THEN "lost" ELSE link
    /\ fate' = [c \in Command |-> "none"]
    /\ UNCHANGED <<dbVars, triggerVars, tracked, clearing, applied>>

\* pendingCommands is empty afterwards; the rows keep their status.
ServerRestarts ==
    /\ Fails("server")
    /\ LoseSome
    /\ due' = FALSE
    /\ step' = [t \in Trigger |-> "idle"]
    /\ want' = [t \in Trigger |-> 0]
    /\ row' = [t \in Trigger |-> NoCommand]
    /\ tracked' = {}
    /\ clearing' = {}
    /\ link' = "down"
    /\ UNCHANGED <<dbVars, applied>>

-----------------------------------------------------------------------------
(* triggerPendingConfigSync *)

Registered == link # "down"

GoTo(t, s) ==
    /\ step' = [step EXCEPT ![t] = s]
    /\ UNCHANGED <<want, row>>

Return(t) ==
    /\ step' = [step EXCEPT ![t] = "idle"]
    /\ want' = [want EXCEPT ![t] = 0]
    /\ row' = [row EXCEPT ![t] = NoCommand]

\* Mutant: the trigger goes on without a pending version.
ReadPendingAlways(t) ==
    /\ step[t] = "idle"
    /\ step' = [step EXCEPT ![t] = IF Registered THEN "check" ELSE "idle"]
    /\ want' = [want EXCEPT ![t] = IF Registered THEN pending ELSE 0]
    /\ UNCHANGED row

\* The test of the map and the read of the pending version.
ReadPending(t) ==
    /\ step[t] = "idle"
    /\ IF Registered /\ pending # 0
       THEN /\ step' = [step EXCEPT ![t] = "check"]
            /\ want' = [want EXCEPT ![t] = pending]
            /\ UNCHANGED row
       ELSE UNCHANGED runVars

\* Called by a request or after a reconnection, with sendCommand.
Begin(t) ==
    /\ t \notin Bare
    /\ due
    /\ due' = FALSE
    /\ ReadPending(t)
    /\ UNCHANGED <<dbVars, tracked, clearing, link, piVars, failures>>

\* Mutant: the mirror is stored and nothing is triggered.
SyncLocalStateOnly(t) ==
    /\ t \in Bare
    /\ Registered
    /\ UNCHANGED vars

\* Called by handleSyncLocalState, without sendCommand.  The agent reports its
\* state when it connects, when its files change, and every hour.
SyncLocalState(t) ==
    /\ t \in Bare
    /\ Registered
    /\ ReadPending(t)
    /\ UNCHANGED <<due, dbVars, tracked, clearing, link, piVars, failures>>

Elsewhere == UNCHANGED <<due, pending, last, clearing, applied, failures>>
OnlyRun == UNCHANGED <<active, tracked, link, fate>> /\ Elsewhere

HasActiveConfigCommand(v) == \E c \in active : VersionOf(c) = v

CheckActive(t) ==
    /\ step[t] = "check"
    /\ IF HasActiveConfigCommand(want[t]) THEN Return(t) ELSE GoTo(t, "insert")
    /\ OnlyRun

\* The version is no longer in the history.  A foreign key keeps the one that is
\* pending, and only the version that was read would be cleared: nothing is.
VersionGone(t) ==
    /\ step[t] = "insert"
    /\ want[t] # pending
    /\ Return(t)
    /\ OnlyRun

\* The version is fetched and the map tested again.
SiteGone(t) ==
    /\ step[t] = "insert"
    /\ ~Registered
    /\ Return(t)
    /\ OnlyRun

\* The command reaches the wire, or a socket nobody listens to any more.
Emit(c) == fate' = IF link = "up" THEN [fate EXCEPT ![c] = "sent"] ELSE fate

\* sendCommand refuses without an entry, or closes one without recent pong.
SendCommand(t, c) ==
    \/ /\ Registered
       /\ tracked' = tracked \cup {c}
       /\ active' = active \cup {c}
       /\ Emit(c)
       /\ step' = [step EXCEPT ![t] = "mark"]
       /\ UNCHANGED link
    \/ /\ link # "up"
       /\ link' = "down"
       /\ tracked' = {}
       /\ active' = (active \ tracked) \cup {c}
       /\ step' = [step EXCEPT ![t] = "refuse"]
       /\ UNCHANGED fate

\* Without sendCommand only socket.connected is tested.
EmitDirectly(t, c) ==
    /\ active' = active \cup {c}
    /\ \/ Registered /\ Emit(c) /\ step' = [step EXCEPT ![t] = "mark"]
       \/ link # "up" /\ step' = [step EXCEPT ![t] = "refuse"] /\ UNCHANGED fate
    /\ UNCHANGED <<tracked, link>>

\* The row is inserted, under an id of its own, and the command is sent.
InsertAndSend(t) ==
    /\ step[t] = "insert"
    /\ Free(want[t]) # {}
    /\ LET c == CHOOSE c \in Free(want[t]) : TRUE
       IN  /\ row' = [row EXCEPT ![t] = c]
           /\ IF t \in Bare THEN EmitDirectly(t, c) ELSE SendCommand(t, c)
    /\ UNCHANGED want
    /\ Elsewhere

\* The update to executing has no condition on the status.
MarkExecuting(t) ==
    /\ step[t] = "mark"
    /\ active' = active \cup {row[t]}
    /\ Return(t)
    /\ UNCHANGED <<tracked, link, fate>>
    /\ Elsewhere

MarkFailed(t) ==
    /\ step[t] = "refuse"
    /\ active' = active \ {row[t]}
    /\ Return(t)
    /\ UNCHANGED <<tracked, link, fate>>
    /\ Elsewhere

QueryFails(t) ==
    /\ step[t] # "idle"
    /\ Fails("query")
    /\ Return(t)
    /\ UNCHANGED <<due, dbVars, tracked, clearing, link, piVars>>

-----------------------------------------------------------------------------
(* update_config on the Pi *)

\* Handlers run side by side, so the order of the commands is lost; the merged
\* configuration replaces the file.
Apply(c) ==
    /\ fate[c] = "sent"
    /\ fate' = [fate EXCEPT ![c] = "ok"]
    /\ applied' = applied \cup {VersionOf(c)}
    /\ UNCHANGED <<dbVars, triggerVars, tracked, clearing, link, failures>>

ApplyFails(c) ==
    /\ fate[c] = "sent"
    /\ Fails("command")
    /\ fate' = [fate EXCEPT ![c] = "error"]
    /\ UNCHANGED <<dbVars, triggerVars, tracked, clearing, link, applied>>

\* A result emitted without a connection does not reach the server.
AnswerLost(c) ==
    /\ fate[c] \in {"ok", "error"}
    /\ link # "up"
    /\ fate' = [fate EXCEPT ![c] = "none"]
    /\ UNCHANGED <<dbVars, triggerVars, tracked, clearing, link, applied, failures>>

-----------------------------------------------------------------------------
(* Results and timeouts *)

HandleResult(c) ==
    /\ fate[c] \in {"ok", "error"}
    /\ link = "up"
    /\ fate' = [fate EXCEPT ![c] = "none"]
    /\ tracked' = tracked \ {c}
    /\ active' = active \ {c}
    /\ clearing' = IF fate[c] = "ok" THEN clearing \cup {c} ELSE clearing
    /\ UNCHANGED <<pending, last, triggerVars, link, applied, failures>>

\* Mutant: the update does not ask for the version that was sent.
ClearPendingAnyVersion(c) ==
    /\ c \in clearing
    /\ clearing' = clearing \ {c}
    /\ pending' = 0
    /\ UNCHANGED <<last, triggerVars, active, tracked, link, piVars, failures>>

\* Only the version that was sent is cleared.
ClearPendingConfig(c) ==
    /\ c \in clearing
    /\ clearing' = clearing \ {c}
    /\ pending' = IF pending = VersionOf(c) THEN 0 ELSE pending
    /\ UNCHANGED <<last, triggerVars, active, tracked, link, piVars, failures>>

\* A query of handleCommandResult fails: the rest of it is left out.
ResultQueryFails(c) ==
    /\ Fails("query")
    /\ \/ /\ fate[c] \in {"ok", "error"}
          /\ link = "up"
          /\ fate' = [fate EXCEPT ![c] = "none"]
          /\ tracked' = tracked \ {c}
          /\ UNCHANGED clearing
       \/ /\ c \in clearing
          /\ clearing' = clearing \ {c}
          /\ UNCHANGED <<fate, tracked>>
    /\ UNCHANGED <<dbVars, triggerVars, link, applied>>

Timeout(c) ==
    /\ c \in tracked
    /\ tracked' = tracked \ {c}
    /\ active' = active \ {c}
    /\ UNCHANGED <<pending, last, triggerVars, clearing, link, piVars, failures>>

-----------------------------------------------------------------------------

RunStep(t) ==
    \/ Begin(t) \/ CheckActive(t) \/ VersionGone(t) \/ SiteGone(t)
    \/ InsertAndSend(t) \/ MarkExecuting(t) \/ MarkFailed(t)

CommandStep(c) == Apply(c) \/ HandleResult(c) \/ ClearPendingConfig(c)

Next ==
    \/ Save \/ Connect \/ Disconnect \/ HandleDisconnection \/ AgentRestarts \/ ServerRestarts
    \/ \E t \in Trigger : RunStep(t) \/ SyncLocalState(t) \/ QueryFails(t)
    \/ \E c \in Command :
        CommandStep(c) \/ ApplyFails(c) \/ AnswerLost(c) \/ ResultQueryFails(c) \/ Timeout(c)

Spec == Init /\ [][Next]_vars

\* Queries and commands end, messages on a connection arrive, the timeout check
\* and the hourly report of the agent go on.  The variables of each condition are
\* those that its steps change.
Fairness ==
    /\ \A t \in Trigger : WF_triggerVars(RunStep(t))
    /\ WF_commandVars(\E c \in Command : CommandStep(c) \/ Timeout(c))
    /\ WF_runVars(\E t \in Trigger : SyncLocalState(t))

FairSpec == Spec /\ Fairness

-----------------------------------------------------------------------------
(* Properties *)

\* No version is pending only after the Pi has applied the one saved last: the
\* result of an older version, however late, does not clear a newer one.
ClearedMeansApplied == pending = 0 => last \in applied \cup {0}

\* A row that is active while nobody works on its command, waits for its result
\* or times it out.
Abandoned(v) == \E c \in active : VersionOf(c) = v /\ ~InFlight(c)

\* When the site stays connected from some moment on, the pending version is
\* applied and cleared, unless a row of it was abandoned.
PendingDelivered ==
    <>[](link = "up") => <>[](pending = 0 \/ Abandoned(pending))
=============================================================================
