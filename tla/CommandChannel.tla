--------------------------- MODULE CommandChannel ---------------------------
(***************************************************************************)
(* The delivery of commands to one site, on top of the registry of its     *)
(* connections: sendOrQueue and processPendingCommands of                  *)
(* command-queue.service.ts, sendCommand, handleCommandResult and          *)
(* checkCommandTimeouts of command-dispatch.handler.ts, the clean-up of    *)
(* pending commands on a disconnect, and handleCommand of the sync agent.  *)
(*                                                                         *)
(* Commands are the generic ones: update_config, update_software and       *)
(* deploy_video add side effects of their own to these same steps.  A      *)
(* command is a number, its rank in the order (priority, created_at) in    *)
(* which the queue is read.  Each send of it inserts a row in              *)
(* remote_commands: <<c, 0>> for the immediate one, <<c, n>> for the n-th  *)
(* attempt from the queue.                                                 *)
(*                                                                         *)
(* The code between two awaits is one action; an awaited query and what    *)
(* follows it up to the next await are one action too, so the queries of   *)
(* different callers commit in any order.                                  *)
(***************************************************************************)
EXTENDS SessionRegistry, Naturals, FiniteSets, Sequences, SequencesExt

CONSTANTS
    Command,      \* the commands requested for the site
    Realtime,     \* those of a type in REALTIME_ONLY_COMMANDS
    MaxAttempts,  \* max_attempts of a queued row
    Drain,        \* runs of processPendingCommands that may overlap
    MaxTracked,   \* MAX_PENDING_COMMANDS
    MaxFailures   \* bound: failed queries, restarts of the server or the agent

ASSUME ChannelAssumption ==
    /\ Command \subseteq Nat
    /\ Realtime \subseteq Command
    /\ MaxAttempts \in Nat \ {0}
    /\ IsFiniteSet(Drain)
    /\ MaxTracked \in Nat
    /\ MaxFailures \in Nat

VARIABLES
    req,       \* progress of sendOrQueue for each command
    queued,    \* commands with a row in pending_commands
    attempts,  \* pending_commands.attempts
    remote,    \* status of each row of remote_commands, or "none"
    tracked,   \* the pendingCommands map, in insertion order
    writes,    \* status updates of remote_commands in flight
    drain,     \* progress of each run of processPendingCommands
    todo,      \* the rows of its snapshot that it has not reached
    current,   \* the remote row it works on
    inbox,     \* commands on their way on each socket
    results,   \* command_result messages on their way on each socket
    fate,      \* what became of each remote row at the agent
    failures

queueVars == <<queued, attempts>>
drainVars == <<drain, todo, current>>
netVars == <<inbox, results>>
cmdVars == <<req, queueVars, remote, tracked, writes, drainVars, netVars, fate, failures>>
vars == <<regVars, cmdVars>>

\* No more attempts than one per overlapping run once the limit is reached.
AttemptLimit == MaxAttempts - 1 + Cardinality(Drain)
Id == Command \X (0..AttemptLimit)
NoId == <<>>

Writer == {"result", "timeout", "disconnect", "eviction"}
StatusWrite == [id : Id, status : {"completed", "failed"}, by : Writer]

TypeOK ==
    /\ RegistryTypeOK
    /\ req \in [Command -> {"new", "insert", "marking", "failing", "queue",
                            "sent", "queued", "refused", "error"}]
    /\ queued \subseteq Command
    /\ attempts \in [Command -> Nat]
    /\ remote \in [Id -> {"none", "pending", "executing", "completed", "failed"}]
    /\ tracked \in Seq(Id)
    /\ writes \subseteq StatusWrite
    /\ drain \in [Drain -> {"idle", "row", "attempt", "insert", "marking", "delete"}]
    /\ todo \in [Drain -> SUBSET Command]
    /\ current \in [Drain -> Id \cup {NoId}]
    /\ inbox \in [Socket -> Seq(Id)]
    /\ results \in [Socket -> Seq([id : Id, ok : BOOLEAN])]
    /\ fate \in [Id -> {"unsent", "emitted", "received", "ok", "error", "aborted"}]
    /\ failures \in 0..MaxFailures

Init ==
    /\ RegistryInit
    /\ req = [c \in Command |-> "new"]
    /\ queued = {}
    /\ attempts = [c \in Command |-> 0]
    /\ remote = [r \in Id |-> "none"]
    /\ tracked = <<>>
    /\ writes = {}
    /\ drain = [d \in Drain |-> "idle"]
    /\ todo = [d \in Drain |-> {}]
    /\ current = [d \in Drain |-> NoId]
    /\ inbox = [s \in Socket |-> <<>>]
    /\ results = [s \in Socket |-> <<>>]
    /\ fate = [r \in Id |-> "unsent"]
    /\ failures = 0

-----------------------------------------------------------------------------
(* Connections *)

\* Mutant: the status named in the entity-relationship diagram.
FailAsTimeout(r, by) == [id |-> r, status |-> "timeout", by |-> by]

Fail(r, by) == [id |-> r, status |-> "failed", by |-> by]
\* An id is a key of the map, so it has one entry at most (TrackedSent of
\* CommandChannel_proofs).
IsTracked(r) == r \in ToSet(tracked)
Untrack(r) ==
    IF IsTracked(r) THEN RemoveAt(tracked, CHOOSE i \in DOMAIN tracked : tracked[i] = r)
    ELSE tracked

\* handleDisconnection fails every tracked command of the site, provided the
\* socket had authenticated; what was on the wire is gone.
CloseSocket(s) ==
    /\ Close(s)
    /\ IF s \in identified
       THEN /\ tracked' = <<>>
            /\ writes' = writes \cup {Fail(r, "disconnect") : r \in ToSet(tracked)}
       ELSE UNCHANGED <<tracked, writes>>
    /\ inbox' = [inbox EXCEPT ![s] = <<>>]
    /\ results' = [results EXCEPT ![s] = <<>>]

Connect(s) ==
    /\ Open(s) \/ Register(s) \/ Attach(s)
    /\ UNCHANGED cmdVars

Disconnect(s) ==
    /\ CloseSocket(s)
    /\ UNCHANGED <<req, queueVars, remote, drainVars, fate, failures>>

EvictZombie ==
    /\ Evict
    /\ UNCHANGED cmdVars

-----------------------------------------------------------------------------
(* sendCommand: true once the command is tracked and emitted *)

SendAccepted(r) ==
    /\ registered \in alive
    /\ tracked' = Append(tracked, r)
    /\ inbox' = [inbox EXCEPT ![registered] = Append(@, r)]
    /\ fate' = [fate EXCEPT ![r] = "emitted"]
    /\ UNCHANGED <<regVars, writes, results>>

\* False: no entry; an entry whose socket is closed, evicted on the spot; or a
\* pong older than 60 s, which forces the socket closed.
SendRefused ==
    /\ \/ registered = NoSocket /\ UNCHANGED <<regVars, tracked, writes, netVars>>
       \/ Evict /\ UNCHANGED <<tracked, writes, netVars>>
       \/ registered # NoSocket /\ CloseSocket(registered)
    /\ UNCHANGED fate

-----------------------------------------------------------------------------
(* sendOrQueue *)

SendOrQueue(c) ==
    /\ req[c] = "new"
    /\ req' = [req EXCEPT ![c] = IF registered # NoSocket THEN "insert"
                                 ELSE IF c \in Realtime THEN "refused" ELSE "queue"]
    /\ UNCHANGED <<regVars, queueVars, remote, tracked, writes, drainVars, netVars, fate, failures>>

\* The row of remote_commands is inserted and the command is sent.
InsertAndSend(c) ==
    /\ req[c] = "insert"
    /\ remote' = [remote EXCEPT ![<<c, 0>>] = "pending"]
    /\ \/ SendAccepted(<<c, 0>>) /\ req' = [req EXCEPT ![c] = "marking"]
       \/ SendRefused /\ req' = [req EXCEPT ![c] = "failing"]
    /\ UNCHANGED <<queueVars, drainVars, failures>>

\* The update to 'executing' has no condition on the status.
MarkExecuting(c) ==
    /\ req[c] = "marking"
    /\ req' = [req EXCEPT ![c] = "sent"]
    /\ remote' = [remote EXCEPT ![<<c, 0>>] = "executing"]
    /\ UNCHANGED <<regVars, queueVars, tracked, writes, drainVars, netVars, fate, failures>>

\* The send was refused: the row is failed, then the command is queued.
MarkZombieFailed(c) ==
    /\ req[c] = "failing"
    /\ req' = [req EXCEPT ![c] = IF c \in Realtime THEN "refused" ELSE "queue"]
    /\ remote' = [remote EXCEPT ![<<c, 0>>] = "failed"]
    /\ UNCHANGED <<regVars, queueVars, tracked, writes, drainVars, netVars, fate, failures>>

\* queueCommand tests the type once more.
QueueCommand(c) ==
    /\ req[c] = "queue"
    /\ IF c \in Realtime
       THEN req' = [req EXCEPT ![c] = "refused"] /\ UNCHANGED queued
       ELSE req' = [req EXCEPT ![c] = "queued"] /\ queued' = queued \cup {c}
    /\ UNCHANGED <<regVars, attempts, remote, tracked, writes, drainVars, netVars, fate, failures>>

\* Mutant: a failed update after the send is taken for a refused send.
RequestFailsAsRefusal(c) ==
    /\ req[c] \in {"insert", "marking", "failing", "queue"}
    /\ failures < MaxFailures
    /\ failures' = failures + 1
    /\ req' = [req EXCEPT ![c] = IF req[c] = "marking" THEN "failing" ELSE "error"]
    /\ UNCHANGED <<regVars, queueVars, remote, tracked, writes, drainVars, netVars, fate>>

\* The awaited query fails: the error goes to the caller.
RequestFails(c) ==
    /\ req[c] \in {"insert", "marking", "failing", "queue"}
    /\ failures < MaxFailures
    /\ failures' = failures + 1
    /\ req' = [req EXCEPT ![c] = "error"]
    /\ UNCHANGED <<regVars, queueVars, remote, tracked, writes, drainVars, netVars, fate>>

\* cancelPendingCommand, clearPendingCommands, cleanupExpiredCommands.
Withdraw(C) ==
    /\ C \subseteq queued
    /\ queued' = queued \ C
    /\ UNCHANGED <<regVars, req, attempts, remote, tracked, writes, drainVars, netVars, fate, failures>>

-----------------------------------------------------------------------------
(* processPendingCommands: on each authentication, and every 30 s by the     *)
(* drain task for a connected site                                           *)

\* Mutants: the limit of attempts is not part of the query, or is off by one.
EligibleWithoutLimit == queued
EligibleBelowLimit == {c \in queued : attempts[c] + 1 < MaxAttempts}

Eligible == {c \in queued : attempts[c] < MaxAttempts}

DrainSelect(d) ==
    /\ drain[d] = "idle"
    /\ Eligible # {}
    /\ drain' = [drain EXCEPT ![d] = "row"]
    /\ todo' = [todo EXCEPT ![d] = Eligible]
    /\ UNCHANGED <<regVars, req, queueVars, remote, tracked, writes, current, netVars, fate, failures>>

\* The next row of the snapshot, in rank order: its attempts are to be
\* incremented.
DrainNextRow(d) ==
    /\ drain[d] = "row"
    /\ registered # NoSocket
    /\ \E c \in todo[d] :
         /\ \A e \in todo[d] : c <= e
         /\ todo' = [todo EXCEPT ![d] = @ \ {c}]
         /\ current' = [current EXCEPT ![d] = <<c, 0>>]
    /\ drain' = [drain EXCEPT ![d] = "attempt"]
    /\ UNCHANGED <<regVars, req, queueVars, remote, tracked, writes, netVars, fate, failures>>

DrainEnds(d) ==
    /\ drain[d] = "row"
    /\ registered = NoSocket \/ todo[d] = {}
    /\ drain' = [drain EXCEPT ![d] = "idle"]
    /\ todo' = [todo EXCEPT ![d] = {}]
    /\ UNCHANGED <<regVars, req, queueVars, remote, tracked, writes, current, netVars, fate, failures>>

NextRow(d) ==
    /\ drain' = [drain EXCEPT ![d] = "row"]
    /\ current' = [current EXCEPT ![d] = NoId]

\* attempts = attempts + 1, where the row still exists.
DrainAttempt(d) ==
    LET c == current[d][1]
        n == attempts[c] + (IF c \in queued THEN 1 ELSE 0)
    IN /\ drain[d] = "attempt"
       /\ drain' = [drain EXCEPT ![d] = "insert"]
       /\ attempts' = [attempts EXCEPT ![c] = n]
       /\ current' = [current EXCEPT ![d] = <<c, n>>]
       /\ UNCHANGED <<regVars, req, queued, remote, tracked, writes, todo, netVars, fate, failures>>

\* The insert refers to the queued row, so it fails once that row is deleted.
\* A refused send leaves the inserted row as it is.
DrainInsertAndSend(d) ==
    /\ drain[d] = "insert"
    /\ IF current[d][1] \in queued
       THEN /\ remote' = [remote EXCEPT ![current[d]] = "pending"]
            /\ \/ /\ SendAccepted(current[d])
                  /\ drain' = [drain EXCEPT ![d] = "marking"]
                  /\ UNCHANGED current
               \/ SendRefused /\ NextRow(d)
       ELSE /\ NextRow(d)
            /\ UNCHANGED <<regVars, remote, tracked, writes, netVars, fate>>
    /\ UNCHANGED <<req, queueVars, todo, failures>>

DrainMark(d) ==
    /\ drain[d] = "marking"
    /\ drain' = [drain EXCEPT ![d] = "delete"]
    /\ remote' = [remote EXCEPT ![current[d]] = "executing"]
    /\ UNCHANGED <<regVars, req, queueVars, tracked, writes, todo, current, netVars, fate, failures>>

DrainDelete(d) ==
    /\ drain[d] = "delete"
    /\ queued' = queued \ {current[d][1]}
    /\ NextRow(d)
    /\ UNCHANGED <<regVars, req, attempts, remote, tracked, writes, todo, netVars, fate, failures>>

\* Mutant: the row is dropped with the error.
DrainQueryFailsAndDrops(d) ==
    /\ drain[d] \in {"attempt", "insert", "marking", "delete"}
    /\ failures < MaxFailures
    /\ failures' = failures + 1
    /\ queued' = queued \ {current[d][1]}
    /\ NextRow(d)
    /\ UNCHANGED <<regVars, req, attempts, remote, tracked, writes, todo, netVars, fate>>

\* Mutant: the run tries the same row again at once.
DrainQueryFailsRetries(d) ==
    /\ drain[d] \in {"attempt", "insert", "marking", "delete"}
    /\ failures < MaxFailures
    /\ failures' = failures + 1
    /\ drain' = [drain EXCEPT ![d] = "insert"]
    /\ UNCHANGED <<regVars, req, queueVars, remote, tracked, writes, todo, current, netVars, fate>>

\* An awaited query fails: the row is left to a later run.
DrainQueryFails(d) ==
    /\ drain[d] \in {"attempt", "insert", "marking", "delete"}
    /\ failures < MaxFailures
    /\ failures' = failures + 1
    /\ NextRow(d)
    /\ UNCHANGED <<regVars, req, queueVars, remote, tracked, writes, todo, netVars, fate>>

-----------------------------------------------------------------------------
(* The agent: handleCommand, with no memory of the ids it has seen *)

ReceiveCommand(s) ==
    /\ inbox[s] # <<>>
    /\ inbox' = [inbox EXCEPT ![s] = Tail(@)]
    /\ fate' = [fate EXCEPT ![Head(inbox[s])] = "received"]
    /\ UNCHANGED <<regVars, req, queueVars, remote, tracked, writes, drainVars, results, failures>>

\* The command ends and its result is emitted on the current connection; with
\* none, the client buffers it and flushes it before the server listens.
FinishCommand(r, ok) ==
    /\ fate[r] = "received"
    /\ fate' = [fate EXCEPT ![r] = IF ok THEN "ok" ELSE "error"]
    /\ \/ \E s \in alive : results' = [results EXCEPT ![s] = Append(@, [id |-> r, ok |-> ok])]
       \/ UNCHANGED results
    /\ UNCHANGED <<regVars, req, queueVars, remote, tracked, writes, drainVars, inbox, failures>>

AgentRestart ==
    /\ failures < MaxFailures
    /\ failures' = failures + 1
    /\ fate' = [r \in Id |-> IF fate[r] = "received" THEN "aborted" ELSE fate[r]]
    /\ UNCHANGED <<regVars, req, queueVars, remote, tracked, writes, drainVars, netVars>>

-----------------------------------------------------------------------------
(* Results and timeouts *)

\* handleCommandResult, on a socket whose handlers are attached.
HandleCommandResult(s) ==
    LET m == Head(results[s])
    IN /\ results[s] # <<>>
       /\ s \in ready
       /\ results' = [results EXCEPT ![s] = Tail(@)]
       /\ tracked' = Untrack(m.id)
       /\ writes' = writes \cup {[id |-> m.id, by |-> "result",
                                  status |-> IF m.ok THEN "completed" ELSE "failed"]}
       /\ UNCHANGED <<regVars, req, queueVars, remote, drainVars, inbox, fate, failures>>

\* No listener yet.
IgnoreResult(s) ==
    /\ results[s] # <<>>
    /\ s \notin ready
    /\ results' = [results EXCEPT ![s] = Tail(@)]
    /\ UNCHANGED <<regVars, req, queueVars, remote, tracked, writes, drainVars, inbox, fate, failures>>

\* checkCommandTimeouts: the guarded update is awaited, then the entry deleted.
Timeout(r) ==
    /\ IsTracked(r)
    /\ Fail(r, "timeout") \notin writes
    /\ writes' = writes \cup {Fail(r, "timeout")}
    /\ UNCHANGED <<regVars, req, queueVars, remote, tracked, drainVars, netVars, fate, failures>>

\* ... and, at its end, the oldest entries of a map that is too large go.
EvictOldest ==
    /\ Len(tracked) > MaxTracked
    /\ tracked' = Tail(tracked)
    /\ writes' = writes \cup {Fail(Head(tracked), "eviction")}
    /\ UNCHANGED <<regVars, req, queueVars, remote, drainVars, netVars, fate, failures>>

\* Mutant: the updates to 'failed' do not test the status.
AppliesUnguarded(w) == TRUE

\* The result is written in any case, the failures of the server's own making
\* only WHERE status IN ('pending', 'executing').
Applies(w) == w.by = "result" \/ remote[w.id] \in {"pending", "executing"}

\* Mutant: a timed-out entry stays in the map.
AfterWriteKeepsEntry(w) == tracked' = tracked

AfterWrite(w) == tracked' = IF w.by = "timeout" THEN Untrack(w.id) ELSE tracked

CommitWrite(w) ==
    /\ w \in writes
    /\ writes' = writes \ {w}
    /\ remote' = IF Applies(w) THEN [remote EXCEPT ![w.id] = w.status] ELSE remote
    /\ AfterWrite(w)
    /\ UNCHANGED <<regVars, req, queueVars, drainVars, netVars, fate, failures>>

\* The query fails: it is only logged.
LoseWrite(w) ==
    /\ w \in writes
    /\ failures < MaxFailures
    /\ failures' = failures + 1
    /\ writes' = writes \ {w}
    /\ AfterWrite(w)
    /\ UNCHANGED <<regVars, req, queueVars, remote, drainVars, netVars, fate>>

\* The process restarts: maps, runs and requests in progress are lost.
ServerRestart ==
    /\ failures < MaxFailures
    /\ failures' = failures + 1
    /\ Restart
    /\ req' = [c \in Command |->
                 IF req[c] \in {"insert", "marking", "failing", "queue"} THEN "error" ELSE req[c]]
    /\ tracked' = <<>>
    /\ writes' = {}
    /\ drain' = [d \in Drain |-> "idle"]
    /\ todo' = [d \in Drain |-> {}]
    /\ current' = [d \in Drain |-> NoId]
    /\ inbox' = [s \in Socket |-> <<>>]
    /\ results' = [s \in Socket |-> <<>>]
    /\ UNCHANGED <<queueVars, remote, fate>>

RequestNext(c) ==
    \/ SendOrQueue(c) \/ InsertAndSend(c) \/ MarkExecuting(c)
    \/ MarkZombieFailed(c) \/ QueueCommand(c) \/ RequestFails(c)

DrainNext(d) ==
    \/ DrainSelect(d) \/ DrainNextRow(d) \/ DrainEnds(d) \/ DrainAttempt(d)
    \/ DrainInsertAndSend(d) \/ DrainMark(d) \/ DrainDelete(d) \/ DrainQueryFails(d)

Next ==
    \/ \E s \in Socket : Connect(s) \/ Disconnect(s)
    \/ EvictZombie
    \/ \E c \in Command : RequestNext(c)
    \/ \E C \in SUBSET queued \ {{}} : Withdraw(C)
    \/ \E d \in Drain : DrainNext(d)
    \/ \E s \in Socket : ReceiveCommand(s) \/ HandleCommandResult(s) \/ IgnoreResult(s)
    \/ \E r \in Id, ok \in BOOLEAN : FinishCommand(r, ok)
    \/ \E r \in ToSet(tracked) : Timeout(r)
    \/ EvictOldest
    \/ \E w \in writes : CommitWrite(w) \/ LoseWrite(w)
    \/ AgentRestart \/ ServerRestart

Spec == Init /\ [][Next]_vars

\* Queries are answered, the drain task and the timeout sweep are periodic.
Fairness ==
    /\ \A d \in Drain : WF_vars(DrainNext(d))
    /\ WF_vars(\E r \in ToSet(tracked) : Timeout(r))
    /\ WF_vars(\E w \in writes : CommitWrite(w))

FairSpec == Spec /\ Fairness

-----------------------------------------------------------------------------
(* Properties *)

Sent(c) == \E r \in Id : r[1] = c /\ fate[r] # "unsent"

\* A row is attempted at most once more by each of the runs that had read it
\* below the limit: two runs do not multiply the sends of one command without
\* bound, whatever fails in between.
AttemptsBounded == \A c \in Command : attempts[c] <= AttemptLimit

\* A queued command leaves the queue by being withdrawn, or after it was
\* emitted at least once; no failed query, refused send, disconnect or restart
\* in the middle of a run drops it.
RowLeavesAfterSend ==
    [][\A c \in queued \ queued' : Sent(c) \/ \E C \in SUBSET queued : Withdraw(C)]_vars

\* The agent executes a row once at most, and its end is final: the same row is
\* not sent again by another run, after a reconnection, or after a failure
\* between its send and its deletion from the queue.  handleCommand remembers no
\* id and would start it again.
ExecutedOnce ==
    [][\A r \in Id :
          /\ fate[r] = "received" => fate'[r] \notin {"unsent", "emitted"}
          /\ fate[r] \in {"ok", "error", "aborted"} => fate'[r] = fate[r]]_vars

\* A real-time command is sent while its caller waits or not at all: once the
\* caller is told that it was refused, no queue and no later connection of the
\* site executes it behind his back.
RealtimeSentAtOnce ==
    \A c \in Realtime : Sent(c) => req[c] \in {"marking", "sent", "error"}

\* The sender of the row has emitted it, and its update to 'executing' is still
\* to come.
Unmarked(r) ==
    \/ \E c \in Command : r = <<c, 0>> /\ req[c] = "marking"
    \/ \E d \in Drain : drain[d] = "marking" /\ current[d] = r

\* A success reported by the agent stays, whatever timeout, disconnect, eviction
\* or request was racing with it.  The one update that can undo it is its
\* sender's own to 'executing', which has no condition and may commit after the
\* result; the row is then open again, and may end as failed.
SuccessStaysCompleted ==
    [][\A r \in Id : remote[r] = "completed" /\ ~Unmarked(r) => remote'[r] = "completed"]_vars

\* A tracked command is watched: every entry of the map ends by a result, a
\* disconnect, an eviction or the timeout, and none leaks.
TrackingEnds == \A r \in Id : IsTracked(r) ~> ~IsTracked(r)

\* While the site stays connected, a queued command leaves the queue or has
\* used up its attempts, even if the requests, runs and results overlap.
QueueDrained ==
    \A c \in Command :
        <>[](registered \in alive)
            => (c \in queued ~> (c \notin queued \/ attempts[c] >= MaxAttempts))
=============================================================================
