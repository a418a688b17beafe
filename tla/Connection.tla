----------------------------- MODULE Connection -----------------------------
(***************************************************************************)
(* The life of a Pi agent's connection in the central server               *)
(* (socket.service.ts, health-monitor.handler.ts, heartbeat.handler.ts):   *)
(* authentication in two awaited queries, the connectedSites and           *)
(* lastPongReceived maps, the disconnect handler with its stale-socket     *)
(* guard, the zombie sweep every 15 s, the reconciliation of the database  *)
(* with the map every 60 s, and restarts of the process.                   *)
(*                                                                         *)
(* The code between two awaits is one action.  Queries run on a pool of    *)
(* connections, so the writes in flight commit in any order; a             *)
(* fire-and-forget write may be lost.  Times are abstracted to the ages    *)
(* the code compares: 45 s and 60 s for a pong, 90 s for last_seen_at.     *)
(***************************************************************************)
EXTENDS Naturals

CONSTANTS
    Socket,       \* socket identities; one is reused once nothing refers to it
    NoSocket,
    MaxRestarts   \* bound: restarts of the server process

ASSUME ConnectionAssumption ==
    /\ NoSocket \notin Socket
    /\ MaxRestarts \in Nat

VARIABLES
    link,            \* "open", "gone" (peer vanished unnoticed) or "closed"
    auth,            \* progress of authenticateAgent for each socket
    connectedSites,  \* the site's entry in the map, or NoSocket
    lastPong,        \* age of the site's lastPongReceived entry, or "none"
    pinged,          \* sockets holding an unanswered ping_check
    dbStatus,        \* sites.status
    lastSeen,        \* sites.last_seen_at: "recent", or "stale" (over 90 s)
    dbWrites,        \* status updates issued and not yet committed
    syncSelected,    \* syncDbWithWebSocketState holds a row of this site
    restarts

mapVars == <<connectedSites, lastPong>>
dbVars == <<dbStatus, lastSeen>>
vars == <<link, auth, connectedSites, lastPong, pinged, dbStatus, lastSeen,
          dbWrites, syncSelected, restarts>>

Pong == {"none", "fresh", "over45", "over60"}
Issuer == {"auth", "heartbeat", "disconnect", "zombie", "sync"}
Write == [status : {"online", "offline"}, by : Issuer, socket : Socket \cup {NoSocket}]

TypeOK ==
    /\ link \in [Socket -> {"open", "gone", "closed"}]
    /\ auth \in [Socket -> {"none", "selecting", "updating", "updated", "done", "rejected"}]
    /\ connectedSites \in Socket \cup {NoSocket}
    /\ lastPong \in Pong
    /\ pinged \subseteq Socket
    /\ dbStatus \in {"online", "offline"}
    /\ lastSeen \in {"recent", "stale"}
    /\ dbWrites \subseteq Write
    /\ syncSelected \in BOOLEAN
    /\ restarts \in 0..MaxRestarts

Init ==
    /\ link = [s \in Socket |-> "closed"]
    /\ auth = [s \in Socket |-> "none"]
    /\ connectedSites = NoSocket
    /\ lastPong = "none"
    /\ pinged = {}
    /\ dbStatus = "offline"
    /\ lastSeen = "stale"
    /\ dbWrites = {}
    /\ syncSelected = FALSE
    /\ restarts = 0

-----------------------------------------------------------------------------
\* The socket has (socket as any).siteId, set just before the map entry.
HasSiteId(s) == auth[s] \in {"updating", "updated", "done"}

\* Nothing in the server refers to the closed socket any more.
Unused(s) ==
    /\ link[s] = "closed"
    /\ auth[s] \in {"none", "rejected", "done"}
    /\ connectedSites # s
    /\ \A w \in dbWrites : w.socket # s

\* Mutant: a status the rest of the code does not know.
OfflineMisspelt(s, by) == [status |-> "disconnected", by |-> by, socket |-> s]

Offline(s, by) == [status |-> "offline", by |-> by, socket |-> s]
Online(s, by) == [status |-> "online", by |-> by, socket |-> s]

\* What handleDisconnection leaves in the maps and in the writes, for a socket
\* that has a siteId: a newer socket keeps the entry.
StaleDisconnect(s) == connectedSites \notin {NoSocket, s}

\* Mutant: the socket.id guard is missing.
DisconnectMapUnguarded(s) == NoSocket

DisconnectMap(s) == IF StaleDisconnect(s) THEN connectedSites ELSE NoSocket
DisconnectWrites(s) == IF StaleDisconnect(s) THEN {} ELSE {Offline(s, "disconnect")}

\* handleDisconnection; the disconnect event is emitted synchronously.
HandleDisconnection(s) ==
    IF HasSiteId(s)
    THEN /\ connectedSites' = DisconnectMap(s)
         /\ lastPong' = "none"
         /\ dbWrites' = dbWrites \cup DisconnectWrites(s)
    ELSE UNCHANGED <<mapVars, dbWrites>>

CloseSocket(s) ==
    /\ link' = [link EXCEPT ![s] = "closed"]
    /\ pinged' = pinged \ {s}

\* Mutant: the clean-up leaves the map to the disconnect handler.
DropByDisconnectOnly(s) ==
    /\ CloseSocket(s)
    /\ IF link[s] # "closed" THEN HandleDisconnection(s) ELSE UNCHANGED <<mapVars, dbWrites>>

\* Forced clean-up of the registered socket s: socket.disconnect(true), which
\* is void on a socket already closed, then both entries and the status.
DropRegistered(s) ==
    /\ CloseSocket(s)
    /\ connectedSites' = NoSocket
    /\ lastPong' = "none"
    /\ dbWrites' = dbWrites \cup {Offline(s, "zombie")}
         \cup (IF link[s] # "closed" /\ HasSiteId(s) THEN {Offline(s, "disconnect")} ELSE {})

-----------------------------------------------------------------------------
\* The agent opens a connection: it has one client, so any earlier connection
\* is already lost on its side.
Accept(s) ==
    /\ Unused(s)
    /\ \A t \in Socket : link[t] # "open"
    /\ link' = [link EXCEPT ![s] = "open"]
    /\ auth' = [auth EXCEPT ![s] = "none"]
    /\ UNCHANGED <<mapVars, pinged, dbVars, dbWrites, syncSelected, restarts>>

\* The agent's 'authenticate' arrives: the first query is sent.
Authenticate(s) ==
    /\ link[s] = "open"
    /\ auth[s] = "none"
    /\ auth' = [auth EXCEPT ![s] = "selecting"]
    /\ UNCHANGED <<link, mapVars, pinged, dbVars, dbWrites, syncSelected, restarts>>

\* Circuit breaker open (retry_later), or no 'authenticate' within 30 s: the
\* socket is disconnected before it has a siteId.
RefuseUnauthenticated(s) ==
    /\ link[s] \in {"open", "gone"}
    /\ auth[s] = "none"
    /\ auth' = [auth EXCEPT ![s] = "rejected"]
    /\ CloseSocket(s)
    /\ UNCHANGED <<mapVars, dbVars, dbWrites, syncSelected, restarts>>

\* The SELECT returns a site with a valid key: the socket is stored in the map
\* and the status update is issued.  The socket may have closed meanwhile.
RegisterSocket(s) ==
    /\ auth[s] = "selecting"
    /\ auth' = [auth EXCEPT ![s] = "updating"]
    /\ connectedSites' = s
    /\ dbWrites' = dbWrites \cup {Online(s, "auth")}
    /\ UNCHANGED <<link, lastPong, pinged, dbVars, syncSelected, restarts>>

\* Mutant: auth_error without the disconnect.
RejectWithoutDisconnect(s) ==
    /\ auth[s] = "selecting"
    /\ auth' = [auth EXCEPT ![s] = "rejected"]
    /\ UNCHANGED <<link, mapVars, pinged, dbVars, dbWrites, syncSelected, restarts>>

\* Unknown site, wrong key or failed SELECT: auth_error and disconnect, with no
\* siteId on the socket.
RejectCredentials(s) ==
    /\ auth[s] = "selecting"
    /\ auth' = [auth EXCEPT ![s] = "rejected"]
    /\ CloseSocket(s)
    /\ UNCHANGED <<mapVars, dbVars, dbWrites, syncSelected, restarts>>

\* The awaited status update fails: auth_error and disconnect of a socket that
\* is already in the map.
StatusUpdateFails(s) ==
    /\ auth[s] = "updating"
    /\ Online(s, "auth") \in dbWrites
    /\ auth' = [auth EXCEPT ![s] = "rejected"]
    /\ CloseSocket(s)
    /\ IF link[s] = "closed"
       THEN /\ dbWrites' = dbWrites \ {Online(s, "auth")}
            /\ UNCHANGED mapVars
       ELSE /\ connectedSites' = DisconnectMap(s)
            /\ lastPong' = "none"
            /\ dbWrites' = (dbWrites \ {Online(s, "auth")}) \cup DisconnectWrites(s)
    /\ UNCHANGED <<dbVars, syncSelected, restarts>>

\* The rest of authenticateAgent: 'authenticated' is emitted, the handlers are
\* attached and the pong timestamp is set.  Nothing is checked again.
FinishAuthentication(s) ==
    /\ auth[s] = "updated"
    /\ auth' = [auth EXCEPT ![s] = "done"]
    /\ lastPong' = "fresh"
    /\ UNCHANGED <<link, connectedSites, pinged, dbVars, dbWrites, syncSelected, restarts>>

\* The peer disappears without closing: the server notices later.
PeerVanishes(s) ==
    /\ link[s] = "open"
    /\ link' = [link EXCEPT ![s] = "gone"]
    /\ UNCHANGED <<auth, mapVars, pinged, dbVars, dbWrites, syncSelected, restarts>>

\* The transport closes, or the engine's ping times out.
TransportCloses(s) ==
    /\ link[s] \in {"open", "gone"}
    /\ CloseSocket(s)
    /\ HandleDisconnection(s)
    /\ UNCHANGED <<auth, dbVars, syncSelected, restarts>>

-----------------------------------------------------------------------------
\* pong_check: refreshes the site's entry, whichever socket it comes from.
PongCheck(s) ==
    /\ link[s] = "open"
    /\ auth[s] = "done"
    /\ s \in pinged
    /\ pinged' = pinged \ {s}
    /\ lastPong' = "fresh"
    /\ UNCHANGED <<link, auth, connectedSites, dbVars, dbWrites, syncSelected, restarts>>

\* heartbeat: handleHeartbeat refreshes the site's entry too, whichever socket
\* the heartbeat comes from, and issues the status update.
Heartbeat(s) ==
    /\ link[s] = "open"
    /\ auth[s] = "done"
    /\ lastPong' = "fresh"
    /\ dbWrites' = dbWrites \cup {Online(s, "heartbeat")}
    /\ UNCHANGED <<link, auth, connectedSites, pinged, dbVars, syncSelected, restarts>>

\* checkConnectionHealth, every 15 s, meets the site's entry.
CheckConnectionHealth(s) ==
    /\ connectedSites = s
    /\ \/ /\ lastPong = "none"
          /\ lastPong' = "fresh"
          /\ UNCHANGED <<link, connectedSites, pinged, dbWrites>>
       \/ /\ lastPong \in {"over45", "over60"}
          /\ DropRegistered(s)
       \/ /\ lastPong = "fresh"
          /\ link[s] = "open"
          /\ pinged' = pinged \cup {s}
          /\ UNCHANGED <<link, mapVars, dbWrites>>
    /\ UNCHANGED <<auth, dbVars, syncSelected, restarts>>

\* sendCommand meets a socket that is closed or whose pong is over 60 s old.
CleanupZombieConnection(s) ==
    /\ connectedSites = s
    /\ link[s] = "closed" \/ lastPong = "over60"
    /\ DropRegistered(s)
    /\ UNCHANGED <<auth, dbVars, syncSelected, restarts>>

\* syncDbWithWebSocketState, every 60 s: the SELECT of stale online sites ...
SyncSelect ==
    /\ ~syncSelected
    /\ dbStatus = "online"
    /\ lastSeen = "stale"
    /\ syncSelected' = TRUE
    /\ UNCHANGED <<link, auth, mapVars, pinged, dbVars, dbWrites, restarts>>

\* Mutants: the test of the map is inverted, or missing.
SyncWritesInverted == IF connectedSites # NoSocket THEN {Offline(NoSocket, "sync")} ELSE {}
SyncWritesUntested == {Offline(NoSocket, "sync")}

SyncWrites == IF connectedSites = NoSocket THEN {Offline(NoSocket, "sync")} ELSE {}

\* ... then, for a row of it, the test of the map and the update.
SyncApply ==
    /\ syncSelected
    /\ syncSelected' = FALSE
    /\ dbWrites' = dbWrites \cup SyncWrites
    /\ UNCHANGED <<link, auth, mapVars, pinged, dbVars, restarts>>

-----------------------------------------------------------------------------
\* A status update commits; all of them but the reconciliation set last_seen_at.
CommitWrite(w) ==
    /\ w \in dbWrites
    /\ dbWrites' = dbWrites \ {w}
    /\ dbStatus' = w.status
    /\ lastSeen' = IF w.by = "sync" THEN lastSeen ELSE "recent"
    /\ auth' = IF w.by = "auth" /\ auth[w.socket] = "updating"
               THEN [auth EXCEPT ![w.socket] = "updated"] ELSE auth
    /\ UNCHANGED <<link, mapVars, pinged, syncSelected, restarts>>

\* A write whose failure is only logged is lost.
LoseWrite(w) ==
    /\ w \in dbWrites
    /\ w.by # "auth"
    /\ dbWrites' = dbWrites \ {w}
    /\ UNCHANGED <<link, auth, mapVars, pinged, dbVars, syncSelected, restarts>>

\* Time passes for the last pong: beyond 45 s, then beyond 60 s.
PongAges ==
    /\ lastPong \in {"fresh", "over45"}
    /\ lastPong' = IF lastPong = "fresh" THEN "over45" ELSE "over60"
    /\ UNCHANGED <<link, auth, connectedSites, pinged, dbVars, dbWrites, syncSelected, restarts>>

\* 90 s pass since last_seen_at was set.
LastSeenAges ==
    /\ lastSeen' = "stale"
    /\ UNCHANGED <<link, auth, mapVars, pinged, dbStatus, dbWrites, syncSelected, restarts>>

\* The process stops (cleanup, or a crash) and starts again with empty maps.
ServerRestart ==
    /\ restarts < MaxRestarts
    /\ restarts' = restarts + 1
    /\ link' = [s \in Socket |-> "closed"]
    /\ auth' = [s \in Socket |-> "none"]
    /\ connectedSites' = NoSocket
    /\ lastPong' = "none"
    /\ pinged' = {}
    /\ dbWrites' = {}
    /\ syncSelected' = FALSE
    /\ UNCHANGED dbVars

SocketNext(s) ==
    \/ Accept(s) \/ Authenticate(s) \/ RefuseUnauthenticated(s)
    \/ RegisterSocket(s) \/ RejectCredentials(s) \/ StatusUpdateFails(s)
    \/ FinishAuthentication(s) \/ PeerVanishes(s) \/ TransportCloses(s)
    \/ PongCheck(s) \/ Heartbeat(s)
    \/ CheckConnectionHealth(s) \/ CleanupZombieConnection(s)

Next ==
    \/ \E s \in Socket : SocketNext(s)
    \/ SyncSelect \/ SyncApply
    \/ \E w \in dbWrites : CommitWrite(w) \/ LoseWrite(w)
    \/ PongAges \/ LastSeenAges
    \/ ServerRestart

Spec == Init /\ [][Next]_vars

CommitStatus(st) == \E w \in dbWrites : w.status = st /\ CommitWrite(w)

\* Timers fire, clocks advance, a vanished peer is noticed by the engine's ping,
\* a connected agent heartbeats.  A fire-and-forget write may be lost any number
\* of times, but updates issued for ever are not all lost.
Fairness ==
    /\ \A s \in Socket :
         /\ WF_vars(link[s] = "gone" /\ TransportCloses(s))
         /\ WF_vars(Heartbeat(s))
         /\ WF_vars(CheckConnectionHealth(s))
    /\ WF_vars(PongAges)
    /\ WF_vars(LastSeenAges)
    /\ WF_vars(SyncSelect)
    /\ WF_vars(SyncApply)
    /\ SF_vars(CommitStatus("online"))
    /\ SF_vars(CommitStatus("offline"))

FairSpec == Spec /\ Fairness

-----------------------------------------------------------------------------
(* Properties *)

Registry == INSTANCE SessionRegistry WITH
    registered <- connectedSites,
    alive <- {s \in Socket : link[s] # "closed"},
    identified <- {s \in Socket : link[s] # "closed" /\ HasSiteId(s)},
    ready <- {s \in Socket : link[s] # "closed" /\ auth[s] = "done"}

\* The connection layer implements the registry the command layer relies on:
\* in particular an entry of connectedSites only goes away with the closing of
\* the socket it names, or once that socket is closed (socket.id guard).
ImplementsRegistry == Registry!RegistrySpec

\* Only a socket whose credentials the server has verified is ever in the map,
\* and a socket it refused is closed, although both are decided in callbacks
\* of queries that end after the socket may have gone.
OnlyVerifiedSockets ==
    \A s \in Socket :
        /\ connectedSites = s => auth[s] \notin {"none", "selecting"}
        /\ auth[s] = "rejected" => link[s] = "closed"

\* A dead entry stays for ever only while another socket of the site is served
\* again and again: an entry whose socket closed during authentication is not
\* seen by the disconnect handler, and the health check removes it once its
\* pong is too old, unless the heartbeats of that other socket keep it fresh.
ZombieEntryEvicted ==
    \A s \in Socket :
        <>[](connectedSites = s /\ link[s] = "closed")
            => []<>(\E t \in Socket : link[t] = "open" /\ auth[t] = "done")

\* A site that stays without connection ends as offline in the database,
\* whatever writes were lost, reordered, or cut off by a restart.
DbEventuallyOffline ==
    <>[](connectedSites = NoSocket /\ \A s \in Socket : link[s] = "closed")
        => <>[](dbStatus = "offline")

\* A site that stays connected and registered ends as online in the database,
\* although late offline writes of older sockets may still commit.
DbEventuallyOnline ==
    \A s \in Socket :
        <>[](connectedSites = s /\ link[s] = "open" /\ auth[s] = "done")
            => <>[](dbStatus = "online")
=============================================================================
